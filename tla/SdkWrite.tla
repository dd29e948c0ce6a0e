------------------------------- MODULE SdkWrite --------------------------------
(***************************************************************************)
(* A write through an SDK (writeAndWait in src/sdk/typescript/src/client.ts *)
(* with finality.ts, _write in src/sdk/python/monocle_sdk/client.py): send   *)
(* a transaction, wait until it is decided or finalized, and return or throw *)
(* on its outcome; and the life of a transaction as those files describe it: *)
(* it is ACCEPTED with a result, may still be appealed, and then executes    *)
(* again together with everything accepted after it, until it is FINALIZED.  *)
(*                                                                         *)
(* The contract is one round of an engine, with the calls that take it from  *)
(* a verdict to its end (module RoundCalls); module Monocle is the engine.   *)
(* The adjudication that decides the round lies before.                     *)
(***************************************************************************)
EXTENDS Integers, Sequences, FiniteSets, RoundCalls

CONSTANTS
    Account,            \* participants of the round; they call through an SDK
    Starting,           \* statuses the round may have at first
    FailedTerminal,     \* FAILED_TERMINAL_STATUSES
    Places,             \* per account: as many places for transactions in flight
    MaxFaults           \* bound of appeals, failures, timeouts and crashes

ASSUME WriteAssumption ==
    /\ Starting \subseteq
           {"open", "decided_pending", "challenged", "inconclusive", "unchanged", "cancelled"}
    /\ FailedTerminal \subseteq {"UNDETERMINED", "CANCELED", "LEADER_TIMEOUT", "VALIDATORS_TIMEOUT"}
    /\ Places \in [Account -> SUBSET (Nat \ {0})]
    /\ \A u, v \in Account : u # v => Places[u] \cap Places[v] = {}
    /\ MaxFaults \in Nat

Slot == UNION {Places[u] : u \in Account}

VARIABLES
    engine,             \* the latest state of the round
    window_over,        \* by the clock of the chain: the verdict's challenge window,
    expired,            \* and the time to answer the challenge there is
    tx,                 \* per slot
    journal,            \* accepted and not final: slot, and the state before it
    call,               \* per account: its last write
    faults

chainVars == <<engine, window_over, expired, tx, journal>>

writeVars == <<chainVars, call, faults>>

NoTx == [by |-> "none", op |-> "none", status |-> "none", result |-> "none"]

NoCall == [step |-> "idle", op |-> "none", requireFinalized |-> TRUE, slot |-> 0]

Fault == faults < MaxFaults /\ faults' = faults + 1

\* A place is free again when its transaction has ended and nobody looks at it.
Ended(t, status, result) ==
    [tx EXCEPT ![t] = IF \E u \in Account : call[u].slot = t
                      THEN [@ EXCEPT !.status = status, !.result = result]
                      ELSE NoTx]

-----------------------------------------------------------------------------
(* The chain                                                               *)

\* The state nothing can undo any more.
Final == IF journal = <<>> THEN engine ELSE journal[1].before

WindowEnds ==
    /\ ~window_over
    /\ window_over' = TRUE
    /\ UNCHANGED <<engine, expired, tx, journal, call, faults>>

ChallengeExpires ==
    /\ engine.status = "challenged"
    /\ ~expired
    /\ expired' = TRUE
    /\ UNCHANGED <<engine, window_over, tx, journal, call, faults>>

\* A challenge is made now, whenever one that was undone had been made.
Accept(t) ==
    LET runs == Allowed(tx[t].op, tx[t].by, engine, window_over, expired) IN
    /\ tx[t].status = "PENDING"
    /\ engine' = IF runs THEN After(tx[t].op, tx[t].by, engine) ELSE engine
    /\ tx' = [tx EXCEPT ![t].status = "ACCEPTED",
                        ![t].result = IF runs THEN "FINISHED_WITH_RETURN"
                                      ELSE "FINISHED_WITH_ERROR"]
    /\ journal' = Append(journal, [slot |-> t, before |-> engine])
    /\ expired' = (expired /\ ~(runs /\ tx[t].op = "challenge"))
    /\ UNCHANGED <<window_over, call, faults>>

\* No agreement, or nobody to reach it: it ends without being executed.
Fail(t) ==
    /\ tx[t].status = "PENDING"
    /\ \E status \in FailedTerminal : tx' = Ended(t, status, "NOT_VOTED")
    /\ Fault
    /\ UNCHANGED <<engine, window_over, expired, journal, call>>

\* An appeal of the i-th: it and everything accepted after it wait again.
Appeal(i) ==
    LET undone == {journal[j].slot : j \in i..Len(journal)} IN
    /\ engine' = journal[i].before
    /\ tx' = [t \in Slot |->
                 IF t \in undone THEN [tx[t] EXCEPT !.status = "PENDING", !.result = "none"]
                 ELSE tx[t]]
    /\ journal' = SubSeq(journal, 1, i - 1)
    /\ Fault
    /\ UNCHANGED <<window_over, expired, call>>

Finalize ==
    /\ journal # <<>>
    /\ LET t == journal[1].slot IN tx' = Ended(t, "FINALIZED", tx[t].result)
    /\ journal' = Tail(journal)
    /\ UNCHANGED <<engine, window_over, expired, call, faults>>

-----------------------------------------------------------------------------
(* The SDK                                                                 *)

Settled == {"FINALIZED"} \cup FailedTerminal

Waiting(u) == call[u].step = "waiting"

\* The transaction of a caller's last write is forgotten with that write, if it
\* has ended.
Forgotten(u) ==
    [t \in Slot |-> IF t = call[u].slot /\ tx[t].status \in Settled THEN NoTx ELSE tx[t]]

\* Estimate the fees and send.  A caller has one write at a time.
Send(u, op, requireFinalized) ==
    LET free == {t \in Places[u] : Forgotten(u)[t] = NoTx}
        t == CHOOSE t \in free : TRUE
    IN  /\ ~Waiting(u)
        /\ free # {}
        /\ tx' = [Forgotten(u) EXCEPT
                     ![t] = [by |-> u, op |-> op, status |-> "PENDING", result |-> "none"]]
        /\ call' = [call EXCEPT ![u] =
                       [step |-> "waiting", op |-> op, requireFinalized |-> requireFinalized, slot |-> t]]
        /\ UNCHANGED <<engine, window_over, expired, journal, faults>>

\* The estimate or the sending itself throws: there is no transaction.
Unsent(u, op) ==
    /\ ~Waiting(u)
    /\ tx' = Forgotten(u)
    /\ call' = [call EXCEPT ![u] =
                   [step |-> "threw", op |-> op, requireFinalized |-> TRUE, slot |-> 0]]
    /\ Fault
    /\ UNCHANGED <<engine, window_over, expired, journal>>

\* Mutant: every write waits for a decision only.
ReachedWhenDecided(c) == tx[c.slot].status \in {"ACCEPTED"} \cup Settled

\* waitForTransactionReceipt, until "decided" or until "finalized"
Reached(c) ==
    tx[c.slot].status \in Settled \cup (IF c.requireFinalized THEN {} ELSE {"ACCEPTED"})

\* Mutant: consensus is success.
ConsensusSuffices(c) ==
    tx[c.slot].status \in {"FINALIZED"} \cup (IF c.requireFinalized THEN {} ELSE {"ACCEPTED"})

\* describe_transaction_outcome
Succeeded(c) ==
    /\ tx[c.slot].status \in {"FINALIZED"} \cup (IF c.requireFinalized THEN {} ELSE {"ACCEPTED"})
    /\ tx[c.slot].result = "FINISHED_WITH_RETURN"

\* The receipt is there: the write returns, or throws on its outcome.
Receive(u) ==
    /\ Waiting(u)
    /\ Reached(call[u])
    /\ call' = [call EXCEPT ![u].step = IF Succeeded(call[u]) THEN "returned" ELSE "threw"]
    /\ UNCHANGED <<chainVars, faults>>

\* The receipt does not come within the retries.  The write throws; what becomes
\* of its transaction is open.
GiveUp(u) ==
    /\ Waiting(u)
    /\ ~Reached(call[u])
    /\ call' = [call EXCEPT ![u].step = "gave_up"]
    /\ Fault
    /\ UNCHANGED chainVars

-----------------------------------------------------------------------------

WriteInit ==
    /\ \E status \in Starting :
           engine = [status |-> status, paid |-> [u \in Account |-> 0]]
    /\ window_over = FALSE
    /\ expired = FALSE
    /\ tx = [t \in Slot |-> NoTx]
    /\ journal = <<>>
    /\ call = [u \in Account |-> NoCall]
    /\ faults = 0

ChainNext ==
    \/ WindowEnds
    \/ ChallengeExpires
    \/ \E t \in Slot : Accept(t) \/ Fail(t)
    \/ \E i \in DOMAIN journal : Appeal(i)
    \/ Finalize

=============================================================================
