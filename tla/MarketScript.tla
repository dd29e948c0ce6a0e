----------------------------- MODULE MarketScript ------------------------------
(***************************************************************************)
(* finishLifecycle of src/deploy/002_open_test_market.ts: the script that    *)
(* takes a recorded market through finalize, settle and claim, each a write  *)
(* that waits for FINALIZED, and records what it did in deployments.json.    *)
(* It reads the round in its latest state, it may die at any point, and the  *)
(* operator then runs it again with --finish.  Other participants call the   *)
(* same round through either SDK, in either mode; they may challenge its     *)
(* verdict, and the script has no branch for a challenged round.            *)
(***************************************************************************)
EXTENDS SdkWrite

CONSTANTS
    Operator,           \* the account that runs the script
    MaxAttempts,        \* 8 in the code
    Modes               \* per call: the modes in which the others send it (TRUE waits for FINALIZED)

ASSUME ScriptAssumption ==
    /\ Operator \in Account
    /\ MaxAttempts \in Nat \ {0}
    /\ Modes \in [Op -> SUBSET BOOLEAN]

VARIABLES
    script,             \* where it is, whether that call is out, the attempt at finalize
    record              \* what deployments.json says of the market

vars == <<writeVars, script, record>>

Reading == {"start", "after_finalize", "after_settle", "after_claim"}

Writing == {"finalize", "settle", "claim"}

Running == script.pc \in Reading \cup Writing

-----------------------------------------------------------------------------

\* Mutant: only what settled is claimed.
ClaimsSettledOnly(stage, status) ==
    CASE stage = "start" /\ status = "decided_pending" -> "finalize"
      [] stage \in {"start", "after_finalize"} /\ status = "finalized" -> "settle"
      [] stage # "after_claim" /\ status = "settled" -> "claim"
      [] OTHER -> "save"

\* What the status read at a stage leads to.  An open or a challenged round is
\* recorded as it is.
NextStep(stage, status) ==
    CASE stage = "start" /\ status = "decided_pending" -> "finalize"
      [] stage \in {"start", "after_finalize"} /\ status = "finalized" -> "settle"
      [] stage # "after_claim" /\ status \in {"settled"} \cup RefundStatus -> "claim"
      [] OTHER -> "save"

Start ==
    /\ script.pc \in {"off", "died"}
    /\ script' = [pc |-> "start", sent |-> FALSE, attempt |-> 1]
    /\ UNCHANGED <<writeVars, record>>

\* getRoundInfo; when nothing is left to do, saveRecord with that status.
Read ==
    LET next == NextStep(script.pc, engine.status) IN
    /\ script.pc \in Reading
    /\ script' = [script EXCEPT !.pc = IF next = "save" THEN "done" ELSE next]
    /\ record' = IF next # "save" THEN record
                 ELSE [record EXCEPT !.status = engine.status,
                                     !.claimTx = @ \/ script.pc = "after_claim"]
    /\ UNCHANGED writeVars

Write ==
    /\ script.pc \in Writing
    /\ ~script.sent
    /\ Send(Operator, script.pc, TRUE) \/ Unsent(Operator, script.pc)
    /\ script' = [script EXCEPT !.sent = TRUE]
    /\ UNCHANGED record

\* Mutant: the hash is recorded when the receipt fails to come.
ReturnedOrLate == call[Operator].step \in {"returned", "gave_up"}

WriteReturned == call[Operator].step = "returned"

Proceed ==
    /\ script.pc \in Writing
    /\ script.sent
    /\ WriteReturned
    /\ script' = [script EXCEPT !.sent = FALSE, !.attempt = 1,
                     !.pc = CASE script.pc = "finalize" -> "after_finalize"
                              [] script.pc = "settle" -> "after_settle"
                              [] script.pc = "claim" -> "after_claim"]
    /\ record' = [record EXCEPT !.finalizeTx = @ \/ script.pc = "finalize"]
    /\ UNCHANGED writeVars

\* Mutant: the loop has no last attempt.
TriesForever == script.pc = "finalize"

TriesAgain == script.pc = "finalize" /\ script.attempt < MaxAttempts

\* An exception: caught around finalize, until the last attempt.
Throw ==
    /\ script.pc \in Writing
    /\ script.sent
    /\ ~WriteReturned
    /\ ~Waiting(Operator)
    /\ script' = IF TriesAgain
                 THEN [script EXCEPT !.sent = FALSE,
                                     !.attempt = IF @ < MaxAttempts THEN @ + 1 ELSE @]
                 ELSE [script EXCEPT !.pc = "died", !.sent = FALSE, !.attempt = 1]
    /\ UNCHANGED <<writeVars, record>>

\* The process ends, or a read fails.  Its transaction goes on without it.
Crash ==
    /\ Running
    /\ script' = [script EXCEPT !.pc = "died", !.sent = FALSE, !.attempt = 1]
    /\ call' = [call EXCEPT ![Operator].step = IF Waiting(Operator) THEN "gave_up" ELSE @]
    /\ Fault
    /\ UNCHANGED <<chainVars, record>>

-----------------------------------------------------------------------------

Others ==
    \E u \in Account \ {Operator} :
        \/ \E op \in Op : \E requireFinalized \in Modes[op] : Send(u, op, requireFinalized)
        \/ Receive(u)

\* main has recorded the status it read after the adjudication.  (If it died
\* before that the record still says "open", which nothing reads.)
Init ==
    /\ WriteInit
    /\ script = [pc |-> "off", sent |-> FALSE, attempt |-> 1]
    /\ record = [finalizeTx |-> FALSE, claimTx |-> FALSE, status |-> engine.status]

Next ==
    \/ (ChainNext \/ Others \/ Receive(Operator) \/ GiveUp(Operator)) /\ UNCHANGED <<script, record>>
    \/ Start
    \/ Read
    \/ Write
    \/ Proceed
    \/ Throw
    \/ Crash

Spec == Init /\ [][Next]_vars

\* The chain makes progress with what the operator sent, the clock with the window
\* and the challenge; the operator's process goes on, and is run again after it
\* died.  Nobody has to answer a challenge, or to finalize when it has expired.
Fairness ==
    /\ WF_vars((WindowEnds \/ ChallengeExpires) /\ UNCHANGED <<script, record>>)
    /\ \A t \in Places[Operator] : WF_vars(Accept(t) /\ UNCHANGED <<script, record>>)
    /\ WF_vars(Finalize /\ UNCHANGED <<script, record>>)
    /\ WF_vars(\/ Receive(Operator) /\ UNCHANGED <<script, record>>
               \/ Start \/ Read \/ Write \/ Proceed \/ Throw)

FairSpec == Spec /\ Fairness

-----------------------------------------------------------------------------
(* Properties                                                              *)

\* What a call that took effect has left behind, however the round went on.
Done(op, u, s) ==
    CASE op \in {"finalize", "resolve_challenge"} -> s.status \in {"finalized", "settled"}
      [] op = "challenge" -> s.status \in {"challenged", "finalized", "settled"}
      [] op = "settle" -> s.status = "settled"
      [] op = "claim" -> s.paid[u] > 0

\* A write that returned in the default mode has taken effect for good: no appeal
\* of any transaction undoes what the caller goes on to rely on.
ReturnedStands ==
    \A u \in Account :
        call[u].step = "returned" /\ call[u].requireFinalized => Done(call[u].op, u, Final)

\* A write that threw on its outcome in the default mode has taken no effect and
\* will take none, so that trying it again cannot do it twice.  (One that threw
\* because no receipt came may still take effect.)
ThrownLeftNothing ==
    \A u \in Account :
        call[u].step = "threw" /\ call[u].requireFinalized /\ call[u].slot # 0 =>
            /\ tx[call[u].slot].status \in Settled
            /\ tx[call[u].slot].result # "FINISHED_WITH_RETURN"

\* What the script recorded of the market stays true, whatever crashed or was
\* appealed, and no one is paid twice however often the script is run.  (The
\* record of a round that is open, decided or challenged holds until it moves on,
\* or an appeal takes it back.)
RecordTrue ==
    /\ record.finalizeTx => Done("finalize", Operator, Final)
    /\ record.claimTx => Final.paid[Operator] = 1
    /\ record.status \notin {"open", "decided_pending", "challenged"} =>
           record.status = Final.status
    /\ \A u \in Account : engine.paid[u] <= 1

\* Every run of the script comes to an end.
EveryRunEnds == Running ~> ~Running

\* Run again after it died, the script gets the operator paid for good, from
\* whatever status others have brought the round to; but it leaves a round that
\* has not been adjudicated, and one it reads while it is challenged: that run
\* records "challenged" and ends as if it were done.
PaidOrLeftChallenged ==
    <>(\/ Final.paid[Operator] = 1
       \/ Final.status = "open"
       \/ script.pc = "done" /\ record.status = "challenged")

=============================================================================
