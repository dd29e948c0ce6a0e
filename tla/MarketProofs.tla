----------------------------- MODULE MarketProofs ------------------------------
(***************************************************************************)
(* Proofs about the writes of an SDK: what a write that returned, one that  *)
(* threw and the script's record say of the round is true of the state no   *)
(* appeal can undo, for any accounts, any number of transactions and faults. *)
(***************************************************************************)
EXTENDS MarketScript, TLAPS

Claimable == {"settled"} \cup RefundStatus

RoundState == [status : {"open", "decided_pending", "challenged", "finalized"} \cup Claimable,
               paid : [Account -> Nat]]

Transaction ==
    [by : Account \cup {"none"}, op : Op \cup {"none"},
     status : {"none", "PENDING", "ACCEPTED"} \cup Settled,
     result : {"none", "FINISHED_WITH_RETURN", "FINISHED_WITH_ERROR", "NOT_VOTED"}]

Entry == [slot : Slot, before : RoundState]

Call == [step : {"idle", "waiting", "returned", "threw", "gave_up"}, op : Op \cup {"none"},
         requireFinalized : BOOLEAN, slot : Slot \cup {0}]

Typed ==
    /\ engine \in RoundState
    /\ tx \in [Slot -> Transaction]
    /\ journal \in Seq(Entry)
    /\ call \in [Account -> Call]

\* The states from the final one to the latest: the i-th accepted transaction ran
\* in the i-th.
At(i) == IF i <= Len(journal) THEN journal[i].before ELSE engine

Positions == 1..Len(journal) + 1

\* A later state of the round.
Before(s, r) ==
    /\ \/ r.status = s.status
       \/ s.status = "decided_pending" /\ r.status \in {"challenged", "finalized", "settled"}
       \/ s.status = "challenged" /\ r.status \in {"finalized", "settled"}
       \/ s.status = "finalized" /\ r.status = "settled"
    /\ \A u \in Account : s.paid[u] <= r.paid[u]

Sane(s) == \A u \in Account : s.paid[u] <= 1 /\ (s.paid[u] > 0 => s.status \in Claimable)

States ==
    /\ \A i \in Positions : Sane(At(i))
    /\ \A i, j \in Positions : i <= j => Before(At(i), At(j))

Journal ==
    /\ \A i \in 1..Len(journal) : tx[journal[i].slot].status = "ACCEPTED"
    /\ \A i, j \in 1..Len(journal) : journal[i].slot = journal[j].slot => i = j

\* A transaction that may still run, or ran, is somebody's call.
Transactions ==
    \A t \in Slot :
        /\ tx[t].status # "none" => tx[t].by \in Account /\ tx[t].op \in Op
        /\ tx[t].status \in FailedTerminal => tx[t].result = "NOT_VOTED"
        /\ tx[t].status = "FINALIZED" /\ tx[t].result = "FINISHED_WITH_RETURN" =>
               Done(tx[t].op, tx[t].by, At(1))

Effects ==
    \A i \in 1..Len(journal) :
        tx[journal[i].slot].result = "FINISHED_WITH_RETURN" =>
            Done(tx[journal[i].slot].op, tx[journal[i].slot].by, At(i + 1))

Calls ==
    \A u \in Account :
        /\ call[u].slot \in Places[u] \cup {0}
        /\ call[u].step # "idle" => call[u].op \in Op
        /\ Waiting(u) =>
               /\ call[u].slot # 0
               /\ tx[call[u].slot].status # "none"
               /\ tx[call[u].slot].by = u
               /\ tx[call[u].slot].op = call[u].op

ChainInv == Typed /\ States /\ Journal /\ Transactions /\ Effects /\ Calls

ScriptState ==
    [pc : Reading \cup Writing \cup {"off", "done", "died"}, sent : BOOLEAN, attempt : Nat]

RecordState ==
    [finalizeTx : BOOLEAN, claimTx : BOOLEAN,
     status : {"open", "decided_pending", "challenged"} \cup Claimable]

\* What the script has got done when it is at a stage, and whose call it waits for.
Script ==
    /\ script \in ScriptState
    /\ record \in RecordState
    /\ script.sent => script.pc \in Writing /\ call[Operator].op = script.pc /\ call[Operator].requireFinalized
    /\ script.pc = "after_finalize" => Done("finalize", Operator, Final)
    /\ script.pc = "after_settle" => Done("settle", Operator, Final)
    /\ script.pc = "after_claim" => Done("claim", Operator, Final)

Promises == ReturnedStands /\ ThrownLeftNothing

IInv == ChainInv /\ Promises /\ Script /\ RecordTrue

-----------------------------------------------------------------------------
(* The round and its states                                                *)

\* The final state is the one before the oldest write that may be undone.
LEMMA FinalIsFirst ==
    ASSUME journal \in Seq(Entry)
    PROVE  Final = At(1)
  BY DEF Final, At

\* What is done stays done.
LEMMA DoneLater ==
    ASSUME NEW s, NEW r \in RoundState, NEW u \in Account, NEW op \in Op,
           s \in RoundState, Before(s, r), Done(op, u, s)
    PROVE  Done(op, u, r)
  <1>1. s.paid[u] \in Nat /\ r.paid[u] \in Nat /\ s.paid[u] <= r.paid[u]
    BY DEF RoundState, Before
  <1>2. CASE op = "claim"
    BY <1>1, <1>2 DEF Done
  <1>3. CASE op # "claim"
    BY <1>3 DEF Done, Before, Op
  <1> QED
    BY <1>2, <1>3

\* Later than later is later.
LEMMA BeforeTransitive ==
    ASSUME NEW s \in RoundState, NEW r \in RoundState, NEW q \in RoundState,
           Before(s, r), Before(r, q)
    PROVE  Before(s, q)
  BY DEF Before, RoundState, Claimable

\* No step is no change.
LEMMA BeforeItself ==
    ASSUME NEW s \in RoundState
    PROVE  Before(s, s)
  BY DEF Before, RoundState

\* What a call does to the round: it takes effect, and the round only moves on.
LEMMA AfterAllowed ==
    ASSUME NEW s \in RoundState, NEW u \in Account, NEW op \in Op,
           Sane(s), Allowed(op, u, s, window_over, expired)
    PROVE  /\ After(op, u, s) \in RoundState
           /\ Before(s, After(op, u, s))
           /\ Sane(After(op, u, s))
           /\ Done(op, u, After(op, u, s))
  <1>1. CASE op \in {"finalize", "resolve_challenge"}
    <2>1. /\ s.status \in {"decided_pending", "challenged"}
          /\ After(op, u, s) = [s EXCEPT !.status = "finalized"]
      BY <1>1 DEF Allowed, After
    <2>2. Before(s, After(op, u, s)) /\ After(op, u, s) \in RoundState
      BY <2>1 DEF Before, RoundState
    <2>3. Sane(After(op, u, s)) /\ Done(op, u, After(op, u, s))
      BY <1>1, <2>1 DEF Sane, Done, RoundState, Claimable, RefundStatus
    <2> QED
      BY <2>2, <2>3
  <1>4. CASE op = "challenge"
    <2>1. /\ s.status = "decided_pending"
          /\ After(op, u, s) = [s EXCEPT !.status = "challenged"]
      BY <1>4 DEF Allowed, After
    <2>2. Before(s, After(op, u, s)) /\ After(op, u, s) \in RoundState
      BY <2>1 DEF Before, RoundState
    <2>3. Sane(After(op, u, s)) /\ Done(op, u, After(op, u, s))
      BY <1>4, <2>1 DEF Sane, Done, RoundState, Claimable, RefundStatus
    <2> QED
      BY <2>2, <2>3
  <1>2. CASE op = "settle"
    BY <1>2 DEF Allowed, After, Before, Sane, Done, RoundState, Claimable, RefundStatus, Op
  <1>3. CASE op = "claim"
    BY <1>3 DEF Allowed, After, Before, Sane, Done, RoundState, Claimable, RefundStatus, Op
  <1> QED
    BY <1>1, <1>2, <1>3, <1>4 DEF Op

\* An entry of the journal is an entry.
LEMMA EntryTyped ==
    ASSUME Typed, NEW i \in 1..Len(journal)
    PROVE  journal[i] \in Entry
  BY DEF Typed

\* Every state the round may return to is a state of it.
LEMMA AtTyped ==
    ASSUME Typed, NEW i \in Positions
    PROVE  At(i) \in RoundState
  <1> USE DEF Typed
  <1>1. CASE i <= Len(journal)
    BY <1>1, EntryTyped DEF At, Entry, Positions
  <1>2. CASE ~(i <= Len(journal))
    BY <1>2 DEF At
  <1> QED
    BY <1>1, <1>2

-----------------------------------------------------------------------------
(* Two frames.  What an action of the callers leaves alone, and one of the   *)
(* chain.                                                                  *)

\* The round stays, no accepted transaction is touched, and none becomes final
\* but one that failed.
RoundKept ==
    /\ UNCHANGED <<engine, journal>>
    /\ \A t \in Slot :
           \/ tx'[t] = tx[t]
           \/ /\ tx[t].status # "ACCEPTED"
              /\ \/ tx'[t] = NoTx
                 \/ /\ tx'[t].by \in Account /\ tx'[t].op \in Op
                    /\ \/ tx'[t].status = "PENDING"
                       \/ tx'[t].status \in FailedTerminal /\ tx'[t].result = "NOT_VOTED"

\* What an action of the callers keeps.
LEMMA RoundKeptInv ==
    ASSUME ChainInv, RoundKept
    PROVE  States' /\ Journal' /\ Transactions' /\ Effects' /\ Final' = Final
  <1> USE DEF ChainInv, RoundKept
  <1>1. Final' = Final
    BY DEF Final
  <1>2. Positions' = Positions /\ \A i : At(i)' = At(i)
    BY DEF Positions, At
  <1>3. States'
    BY <1>2 DEF States
  <1>4. \A i \in 1..Len(journal) : journal[i].slot \in Slot
    BY EntryTyped DEF Entry
  <1>5. \A i \in 1..Len(journal) : tx'[journal[i].slot] = tx[journal[i].slot]
    BY <1>4 DEF Journal
  <1>6. Journal'
    BY <1>5 DEF Journal
  <1>7. Effects'
    BY <1>2, <1>5 DEF Effects
  <1>8. Transactions'
    BY <1>2, WriteAssumption DEF Transactions, NoTx
  <1> QED
    BY <1>1, <1>3, <1>6, <1>7, <1>8

\* The calls stay, an ended transaction is not touched, and one that a caller looks
\* at is still that caller's.
CallsKept ==
    /\ UNCHANGED call
    /\ \A t \in Slot :
           \/ tx'[t] = tx[t]
           \/ /\ tx[t].status \notin Settled
              /\ (\E u \in Account : call[u].slot = t) =>
                     tx'[t].by = tx[t].by /\ tx'[t].op = tx[t].op /\ tx'[t].status # "none"

\* What an action of the chain keeps.
LEMMA CallsKeptInv ==
    ASSUME ChainInv, Promises, CallsKept, Final \in RoundState, Final' \in RoundState,
           Before(Final, Final')
    PROVE  Calls' /\ Promises'
  <1> USE DEF ChainInv, CallsKept
  <1>1. \A u \in Account : call[u].slot # 0 => call[u].slot \in Slot
    BY DEF Typed, Call
  <1>2. Calls'
    BY <1>1 DEF Calls, Waiting
  <1>3. ThrownLeftNothing'
    BY <1>1 DEF Promises, ThrownLeftNothing
  <1>4. ReturnedStands'
    <2> SUFFICES ASSUME NEW u \in Account, call[u].step = "returned", call[u].requireFinalized
                 PROVE  Done(call[u].op, u, Final')
      BY DEF ReturnedStands
    <2>1. Done(call[u].op, u, Final)
      BY DEF Promises, ReturnedStands
    <2>2. call[u].op \in Op
      BY DEF Calls
    <2> QED
      BY <2>1, <2>2, DoneLater
  <1> QED
    BY <1>2, <1>3, <1>4 DEF Promises

-----------------------------------------------------------------------------
(* The callers                                                             *)

\* The final state is a state of the round.
LEMMA FinalTyped ==
    ASSUME Typed
    PROVE  Final = At(1) /\ Final \in RoundState /\ 1 \in Positions
  <1>1. journal \in Seq(Entry) /\ 1 \in Positions
    BY DEF Typed, Positions
  <1> QED
    BY <1>1, FinalIsFirst, AtTyped

\* What an invariant of the writes has to keep: nothing final is ever undone.
WInv == ChainInv /\ Promises

Keeps == WInv' /\ Before(Final, Final') /\ Final' \in RoundState

\* The clock ends the challenge window, or the time to answer a challenge.
LEMMA ClockKeeps ==
    ASSUME WInv, WindowEnds \/ ChallengeExpires
    PROVE  Keeps
  <1> USE DEF WInv
  <1>1. Typed' /\ RoundKept /\ CallsKept
    BY DEF WindowEnds, ChallengeExpires, ChainInv, Typed, RoundKept, CallsKept
  <1>2. Final \in RoundState
    BY FinalTyped DEF ChainInv
  <1>3. States' /\ Journal' /\ Transactions' /\ Effects' /\ Final' = Final
    BY <1>1, RoundKeptInv
  <1>4. Before(Final, Final')
    BY <1>2, <1>3, BeforeItself
  <1> QED
    BY <1>1, <1>2, <1>3, <1>4, CallsKeptInv DEF ChainInv, Keeps

\* A write fails without running.
LEMMA FailKeeps ==
    ASSUME WInv, NEW t \in Slot, Fail(t)
    PROVE  Keeps
  <1> USE DEF WInv
  <1>1. tx[t].status = "PENDING" /\ tx[t].by \in Account /\ tx[t].op \in Op
    BY DEF Fail, ChainInv, Transactions
  <1>2. PICK status \in FailedTerminal : tx' = Ended(t, status, "NOT_VOTED")
    BY DEF Fail
  <1>3. tx \in [Slot -> Transaction] /\ tx[t] \in Transaction
    BY DEF ChainInv, Typed
  <1>4. /\ \A other \in Slot \ {t} : tx'[other] = tx[other]
        /\ \/ /\ tx'[t] = [tx[t] EXCEPT !.status = status, !.result = "NOT_VOTED"]
           \/ tx'[t] = NoTx /\ ~\E u \in Account : call[u].slot = t
        /\ DOMAIN tx' = Slot /\ tx' = [slot \in Slot |-> tx'[slot]]
    BY <1>2, <1>3 DEF Ended
  <1>5. NoTx \in Transaction
    BY DEF NoTx, Transaction
  <1>6. tx'[t] \in Transaction
    BY <1>1, <1>3, <1>4, <1>5 DEF Transaction, Settled
  <1>7. tx' \in [Slot -> Transaction]
    BY <1>3, <1>4, <1>6
  <1>8. Typed'
    BY <1>7 DEF Fail, ChainInv, Typed
  <1>9. \/ /\ tx'[t].by = tx[t].by /\ tx'[t].op = tx[t].op
           /\ tx'[t].status = status /\ tx'[t].result = "NOT_VOTED"
        \/ tx'[t] = NoTx /\ ~\E u \in Account : call[u].slot = t
    BY <1>3, <1>4 DEF Transaction
  <1>10. tx[t].status # "ACCEPTED" /\ tx[t].status \notin Settled /\ status # "none"
    BY <1>1, WriteAssumption DEF Settled
  <1>11. RoundKept
    <2>1. UNCHANGED <<engine, journal>>
      BY DEF Fail
    <2> QED
      BY <1>1, <1>4, <1>9, <1>10, <2>1 DEF RoundKept
  <1>12. CallsKept
    <2>1. UNCHANGED call
      BY DEF Fail
    <2> QED
      BY <1>4, <1>9, <1>10, <2>1 DEF CallsKept
  <1>13. Final \in RoundState
    BY FinalTyped DEF ChainInv
  <1>14. States' /\ Journal' /\ Transactions' /\ Effects' /\ Final' = Final
    BY <1>11, RoundKeptInv
  <1>15. Before(Final, Final')
    BY <1>13, <1>14, BeforeItself
  <1> QED
    BY <1>8, <1>12, <1>13, <1>14, <1>15, CallsKeptInv DEF ChainInv, Keeps

\* Calls and Promises for one caller.
CallGood(u) ==
    /\ call[u].slot \in Places[u] \cup {0}
    /\ call[u].step # "idle" => call[u].op \in Op
    /\ Waiting(u) =>
           /\ call[u].slot # 0
           /\ tx[call[u].slot].status # "none"
           /\ tx[call[u].slot].by = u
           /\ tx[call[u].slot].op = call[u].op
    /\ call[u].step = "returned" /\ call[u].requireFinalized => Done(call[u].op, u, Final)
    /\ call[u].step = "threw" /\ call[u].requireFinalized /\ call[u].slot # 0 =>
           /\ tx[call[u].slot].status \in Settled
           /\ tx[call[u].slot].result # "FINISHED_WITH_RETURN"

\* An action of one caller.
LEMMA CallerKeeps ==
    ASSUME WInv, Typed', RoundKept, NEW u \in Account, CallGood(u)',
           \A v \in Account \ {u} :
               /\ call'[v] = call[v]
               /\ call[v].slot # 0 => tx'[call[v].slot] = tx[call[v].slot]
    PROVE  Keeps
  <1>1. States' /\ Journal' /\ Transactions' /\ Effects' /\ Final' = Final
    BY RoundKeptInv DEF WInv
  <1>2. Final \in RoundState /\ Before(Final, Final')
    BY <1>1, FinalTyped, BeforeItself DEF WInv, ChainInv
  <1>3. \A v \in Account : CallGood(v)
    BY DEF CallGood, WInv, ChainInv, Calls, Promises, ReturnedStands, ThrownLeftNothing
  <1>4. ASSUME NEW v \in Account \ {u}
        PROVE  CallGood(v)'
    BY <1>1, <1>3, <1>4 DEF CallGood, Waiting
  <1>5. \A v \in Account : CallGood(v)'
    BY <1>4
  <1>6. Calls' /\ Promises'
    BY <1>5 DEF CallGood, Calls, Promises, ReturnedStands, ThrownLeftNothing
  <1> QED
    BY <1>1, <1>2, <1>6 DEF Keeps, WInv, ChainInv

\* A caller stops waiting.
LEMMA GiveUpKeeps ==
    ASSUME WInv, NEW u \in Account,
           call' = [call EXCEPT ![u].step = IF Waiting(u) THEN "gave_up" ELSE @],
           UNCHANGED <<engine, tx, journal>>
    PROVE  Keeps
  <1>1. call \in [Account -> Call] /\ call[u] \in Call
    BY DEF WInv, ChainInv, Typed
  <1>2. /\ call'[u].slot = call[u].slot /\ call'[u].op = call[u].op
        /\ call'[u].requireFinalized = call[u].requireFinalized
        /\ call'[u].step = IF Waiting(u) THEN "gave_up" ELSE call[u].step
        /\ call' \in [Account -> Call]
        /\ \A v \in Account \ {u} : call'[v] = call[v]
    BY <1>1 DEF Call
  <1>3. RoundKept /\ Typed'
    BY <1>2 DEF RoundKept, Typed, WInv, ChainInv
  <1>4. CallGood(u)
    BY DEF CallGood, WInv, ChainInv, Calls, Promises, ReturnedStands, ThrownLeftNothing
  <1>5. Final' = Final
    BY DEF Final
  <1>6. CallGood(u)'
    BY <1>2, <1>4, <1>5 DEF CallGood, Waiting
  <1> QED
    BY <1>2, <1>3, <1>6, CallerKeeps

\* A receipt makes the write return only on a result that is final, when it waits
\* for one, and throw only on an end that left nothing.
LEMMA ReceiveKeeps ==
    ASSUME WInv, NEW u \in Account, Receive(u)
    PROVE  Keeps
  <1> DEFINE t == call[u].slot
  <1>1. call \in [Account -> Call] /\ call[u] \in Call
    BY DEF WInv, ChainInv, Typed
  <1>2. /\ call'[u].slot = t /\ call'[u].op = call[u].op
        /\ call'[u].requireFinalized = call[u].requireFinalized
        /\ call'[u].step = IF Succeeded(call[u]) THEN "returned" ELSE "threw"
        /\ call' \in [Account -> Call]
        /\ \A v \in Account \ {u} : call'[v] = call[v]
    BY <1>1 DEF Call, Receive
  <1>3. UNCHANGED <<engine, tx, journal>>
    BY DEF Receive, chainVars
  <1>4. RoundKept /\ Typed'
    BY <1>2, <1>3 DEF RoundKept, Typed, WInv, ChainInv
  <1>5. CallGood(u)
    BY DEF CallGood, WInv, ChainInv, Calls, Promises, ReturnedStands, ThrownLeftNothing
  <1>6. Final' = Final
    BY <1>3 DEF Final
  <1>7. /\ call[u].op \in Op /\ t \in Slot /\ t # 0
        /\ tx[t].by = u /\ tx[t].op = call[u].op
    BY <1>1, <1>5 DEF CallGood, Receive, Waiting, Call
  <1>8. ASSUME Succeeded(call[u])
        PROVE  CallGood(u)'
    <2>1. call[u].requireFinalized => Done(call[u].op, u, Final)
      BY <1>7, <1>8, FinalTyped DEF Succeeded, WInv, ChainInv, Transactions
    <2>2. call'[u].step = "returned"
      BY <1>2, <1>8
    <2>3. call'[u].slot \in Places[u] \cup {0}
      BY <1>2, <1>5 DEF CallGood
    <2>4. call'[u].requireFinalized => Done(call'[u].op, u, Final')
      BY <1>2, <1>6, <2>1
    <2>5. call'[u].op \in Op
      BY <1>2, <1>7
    <2> QED
      BY <2>2, <2>3, <2>4, <2>5 DEF CallGood, Waiting
  <1>9. ASSUME ~Succeeded(call[u])
        PROVE  CallGood(u)'
    <2>1. call[u].requireFinalized => tx[t].status \in Settled
      BY DEF Receive, Reached
    <2>2. call[u].requireFinalized => tx[t].result # "FINISHED_WITH_RETURN"
      BY <1>7, <1>9, <2>1 DEF Succeeded, Settled, WInv, ChainInv, Transactions
    <2>3. call'[u].step = "threw"
      BY <1>2, <1>9
    <2>4. call'[u].slot \in Places[u] \cup {0}
      BY <1>2, <1>5 DEF CallGood
    <2>5. call'[u].requireFinalized =>
              /\ tx'[call'[u].slot].status \in Settled
              /\ tx'[call'[u].slot].result # "FINISHED_WITH_RETURN"
      BY <1>2, <1>3, <2>1, <2>2
    <2>6. call'[u].op \in Op
      BY <1>2, <1>7
    <2> QED
      BY <2>3, <2>4, <2>5, <2>6 DEF CallGood, Waiting
  <1> QED
    BY <1>2, <1>3, <1>4, <1>8, <1>9, CallerKeeps

\* A caller that starts anew forgets its last transaction, if it has ended.
LEMMA ForgottenIs ==
    ASSUME Typed, NEW u \in Account
    PROVE  /\ Forgotten(u) \in [Slot -> Transaction]
           /\ \A t \in Slot : \/ Forgotten(u)[t] = tx[t]
                              \/ /\ t = call[u].slot /\ tx[t].status \in Settled
                                 /\ Forgotten(u)[t] = NoTx
  <1>1. NoTx \in Transaction
    BY DEF NoTx, Transaction
  <1>2. tx \in [Slot -> Transaction]
    BY DEF Typed
  <1> QED
    BY <1>1, <1>2 DEF Forgotten

\* Callers have their own transactions.
LEMMA PlacesApart ==
    ASSUME WInv, NEW u \in Account, NEW v \in Account \ {u}, call[v].slot # 0
    PROVE  call[v].slot \in Slot /\ call[v].slot \notin Places[u] /\ call[v].slot # call[u].slot
  <1>1. call[v].slot \in Places[v] /\ call[u].slot \in Places[u] \cup {0}
    BY DEF WInv, ChainInv, Calls
  <1> QED
    BY <1>1, WriteAssumption DEF Slot

\* A write is sent.
LEMMA SendKeeps ==
    ASSUME WInv, NEW u \in Account, NEW op \in Op, NEW rf \in BOOLEAN, Send(u, op, rf)
    PROVE  Keeps
  <1> DEFINE new == [by |-> u, op |-> op, status |-> "PENDING", result |-> "none"]
  <1>1. Typed
    BY DEF WInv, ChainInv
  <1>2. PICK t \in Places[u] :
            /\ Forgotten(u)[t] = NoTx
            /\ tx' = [Forgotten(u) EXCEPT ![t] = new]
            /\ call' = [call EXCEPT ![u] =
                           [step |-> "waiting", op |-> op, requireFinalized |-> rf, slot |-> t]]
    <2> DEFINE free == {x \in Places[u] : Forgotten(u)[x] = NoTx}
               t == CHOOSE x \in free : TRUE
    <2>1. t \in free
      BY DEF Send
    <2>2. /\ tx' = [Forgotten(u) EXCEPT ![t] = new]
          /\ call' = [call EXCEPT ![u] =
                         [step |-> "waiting", op |-> op, requireFinalized |-> rf, slot |-> t]]
      BY DEF Send
    <2>3. t \in Places[u] /\ Forgotten(u)[t] = NoTx
      BY <2>1
    <2> HIDE DEF t
    <2> QED
      BY <2>2, <2>3
  <1>3. t \in Slot /\ t # 0
    BY WriteAssumption DEF Slot
  <1>4. new \in Transaction
    BY DEF Transaction
  <1>5. tx' \in [Slot -> Transaction] /\ tx'[t] = new
        /\ \A x \in Slot \ {t} : tx'[x] = Forgotten(u)[x]
    BY <1>1, <1>2, <1>3, <1>4, ForgottenIs
  <1>6. /\ call' \in [Account -> Call]
        /\ call'[u] = [step |-> "waiting", op |-> op, requireFinalized |-> rf, slot |-> t]
        /\ \A v \in Account \ {u} : call'[v] = call[v]
    BY <1>1, <1>2, <1>3 DEF Typed, Call
  <1>7. UNCHANGED <<engine, journal>>
    BY DEF Send
  <1>8. tx[t].status # "ACCEPTED"
    BY <1>1, <1>2, <1>3, ForgottenIs, WriteAssumption DEF NoTx, Settled
  <1>9. RoundKept
    <2>1. \A x \in Slot : x = t \/ tx'[x] = tx[x] \/ (tx[x].status # "ACCEPTED" /\ tx'[x] = NoTx)
      BY <1>1, <1>5, ForgottenIs, WriteAssumption DEF Settled
    <2>2. new.by = u /\ new.op = op /\ new.status = "PENDING"
      OBVIOUS
    <2> QED
      BY <1>3, <1>5, <1>7, <1>8, <2>1, <2>2 DEF RoundKept
  <1>10. Typed'
    BY <1>1, <1>5, <1>6, <1>7 DEF Typed
  <1>11. CallGood(u)'
    BY <1>3, <1>5, <1>6 DEF CallGood, Waiting
  <1>12. ASSUME NEW v \in Account \ {u}, call[v].slot # 0
         PROVE  tx'[call[v].slot] = tx[call[v].slot]
    BY <1>1, <1>2, <1>5, <1>12, PlacesApart, ForgottenIs
  <1> QED
    BY <1>6, <1>9, <1>10, <1>11, <1>12, CallerKeeps

\* A write throws before it is sent.
LEMMA UnsentKeeps ==
    ASSUME WInv, NEW u \in Account, NEW op \in Op, Unsent(u, op)
    PROVE  Keeps
  <1>1. Typed
    BY DEF WInv, ChainInv
  <1>2. tx' \in [Slot -> Transaction] /\ \A x \in Slot : tx'[x] = Forgotten(u)[x]
    BY <1>1, ForgottenIs DEF Unsent
  <1>3. /\ call' \in [Account -> Call]
        /\ call'[u] = [step |-> "threw", op |-> op, requireFinalized |-> TRUE, slot |-> 0]
        /\ \A v \in Account \ {u} : call'[v] = call[v]
    BY <1>1 DEF Typed, Call, Unsent
  <1>4. UNCHANGED <<engine, journal>>
    BY DEF Unsent
  <1>5. RoundKept
    BY <1>1, <1>2, <1>4, ForgottenIs, WriteAssumption DEF RoundKept, Settled
  <1>6. Typed'
    BY <1>1, <1>2, <1>3, <1>4 DEF Typed
  <1>7. CallGood(u)'
    BY <1>3 DEF CallGood, Waiting
  <1>8. ASSUME NEW v \in Account \ {u}, call[v].slot # 0
        PROVE  tx'[call[v].slot] = tx[call[v].slot]
    BY <1>1, <1>2, <1>8, PlacesApart, ForgottenIs
  <1> QED
    BY <1>3, <1>5, <1>6, <1>7, <1>8, CallerKeeps

-----------------------------------------------------------------------------
(* The chain                                                               *)

\* A write is accepted, and runs.
LEMMA AcceptKeeps ==
    ASSUME WInv, NEW t \in Slot, Accept(t)
    PROVE  Keeps
  <1> DEFINE n == Len(journal)
             new == [slot |-> t, before |-> engine]
             runs == Allowed(tx[t].op, tx[t].by, engine, window_over, expired)
             result == IF runs THEN "FINISHED_WITH_RETURN" ELSE "FINISHED_WITH_ERROR"
  <1> USE DEF WInv, ChainInv
  <1>1. /\ engine \in RoundState /\ journal \in Seq(Entry) /\ n \in Nat
        /\ tx \in [Slot -> Transaction] /\ tx[t] \in Transaction
        /\ tx[t].status = "PENDING" /\ tx[t].by \in Account /\ tx[t].op \in Op
    BY DEF Typed, Accept, Transactions
  <1>2. n + 1 \in Positions /\ At(n + 1) = engine
    BY <1>1 DEF Positions, At
  <1>3. /\ engine' \in RoundState /\ Before(engine, engine') /\ Sane(engine')
        /\ result = "FINISHED_WITH_RETURN" => Done(tx[t].op, tx[t].by, engine')
    <2>1. Sane(engine)
      BY <1>2 DEF States
    <2>2. CASE runs
      BY <1>1, <2>1, <2>2, AfterAllowed DEF Accept
    <2>3. CASE ~runs
      BY <1>1, <2>1, <2>3, BeforeItself DEF Accept
    <2> QED
      BY <2>2, <2>3
  <1>4. /\ tx' \in [Slot -> Transaction]
        /\ \A x \in Slot \ {t} : tx'[x] = tx[x]
        /\ tx'[t].by = tx[t].by /\ tx'[t].op = tx[t].op
        /\ tx'[t].status = "ACCEPTED" /\ tx'[t].result = result
    <2>1. tx' = [tx EXCEPT ![t] = [@ EXCEPT !.status = "ACCEPTED", !.result = result]]
      BY <1>1 DEF Accept, Transaction
    <2> QED
      BY <1>1, <2>1 DEF Transaction
  <1>5. /\ journal' \in Seq(Entry) /\ Len(journal') = n + 1
        /\ \A i \in 1..n : journal'[i] = journal[i]
        /\ journal'[n + 1] = new
    <2>1. new \in Entry /\ journal' = Append(journal, new)
      BY <1>1 DEF Entry, Accept
    <2> QED
      BY <1>1, <2>1
  <1>6. \A i \in Positions : At(i)' = At(i)
    BY <1>1, <1>5 DEF At, Positions
  <1>7. \A i : i = n + 2 => At(i)' = engine'
    BY <1>1, <1>5 DEF At
  <1>8. \A i : i \in Positions' <=> i \in Positions \/ i = n + 2
    BY <1>1, <1>5 DEF Positions
  <1>9. \A i \in Positions : At(i) \in RoundState /\ i <= n + 1
    BY <1>1, AtTyped DEF Positions
  <1>10. States'
    <2>1. \A i \in Positions' : Sane(At(i)')
      BY <1>3, <1>6, <1>7, <1>8 DEF States
    <2>2. ASSUME NEW i \in Positions', NEW j \in Positions', i <= j
          PROVE  Before(At(i)', At(j)')
      <3>1. CASE i \in Positions /\ j \in Positions
        BY <1>6, <2>2, <3>1 DEF States
      <3>2. CASE i \in Positions /\ j = n + 2
        <4>1. Before(At(i), engine)
          BY <1>2, <1>9, <3>2 DEF States
        <4> QED
          BY <1>1, <1>3, <1>6, <1>7, <1>9, <3>2, <4>1, BeforeTransitive
      <3>3. CASE i = n + 2 /\ j = n + 2
        BY <1>3, <1>7, <3>3, BeforeItself
      <3>4. ~(i = n + 2 /\ j \in Positions)
        BY <1>1, <2>2 DEF Positions
      <3> QED
        BY <1>8, <3>1, <3>2, <3>3, <3>4
    <2> QED
      BY <2>1, <2>2 DEF States, Before, Sane
  <1>11. \A i \in 1..n : journal[i].slot \in Slot /\ journal[i].slot # t
    BY <1>1, EntryTyped DEF Entry, Journal
  <1>12. Journal'
    <2>1. \A i \in 1..n + 1 : tx'[journal'[i].slot].status = "ACCEPTED"
      BY <1>1, <1>4, <1>5, <1>11 DEF Journal
    <2>2. \A i \in 1..n + 1 : i = n + 1 \/ (i \in 1..n /\ journal'[i].slot # t)
      BY <1>1, <1>5, <1>11
    <2>3. journal'[n + 1].slot = t
      BY <1>5
    <2>4. \A i, j \in 1..n + 1 : journal'[i].slot = journal'[j].slot => i = j
      BY <1>5, <2>2, <2>3 DEF Journal
    <2> QED
      BY <1>5, <2>1, <2>4 DEF Journal
  <1>13. Effects'
    <2> SUFFICES ASSUME NEW i \in 1..n + 1,
                        tx'[journal'[i].slot].result = "FINISHED_WITH_RETURN"
                 PROVE  Done(tx'[journal'[i].slot].op, tx'[journal'[i].slot].by, At(i + 1)')
      BY <1>5 DEF Effects
    <2>1. CASE i \in 1..n
      <3>1. i + 1 \in Positions
        BY <1>1, <2>1 DEF Positions
      <3> QED
        BY <1>4, <1>5, <1>6, <1>11, <2>1, <3>1 DEF Effects
    <2>2. CASE i = n + 1
      <3>1. At(i + 1)' = engine'
        BY <1>1, <1>7, <2>2
      <3> QED
        BY <1>3, <1>4, <1>5, <2>2, <3>1
    <2> QED
      BY <1>1, <2>1, <2>2
  <1>14. At(1)' = At(1)
    BY <1>1, <1>6 DEF Positions
  <1>15. Transactions'
    BY <1>1, <1>4, <1>14, WriteAssumption DEF Transactions
  <1>16. Typed'
    BY <1>1, <1>3, <1>4, <1>5 DEF Typed, Accept
  <1>17. CallsKept
    BY <1>1, <1>4, WriteAssumption DEF CallsKept, Accept, Settled
  <1>18. Final' = Final /\ Final \in RoundState
    <2>1. Final = At(1) /\ Final \in RoundState
      BY FinalTyped
    <2>2. Final' = At(1)'
      BY <1>1, <1>5 DEF Final, At
    <2> QED
      BY <1>14, <2>1, <2>2
  <1>19. Before(Final, Final')
    BY <1>18, BeforeItself
  <1> QED
    BY <1>10, <1>12, <1>13, <1>15, <1>16, <1>17, <1>18, <1>19, CallsKeptInv DEF Keeps

\* An appeal undoes a write and those after it.
LEMMA AppealKeeps ==
    ASSUME WInv, NEW k \in 1..Len(journal), Appeal(k)
    PROVE  Keeps
  <1> DEFINE n == Len(journal)
             undone == {journal[j].slot : j \in k..n}
  <1> USE DEF WInv, ChainInv
  <1>1. /\ journal \in Seq(Entry) /\ n \in Nat /\ k \in Nat /\ 1 <= k /\ k <= n
        /\ tx \in [Slot -> Transaction]
    BY DEF Typed
  <1>2. /\ journal' \in Seq(Entry) /\ Len(journal') = k - 1
        /\ \A i \in 1..k - 1 : journal'[i] = journal[i]
    <2>1. journal' = SubSeq(journal, 1, k - 1)
      BY DEF Appeal
    <2> HIDE DEF n, undone, WInv, ChainInv
    <2> QED
      BY <1>1, <2>1
  <1>3. engine' = At(k) /\ engine' \in RoundState
    <2>1. engine' = At(k)
      BY <1>1 DEF Appeal, At
    <2>2. k \in Positions
      BY <1>1 DEF Positions
    <2> QED
      BY <2>1, <2>2, AtTyped
  <1>4. /\ tx' \in [Slot -> Transaction]
        /\ \A x \in Slot \ undone : tx'[x] = tx[x]
        /\ \A x \in Slot \cap undone :
               /\ tx'[x].by = tx[x].by /\ tx'[x].op = tx[x].op
               /\ tx'[x].status = "PENDING" /\ tx'[x].result = "none"
    <2>1. tx' = [x \in Slot |->
                    IF x \in undone THEN [tx[x] EXCEPT !.status = "PENDING", !.result = "none"]
                    ELSE tx[x]]
      BY DEF Appeal
    <2> HIDE DEF undone
    <2>2. \A x \in Slot : tx[x] \in Transaction
      BY <1>1
    <2>3. \A x \in Slot :
              /\ [tx[x] EXCEPT !.status = "PENDING", !.result = "none"] \in Transaction
              /\ [tx[x] EXCEPT !.status = "PENDING", !.result = "none"].by = tx[x].by
              /\ [tx[x] EXCEPT !.status = "PENDING", !.result = "none"].op = tx[x].op
              /\ [tx[x] EXCEPT !.status = "PENDING", !.result = "none"].status = "PENDING"
              /\ [tx[x] EXCEPT !.status = "PENDING", !.result = "none"].result = "none"
      BY <2>2 DEF Transaction
    <2> QED
      BY <2>1, <2>2, <2>3
  <1>5. \A i \in 1..k : i \in Positions /\ At(i)' = At(i)
    BY <1>1, <1>2, <1>3 DEF At, Positions
  <1>6. Positions' = 1..k
    BY <1>1, <1>2 DEF Positions
  <1>7. States'
    BY <1>5, <1>6 DEF States, Sane, Before
  <1>8. \A x \in undone : tx[x].status = "ACCEPTED"
    BY <1>1 DEF Journal
  <1>9. \A i \in 1..k - 1 :
            /\ i \in 1..n
            /\ journal[i].slot \in Slot
            /\ journal[i].slot \notin undone
    BY <1>1, EntryTyped DEF Entry, Journal
  <1>10. \A i \in 1..k - 1 : tx'[journal'[i].slot] = tx[journal[i].slot]
    BY <1>2, <1>4, <1>9
  <1>11. Journal'
    BY <1>2, <1>9, <1>10 DEF Journal
  <1>12. Effects'
    <2> SUFFICES ASSUME NEW i \in 1..k - 1,
                        tx'[journal'[i].slot].result = "FINISHED_WITH_RETURN"
                 PROVE  Done(tx'[journal'[i].slot].op, tx'[journal'[i].slot].by, At(i + 1)')
      BY <1>2 DEF Effects
    <2>1. i + 1 \in 1..k
      BY <1>1
    <2> QED
      BY <1>5, <1>9, <1>10, <2>1 DEF Effects
  <1>13. At(1)' = At(1)
    BY <1>1, <1>5
  <1>14. Transactions'
    BY <1>4, <1>8, <1>13, WriteAssumption DEF Transactions
  <1>15. Typed'
    BY <1>1, <1>2, <1>3, <1>4 DEF Typed, Appeal
  <1>16. CallsKept
    <2>1. \A x \in Slot \cap undone : tx[x].status \notin Settled
      BY <1>8, WriteAssumption DEF Settled
    <2>2. UNCHANGED call
      BY DEF Appeal
    <2> QED
      BY <1>4, <2>1, <2>2 DEF CallsKept
  <1>17. Final' = Final /\ Final \in RoundState
    <2>1. Final = At(1) /\ Final \in RoundState
      BY FinalTyped
    <2>2. Final' = At(1)'
      BY <1>1, <1>2 DEF Final, At
    <2> QED
      BY <1>13, <2>1, <2>2
  <1>18. Before(Final, Final')
    BY <1>17, BeforeItself
  <1> QED
    BY <1>7, <1>11, <1>12, <1>14, <1>15, <1>16, <1>17, <1>18, CallsKeptInv DEF Keeps

\* The oldest write becomes final.
LEMMA FinalizeKeeps ==
    ASSUME WInv, Finalize
    PROVE  Keeps
  <1> DEFINE n == Len(journal)
             t == journal[1].slot
  <1> USE DEF WInv, ChainInv
  <1>1. /\ journal \in Seq(Entry) /\ n \in Nat /\ 1 <= n
        /\ tx \in [Slot -> Transaction] /\ engine' = engine
    BY DEF Typed, Finalize
  <1>2. /\ journal' \in Seq(Entry) /\ Len(journal') = n - 1
        /\ \A i \in 1..n - 1 : i + 1 \in 1..n /\ journal'[i] = journal[i + 1]
    BY <1>1 DEF Finalize
  <1>3. /\ t \in Slot /\ tx[t] \in Transaction /\ tx[t].status = "ACCEPTED"
        /\ tx[t].by \in Account /\ tx[t].op \in Op
    BY <1>1, EntryTyped DEF Entry, Journal, Transactions
  <1>4. NoTx \in Transaction /\ NoTx.status = "none"
    BY DEF NoTx, Transaction
  <1>5. /\ tx' \in [Slot -> Transaction]
        /\ \A x \in Slot \ {t} : tx'[x] = tx[x]
        /\ \/ /\ tx'[t].by = tx[t].by /\ tx'[t].op = tx[t].op
              /\ tx'[t].status = "FINALIZED" /\ tx'[t].result = tx[t].result
           \/ tx'[t] = NoTx /\ ~\E u \in Account : call[u].slot = t
    <2> DEFINE final == [tx[t] EXCEPT !.status = "FINALIZED", !.result = tx[t].result]
    <2>1. /\ final \in Transaction
          /\ final.by = tx[t].by /\ final.op = tx[t].op
          /\ final.status = "FINALIZED" /\ final.result = tx[t].result
      BY <1>3 DEF Transaction, Settled
    <2>2. tx' = [tx EXCEPT ![t] = IF \E u \in Account : call[u].slot = t THEN final ELSE NoTx]
      BY <1>1, <1>3 DEF Finalize, Ended
    <2> HIDE DEF final
    <2> QED
      BY <1>1, <1>3, <1>4, <2>1, <2>2
  <1>6. \A i \in 1..n : i + 1 \in Positions /\ At(i)' = At(i + 1)
    BY <1>1, <1>2 DEF At, Positions
  <1>7. Positions' = 1..n
    BY <1>1, <1>2 DEF Positions
  <1>8. States'
    <2>1. \A i \in 1..n : Sane(At(i)')
      BY <1>6 DEF States
    <2>2. \A i, j \in 1..n : i <= j => Before(At(i)', At(j)')
      <3>1. \A i, j \in 1..n : i <= j => i + 1 <= j + 1
        BY <1>1
      <3> QED
        BY <1>6, <3>1 DEF States
    <2> QED
      BY <1>7, <2>1, <2>2 DEF States, Sane, Before
  <1>9. \A i \in 1..n - 1 :
            /\ journal'[i].slot \in Slot /\ journal'[i].slot # t
            /\ tx'[journal'[i].slot] = tx[journal[i + 1].slot]
    <2>1. \A i \in 1..n - 1 : journal[i + 1].slot \in Slot
      BY <1>2, EntryTyped DEF Entry
    <2>2. \A i \in 1..n - 1 : journal[i + 1].slot # t
      BY <1>1, <1>2 DEF Journal
    <2> QED
      BY <1>2, <1>5, <2>1, <2>2
  <1>10. Journal'
    <2>1. \A i \in 1..n - 1 : tx'[journal'[i].slot].status = "ACCEPTED"
      BY <1>2, <1>9 DEF Journal
    <2>2. \A i, j \in 1..n - 1 : journal'[i].slot = journal'[j].slot => i + 1 = j + 1
      BY <1>2 DEF Journal
    <2>3. \A i, j \in 1..n - 1 : i + 1 = j + 1 => i = j
      BY <1>1
    <2>4. \A i, j \in 1..n - 1 : journal'[i].slot = journal'[j].slot => i = j
      BY <2>2, <2>3
    <2> QED
      BY <1>2, <2>1, <2>4 DEF Journal
  <1>11. Effects'
    <2> SUFFICES ASSUME NEW i \in 1..n - 1,
                        tx'[journal'[i].slot].result = "FINISHED_WITH_RETURN"
                 PROVE  Done(tx'[journal'[i].slot].op, tx'[journal'[i].slot].by, At(i + 1)')
      BY <1>2 DEF Effects
    <2>1. i + 1 \in 1..n /\ At(i + 1)' = At((i + 1) + 1)
      BY <1>1, <1>2, <1>6
    <2>2. Done(tx[journal[i + 1].slot].op, tx[journal[i + 1].slot].by, At((i + 1) + 1))
      BY <1>9, <2>1 DEF Effects
    <2> QED
      BY <1>2, <1>9, <2>1, <2>2
  <1>12. /\ At(1)' = At(2) /\ At(2) \in RoundState /\ Before(At(1), At(2))
         /\ Final = At(1) /\ Final' = At(2) /\ At(1) \in RoundState
    <2>1. 1 \in Positions /\ 2 \in Positions /\ 1 <= 2 /\ At(1)' = At(2)
      BY <1>1, <1>6 DEF Positions
    <2>2. Final' = At(1)'
      BY <1>1, <1>2 DEF Final, At
    <2> QED
      BY <2>1, <2>2, FinalTyped, AtTyped DEF States
  <1>13. Transactions'
    <2> SUFFICES ASSUME NEW x \in Slot
                 PROVE  /\ tx'[x].status # "none" => tx'[x].by \in Account /\ tx'[x].op \in Op
                        /\ tx'[x].status \in FailedTerminal => tx'[x].result = "NOT_VOTED"
                        /\ tx'[x].status = "FINALIZED" /\ tx'[x].result = "FINISHED_WITH_RETURN" =>
                               Done(tx'[x].op, tx'[x].by, At(2))
      BY <1>12 DEF Transactions
    <2>1. CASE x # t
      <3>1. tx'[x] = tx[x]
        BY <1>5, <2>1
      <3>2. tx[x].status = "FINALIZED" /\ tx[x].result = "FINISHED_WITH_RETURN" =>
                Done(tx[x].op, tx[x].by, At(2))
        BY <1>12, DoneLater DEF Transactions
      <3> QED
        BY <3>1, <3>2 DEF Transactions
    <2>2. CASE x = t
      <3>1. tx[t].result = "FINISHED_WITH_RETURN" => Done(tx[t].op, tx[t].by, At(2))
        <4>1. 1 \in 1..n /\ 1 + 1 = 2
          BY <1>1
        <4> QED
          BY <4>1 DEF Effects
      <3>2. "FINALIZED" \notin FailedTerminal /\ "none" \notin FailedTerminal
        BY WriteAssumption
      <3> QED
        BY <1>3, <1>4, <1>5, <2>2, <3>1, <3>2
    <2> QED
      BY <2>1, <2>2
  <1>14. Typed'
    BY <1>1, <1>2, <1>5 DEF Typed, Finalize
  <1>15. CallsKept
    <2>1. tx[t].status \notin Settled
      BY <1>3, WriteAssumption DEF Settled
    <2>2. UNCHANGED call
      BY DEF Finalize
    <2> QED
      BY <1>5, <2>1, <2>2 DEF CallsKept
  <1> QED
    BY <1>8, <1>10, <1>11, <1>12, <1>13, <1>14, <1>15, CallsKeptInv DEF Keeps

-----------------------------------------------------------------------------
(* The script                                                              *)

\* The final and the latest state.
Ends ==
    /\ Final \in RoundState /\ engine \in RoundState
    /\ Sane(Final) /\ Sane(engine) /\ Before(Final, engine)

\* The first and the last state are the final and the latest.
LEMMA EndsHold == WInv => Ends
  <1> SUFFICES ASSUME WInv PROVE Ends
    OBVIOUS
  <1> USE DEF WInv, ChainInv
  <1>1. engine = At(Len(journal) + 1) /\ Len(journal) \in Nat
    BY DEF Typed, At
  <1>2. 1 \in Positions /\ Len(journal) + 1 \in Positions /\ 1 <= Len(journal) + 1
    BY <1>1 DEF Positions
  <1>3. Final = At(1) /\ Final \in RoundState
    BY FinalTyped
  <1> QED
    BY <1>1, <1>2, <1>3 DEF Ends, States, Typed

\* The invariant holds at first.
LEMMA InitHolds ==
    ASSUME Init
    PROVE  IInv
  <1> USE DEF Init, WriteInit
  <1>1. PICK status \in Starting :
            engine = [status |-> status, paid |-> [u \in Account |-> 0]]
    OBVIOUS
  <1>2. engine \in RoundState /\ Sane(engine) /\ Before(engine, engine)
    BY <1>1, WriteAssumption DEF RoundState, Sane, Before, Claimable, RefundStatus
  <1>3. NoTx \in Transaction /\ NoCall \in Call
    BY DEF NoTx, NoCall, Transaction, Call
  <1>4. Typed
    BY <1>2, <1>3 DEF Typed
  <1>5. Len(journal) = 0 /\ Positions = {1} /\ At(1) = engine /\ Final = engine
    BY DEF Positions, At, Final
  <1>6. States /\ Journal /\ Effects
    BY <1>2, <1>5 DEF States, Journal, Effects
  <1>7. Transactions
    BY WriteAssumption DEF Transactions, NoTx
  <1>8. Calls /\ Promises
    BY DEF Calls, Promises, ReturnedStands, ThrownLeftNothing, Waiting, NoCall
  <1>9. Script
    BY <1>1, WriteAssumption DEF Claimable, RefundStatus, Script, ScriptState, RecordState, Reading
  <1>10. RecordTrue
    BY <1>1, <1>5 DEF RecordTrue
  <1> QED
    BY <1>4, <1>6, <1>7, <1>8, <1>9, <1>10 DEF IInv, ChainInv

\* What the script has got done, and what it has recorded, is not undone.
LEMMA Lasting ==
    ASSUME IInv, Keeps
    PROVE  /\ \A op \in Op : Done(op, Operator, Final) => Done(op, Operator, Final')
           /\ UNCHANGED record => RecordTrue'
  <1>1. Operator \in Account
    BY ScriptAssumption
  <1>2. Ends /\ Ends'
    BY EndsHold, PTL DEF IInv, WInv, Keeps
  <1>3. \A op \in Op : Done(op, Operator, Final) => Done(op, Operator, Final')
    BY <1>1, <1>2, DoneLater DEF Ends, Keeps
  <1>4. ASSUME UNCHANGED record
        PROVE  RecordTrue'
    <2>1. record'.finalizeTx => Done("finalize", Operator, Final')
      BY <1>3, <1>4 DEF RecordTrue, IInv, Op
    <2>2. record'.claimTx => Final'.paid[Operator] = 1
      <3>1. Final.paid[Operator] \in Nat /\ Final'.paid[Operator] \in Nat
        BY <1>1, <1>2 DEF Ends, RoundState
      <3>2. Final.paid[Operator] <= Final'.paid[Operator] /\ Final'.paid[Operator] <= 1
        BY <1>1, <1>2 DEF Ends, Sane, Keeps, Before
      <3> QED
        BY <1>4, <3>1, <3>2 DEF RecordTrue, IInv
    <2>3. record'.status \notin {"open", "decided_pending", "challenged"} => record'.status = Final'.status
      BY <1>4 DEF RecordTrue, IInv, Script, ScriptState, RecordState, Keeps, Before, Claimable, RefundStatus
    <2>4. \A u \in Account : engine'.paid[u] <= 1
      BY <1>2 DEF Ends, Sane
    <2> QED
      BY <2>1, <2>2, <2>3, <2>4 DEF RecordTrue
  <1> QED
    BY <1>3, <1>4

\* A step of the chain or of another caller leaves the script as it is.
LEMMA ScriptFrame ==
    ASSUME IInv, Keeps, UNCHANGED <<script, record>>,
           call'[Operator].op = call[Operator].op,
           call'[Operator].requireFinalized = call[Operator].requireFinalized
    PROVE  IInv'
  <1>1. Script'
    BY Lasting DEF Script, ScriptState, RecordState, IInv, Op
  <1> QED
    BY <1>1, Lasting DEF Keeps, WInv, IInv

\* A step of the script that leaves the chain and the calls alone.
LEMMA ScriptOnly ==
    ASSUME IInv, UNCHANGED writeVars, Script', RecordTrue'
    PROVE  IInv'
  <1>1. ChainInv'
    BY DEF IInv, ChainInv, writeVars, chainVars, Typed, States, Journal, Transactions, Effects,
           Calls, Positions, At, Waiting
  <1>2. Promises'
    BY DEF IInv, Promises, ReturnedStands, ThrownLeftNothing, Final, writeVars, chainVars
  <1> QED
    BY <1>1, <1>2 DEF IInv

\* The script starts.
LEMMA StartHolds ==
    ASSUME IInv, Start
    PROVE  IInv'
  <1>1. Script'
    BY DEF Start, Script, ScriptState, RecordState, Reading, IInv
  <1>2. RecordTrue'
    BY DEF Start, RecordTrue, Final, IInv, writeVars, chainVars
  <1> QED
    BY <1>1, <1>2, ScriptOnly DEF Start

\* What is read last is final: the status recorded is that of a round which has
\* come to its end, or has not begun to.
LEMMA ReadHolds ==
    ASSUME IInv, Read
    PROVE  IInv'
  <1> DEFINE next == NextStep(script.pc, engine.status)
  <1>1. Ends /\ Operator \in Account
    BY EndsHold, ScriptAssumption DEF IInv, WInv
  <1>2. /\ script.pc \in Reading /\ UNCHANGED writeVars
        /\ script.pc = "after_finalize" => Done("finalize", Operator, Final)
        /\ script.pc = "after_settle" => Done("settle", Operator, Final)
        /\ script.pc = "after_claim" => Done("claim", Operator, Final)
    BY DEF Read, IInv, Script, ScriptState, RecordState
  <1>3. Final' = Final
    BY <1>2 DEF Final, writeVars, chainVars
  <1>4. next \in {"finalize", "settle", "claim", "save"}
    BY DEF NextStep
  <1>5. /\ script'.sent = FALSE /\ script'.pc = IF next = "save" THEN "done" ELSE next
        /\ script' \in ScriptState
    BY <1>2, <1>4 DEF Read, IInv, Script, ScriptState, RecordState, Reading, Writing, Op
  <1>6. CASE next # "save"
    <2>1. UNCHANGED record
      BY <1>6 DEF Read
    <2>2. Script'
      BY <1>4, <1>5, <1>6, <2>1 DEF Script, ScriptState, RecordState, IInv
    <2>3. RecordTrue'
      BY <1>2, <1>3, <2>1 DEF RecordTrue, IInv, writeVars, chainVars
    <2> QED
      BY <1>2, <2>2, <2>3, ScriptOnly
  <1>7. CASE next = "save"
    <2>1. /\ engine.status \in {"open", "challenged"} \/ engine.status = Final.status
          /\ engine.status \in {"open", "challenged"} \cup Claimable
      <3>1. CASE script.pc = "start"
        BY <1>1, <1>7, <3>1 DEF NextStep, Ends, RoundState, Before, Claimable, RefundStatus
      <3>2. CASE script.pc \in {"after_finalize", "after_settle"}
        BY <1>1, <1>2, <1>7, <3>2 DEF NextStep, Ends, Before, Done
      <3>3. CASE script.pc = "after_claim"
        BY <1>1, <1>2, <3>3 DEF Ends, Before, Done, Sane, Claimable, RefundStatus
      <3> QED
        BY <1>2, <3>1, <3>2, <3>3 DEF Reading
    <2>2. script.pc = "after_claim" => Final.paid[Operator] = 1
      <3>1. Final.paid[Operator] \in Nat /\ Final.paid[Operator] <= 1
        BY <1>1 DEF Ends, Sane, RoundState
      <3> QED
        BY <1>2, <3>1 DEF Done
    <2>3. /\ record'.status = engine.status /\ record'.finalizeTx = record.finalizeTx
          /\ record'.claimTx <=> (record.claimTx \/ script.pc = "after_claim")
          /\ record' \in RecordState
      BY <1>7, <2>1 DEF Read, IInv, Script, ScriptState, RecordState
    <2>4. Script'
      BY <1>5, <1>7, <2>3 DEF Script, ScriptState, RecordState
    <2>5. RecordTrue'
      BY <1>2, <1>3, <2>1, <2>2, <2>3 DEF RecordTrue, IInv, writeVars, chainVars
    <2> QED
      BY <1>2, <2>4, <2>5, ScriptOnly
  <1> QED
    BY <1>6, <1>7

\* The script writes.
LEMMA WriteHolds ==
    ASSUME IInv, Write
    PROVE  IInv'
  <1>1. Operator \in Account /\ script.pc \in Op /\ script.pc \in Writing
    BY ScriptAssumption DEF Write, Writing, Op
  <1>2. Keeps
    BY <1>1, SendKeeps, UnsentKeeps DEF Write, IInv, WInv
  <1>3. call'[Operator].op = script.pc /\ call'[Operator].requireFinalized = TRUE
    BY <1>1 DEF Write, Send, Unsent, IInv, ChainInv, Typed
  <1>4. /\ script'.pc = script.pc /\ script'.sent = TRUE /\ record' = record
        /\ script' \in ScriptState
    BY DEF Write, IInv, Script, ScriptState, RecordState
  <1>5. Script'
    BY <1>1, <1>3, <1>4 DEF Script, ScriptState, RecordState, IInv, Reading, Writing, Op
  <1> QED
    BY <1>2, <1>4, <1>5, Lasting DEF Keeps, WInv, IInv

\* A write of the script has returned.
LEMMA ProceedHolds ==
    ASSUME IInv, Proceed
    PROVE  IInv'
  <1>1. /\ script.pc \in Writing /\ script.sent /\ call[Operator].step = "returned"
        /\ call[Operator].op = script.pc /\ call[Operator].requireFinalized
        /\ UNCHANGED writeVars
    BY DEF Proceed, WriteReturned, IInv, Script, ScriptState, RecordState
  <1>2. Done(script.pc, Operator, Final)
    BY <1>1, ScriptAssumption DEF IInv, Promises, ReturnedStands
  <1>3. Final' = Final
    BY <1>1 DEF Final, writeVars, chainVars
  <1>4. /\ script' \in ScriptState
        /\ script'.sent = FALSE
        /\ script'.pc = CASE script.pc = "finalize" -> "after_finalize"
                          [] script.pc = "settle" -> "after_settle"
                          [] script.pc = "claim" -> "after_claim"
    BY <1>1 DEF Proceed, IInv, Script, ScriptState, RecordState, Reading, Writing, Op
  <1>5. /\ record' \in RecordState
        /\ record'.claimTx = record.claimTx /\ record'.status = record.status
        /\ record'.finalizeTx <=> (record.finalizeTx \/ script.pc = "finalize")
    BY DEF Proceed, IInv, Script, ScriptState, RecordState
  <1>6. Script'
    BY <1>1, <1>2, <1>3, <1>4, <1>5 DEF Script, ScriptState, RecordState, Writing, Op
  <1>7. RecordTrue'
    BY <1>1, <1>2, <1>3, <1>5 DEF RecordTrue, IInv, writeVars, chainVars
  <1> QED
    BY <1>1, <1>6, <1>7, ScriptOnly

\* A write of the script has thrown.
LEMMA ThrowHolds ==
    ASSUME IInv, Throw
    PROVE  IInv'
  <1>1. /\ script.pc \in Writing /\ UNCHANGED <<writeVars, record>>
        /\ script'.sent = FALSE /\ script'.pc \in {script.pc, "died"}
        /\ script' \in ScriptState
    <2>1. script \in ScriptState
      BY DEF IInv, Script, ScriptState, RecordState
    <2> DEFINE next == IF script.attempt < MaxAttempts THEN script.attempt + 1 ELSE script.attempt
    <2>2. next \in Nat
      BY <2>1, ScriptAssumption DEF ScriptState
    <2>3. script' = [script EXCEPT !.sent = FALSE, !.attempt = next]
          \/ script' = [script EXCEPT !.pc = "died", !.sent = FALSE, !.attempt = 1]
      BY DEF Throw
    <2> HIDE DEF next
    <2>4. script.pc \in Writing /\ UNCHANGED <<writeVars, record>>
      BY DEF Throw
    <2>5. CASE script' = [script EXCEPT !.sent = FALSE, !.attempt = next]
      BY <2>1, <2>2, <2>4, <2>5 DEF ScriptState
    <2>6. CASE script' = [script EXCEPT !.pc = "died", !.sent = FALSE, !.attempt = 1]
      BY <2>1, <2>4, <2>6 DEF ScriptState
    <2> QED
      BY <2>3, <2>5, <2>6
  <1>2. Script'
    BY <1>1 DEF Script, ScriptState, RecordState, IInv, Writing, Op
  <1>3. RecordTrue'
    BY <1>1 DEF RecordTrue, Final, IInv, writeVars, chainVars
  <1> QED
    BY <1>1, <1>2, <1>3, ScriptOnly

\* The script dies.
LEMMA CrashHolds ==
    ASSUME IInv, Crash
    PROVE  IInv'
  <1>1. Keeps
    BY ScriptAssumption, GiveUpKeeps DEF Crash, IInv, WInv, chainVars
  <1>2. /\ UNCHANGED record /\ script'.sent = FALSE /\ script'.pc = "died"
        /\ script' \in ScriptState
    BY DEF Crash, IInv, Script, ScriptState, RecordState
  <1>3. Script'
    BY <1>2 DEF Script, ScriptState, RecordState, IInv
  <1> QED
    BY <1>1, <1>2, <1>3, Lasting DEF Keeps, WInv, IInv

-----------------------------------------------------------------------------
(* The steps of the specification                                          *)

\* Every step keeps the invariant.
LEMMA StepHolds ==
    ASSUME IInv, [Next]_vars
    PROVE  IInv'
  <1>1. WInv /\ Operator \in Account
    BY ScriptAssumption DEF IInv, WInv
  <1>2. ASSUME ChainNext, UNCHANGED <<script, record>>
        PROVE  IInv'
    <2>1. Keeps
      BY <1>1, <1>2, ClockKeeps, AcceptKeeps, FailKeeps, AppealKeeps, FinalizeKeeps
      DEF ChainNext, WInv, ChainInv, Typed
    <2>2. UNCHANGED call
      BY <1>2 DEF ChainNext, WindowEnds, ChallengeExpires, Accept, Fail, Appeal, Finalize
    <2> QED
      BY <1>2, <2>1, <2>2, ScriptFrame
  <1>3. ASSUME Others, UNCHANGED <<script, record>>
        PROVE  IInv'
    <2>1. PICK u \in Account \ {Operator} :
              (\E op \in Op : \E requireFinalized \in BOOLEAN : Send(u, op, requireFinalized)) \/ Receive(u)
      BY <1>3, ScriptAssumption DEF Others
    <2>2. Keeps
      BY <1>1, <2>1, SendKeeps, ReceiveKeeps
    <2>3. call'[Operator] = call[Operator]
      BY <1>1, <2>1 DEF Send, Receive, WInv, ChainInv, Typed
    <2> QED
      BY <1>3, <2>2, <2>3, ScriptFrame
  <1>4. ASSUME Receive(Operator) \/ GiveUp(Operator), UNCHANGED <<script, record>>
        PROVE  IInv'
    <2>1. CASE Receive(Operator)
      <3>1. /\ call'[Operator].op = call[Operator].op
            /\ call'[Operator].requireFinalized = call[Operator].requireFinalized
        BY <1>1, <2>1 DEF Receive, WInv, ChainInv, Typed, Call
      <3> QED
        BY <1>1, <1>4, <2>1, <3>1, ReceiveKeeps, ScriptFrame
    <2>2. CASE GiveUp(Operator)
      <3>1. call' = [call EXCEPT ![Operator].step = IF Waiting(Operator) THEN "gave_up" ELSE @]
        BY <2>2 DEF GiveUp
      <3>2. Keeps
        BY <1>1, <2>2, <3>1, GiveUpKeeps DEF GiveUp, chainVars
      <3>3. /\ call'[Operator].op = call[Operator].op
            /\ call'[Operator].requireFinalized = call[Operator].requireFinalized
        BY <1>1, <3>1 DEF WInv, ChainInv, Typed, Call
      <3> QED
        BY <1>4, <3>2, <3>3, ScriptFrame
    <2> QED
      BY <1>4, <2>1, <2>2
  <1>5. ASSUME UNCHANGED vars
        PROVE  IInv'
    BY <1>5, ScriptOnly DEF vars, Script, ScriptState, RecordState, RecordTrue, Final, IInv, writeVars, chainVars
  <1> QED
    BY <1>2, <1>3, <1>4, <1>5, StartHolds, ReadHolds, WriteHolds, ProceedHolds, ThrowHolds,
       CrashHolds DEF Next

\* What the journal, the transactions, the callers and the script's record say of
\* the round agrees, whatever is appealed (writeAndWait, finishLifecycle).
THEOREM MarketInvariant == Spec => []IInv
  BY InitHolds, StepHolds, PTL DEF Spec

\* A write that returned in the default mode stands, whatever is appealed.
THEOREM WritesStand == Spec => []ReturnedStands
  <1>1. IInv => ReturnedStands
    BY DEF IInv, Promises
  <1> QED
    BY <1>1, MarketInvariant, PTL

\* A write that threw on its outcome in the default mode left nothing behind.
THEOREM ThrowsLeaveNothing == Spec => []ThrownLeftNothing
  <1>1. IInv => ThrownLeftNothing
    BY DEF IInv, Promises
  <1> QED
    BY <1>1, MarketInvariant, PTL

\* What the script recorded stays true of the final state, and nobody is paid twice.
THEOREM RecordStaysTrue == Spec => []RecordTrue
  <1>1. IInv => RecordTrue
    BY DEF IInv
  <1> QED
    BY <1>1, MarketInvariant, PTL

=============================================================================
