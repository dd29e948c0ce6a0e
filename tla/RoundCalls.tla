------------------------------ MODULE RoundCalls -------------------------------
(***************************************************************************)
(* The calls that take a decided round of an engine to its end, as a client  *)
(* knows them from the round's status and from who has claimed: a round is a *)
(* record of its status and of how often each account was paid.  SdkWrite    *)
(* sends these calls; that module Monocle answers them so is proved there.   *)
(***************************************************************************)
EXTENDS Integers

Op == {"finalize", "challenge", "resolve_challenge", "settle", "claim"}

RefundStatus == {"inconclusive", "unchanged", "cancelled"}

\* The guards of the calls; one that fails them reverts.  The window is that of
\* the verdict; expired is the time the arbiter has to answer a challenge.
Allowed(op, u, s, window_over, expired) ==
    \/ op = "finalize" /\ s.status = "decided_pending" /\ window_over
    \/ op = "finalize" /\ s.status = "challenged" /\ expired
    \/ op = "challenge" /\ s.status = "decided_pending" /\ ~window_over
    \/ op = "resolve_challenge" /\ s.status = "challenged"
    \/ op = "settle" /\ s.status = "finalized"
    \/ op = "claim" /\ s.status \in {"settled"} \cup RefundStatus /\ s.paid[u] = 0

\* A challenge ends in a final round whichever way it is answered.
After(op, u, s) ==
    CASE op \in {"finalize", "resolve_challenge"} -> [s EXCEPT !.status = "finalized"]
      [] op = "challenge" -> [s EXCEPT !.status = "challenged"]
      [] op = "settle" -> [s EXCEPT !.status = "settled"]
      [] op = "claim" -> [s EXCEPT !.paid[u] = @ + 1]

=============================================================================
