------------------------------- MODULE MCMarket --------------------------------
(***************************************************************************)
(* The instance of MarketScript for TLC: the operator, one other account     *)
(* that finalizes, challenges and settles the round.                         *)
(***************************************************************************)
EXTENDS MarketScript, TLC

CONSTANTS op, u1

\* A write of the operator may be out while an earlier one, given up, still is.
MCPlaces == (op :> {1, 2}) @@ (u1 :> {3})

\* The other account has one place, so that it makes no difference to the round
\* when it stops waiting; each of its calls has one mode.
\* It does not claim, and the arbiter does not answer: a round that was resolved
\* is one that was finalized when the challenge expired, only sooner.
MCModes ==
    [o \in Op |-> CASE o \in {"claim", "resolve_challenge"} -> {}
                    [] o \in {"challenge", "settle"} -> {FALSE}
                    [] OTHER -> {TRUE}]

MCStarting == {"open", "decided_pending", "cancelled"}

=============================================================================
