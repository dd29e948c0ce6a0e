------------------------------- MODULE LiveFeed ------------------------------
(***************************************************************************)
(* What an agent that reads one engine may rely on, and nothing of how the *)
(* engine does it: rounds come one after another; a verdict is published,  *)
(* may be contested while its window is open, and becomes final after the  *)
(* window or after a contest; a published verdict is never withdrawn; and  *)
(* the live output is the latest final one.                                *)
(***************************************************************************)
EXTENDS Integers

CONSTANTS Rounds, Content, None, Window

VARIABLES now, phase, verdict, rival, since, live

feedVars == <<now, phase, verdict, rival, since, live>>

Undecided(r) == phase[r] = "undecided"

\* Nothing of a round is published before every earlier round has ended.
Turn(r) == \A k \in Rounds : k < r => phase[k] \in {"final", "refunded"}

Init ==
    /\ now = 0
    /\ phase = [r \in Rounds |-> "undecided"]
    /\ verdict = [r \in Rounds |-> None]
    /\ rival = [r \in Rounds |-> None]
    /\ since = [r \in Rounds |-> 0]
    /\ live = [round |-> 0, id |-> None]

Pass == now' = now + 1 /\ UNCHANGED <<phase, verdict, rival, since, live>>

Publish(r, w) ==
    /\ Undecided(r) /\ Turn(r)
    /\ phase' = [phase EXCEPT ![r] = "pending"]
    /\ verdict' = [verdict EXCEPT ![r] = w]
    /\ since' = [since EXCEPT ![r] = now]
    /\ UNCHANGED <<now, rival, live>>

Contest(r, alternative) ==
    /\ phase[r] = "pending"
    /\ now <= since[r] + Window
    /\ alternative # verdict[r]
    /\ phase' = [phase EXCEPT ![r] = "contested"]
    /\ rival' = [rival EXCEPT ![r] = alternative]
    /\ since' = [since EXCEPT ![r] = now]
    /\ UNCHANGED <<now, verdict, live>>

Becomes(r, w) ==
    /\ phase' = [phase EXCEPT ![r] = "final"]
    /\ verdict' = [verdict EXCEPT ![r] = w]
    /\ live' = [round |-> r, id |-> w]
    /\ UNCHANGED <<now, rival, since>>

\* Nobody contested in time.
Confirm(r) ==
    /\ phase[r] = "pending"
    /\ now > since[r] + Window
    /\ Becomes(r, verdict[r])

\* The contest is answered either way, or expires and the verdict stands.
Answer(r) ==
    /\ phase[r] = "contested"
    /\ \/ Becomes(r, verdict[r])
       \/ Becomes(r, rival[r])

Refund(r) ==
    /\ Undecided(r) /\ Turn(r)
    /\ phase' = [phase EXCEPT ![r] = "refunded"]
    /\ UNCHANGED <<now, verdict, rival, since, live>>

Next ==
    \/ Pass
    \/ \E r \in Rounds :
        \/ \E w \in Content : Publish(r, w) \/ Contest(r, w)
        \/ Confirm(r)
        \/ Answer(r)
        \/ Refund(r)

Spec == Init /\ [][Next]_feedVars

=============================================================================
