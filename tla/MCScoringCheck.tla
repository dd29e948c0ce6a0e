---------------------------- MODULE MCScoringCheck ----------------------------
(***************************************************************************)
(* The instance of ScoringCheck for TLC, checked in one run with InputCheck. *)
(* Two interpretations with two claims and one; the second may refute.      *)
(***************************************************************************)
EXTENDS ScoringCheck, MCInput

CONSTANTS c1, c2, s1, s2, k1, k2, junk

MCInterpretation ==
    (c1 :> [claims |-> {k1, k2}, core |-> {k1}, refutes |-> FALSE])
        @@ (c2 :> [claims |-> {k1}, core |-> {k1}, refutes |-> TRUE])

Place(id, score) == [id |-> id, score |-> score]

\* Scores that differ only in a digit that is not kept, a duplicate and an
\* unknown id.
MCRanking ==
    {<<>>,
     <<Place(c2, 80004)>>,
     <<Place(c1, 80001), Place(c2, 80004)>>,
     <<Place(c2, 70000), Place(c1, 80000)>>,
     <<Place(c1, 80000), Place(c1, 80000)>>,
     <<Place(c1, 80000), Place(junk, 10000)>>}

\* What an answer is worth and what an input becomes have nothing to do with each
\* other: an input is parsed in one state of the answers only.
CheckInit == Init /\ InputInit

CheckNext ==
    \/ input = NoInput /\ Next /\ UNCHANGED inputVars
    \/ Idle /\ InputNext /\ UNCHANGED vars

CheckSpec == CheckInit /\ [][CheckNext]_<<vars, inputVars>>

=============================================================================
