---------------------------- MODULE MCAdjudication ----------------------------
(* A small committee, two interpretations and a handful of model answers.   *)
EXTENDS Adjudication, TLC

CONSTANTS n1, n2, n3, c1, c2, s1, s2, p1, p2, k1, k2, junk

MCInterpretation ==
    (c1 :> [claims |-> {k1, k2}, core |-> {k1}, refutes |-> FALSE])
        @@ (c2 :> [claims |-> {k1}, core |-> {k1}, refutes |-> TRUE])

Row(verdict, urls) == [verdict |-> verdict, urls |-> urls]

Rows(core1, other1, core2) ==
    (c1 :> ((k1 :> core1) @@ (k2 :> other1)))
        @@ (c2 :> ((k1 :> core2) @@ (k2 :> Row("insufficient", {}))))

Ans(winner, confidence, composite, rows, ranking) ==
    [winner |-> winner, confidence |-> confidence, composite |-> composite,
     rows |-> rows, ranking |-> ranking]

Both == Row("supported", {s1, s2})
Silent == Row("insufficient", {})

\* c1 well supported, with confidences on both sides of the threshold, one of
\* them only after rounding; c2 preferred; support from one source; an unknown
\* winner.
MCAnswer ==
    {Ans(c1, 90000, 90000, Rows(Both, Silent, Silent), <<>>),
     Ans(c1, 61994, 90000, Rows(Both, Silent, Silent), <<>>),
     Ans(c1, 61996, 90000, Rows(Both, Both, Silent), <<[id |-> c1, score |-> 85000]>>),
     Ans(c2, 70000, 90000, Rows(Silent, Silent, Both), <<>>),
     Ans(c1, 70000, 90000, Rows(Row("supported", {s1}), Silent, Silent), <<>>),
     Ans(junk, 70000, 90000, Rows(Both, Silent, Both), <<>>)}

Claimed(decision, winner, confidence) ==
    [decision |-> decision, winner |-> winner, confidence |-> confidence, composite |-> 90000]

\* A faulty leader claims a winner nobody submitted, a confidence that was never
\* stored, or a short-cut that does not apply.
MCFaultyProposal ==
    {Claimed("decided", junk, 90000), Claimed("decided", c1, 61996),
     Claimed("decided", c2, 61995), Claimed("unchanged", None, 0),
     Claimed("no_evidence", None, 0), Error}

MCPrior == (s1 :> p1) @@ (s2 :> p1)

=============================================================================
