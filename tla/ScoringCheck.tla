----------------------------- MODULE ScoringCheck -----------------------------
(***************************************************************************)
(* _score_verdict (src/contracts/Monocle.py) against what it promises, over *)
(* every answer built from small sets.  The reference counts the rows of    *)
(* the answer and compares exact fractions; it knows nothing of downgraded  *)
(* rows, of basis points or of the order of the gates.                      *)
(***************************************************************************)
EXTENDS Scoring

CONSTANTS
    Winner,             \* ids an answer may name
    Ranking,            \* rankings an answer may hold
    MaxClaims           \* MAX_CLAIMS_PER_INTERPRETATION

\* Twelve claims, and two sources at least.
ASSUME ClaimsAssumption ==
    /\ MaxClaims \in Nat /\ MaxClaims * MaxClaims <= 10000
    /\ \A c \in Candidate : Cardinality(Interpretation[c].claims) <= MaxClaims
    /\ CorroborationMinSources >= 1

\* A ranking is a list.
ASSUME RankingAssumption ==
    \A r \in Ranking : Len(r) \in Nat /\ DOMAIN r = 1..Len(r)

VARIABLES
    answer,
    ok,                 \* the sources that answered
    verdict,
    count               \* two pairs of a net count and a number of claims

vars == <<answer, ok, verdict, count>>

Row == [verdict : {"supported", "contradicted", "insufficient"}, urls : SUBSET Source]

Pair == {p \in [net : -MaxClaims..MaxClaims, n : 1..MaxClaims] : p.net <= p.n /\ -p.net <= p.n}

\* The answers in which every claim has a row.
Answers ==
    {[winner |-> w, confidence |-> One, composite |-> One, rows |-> rows, ranking |-> r] :
        w \in Winner, r \in Ranking,
        rows \in {f \in [Candidate -> UNION {[Interpretation[c].claims -> Row] : c \in Candidate}] :
                      \A c \in Candidate : DOMAIN f[c] = Interpretation[c].claims}}

NoVerdict == [decision |-> "none", winner |-> None, confidence |-> 0, composite |-> 0]

Init ==
    /\ answer \in Answers
    /\ ok \in SUBSET Source
    /\ verdict = NoVerdict
    /\ count = <<>>

Score ==
    /\ verdict = NoVerdict
    /\ verdict' = ScoreVerdict(answer, ok)
    /\ UNCHANGED <<answer, ok, count>>

\* One of the initial states, for what does not depend on the answer.
Idle ==
    /\ verdict = NoVerdict
    /\ ok = {}
    /\ answer = CHOOSE a \in Answers : TRUE
    /\ count = <<>>

\* Two roll-ups.
Compare ==
    /\ Idle
    /\ \E p, q \in Pair : count' = <<p, q>>
    /\ UNCHANGED <<answer, ok, verdict>>

Next == Score \/ Compare

Spec == Init /\ [][Next]_vars

-----------------------------------------------------------------------------
(* The reference                                                           *)

RowOf(c, k) == answer.rows[c][k]

Backing(c, s) ==
    {k \in Interpretation[c].claims :
        RowOf(c, k).verdict = "supported" /\ s \in RowOf(c, k).urls}

For(c) == UNION {Backing(c, s) : s \in ok}

Against(c) == {k \in Interpretation[c].claims : RowOf(c, k).verdict = "contradicted"}

Net(c) == Cardinality(For(c)) - Cardinality(Against(c))

Size(c) == Cardinality(Interpretation[c].claims)

Out(c) == ~Interpretation[c].refutes /\ Against(c) \cap Interpretation[c].core # {}

\* c has the larger share of its claims established than d.
Ahead(c, d) == Net(c) > 0 /\ Net(c) * Size(d) > Net(d) * Size(c)

Readable ==
    \A i, j \in DOMAIN answer.ranking :
        /\ answer.ranking[i].id \in Candidate
        /\ answer.ranking[i].id = answer.ranking[j].id => i = j

OnTop ==
    answer.ranking # <<>> =>
        \E i \in DOMAIN answer.ranking :
            /\ answer.ranking[i].id = answer.winner
            /\ \A j \in DOMAIN answer.ranking :
                   Stringify(answer.ranking[j].score) <= Stringify(answer.ranking[i].score)

Merited(c) ==
    /\ c \in Candidate
    /\ ~Out(c)
    /\ \A d \in Candidate : Ahead(d, c) => Out(d)
    /\ Cardinality({s \in ok : Backing(c, s) # {}}) >= CorroborationMinSources

-----------------------------------------------------------------------------
(* Properties                                                              *)

\* A verdict is decided exactly if the named interpretation deserves it on the
\* rows of the answer: no core claim contradicted, no rival with a larger share
\* of its claims established, enough sources behind it, and a ranking that can
\* be read and agrees.  What falls short of that is told apart: only a verdict
\* that lacks nothing but sources is called insufficiently corroborated.
\* (docs/RESOLUTION_LOGIC.md section 3)
DecidedOnMerit ==
    verdict # NoVerdict =>
        /\ verdict.decision = "decided" <=> Readable /\ OnTop /\ Merited(answer.winner)
        /\ verdict.decision = "insufficient_corroboration" =>
               /\ ~Out(answer.winner)
               /\ \A d \in Candidate : Ahead(d, answer.winner) => Out(d)
               /\ Cardinality({s \in ok : Backing(answer.winner, s) # {}}) < CorroborationMinSources

\* Basis points rounded down lose no order: with as many claims as an
\* interpretation may have, two roll-ups compare as the exact fractions do,
\* with everything below zero counting as zero.
RollupOrderExact ==
    count # <<>> =>
        LET p == count[1]
            q == count[2]
        IN  NetBps(p.net, p.n) <= NetBps(q.net, q.n)
                <=> (p.net <= 0 \/ p.net * q.n <= q.net * p.n)

=============================================================================
