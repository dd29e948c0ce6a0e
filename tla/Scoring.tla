------------------------------- MODULE Scoring -------------------------------
(***************************************************************************)
(* From a model's answer to a verdict (_score_verdict in                   *)
(* src/contracts/Monocle.py and the helpers it calls).  It is              *)
(* deterministic: the leader and every validator apply the same gates to   *)
(* their own answer and their own evidence.                                *)
(*                                                                         *)
(* An answer is a record: the winner it names, its confidence and          *)
(* composite score, for every claim of every interpretation what the last  *)
(* row about it says (verdict and cited sources; a claim without a row is  *)
(* "insufficient" and cites nothing), and the ranking.  Numbers count      *)
(* hundred-thousandths, one digit finer than what the contract stores.     *)
(***************************************************************************)
EXTENDS Integers, FiniteSets, Sequences

CONSTANTS
    Candidate,          \* interpretation ids of the round
    Interpretation,     \* per id: its claims, the core ones, whether it refutes
    Source,
    None,               \* no winner
    ConfidenceThreshold,
    CorroborationMinSources

ASSUME InterpretationAssumption ==
    \A c \in Candidate :
        /\ IsFiniteSet(Interpretation[c].claims)
        /\ Interpretation[c].core \subseteq Interpretation[c].claims
        /\ Interpretation[c].refutes \in BOOLEAN

ASSUME ThresholdAssumption ==
    /\ None \notin Candidate
    /\ IsFiniteSet(Source)
    /\ ConfidenceThreshold \in Nat
    /\ CorroborationMinSources \in Nat

One == 100000

\* A number that cannot be read becomes 0, as a negative one does.
AsProbability(x) == IF x < 0 THEN 0 ELSE IF x > One THEN One ELSE x

\* _stringify_confidence: four places, half to even.
Stringify(x) ==
    LET kept == AsProbability(x) \div 10
        rest == AsProbability(x) % 10
    IN  10 * (IF rest > 5 \/ (rest = 5 /\ kept % 2 = 1) THEN kept + 1 ELSE kept)

\* _meets_confidence_threshold
MeetsThreshold(x) == Stringify(x) >= ConfidenceThreshold

-----------------------------------------------------------------------------
(* The claim table                                                         *)

\* Mutant: a source that was not fetched counts.
CitedAnything(answer, c, k, ok) == answer.rows[c][k].urls

\* What a row cites among the sources that answered in this pass.
Cited(answer, c, k, ok) == answer.rows[c][k].urls \cap ok

\* Support without a citation is downgraded.
ClaimVerdict(answer, c, k, ok) ==
    IF answer.rows[c][k].verdict = "supported" /\ Cited(answer, c, k, ok) = {}
    THEN "insufficient"
    ELSE answer.rows[c][k].verdict

ClaimsWith(answer, c, ok, verdict) ==
    {k \in Interpretation[c].claims : ClaimVerdict(answer, c, k, ok) = verdict}

Supported(answer, c, ok) == ClaimsWith(answer, c, ok, "supported")

Contradicted(answer, c, ok) == ClaimsWith(answer, c, ok, "contradicted")

Corroborating(answer, c, ok) ==
    UNION {Cited(answer, c, k, ok) : k \in Supported(answer, c, ok)}

Disqualified(answer, c, ok) ==
    /\ Contradicted(answer, c, ok) \cap Interpretation[c].core # {}
    /\ ~Interpretation[c].refutes

\* Mutant: per cent instead of basis points.
NetPercent(net, n) == IF net < 0 THEN 0 ELSE (net * 100) \div n

\* A net count of supported claims among n, in basis points, never negative.
NetBps(net, n) == IF net < 0 THEN 0 ELSE (net * 10000) \div n

AtLeastOne(n) == IF n < 1 THEN 1 ELSE n

Rollup(answer, c, ok) ==
    NetBps(Cardinality(Supported(answer, c, ok)) - Cardinality(Contradicted(answer, c, ok)),
           AtLeastOne(Cardinality(Interpretation[c].claims)))

-----------------------------------------------------------------------------
(* The ranking                                                             *)

RankedIds(answer) == {answer.ranking[i].id : i \in DOMAIN answer.ranking}

\* Known ids, each once.
RankingReadable(answer) ==
    /\ RankedIds(answer) \subseteq Candidate
    /\ Cardinality(RankedIds(answer)) = Len(answer.ranking)

\* The winner is ranked, and nobody above it.
WinnerOnTop(answer) ==
    \E i \in DOMAIN answer.ranking :
        /\ answer.ranking[i].id = answer.winner
        /\ \A j \in DOMAIN answer.ranking :
               Stringify(answer.ranking[j].score) <= Stringify(answer.ranking[i].score)

Ranked(answer) ==
    RankingReadable(answer) /\ (answer.ranking = <<>> \/ WinnerOnTop(answer))

Composite(answer) ==
    IF answer.ranking = <<>> THEN Stringify(answer.composite)
    ELSE LET i == CHOOSE i \in DOMAIN answer.ranking :
                      answer.ranking[i].id = answer.winner
         IN  Stringify(answer.ranking[i].score)

-----------------------------------------------------------------------------
(* The verdict                                                             *)

\* Mutant: rivals are not looked at.
ConsistentAlone(answer, ok) == ~Disqualified(answer, answer.winner, ok)

\* The winner is not disqualified, and no rival that is not disqualified rolls
\* up to more.
Consistent(answer, ok) ==
    /\ ~Disqualified(answer, answer.winner, ok)
    /\ \A c \in Candidate \ {answer.winner} :
           Disqualified(answer, c, ok) \/ Rollup(answer, c, ok) <= Rollup(answer, answer.winner, ok)

Corroborated(answer, ok) ==
    /\ Supported(answer, answer.winner, ok) # {}
    /\ Cardinality(Corroborating(answer, answer.winner, ok)) >= CorroborationMinSources

Decision(answer, ok) ==
    CASE answer.winner \notin Candidate -> "invalid_verdict"
      [] answer.winner \in Candidate /\ ~(Ranked(answer) /\ Consistent(answer, ok)) ->
             "invalid_verdict"
      [] OTHER ->
             IF Corroborated(answer, ok) THEN "decided" ELSE "insufficient_corroboration"

\* _score_verdict: it fails closed, and a verdict that is not decided names
\* nobody.
ScoreVerdict(answer, ok) ==
    LET decided == Decision(answer, ok) = "decided" IN
    [decision |-> Decision(answer, ok),
     winner |-> IF decided THEN answer.winner ELSE None,
     confidence |-> Stringify(answer.confidence),
     composite |-> IF decided THEN Composite(answer) ELSE 0]

=============================================================================
