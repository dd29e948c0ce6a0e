----------------------------- MODULE Adjudication -----------------------------
(***************************************************************************)
(* How one adjudication, or one challenge, reaches its verdict:            *)
(* gl.vm.run_nondet(leader_fn, validator_fn) in adjudicate and             *)
(* resolve_challenge (src/contracts/Monocle.py).  The leader fetches the   *)
(* sources, asks its model and proposes; every validator fetches and asks  *)
(* again, on its own, and agrees or not; with a majority the proposal's    *)
(* effect is applied, otherwise another node leads.                        *)
(*                                                                         *)
(* Fetches and models differ between nodes and from run to run.  A faulty  *)
(* node may propose and vote anything.  Counting votes and rotating the    *)
(* leader is the network's part; the functions that run are the            *)
(* contract's.                                                             *)
(***************************************************************************)
EXTENDS Scoring

CONSTANTS
    Node,
    Faulty,             \* nodes that propose and vote as they like
    Page,               \* what a source may serve, up to its fingerprint
    Answer,             \* what a model may answer
    Malformed,          \* an answer that holds no JSON object
    FaultyProposal,     \* what a faulty leader may propose
    Prior,              \* the evidence behind the live output
    Original, Alternative,  \* the pair a challenge is about
    ConfidenceTolerance, ScoreTolerance,
    MaxRotations        \* bound of the leaders after the first

ASSUME NodeAssumption ==
    /\ IsFiniteSet(Node)
    /\ Faulty \subseteq Node
    /\ Malformed \notin Answer
    /\ {Original, Alternative} \subseteq Candidate
    /\ Original # Alternative
    /\ MaxRotations \in Nat

\* The numbers in an answer and in a proposal have been read; a proposal has the
\* fields of a verdict.
ASSUME AnswerAssumption ==
    /\ \A a \in Answer : a.confidence \in Int
    /\ \A p \in FaultyProposal :
           /\ p.confidence \in Int
           /\ p = [decision |-> p.decision, winner |-> p.winner,
                   confidence |-> p.confidence, composite |-> p.composite]

VARIABLES
    method,         \* "adjudicate" or "resolve_challenge"
    nothing_new,    \* there is a live output, and the round behind it judged
                    \* every interpretation of this one
    leader,
    proposal,       \* what the leader's function returned
    view,           \* per node: its own fetch and its own model's answer
    vote,           \* per node
    rotation,
    result          \* the effect the transaction had

vars == <<method, nothing_new, leader, proposal, view, vote, rotation, result>>

\* The page of every source that answered.
Fetch == UNION {[ok -> Page] : ok \in SUBSET Source}

View == [fetched : Fetch, answer : Answer \cup {Malformed}]

NoView == [fetched |-> [s \in {} |-> None], answer |-> Malformed]

Blank(decision) ==
    [decision |-> decision, winner |-> None, confidence |-> 0, composite |-> 0]

\* A UserError is not a verdict; its message starts with LLM_MALFORMED.
Error == Blank("error")

NoProposal == Blank("none")

-----------------------------------------------------------------------------
(* The functions of the contract that run in every node                    *)

\* Mutant: a new interpretation does not matter.
UnchangedWhateverIsNew(v, force) == ~force /\ v.fetched = Prior

\* The short-cut that asks no model.
Unchanged(v, force) == ~force /\ nothing_new /\ v.fetched = Prior

\* leader_fn of adjudicate
Judge(v, force) ==
    CASE DOMAIN v.fetched = {} -> Blank("no_evidence")
      [] DOMAIN v.fetched # {} /\ Unchanged(v, force) -> Blank("unchanged")
      [] OTHER -> IF v.answer = Malformed THEN Error
                  ELSE ScoreVerdict(v.answer, DOMAIN v.fetched)

\* leader_fn of resolve_challenge: the arbiter sees the pair only.
Arbitrate(v) ==
    CASE DOMAIN v.fetched = {} -> Blank("no_evidence")
      [] DOMAIN v.fetched # {} /\ v.answer = Malformed -> Error
      [] OTHER ->
             LET readable == v.answer.winner \in {Original, Alternative} IN
             [decision |-> IF readable THEN "decided" ELSE "invalid_verdict",
              winner |-> IF readable THEN v.answer.winner ELSE None,
              confidence |-> Stringify(v.answer.confidence),
              composite |-> 0]

LeaderFn(v, force) ==
    IF method = "adjudicate" THEN Judge(v, force) ELSE Arbitrate(v)

\* _adjudication_outcome
AdjudicationOutcome(verdict) ==
    CASE verdict.decision = "unchanged" -> "unchanged"
      [] verdict.decision = "decided" /\ MeetsThreshold(verdict.confidence) -> "decided_pending"
      [] OTHER -> "inconclusive"

\* _challenge_outcome
ChallengeOutcome(verdict) ==
    LET confident == verdict.decision = "decided" /\ MeetsThreshold(verdict.confidence) IN
    CASE confident /\ verdict.winner = Alternative -> "upheld"
      [] confident /\ verdict.winner = Original -> "rejected"
      [] OTHER -> "unresolved"

Outcome(verdict) ==
    IF method = "adjudicate" THEN AdjudicationOutcome(verdict) ELSE ChallengeOutcome(verdict)

\* The gap is taken between floats, so one of exactly the tolerance may fall
\* on either side in the code.
Near(x, y, tolerance) ==
    LET gap == AsProbability(x) - AsProbability(y) IN gap < tolerance /\ -gap < tolerance

\* Mutant: the confidences may straddle the threshold.
AgreeWithinTolerance(mine, theirs) ==
    /\ mine.decision = theirs.decision
    /\ mine.decision = "decided" =>
           /\ mine.winner = theirs.winner
           /\ Near(mine.confidence, theirs.confidence, ConfidenceTolerance)
           /\ method = "adjudicate" => Near(mine.composite, theirs.composite, ScoreTolerance)

\* Mutant: any winner will do.
AgreeOnDecision(mine, theirs) ==
    /\ Outcome(mine) = Outcome(theirs)
    /\ mine.decision = theirs.decision

\* _verdicts_agree, and the comparison at the end of the arbiter's
\* validator_fn, which looks at no composite score
Agree(mine, theirs) ==
    /\ Outcome(mine) = Outcome(theirs)
    /\ mine.decision = theirs.decision
    /\ mine.decision = "decided" =>
           /\ mine.winner = theirs.winner
           /\ Near(mine.confidence, theirs.confidence, ConfidenceTolerance)
           /\ method = "adjudicate" => Near(mine.composite, theirs.composite, ScoreTolerance)

\* Mutant: the short-cut is open to validators of any proposal.
NeverForced(theirs) == FALSE

\* A validator takes the short-cut only to check a leader that took it.
Forced(theirs) == theirs.decision \notin {"no_evidence", "unchanged"}

\* What a validator finds on its own before it compares.
Mine(v, theirs) == LeaderFn(v, Forced(theirs))

\* validator_fn.  An error of the leader is never agreed with: a malformed
\* answer rotates the leader, and this node's own run either succeeds or ends
\* in another error.  An error of its own is a disagreement.
ValidatorFn(v, theirs) ==
    /\ theirs # Error
    /\ Mine(v, theirs) # Error
    /\ Agree(Mine(v, theirs), theirs)

\* The deterministic part below the block.  It stores the confidence again and
\* tests it again; a winner that was not submitted reverts.
Applied(verdict) ==
    LET stored == [verdict EXCEPT !.confidence = Stringify(@)]
        outcome == Outcome(stored)
    IN  IF outcome = "decided_pending" /\ verdict.winner \notin Candidate
        THEN [outcome |-> "reverted", winner |-> None]
        ELSE [outcome |-> outcome,
              winner |-> IF outcome \in {"decided_pending", "upheld", "rejected"}
                         THEN verdict.winner ELSE None]

-----------------------------------------------------------------------------
(* The network                                                             *)

Honest == Node \ Faulty

Voters == Node \ {leader}

Agreeing == {n \in Voters : vote[n] = "agree"}

Disagreeing == {n \in Voters : vote[n] = "disagree"}

\* A leader counts as agreeing with itself.
Majority == 2 * (Cardinality(Agreeing) + 1) > Cardinality(Node)

Refused == 2 * (Cardinality(Voters \ Disagreeing) + 1) <= Cardinality(Node)

Undecided == result.outcome = "none"

Init ==
    /\ method \in {"adjudicate", "resolve_challenge"}
    /\ nothing_new \in BOOLEAN
    /\ leader \in Node
    /\ proposal = NoProposal
    /\ view = [n \in Node |-> NoView]
    /\ vote = [n \in Node |-> "none"]
    /\ rotation = 0
    /\ result = [outcome |-> "none", winner |-> None]

Propose ==
    /\ Undecided
    /\ proposal = NoProposal
    /\ IF leader \in Honest
       THEN \E v \in View : /\ view' = [view EXCEPT ![leader] = v]
                            /\ proposal' = LeaderFn(v, FALSE)
       ELSE /\ proposal' \in FaultyProposal
            /\ UNCHANGED view
    /\ UNCHANGED <<method, nothing_new, leader, vote, rotation, result>>

Vote(n) ==
    /\ Undecided
    /\ proposal # NoProposal
    /\ n \in Voters
    /\ vote[n] = "none"
    /\ IF n \in Honest
       THEN \E v \in View :
                /\ view' = [view EXCEPT ![n] = v]
                /\ vote' = [vote EXCEPT ![n] =
                       IF ValidatorFn(v, proposal) THEN "agree" ELSE "disagree"]
       ELSE /\ \E w \in {"agree", "disagree"} : vote' = [vote EXCEPT ![n] = w]
            /\ UNCHANGED view
    /\ UNCHANGED <<method, nothing_new, leader, proposal, rotation, result>>

\* A majority agrees: the transaction takes its effect.
Accept ==
    /\ Undecided
    /\ proposal # NoProposal
    /\ Majority
    /\ result' = Applied(proposal)
    /\ UNCHANGED <<method, nothing_new, leader, proposal, view, vote, rotation>>

\* A majority cannot be had any more: another node leads, or the transaction
\* stays without effect.
Rotate ==
    /\ Undecided
    /\ Refused
    /\ IF rotation < MaxRotations
       THEN /\ leader' \in Voters
            /\ rotation' = rotation + 1
            /\ proposal' = NoProposal
            /\ view' = [n \in Node |-> NoView]
            /\ vote' = [n \in Node |-> "none"]
            /\ UNCHANGED result
       ELSE /\ result' = [outcome |-> "undetermined", winner |-> None]
            /\ UNCHANGED <<leader, rotation, proposal, view, vote>>
    /\ UNCHANGED <<method, nothing_new>>

Next ==
    \/ Propose
    \/ \E n \in Node : Vote(n)
    \/ Accept
    \/ Rotate

Spec == Init /\ [][Next]_vars

-----------------------------------------------------------------------------
(* Properties                                                              *)

TypeOK ==
    /\ method \in {"adjudicate", "resolve_challenge"}
    /\ nothing_new \in BOOLEAN
    /\ leader \in Node
    /\ view \in [Node -> View]
    /\ vote \in [Node -> {"none", "agree", "disagree"}]
    /\ rotation \in 0..MaxRotations

Effective == result.outcome \notin {"none", "undetermined"}

\* Every honest node that agreed would have had the same effect, and crowned
\* the same interpretation, on its own evidence with its own model's answer:
\* no confidence straddles the threshold.  (docs/RESOLUTION_LOGIC.md section 4)
OutcomeAsSeen ==
    Effective =>
        \A n \in Agreeing \cap Honest :
            LET mine == Mine(view[n], proposal) IN
            /\ Outcome(mine) = result.outcome
            /\ result.winner # None => mine.winner = result.winner

\* A pending winner is corroborated, in the run of every honest node that
\* agreed, by claims citing enough of the sources that very node fetched.
WinnerCorroborated ==
    result.outcome = "decided_pending" =>
        \A n \in Agreeing \cap Honest :
            \E cited \in SUBSET DOMAIN view[n].fetched :
                /\ Cardinality(cited) >= CorroborationMinSources
                /\ \A s \in cited : \E k \in Interpretation[result.winner].claims :
                       LET row == view[n].answer.rows[result.winner][k]
                       IN  row.verdict = "supported" /\ s \in row.urls

\* A round ends unchanged only if every honest node that agreed fetched exactly
\* the evidence behind the live output, and nothing new was submitted.
UnchangedSeen ==
    result.outcome = "unchanged" =>
        /\ nothing_new
        /\ \A n \in Agreeing \cap Honest : view[n].fetched = Prior

\* "Unreachable when validators agreed" (adjudicate): with fewer faulty nodes
\* than a majority needs, no accepted verdict names an unknown interpretation.
GarbageUnreachable == result.outcome # "reverted"

\* An honest validator refuses a judged proposal only because its own judgment
\* differs: that its own fetch equals the prior evidence is no reason.
\* (docs/AUDIT.md B6)
RefusedForCause ==
    proposal.decision \notin {"none", "error", "no_evidence", "unchanged"} =>
        \A n \in Disagreeing \cap Honest :
            \/ DOMAIN view[n].fetched = {}
            \/ view[n].answer = Malformed
            \/ /\ method = "adjudicate"
               /\ ~Agree(ScoreVerdict(view[n].answer, DOMAIN view[n].fetched), proposal)
            \/ /\ method = "resolve_challenge"
               /\ ~Agree(Arbitrate(view[n]), proposal)

=============================================================================
