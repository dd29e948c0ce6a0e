-------------------------- MODULE AdjudicationProofs --------------------------
(***************************************************************************)
(* What consensus guarantees for every committee, every set of pages and    *)
(* of answers, every threshold and every tolerance: the effect of a         *)
(* transaction is the one each honest node that agreed found for itself.    *)
(***************************************************************************)
EXTENDS Adjudication, FiniteSetTheorems, TLAPS

\* A verdict as the contract builds it.
Legible(p) ==
    /\ p.confidence \in Int
    /\ p = [decision |-> p.decision, winner |-> p.winner,
            confidence |-> p.confidence, composite |-> p.composite]

\* A vote says what the voter's function returned on what it saw, and so does
\* the proposal of an honest leader.
VotesHonest ==
    /\ proposal = NoProposal => \A n \in Node : vote[n] = "none"
    /\ \A n \in Agreeing \cap Honest : ValidatorFn(view[n], proposal)
    /\ \A n \in Disagreeing \cap Honest : ~ValidatorFn(view[n], proposal)
    /\ proposal # NoProposal /\ leader \in Honest => proposal = LeaderFn(view[leader], FALSE)

EffectApplied == Effective => result = Applied(proposal) /\ Majority

AdjudicationInductive == TypeOK /\ Legible(proposal) /\ VotesHonest /\ EffectApplied

-----------------------------------------------------------------------------
(* Numbers and verdicts                                                    *)

\* A probability is clamped.
LEMMA ProbabilityRange ==
    ASSUME NEW x \in Int
    PROVE  AsProbability(x) \in Int /\ 0 <= AsProbability(x) /\ AsProbability(x) <= One
BY DEF AsProbability, One

\* What is stored reads back as itself.
LEMMA StringifyIdempotent ==
    ASSUME NEW x \in Int
    PROVE  Stringify(x) \in Int /\ Stringify(Stringify(x)) = Stringify(x)
<1> DEFINE p == AsProbability(x)
           kept == p \div 10
           rest == p % 10
           k == IF rest > 5 \/ (rest = 5 /\ kept % 2 = 1) THEN kept + 1 ELSE kept
<1>1. p \in Int /\ 0 <= p /\ p <= 100000
  BY ProbabilityRange DEF One
<1>2. Stringify(x) = 10 * k
  BY DEF Stringify
<1> HIDE DEF p
<1>3. /\ kept \in Int /\ 0 <= kept /\ kept <= 10000
      /\ rest \in Int /\ 0 <= rest /\ rest <= 9 /\ p = 10 * kept + rest
  BY <1>1
<1> HIDE DEF kept, rest
<1>4. k \in Int /\ 0 <= k /\ k <= 10000
  BY <1>1, <1>3
<1> HIDE DEF k
<1>5. AsProbability(10 * k) = 10 * k
  BY <1>4 DEF AsProbability, One
<1>6. (10 * k) \div 10 = k /\ (10 * k) % 10 = 0
  BY <1>4
<1>7. Stringify(10 * k) = 10 * k
  BY <1>4, <1>5, <1>6 DEF Stringify
<1> QED
  BY <1>2, <1>4, <1>7

\* What is written can be read back.
LEMMA VerdictsLegible ==
    /\ Legible(NoProposal)
    /\ \A p \in FaultyProposal : Legible(p)
    /\ \A v \in View, force \in BOOLEAN : Legible(LeaderFn(v, force))
<1>1. Legible(NoProposal) /\ Legible(Error)
  BY DEF Legible, NoProposal, Error, Blank
<1>2. \A p \in FaultyProposal : Legible(p)
  BY AnswerAssumption DEF Legible
<1>3. ASSUME NEW v \in View, NEW force \in BOOLEAN
      PROVE  Legible(LeaderFn(v, force))
  <2>1. v.answer = Malformed \/ Stringify(v.answer.confidence) \in Int
    BY AnswerAssumption, StringifyIdempotent DEF View
  <2>2. v.answer # Malformed => Legible(ScoreVerdict(v.answer, DOMAIN v.fetched))
    BY <2>1 DEF Legible, ScoreVerdict
  <2>3. Legible(Judge(v, force))
    BY <1>1, <2>2 DEF Judge, Legible, Blank
  <2>4. Legible(Arbitrate(v))
    BY <1>1, <2>1 DEF Arbitrate, Legible, Blank
  <2> QED
    BY <2>3, <2>4 DEF LeaderFn
<1> QED
  BY <1>1, <1>2, <1>3

\* Storing the confidence before testing it again changes no outcome.
LEMMA StoredAsAgreed ==
    ASSUME NEW p, Legible(p)
    PROVE  Outcome([p EXCEPT !.confidence = Stringify(@)]) = Outcome(p)
<1> DEFINE stored == [p EXCEPT !.confidence = Stringify(@)]
<1>1. /\ stored.decision = p.decision /\ stored.winner = p.winner
      /\ stored.confidence = Stringify(p.confidence)
  BY DEF Legible
<1>2. MeetsThreshold(stored.confidence) <=> MeetsThreshold(p.confidence)
  BY <1>1, StringifyIdempotent DEF MeetsThreshold, Legible
<1> HIDE DEF stored
<1>3. AdjudicationOutcome(stored) = AdjudicationOutcome(p)
  BY <1>1, <1>2 DEF AdjudicationOutcome
<1>4. ChallengeOutcome(stored) = ChallengeOutcome(p)
  BY <1>1, <1>2 DEF ChallengeOutcome
<1>5. Outcome(stored) = Outcome(p)
  BY <1>3, <1>4 DEF Outcome
<1> QED
  BY <1>5 DEF stored

\* The effect of a verdict, read off the verdict.
LEMMA AppliedOutcome ==
    ASSUME NEW p, Legible(p)
    PROVE  /\ Applied(p).outcome # "reverted" => Applied(p).outcome = Outcome(p)
           /\ Applied(p).outcome = "reverted" =>
                  Outcome(p) = "decided_pending" /\ p.winner \notin Candidate
           /\ Applied(p).winner # None => Applied(p).winner = p.winner
           /\ Applied(p).winner # None => Outcome(p) \in {"decided_pending", "upheld", "rejected"}
           /\ Outcome(p) \in {"decided_pending", "upheld", "rejected"} /\ p.winner \in Candidate =>
                  Applied(p).winner = p.winner
           /\ Applied(p).outcome \notin {"none", "undetermined"}
<1>1. Outcome(p) \in {"unchanged", "decided_pending", "inconclusive", "upheld", "rejected", "unresolved"}
  BY DEF Outcome, AdjudicationOutcome, ChallengeOutcome
<1>2. Applied(p) =
          IF Outcome(p) = "decided_pending" /\ p.winner \notin Candidate
          THEN [outcome |-> "reverted", winner |-> None]
          ELSE [outcome |-> Outcome(p),
                winner |-> IF Outcome(p) \in {"decided_pending", "upheld", "rejected"}
                           THEN p.winner ELSE None]
  BY StoredAsAgreed DEF Applied
<1> QED
  BY <1>1, <1>2

\* A winner is named by decided verdicts only.
LEMMA EffectNeedsDecision ==
    ASSUME NEW p
    PROVE  /\ Outcome(p) \in {"decided_pending", "upheld", "rejected"} => p.decision = "decided"
           /\ Outcome(p) = "decided_pending" => method = "adjudicate"
           /\ Outcome(p) = "unchanged" => method = "adjudicate" /\ p.decision = "unchanged"
<1>1. method # "adjudicate" => Outcome(p) = ChallengeOutcome(p)
  BY DEF Outcome
<1>2. method = "adjudicate" => Outcome(p) = AdjudicationOutcome(p)
  BY DEF Outcome
<1>3. /\ AdjudicationOutcome(p) \in {"unchanged", "decided_pending", "inconclusive"}
      /\ AdjudicationOutcome(p) = "decided_pending" => p.decision = "decided"
      /\ AdjudicationOutcome(p) = "unchanged" => p.decision = "unchanged"
  BY DEF AdjudicationOutcome
<1>4. /\ ChallengeOutcome(p) \in {"upheld", "rejected", "unresolved"}
      /\ ChallengeOutcome(p) # "unresolved" => p.decision = "decided"
  BY DEF ChallengeOutcome
<1> QED
  BY <1>1, <1>2, <1>3, <1>4

\* What a decided verdict of a node's own rests on.
LEMMA DecidedIsEarned ==
    ASSUME NEW v, NEW force, LeaderFn(v, force).decision = "decided"
    PROVE  /\ LeaderFn(v, force).winner \in Candidate
           /\ method = "adjudicate" =>
                  /\ LeaderFn(v, force).winner = v.answer.winner
                  /\ Corroborated(v.answer, DOMAIN v.fetched)
<1>1. ASSUME method = "adjudicate"
      PROVE  /\ v.answer.winner \in Candidate /\ Corroborated(v.answer, DOMAIN v.fetched)
             /\ LeaderFn(v, force).winner = v.answer.winner
  <2>1. LeaderFn(v, force) = ScoreVerdict(v.answer, DOMAIN v.fetched)
    BY <1>1 DEF LeaderFn, Judge, Blank, Error
  <2>2. Decision(v.answer, DOMAIN v.fetched) = "decided"
    BY <2>1 DEF ScoreVerdict
  <2> QED
    BY <2>1, <2>2 DEF ScoreVerdict, Decision
<1>2. ASSUME method # "adjudicate"
      PROVE  LeaderFn(v, force).winner \in Candidate
  BY <1>2, NodeAssumption DEF LeaderFn, Arbitrate, Blank, Error
<1> QED
  BY <1>1, <1>2

-----------------------------------------------------------------------------
(* The inductive invariant                                                 *)

\* Nothing is proposed at first.
LEMMA AdjudicationInit == Init => AdjudicationInductive
<1> SUFFICES ASSUME Init PROVE AdjudicationInductive
  OBVIOUS
<1>1. NoView \in View
  <2>1. [s \in {} |-> None] \in Fetch
    <3>1. [s \in {} |-> None] \in [{} -> Page] /\ {} \in SUBSET Source
      OBVIOUS
    <3> QED
      BY <3>1 DEF Fetch
  <2> QED
    BY <2>1 DEF NoView, View
<1>2. TypeOK
  BY <1>1, NodeAssumption DEF Init, TypeOK
<1>3. VotesHonest
  BY DEF Init, VotesHonest, Agreeing, Disagreeing, Voters
<1>4. EffectApplied
  BY DEF Init, EffectApplied, Effective
<1> QED
  BY <1>2, <1>3, <1>4, VerdictsLegible DEF AdjudicationInductive, Init

\* Every step keeps the invariant.
LEMMA AdjudicationStep == AdjudicationInductive /\ [Next]_vars => AdjudicationInductive'
<1> SUFFICES ASSUME AdjudicationInductive, [Next]_vars PROVE AdjudicationInductive'
  OBVIOUS
<1> USE DEF AdjudicationInductive
\* The contract's functions look at the method and at what is new in the round,
\* which never change.
<1>1. ASSUME UNCHANGED <<method, nothing_new>>
      PROVE  /\ \A v, force : LeaderFn(v, force)' = LeaderFn(v, force)
             /\ \A v, p : ValidatorFn(v, p)' <=> ValidatorFn(v, p)
             /\ \A p : Applied(p)' = Applied(p)
  <2>1. \A p : Outcome(p)' = Outcome(p)
    BY <1>1 DEF Outcome, AdjudicationOutcome, ChallengeOutcome
  <2>2. \A v, force : LeaderFn(v, force)' = LeaderFn(v, force)
    BY <1>1 DEF LeaderFn, Judge, Unchanged, Arbitrate
  <2>3. \A p, q : Agree(p, q)' <=> Agree(p, q)
    BY <1>1, <2>1 DEF Agree
  <2>4. \A v, p : ValidatorFn(v, p)' <=> ValidatorFn(v, p)
    BY <2>2, <2>3 DEF ValidatorFn, Mine
  <2>5. \A p : Applied(p)' = Applied(p)
    BY <2>1 DEF Applied
  <2> QED
    BY <2>2, <2>4, <2>5
<1>2. CASE UNCHANGED vars
  <2>1. UNCHANGED <<method, nothing_new, leader, proposal, view, vote, rotation, result>>
    BY <1>2 DEF vars
  <2>2. TypeOK' /\ Legible(proposal)'
    BY <2>1 DEF TypeOK, Legible
  <2>3. VotesHonest' /\ EffectApplied'
    BY <1>1, <2>1
    DEF VotesHonest, Agreeing, Disagreeing, Voters, Honest, EffectApplied, Effective, Majority
  <2> QED
    BY <2>2, <2>3
<1>3. CASE Propose
  <2>1. /\ Undecided /\ proposal = NoProposal
        /\ UNCHANGED <<method, nothing_new, leader, vote, rotation, result>>
    BY <1>3 DEF Propose
  <2>2. /\ view' \in [Node -> View] /\ Legible(proposal')
        /\ leader \in Honest => proposal' = LeaderFn(view'[leader], FALSE)
    <3>1. CASE leader \in Honest
      <4>1. PICK v \in View : view' = [view EXCEPT ![leader] = v] /\ proposal' = LeaderFn(v, FALSE)
        BY <1>3, <3>1 DEF Propose
      <4> QED
        BY <4>1, VerdictsLegible DEF TypeOK
    <3>2. CASE leader \notin Honest
      BY <1>3, <3>2, VerdictsLegible DEF Propose, TypeOK
    <3> QED
      BY <3>1, <3>2
  <2>3. \A n \in Node : vote'[n] = "none"
    BY <2>1 DEF VotesHonest
  <2>4. VotesHonest'
    BY <1>1, <2>1, <2>2, <2>3 DEF VotesHonest, Agreeing, Disagreeing, Voters, Honest
  <2>5. EffectApplied'
    BY <2>1 DEF EffectApplied, Effective, Undecided
  <2>6. TypeOK' /\ Legible(proposal)'
    BY <2>1, <2>2 DEF TypeOK, Legible
  <2> QED
    BY <2>4, <2>5, <2>6
<1>4. ASSUME NEW n \in Node, Vote(n) PROVE AdjudicationInductive'
  <2>1. /\ Undecided /\ proposal # NoProposal /\ n \in Voters /\ vote[n] = "none"
        /\ UNCHANGED <<method, nothing_new, leader, proposal, rotation, result>>
    BY <1>4 DEF Vote
  <2>2. /\ view' \in [Node -> View] /\ vote' \in [Node -> {"none", "agree", "disagree"}]
        /\ \A m \in Node \ {n} : view'[m] = view[m] /\ vote'[m] = vote[m]
        /\ n \in Honest => vote'[n] = IF ValidatorFn(view'[n], proposal) THEN "agree" ELSE "disagree"
    <3>1. CASE n \in Honest
      <4>1. PICK v \in View :
                /\ view' = [view EXCEPT ![n] = v]
                /\ vote' = [vote EXCEPT ![n] =
                       IF ValidatorFn(v, proposal) THEN "agree" ELSE "disagree"]
        BY <1>4, <3>1 DEF Vote
      <4> QED
        BY <4>1 DEF TypeOK
    <3>2. CASE n \notin Honest
      BY <1>4, <3>2 DEF Vote, TypeOK
    <3> QED
      BY <3>1, <3>2
  <2>3. leader # n
    BY <2>1 DEF Voters
  <2>4. VotesHonest'
    <3>1. ASSUME NEW m \in Agreeing' \cap Honest PROVE ValidatorFn(view'[m], proposal)
      BY <2>1, <2>2, <3>1 DEF VotesHonest, Agreeing, Voters
    <3>2. ASSUME NEW m \in Disagreeing' \cap Honest PROVE ~ValidatorFn(view'[m], proposal)
      BY <2>1, <2>2, <3>2 DEF VotesHonest, Disagreeing, Voters
    <3>3. leader \in Honest => proposal = LeaderFn(view'[leader], FALSE)
      BY <2>1, <2>2, <2>3 DEF VotesHonest, TypeOK
    <3> QED
      BY <1>1, <2>1, <3>1, <3>2, <3>3 DEF VotesHonest, Honest
  <2>5. EffectApplied'
    BY <2>1 DEF EffectApplied, Effective, Undecided
  <2>6. TypeOK' /\ Legible(proposal)'
    BY <2>1, <2>2 DEF TypeOK, Legible
  <2> QED
    BY <2>4, <2>5, <2>6
<1>5. CASE Accept
  <2>1. /\ proposal # NoProposal /\ Majority /\ result' = Applied(proposal)
        /\ UNCHANGED <<method, nothing_new, leader, proposal, view, vote, rotation>>
    BY <1>5 DEF Accept
  <2>2. TypeOK' /\ Legible(proposal)'
    BY <2>1 DEF TypeOK, Legible
  <2>3. VotesHonest' /\ EffectApplied'
    BY <1>1, <2>1 DEF VotesHonest, Agreeing, Disagreeing, Voters, Honest, EffectApplied, Majority
  <2> QED
    BY <2>2, <2>3
<1>6. CASE Rotate
  <2>1. Undecided /\ UNCHANGED <<method, nothing_new>>
    BY <1>6 DEF Rotate
  <2>2. CASE rotation < MaxRotations
    <3>1. /\ leader' \in Node /\ rotation' = rotation + 1 /\ proposal' = NoProposal
          /\ view' = [n \in Node |-> NoView] /\ vote' = [n \in Node |-> "none"]
          /\ UNCHANGED result
      BY <1>6, <2>2 DEF Rotate, Voters
    <3>2. NoView \in View
      <4>1. [s \in {} |-> None] \in [{} -> Page] /\ {} \in SUBSET Source
        OBVIOUS
      <4> QED
        BY <4>1 DEF NoView, View, Fetch
    <3>3. rotation' \in 0..MaxRotations
      BY <2>2, <3>1, NodeAssumption DEF TypeOK
    <3>4. TypeOK'
      BY <2>1, <3>1, <3>2, <3>3 DEF TypeOK
    <3>5. VotesHonest'
      BY <3>1 DEF VotesHonest, Agreeing, Disagreeing, Voters
    <3>6. EffectApplied'
      BY <2>1, <3>1 DEF EffectApplied, Effective, Undecided
    <3>7. Legible(proposal)'
      BY <3>1, VerdictsLegible DEF Legible
    <3> QED
      BY <3>4, <3>5, <3>6, <3>7
  <2>3. CASE ~(rotation < MaxRotations)
    <3>1. /\ result'.outcome = "undetermined"
          /\ UNCHANGED <<method, nothing_new, leader, rotation, proposal, view, vote>>
      BY <1>6, <2>3 DEF Rotate
    <3>2. TypeOK' /\ Legible(proposal)'
      BY <3>1 DEF TypeOK, Legible
    <3>3. VotesHonest' /\ EffectApplied'
      BY <1>1, <3>1
      DEF VotesHonest, Agreeing, Disagreeing, Voters, Honest, EffectApplied, Effective
    <3> QED
      BY <3>2, <3>3
  <2> QED
    BY <2>2, <2>3
<1> QED
  BY <1>2, <1>3, <1>4, <1>5, <1>6 DEF Next

\* What is proposed can be read, an honest vote is what that validator found, and
\* the effect applied is the one proposed (run_nondet_unsafe).
THEOREM AdjudicationInvariant == Spec => []AdjudicationInductive
BY AdjudicationInit, AdjudicationStep, PTL DEF Spec

-----------------------------------------------------------------------------
(* Theorems                                                                *)

\* An honest node that agreed found the outcome of the proposal, and its winner.
LEMMA AgreedMeansFound ==
    ASSUME AdjudicationInductive, NEW n \in Agreeing \cap Honest
    PROVE  /\ Mine(view[n], proposal) # Error
           /\ Outcome(Mine(view[n], proposal)) = Outcome(proposal)
           /\ Mine(view[n], proposal).decision = proposal.decision
           /\ proposal.decision = "decided" =>
                  Mine(view[n], proposal).winner = proposal.winner
BY DEF AdjudicationInductive, VotesHonest, ValidatorFn, Agree

\* The effect of a transaction is the one that each honest node that agreed
\* found with its own fetch and its own model.
THEOREM OutcomesSeen == Spec => []OutcomeAsSeen
<1>1. ASSUME AdjudicationInductive PROVE OutcomeAsSeen
  <2> SUFFICES ASSUME Effective, NEW n \in Agreeing \cap Honest
               PROVE  /\ Outcome(Mine(view[n], proposal)) = result.outcome
                      /\ result.winner # None =>
                             Mine(view[n], proposal).winner = result.winner
    BY DEF OutcomeAsSeen
  <2> DEFINE mine == Mine(view[n], proposal)
  <2>1. /\ Outcome(mine) = Outcome(proposal) /\ mine.decision = proposal.decision
        /\ proposal.decision = "decided" => mine.winner = proposal.winner
    BY <1>1, AgreedMeansFound
  <2>2. result = Applied(proposal) /\ Legible(proposal)
    BY <1>1 DEF AdjudicationInductive, EffectApplied
  <2>3. proposal.decision = "decided" => proposal.winner \in Candidate
    BY <2>1, DecidedIsEarned DEF Mine
  <2> HIDE DEF mine
  <2>4. result.outcome # "reverted"
    BY <2>2, <2>3, AppliedOutcome, EffectNeedsDecision
  <2>5. result.outcome = Outcome(proposal)
    BY <2>2, <2>4, AppliedOutcome
  <2>6. result.winner # None => proposal.decision = "decided" /\ result.winner = proposal.winner
    BY <2>2, AppliedOutcome, EffectNeedsDecision
  <2> QED
    BY <2>1, <2>5, <2>6 DEF mine
<1> QED
  BY <1>1, AdjudicationInvariant, PTL

\* A pending winner is corroborated in the run of every honest node that agreed,
\* by sources that very node fetched.
THEOREM WinnersCorroborated == Spec => []WinnerCorroborated
<1>1. ASSUME AdjudicationInductive PROVE WinnerCorroborated
  <2> SUFFICES ASSUME result.outcome = "decided_pending", NEW n \in Agreeing \cap Honest
               PROVE  \E cited \in SUBSET DOMAIN view[n].fetched :
                         /\ Cardinality(cited) >= CorroborationMinSources
                         /\ \A s \in cited : \E k \in Interpretation[result.winner].claims :
                                LET row == view[n].answer.rows[result.winner][k]
                                IN  row.verdict = "supported" /\ s \in row.urls
    BY DEF WinnerCorroborated
  <2> DEFINE ok == DOMAIN view[n].fetched
             answer == view[n].answer
             mine == Mine(view[n], proposal)
  <2>1. result = Applied(proposal) /\ Legible(proposal)
    BY <1>1 DEF AdjudicationInductive, EffectApplied, Effective
  <2>2. Outcome(proposal) = "decided_pending"
    BY <2>1, AppliedOutcome
  <2>3. method = "adjudicate" /\ proposal.decision = "decided"
    BY <2>2, EffectNeedsDecision
  <2>4. mine.decision = "decided" /\ mine.winner = proposal.winner
    BY <1>1, <2>3, AgreedMeansFound
  <2>5. /\ mine.winner \in Candidate /\ mine.winner = answer.winner
        /\ Corroborated(answer, ok)
    BY <2>3, <2>4, DecidedIsEarned DEF Mine
  <2>6. result.winner = answer.winner
    BY <2>1, <2>2, <2>4, <2>5, AppliedOutcome
  <2> HIDE DEF mine, ok, answer
  <2> DEFINE cited == Corroborating(answer, answer.winner, ok)
  <2>7. Cardinality(cited) >= CorroborationMinSources
    BY <2>5 DEF Corroborated
  <2>8. cited \subseteq ok
    BY DEF Corroborating, Cited
  <2>9. ASSUME NEW s \in cited
        PROVE  \E k \in Interpretation[answer.winner].claims :
                  /\ answer.rows[answer.winner][k].verdict = "supported"
                  /\ s \in answer.rows[answer.winner][k].urls
    <3>1. PICK k \in Supported(answer, answer.winner, ok) : s \in Cited(answer, answer.winner, k, ok)
      BY <2>9 DEF Corroborating
    <3> QED
      BY <3>1 DEF Supported, ClaimsWith, ClaimVerdict, Cited
  <2> HIDE DEF cited
  <2> QED
    BY <2>6, <2>7, <2>8, <2>9 DEF ok, answer
<1> QED
  BY <1>1, AdjudicationInvariant, PTL

\* A refusal has a cause in the node's own judgment.
THEOREM RefusalsHaveCause == Spec => []RefusedForCause
<1>1. ASSUME AdjudicationInductive PROVE RefusedForCause
  <2> SUFFICES ASSUME proposal.decision \notin {"none", "error", "no_evidence", "unchanged"},
                      NEW n \in Disagreeing \cap Honest,
                      DOMAIN view[n].fetched # {},
                      view[n].answer # Malformed
               PROVE  \/ /\ method = "adjudicate"
                         /\ ~Agree(ScoreVerdict(view[n].answer, DOMAIN view[n].fetched), proposal)
                      \/ /\ method = "resolve_challenge"
                         /\ ~Agree(Arbitrate(view[n]), proposal)
    BY DEF RefusedForCause
  <2> DEFINE mine == Mine(view[n], proposal)
  <2>1. proposal # Error
    BY DEF Error, Blank
  <2>2. Forced(proposal)
    BY DEF Forced
  <2>3. mine = IF method = "adjudicate"
               THEN ScoreVerdict(view[n].answer, DOMAIN view[n].fetched) ELSE Arbitrate(view[n])
    BY <2>2 DEF Mine, LeaderFn, Judge, Unchanged
  <2>4. mine.decision # "error"
    BY <2>3 DEF ScoreVerdict, Decision, Arbitrate
  <2>5. mine # Error
    BY <2>4 DEF Error, Blank
  <2>6. ~ValidatorFn(view[n], proposal)
    BY <1>1 DEF AdjudicationInductive, VotesHonest
  <2>7. ~Agree(mine, proposal)
    BY <2>1, <2>5, <2>6 DEF ValidatorFn
  <2>8. method \in {"adjudicate", "resolve_challenge"}
    BY <1>1 DEF AdjudicationInductive, TypeOK
  <2> QED
    BY <2>3, <2>7, <2>8
<1> QED
  BY <1>1, AdjudicationInvariant, PTL

-----------------------------------------------------------------------------
(* With fewer faulty nodes than a majority needs                           *)

FewFaulty == 2 * Cardinality(Faulty) <= Cardinality(Node)

\* A majority that accepts has an honest validator in it.
LEMMA SomeoneHonest ==
    ASSUME FewFaulty, AdjudicationInductive, Effective
    PROVE  leader \in Honest \/ \E n \in Agreeing : n \in Honest
<1> SUFFICES ASSUME leader \notin Honest, \A n \in Agreeing : n \notin Honest
             PROVE  FALSE
  OBVIOUS
<1>1. leader \in Node /\ IsFiniteSet(Node) /\ Majority
  BY NodeAssumption DEF AdjudicationInductive, TypeOK, EffectApplied
<1>2. Agreeing \subseteq Node /\ leader \notin Agreeing
  BY DEF Agreeing, Voters
<1>3. Agreeing \cup {leader} \subseteq Faulty
  BY <1>1, <1>2 DEF Honest
<1>4. IsFiniteSet(Faulty) /\ IsFiniteSet(Agreeing)
  BY <1>1, <1>2, FS_Subset, NodeAssumption
<1>5. /\ Cardinality(Agreeing \cup {leader}) = Cardinality(Agreeing) + 1
      /\ Cardinality(Agreeing \cup {leader}) <= Cardinality(Faulty)
  BY <1>2, <1>3, <1>4, FS_AddElement, FS_Subset
<1>6. /\ Cardinality(Agreeing) \in Nat /\ Cardinality(Faulty) \in Nat /\ Cardinality(Node) \in Nat
  BY <1>1, <1>4, FS_CardinalityType
<1> QED
  BY <1>1, <1>5, <1>6 DEF Majority, FewFaulty

\* No faulty minority can have a verdict accepted that names an unknown
\* interpretation: the branch of adjudicate that the code calls unreachable is.
THEOREM GarbageNeverAccepted == ASSUME FewFaulty PROVE Spec => []GarbageUnreachable
<1>1. ASSUME AdjudicationInductive PROVE GarbageUnreachable
  <2> SUFFICES ASSUME result.outcome = "reverted" PROVE FALSE
    BY DEF GarbageUnreachable
  <2>1. Effective
    BY DEF Effective
  <2>2. result = Applied(proposal) /\ Legible(proposal)
    BY <1>1, <2>1 DEF AdjudicationInductive, EffectApplied
  <2>3. Outcome(proposal) = "decided_pending" /\ proposal.winner \notin Candidate
    BY <2>2, AppliedOutcome
  <2>4. proposal.decision = "decided"
    BY <2>3, EffectNeedsDecision
  <2>5. CASE leader \in Honest
    <3>1. proposal # NoProposal
      BY <2>4 DEF NoProposal, Blank
    <3>2. proposal = LeaderFn(view[leader], FALSE)
      BY <1>1, <2>5, <3>1 DEF AdjudicationInductive, VotesHonest
    <3> QED
      BY <2>3, <2>4, <3>2, DecidedIsEarned
  <2>6. ASSUME NEW n \in Agreeing, n \in Honest PROVE FALSE
    <3>1. /\ Mine(view[n], proposal).decision = "decided"
          /\ Mine(view[n], proposal).winner = proposal.winner
      BY <1>1, <2>4, <2>6, AgreedMeansFound
    <3> QED
      BY <2>3, <3>1, DecidedIsEarned DEF Mine
  <2> QED
    BY <1>1, <2>1, <2>5, <2>6, SomeoneHonest
<1> QED
  BY <1>1, AdjudicationInvariant, PTL

\* A short-cut that no honest node would have taken is not accepted.
THEOREM ShortCutsSeen == ASSUME FewFaulty PROVE Spec => []UnchangedSeen
<1>1. ASSUME AdjudicationInductive PROVE UnchangedSeen
  <2> SUFFICES ASSUME result.outcome = "unchanged"
               PROVE  nothing_new /\ \A n \in Agreeing \cap Honest : view[n].fetched = Prior
    BY DEF UnchangedSeen
  <2>1. Effective
    BY DEF Effective
  <2>2. result = Applied(proposal) /\ Legible(proposal)
    BY <1>1, <2>1 DEF AdjudicationInductive, EffectApplied
  <2>3. method = "adjudicate" /\ proposal.decision = "unchanged"
    BY <2>2, AppliedOutcome, EffectNeedsDecision
  <2>4. ASSUME NEW v, NEW force, LeaderFn(v, force).decision = "unchanged"
        PROVE  nothing_new /\ v.fetched = Prior
    BY <2>3, <2>4 DEF LeaderFn, Judge, Unchanged, ScoreVerdict, Decision, Error, Blank
  <2>5. ASSUME NEW n \in Agreeing \cap Honest PROVE nothing_new /\ view[n].fetched = Prior
    BY <1>1, <2>3, <2>4, AgreedMeansFound DEF Mine
  <2>6. CASE leader \in Honest
    <3>1. proposal # NoProposal
      BY <2>3 DEF NoProposal, Blank
    <3>2. proposal = LeaderFn(view[leader], FALSE)
      BY <1>1, <2>6, <3>1 DEF AdjudicationInductive, VotesHonest
    <3> QED
      BY <2>3, <2>4, <2>5, <3>2
  <2> QED
    BY <1>1, <2>1, <2>5, <2>6, SomeoneHonest
<1> QED
  BY <1>1, AdjudicationInvariant, PTL

=============================================================================
