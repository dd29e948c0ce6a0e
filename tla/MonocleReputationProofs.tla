------------------------ MODULE MonocleReputationProofs ------------------------
(***************************************************************************)
(* What the aggregator has recorded stays true: no step of the engine       *)
(* changes what an ended round credits, and the engine's ledger is what is  *)
(* recorded and what is still due.                                         *)
(***************************************************************************)
EXTENDS MonocleReputation, MonocleLedgerProofs

\* Nothing that earns or loses reputation changes in round k.
Stands(k) ==
    /\ round_status[k] \in RefundStatus => round_status'[k] = round_status[k]
    /\ round_status[k] \in FinalStatus => round_challenge'[k] = round_challenge[k]

\* Leaving one round changes nothing that any round credits.
LEMMA LeavingStands ==
    ASSUME Inductive, NEW r \in Rounds, NEW s \in FinalStatus \cup RefundStatus,
           NEW m \in MetaType,
           round_status[r] \in {"open"} \cup PendingStatus, r < MaxRound,
           LeaveRound(r, s, m),
           \A k \in Rounds \ {r} : round_challenge'[k] = round_challenge[k],
           NEW k \in Rounds
    PROVE  Stands(k)
<1> DEFINE n == r + 1
<1>1. /\ r = current_round
      /\ n \in Rounds
      /\ round_status' = [round_status EXCEPT ![r] = s, ![n] = "open"]
  BY RoundLeft DEF RoundStatus, Inductive
<1>2. n # r /\ round_status[n] = "none"
  BY <1>1, TimeAssumption DEF OneRoundInFlight, Rounds, Inductive
<1>3. CASE k = r
  BY <1>3 DEF Stands, FinalStatus, RefundStatus, PendingStatus
<1>4. CASE k = n
  BY <1>2, <1>4 DEF Stands, FinalStatus, RefundStatus
<1>5. CASE k \notin {r, n}
  BY <1>1, <1>5 DEF Stands, Inductive, TypeOK
<1> QED
  BY <1>3, <1>4, <1>5

\* Nor does any other step of the engine.
LEMMA StepStands ==
    ASSUME Inductive, [Next]_vars, NEW k \in Rounds
    PROVE  Stands(k)
<1> USE DEF Inductive
<1>1. ASSUME UNCHANGED <<round_status, round_challenge>>
      PROVE  Stands(k)
  BY <1>1 DEF Stands
<1>2. CASE Adjudicate
  <2> DEFINE r == current_round
  <2>1. /\ r \in Rounds /\ round_status[r] = "open" /\ r < MaxRound
        /\ round_challenge' = round_challenge
        /\ meta[r] \in MetaType
    BY <1>2 DEF Adjudicate, TypeOK, RoundRecords, StakedRounds
  <2>2. \/ \E s \in {"unchanged", "inconclusive"} : LeaveRound(r, s, meta[r])
        \/ \E winner \in Ids(r) : Decide(r, winner)
    BY <1>2 DEF Adjudicate, Inconclude
  <2>3. ASSUME NEW s \in {"unchanged", "inconclusive"}, LeaveRound(r, s, meta[r])
        PROVE  Stands(k)
    BY <2>1, <2>3, LeavingStands DEF RefundStatus
  <2>4. ASSUME NEW winner \in Ids(r), Decide(r, winner)
        PROVE  Stands(k)
    BY <2>1, <2>4 DEF Decide, Stands, TypeOK, RefundStatus
  <2> QED
    BY <2>2, <2>3, <2>4
<1>3. ASSUME NEW r \in Rounds, NEW a \in Account, NEW c \in Content, NEW bond \in Amounts,
             Challenge(r, a, c, bond)
      PROVE  Stands(k)
  <2>1. /\ round_status[r] = "decided_pending"
        /\ round_status' = [round_status EXCEPT ![r] = "challenged"]
        /\ \E record : round_challenge' = [round_challenge EXCEPT ![r] = record]
    BY <1>3 DEF Challenge
  <2>2. CASE k = r
    BY <2>1, <2>2 DEF Stands, FinalStatus, RefundStatus
  <2>3. CASE k # r
    BY <2>1, <2>3 DEF Stands, TypeOK
  <2> QED
    BY <2>2, <2>3
<1>4. ASSUME NEW r \in Rounds, ResolveChallenge(r) \/ Finalize(r)
      PROVE  Stands(k)
  <2>1. PICK winner \in Content,
             outcome \in {"none", "upheld", "rejected", "unresolved", "expired"} :
                Electable(r, winner) /\ FinalizeRound(r, winner, outcome)
    BY <1>4, EndsInFinalizeRound
  <2>2. /\ TypeOK' /\ r = current_round /\ r + 1 \in Rounds /\ r + 1 # r /\ status # "closed"
    BY <2>1, FinalizeRoundType, TimeAssumption DEF Rounds
  <2>3. PICK m : LeaveRound(r, "finalized", m)
    BY <2>1 DEF FinalizeRound
  <2>4. m \in MetaType
    <3>1. meta'[r] = m
      BY <2>2, <2>3 DEF LeaveRound, Advances, TypeOK
    <3> QED
      BY <2>2, <3>1 DEF TypeOK
  <2>5. \A j \in Rounds \ {r} : round_challenge'[j] = round_challenge[j]
    BY <2>1 DEF FinalizeRound, TypeOK
  <2>6. round_status[r] \in {"open"} \cup PendingStatus /\ r < MaxRound
    BY <2>1 DEF Electable
  <2> QED
    BY <2>3, <2>4, <2>5, <2>6, LeavingStands DEF FinalStatus
<1>5. ASSUME NEW r \in Rounds, CancelRound(r)
      PROVE  Stands(k)
  <2>1. meta[r] \in MetaType /\ "cancelled" \in RefundStatus
    BY DEF TypeOK, RefundStatus
  <2> QED
    BY <1>5, <2>1, LeavingStands DEF CancelRound, verdictVars
<1>6. ASSUME NEW r \in Rounds, Settle(r)
      PROVE  Stands(k)
  BY <1>6 DEF Settle, verdictVars, Stands, TypeOK, RefundStatus
<1>7. CASE FinalizeClose
  BY <1>7 DEF FinalizeClose, Closable, verdictVars, Stands, TypeOK, RefundStatus
<1>8. ASSUME \/ Tick
             \/ \E a \in Account, c \in Content, amount \in Amounts :
                    SubmitInterpretation(a, c, amount) \/ BackInterpretation(a, c, amount)
             \/ \E r \in Rounds, a \in Claimants : Claim(r, a)
             \/ \E a \in Account, s \in Source :
                    (\E bond \in Amounts : AddSource(a, s, bond)) \/ ClaimSourceBond(a, s)
             \/ \E a \in Account : CloseMonocle(a) \/ CancelClose(a)
             \/ FlushResidual
             \/ UNCHANGED vars
      PROVE  Stands(k)
  <2>1. UNCHANGED <<round_status, round_challenge>>
    BY <1>8
    DEF Tick, SubmitInterpretation, BackInterpretation, Claim, AddSource, ClaimSourceBond,
        CloseMonocle, CancelClose, FlushResidual, vars, roundVars, verdictVars
  <2> QED
    BY <1>1, <2>1
<1> QED
  BY <1>2, <1>3, <1>4, <1>5, <1>6, <1>7, <1>8 DEF Next

\* An ended round credits the same after any step of the engine.
LEMMA CreditStands ==
    ASSUME Inductive, [Next]_vars, NEW r \in Rounds, Final(round_status[r]),
           NEW a \in Account
    PROVE  /\ Final(round_status'[r])
           /\ Credit(GetRoundOutcome(r)', a) = Credit(GetRoundOutcome(r), a)
<1> DEFINE s == round_status[r]
           t == round_status'[r]
           o == GetRoundOutcome(r)
           p == GetRoundOutcome(r)'
<1>1. /\ Frozen(r) /\ Stands(r)
      /\ interpretations'[r] = interpretations[r]
  BY StepFreezes, StepStands DEF Frozen, Final, FinalStatus, RefundStatus
<1>2. Ids(r)' = Ids(r) /\ p.authors = o.authors
  BY <1>1 DEF Ids, GetRoundOutcome
<1>3. s \in RefundStatus \/ s \in FinalStatus
  BY DEF Final
<1>4. CASE s \in RefundStatus
  <2>1. t = s
    BY <1>1, <1>4 DEF Stands
  <2>2. ~Decided(o.status) /\ ~Decided(p.status) /\ p.status = o.status
    BY <1>4, <2>1 DEF Decided, GetRoundOutcome, FinalStatus, RefundStatus
  <2> QED
    BY <1>2, <2>1, <2>2 DEF Credit
<1>5. CASE s \in FinalStatus
  <2>1. t \in FinalStatus /\ p.winner_id = o.winner_id
    BY <1>1, <1>5 DEF Frozen, GetRoundOutcome
  <2>2. p.challenger = o.challenger /\ p.challenge_outcome = o.challenge_outcome
    BY <1>1, <1>5 DEF Stands, GetRoundOutcome
  <2>3. /\ Decided(o.status) /\ Decided(p.status)
        /\ ~Judged(o.status) /\ ~Judged(p.status)
    BY <1>5, <2>1 DEF Decided, Judged, GetRoundOutcome, FinalStatus
  <2> QED
    BY <1>2, <2>1, <2>2, <2>3 DEF Credit, Final
<1> QED
  BY <1>3, <1>4, <1>5

\* The records of the aggregator beside the inductive invariant of the engine.
RecordedInductive ==
    /\ Inductive
    /\ \A k \in DOMAIN recorded_rounds :
           /\ k \in {Engine} \X Rounds
           /\ Final(round_status[k[2]])
           /\ \A a \in Account :
                  recorded_rounds[k][a] = Credit(GetRoundOutcome(k[2]), a)

\* Nothing is recorded at first.
LEMMA RepInitInductive == RepInit => RecordedInductive
BY InitInductive DEF RepInit, RecordedInductive

\* A record made stays true, and a new one is true when it is made.
LEMMA RepStepInductive == RecordedInductive /\ [RepNext]_allVars => RecordedInductive'
<1> SUFFICES ASSUME RecordedInductive, [RepNext]_allVars
             PROVE  RecordedInductive'
  OBVIOUS
<1>1. CASE [Next]_vars /\ UNCHANGED recVars
  <2>1. Inductive'
    BY <1>1, StepInductive DEF RecordedInductive
  <2>2. recorded_rounds' = recorded_rounds
    BY <1>1 DEF recVars
  <2>3. ASSUME NEW k \in DOMAIN recorded_rounds'
        PROVE  /\ k \in {Engine} \X Rounds
               /\ Final(round_status'[k[2]])
               /\ \A a \in Account :
                      recorded_rounds'[k][a] = Credit(GetRoundOutcome(k[2])', a)
    <3>1. /\ k \in {Engine} \X Rounds /\ k[2] \in Rounds
          /\ Final(round_status[k[2]])
          /\ \A a \in Account :
                 recorded_rounds[k][a] = Credit(GetRoundOutcome(k[2]), a)
      BY <2>2, <2>3 DEF RecordedInductive
    <3>2. ASSUME NEW a \in Account
          PROVE  /\ Final(round_status'[k[2]])
                 /\ Credit(GetRoundOutcome(k[2])', a) = Credit(GetRoundOutcome(k[2]), a)
      BY <1>1, <3>1, CreditStands DEF RecordedInductive
    <3> QED
      BY <2>2, <3>1, <3>2, AccountAssumption
  <2> QED
    BY <2>1, <2>3 DEF RecordedInductive
<1>2. ASSUME NEW spelled \in Spelling, NEW r \in Rounds, RecordRound(spelled, r)
      PROVE  RecordedInductive'
  <2>1. UNCHANGED vars
    BY <1>2 DEF RecordRound
  <2>2. Inductive'
    BY <2>1, StepInductive DEF RecordedInductive
  <2>3. /\ round_status' = round_status
        /\ \A j \in Rounds : GetRoundOutcome(j)' = GetRoundOutcome(j)
    BY <2>1 DEF vars, roundVars, stakeVars, verdictVars, GetRoundOutcome, Ids
  <2> DEFINE key == <<Engine, r>>
             credit == [a \in Account |-> Credit(GetRoundOutcome(r), a)]
  <2>4. /\ recorded_rounds' =
               [k \in DOMAIN recorded_rounds \cup {key} |->
                   IF k = key THEN credit ELSE recorded_rounds[k]]
        /\ Final(round_status[r])
    BY <1>2 DEF RecordRound, Key, GetRoundOutcome
  <2>5. ASSUME NEW k \in DOMAIN recorded_rounds'
        PROVE  /\ k \in {Engine} \X Rounds
               /\ Final(round_status'[k[2]])
               /\ \A a \in Account :
                      recorded_rounds'[k][a] = Credit(GetRoundOutcome(k[2])', a)
    <3>1. CASE k = key
      <4>1. k \in {Engine} \X Rounds /\ k[2] = r /\ recorded_rounds'[k] = credit
        BY <2>4, <3>1
      <4> QED
        BY <2>3, <2>4, <4>1
    <3>2. CASE k # key
      <4>1. k \in DOMAIN recorded_rounds /\ recorded_rounds'[k] = recorded_rounds[k]
        BY <2>4, <2>5, <3>2
      <4> QED
        BY <2>3, <4>1 DEF RecordedInductive
    <3> QED
      BY <3>1, <3>2
  <2> QED
    BY <2>2, <2>5 DEF RecordedInductive
<1> QED
  BY <1>1, <1>2 DEF RepNext, allVars

\* The invariant implies what the run checks.
LEMMA RecordedImplies == RecordedInductive => RecordedOutcomeStands
<1> SUFFICES ASSUME RecordedInductive, NEW r \in Rounds, NEW spelled \in Spelling,
                    Key(spelled, r) \in DOMAIN recorded_rounds
             PROVE  /\ Final(round_status[r])
                    /\ \A a \in Account :
                           Credit(GetRoundOutcome(r), a) = recorded_rounds[Key(spelled, r)][a]
  BY DEF RecordedOutcomeStands
<1>1. Key(spelled, r)[2] = r
  BY DEF Key
<1> QED
  BY <1>1 DEF RecordedInductive

\* What was recorded of a round is what the engine will always answer.
THEOREM RecordsStandForEver == RepSpec => []RecordedOutcomeStands
BY RepInitInductive, RepStepInductive, RecordedImplies, PTL DEF RepSpec

-----------------------------------------------------------------------------
(* The two ledgers                                                         *)

\* Signals are the counters both ledgers keep.
LEMMA SignalNames ==
    Signals = {"decided_wins", "decided_losses", "inconclusive_participations",
               "challenges_won", "challenges_lost"}
BY DEF Signals, NoReputation

\* Whatever an outcome credits is a number, before and after a step.
LEMMA CreditIsNat ==
    ASSUME NEW r \in Rounds, NEW a \in Account
    PROVE  /\ Credit(GetRoundOutcome(r), a) \in [DOMAIN Blank -> Nat]
           /\ Credit(GetRoundOutcome(r)', a) \in [DOMAIN Blank -> Nat]
<1>1. ASSUME NEW o, DOMAIN o.authors \subseteq Content
      PROVE  Credit(o, a) \in [DOMAIN Blank -> Nat]
  <2> DEFINE own == {c \in DOMAIN o.authors : o.authors[c] = a}
             won == own \cap {o.winner_id}
             challenged == Decided(o.status) /\ o.challenger = a
             Count(S, holds) == IF holds THEN Cardinality(S) ELSE 0
  <2>1. /\ Cardinality(own) \in Nat
        /\ Cardinality(won) \in Nat
        /\ Cardinality(own \ won) \in Nat
    BY <1>1, ContentsCounted
  <2>2. Credit(o, a) =
            [decided_wins |-> Count(won, Decided(o.status)),
             decided_losses |-> Count(own \ won, Decided(o.status)),
             inconclusive_participations |-> Count(own, Judged(o.status)),
             challenges_won |->
                 IF challenged /\ o.challenge_outcome = "upheld" THEN 1 ELSE 0,
             challenges_lost |->
                 IF challenged /\ o.challenge_outcome = "rejected" THEN 1 ELSE 0,
             rounds_recorded |->
                 Count(own, Decided(o.status) \/ Judged(o.status))]
    BY DEF Credit
  <2> HIDE DEF own, won, challenged
  <2> QED
    BY <2>1, <2>2 DEF Blank
<1>2. /\ DOMAIN GetRoundOutcome(r).authors \subseteq Content
      /\ DOMAIN GetRoundOutcome(r)'.authors \subseteq Content
  BY DEF GetRoundOutcome, Ids
<1> QED
  BY <1>1, <1>2

\* A round that is cancelled credits nothing.
LEMMA CancelledCreditsNothing ==
    ASSUME NEW r \in Rounds, NEW a \in Account, round_status'[r] = "cancelled"
    PROVE  \A f \in Signals : Credit(GetRoundOutcome(r)', a)[f] = 0
<1> DEFINE o == GetRoundOutcome(r)'
<1>1. ~Decided(o.status) /\ ~Judged(o.status)
  BY DEF GetRoundOutcome, Decided, Judged, FinalStatus
<1>2. /\ Credit(o, a).decided_wins = 0
      /\ Credit(o, a).decided_losses = 0
      /\ Credit(o, a).inconclusive_participations = 0
      /\ Credit(o, a).challenges_won = 0
      /\ Credit(o, a).challenges_lost = 0
  BY <1>1 DEF Credit
<1> QED
  BY <1>2, SignalNames

\* A round that ends without a winner credits its participations.
LEMMA JudgedCredits ==
    ASSUME TypeOK, NEW r \in Rounds, NEW a \in Account,
           round_status'[r] \in {"inconclusive", "unchanged"},
           UNCHANGED interpretations, reputation' = CreditParticipations(r)
    PROVE  \A f \in Signals :
               reputation'[a][f] = reputation[a][f] + Credit(GetRoundOutcome(r)', a)[f]
<1> DEFINE o == GetRoundOutcome(r)'
           n == Cardinality(Authored(r, a))
<1>1. ~Decided(o.status) /\ Judged(o.status)
  BY DEF GetRoundOutcome, Decided, Judged, FinalStatus
<1>2. {c \in DOMAIN o.authors : o.authors[c] = a} = Authored(r, a)
  BY AccountAssumption DEF GetRoundOutcome, Ids, Authored
<1>3. /\ Credit(o, a).decided_wins = 0
      /\ Credit(o, a).decided_losses = 0
      /\ Credit(o, a).inconclusive_participations = n
      /\ Credit(o, a).challenges_won = 0
      /\ Credit(o, a).challenges_lost = 0
  BY <1>1, <1>2 DEF Credit
<1>4. reputation[a] \in ReputationType
  BY DEF TypeOK
<1>5. /\ reputation'[a].decided_wins = reputation[a].decided_wins + 0
      /\ reputation'[a].decided_losses = reputation[a].decided_losses + 0
      /\ reputation'[a].challenges_won = reputation[a].challenges_won + 0
      /\ reputation'[a].challenges_lost = reputation[a].challenges_lost + 0
      /\ reputation'[a].inconclusive_participations
             = reputation[a].inconclusive_participations + n
  BY <1>4, ParticipationCounts DEF ReputationType
<1> HIDE DEF n
<1> QED
  BY <1>3, <1>5, SignalNames

\* A round that is won credits its authors and its challenger.
LEMMA DecidedCredits ==
    ASSUME Inductive, NEW r \in Rounds, NEW a \in Account, NEW winner \in Content, NEW outcome,
           RoundWon(r, winner, outcome), FinalizeRound(r, winner, outcome)
    PROVE  \A f \in Signals :
               reputation'[a][f] = reputation[a][f] + Credit(GetRoundOutcome(r)', a)[f]
<1> DEFINE o == GetRoundOutcome(r)'
           d == Cardinality(Authored(r, a) \cap {winner})
           n == Cardinality(Losing(r, a, winner))
           u == IF WonChallenge(r, a, outcome) THEN 1 ELSE 0
           v == IF LostChallenge(r, a, outcome) THEN 1 ELSE 0
<1>1. /\ o.status = "finalized"
      /\ o.winner_id = winner
      /\ o.challenger = round_challenge[r].challenger
      /\ o.challenge_outcome = outcome
      /\ interpretations'[r] = interpretations[r]
  BY DEF RoundWon, FinalizeRound, GetRoundOutcome, Inductive, TypeOK, MetaType, ChallengeType
<1>2. Decided(o.status) /\ ~Judged(o.status)
  BY <1>1 DEF Decided, Judged, FinalStatus
<1>3. {c \in DOMAIN o.authors : o.authors[c] = a} = Authored(r, a)
  BY <1>1, AccountAssumption DEF GetRoundOutcome, Ids, Authored
<1>4. Authored(r, a) \ (Authored(r, a) \cap {winner}) = Losing(r, a, winner)
  BY DEF Losing
<1>5. /\ Credit(o, a).decided_wins = d
      /\ Credit(o, a).decided_losses = n
      /\ Credit(o, a).inconclusive_participations = 0
      /\ Credit(o, a).challenges_won = u
      /\ Credit(o, a).challenges_lost = v
  <2> HIDE DEF o
  <2>1. /\ Credit(o, a).decided_wins = d
        /\ Credit(o, a).decided_losses = n
        /\ Credit(o, a).inconclusive_participations = 0
    BY <1>1, <1>2, <1>3, <1>4 DEF Credit
  <2>2. /\ Credit(o, a).challenges_won = u
        /\ Credit(o, a).challenges_lost = v
    BY <1>1, <1>2 DEF Credit, WonChallenge, LostChallenge
  <2> QED
    BY <2>1, <2>2
<1>6. reputation[a] \in ReputationType
  BY DEF Inductive, TypeOK
<1>7. /\ reputation'[a].decided_wins = reputation[a].decided_wins + d
      /\ reputation'[a].decided_losses = reputation[a].decided_losses + n
      /\ reputation'[a].challenges_won = reputation[a].challenges_won + u
      /\ reputation'[a].challenges_lost = reputation[a].challenges_lost + v
      /\ reputation'[a].inconclusive_participations
             = reputation[a].inconclusive_participations + 0
  <2>1. reputation' = CreditDecision(r, winner, outcome) /\ TypeOK
    BY DEF FinalizeRound, Inductive
  <2> QED
    <3>1. reputation[a].inconclusive_participations + 0
              = reputation[a].inconclusive_participations
      BY <1>6 DEF ReputationType
    <3>2. /\ reputation'[a].decided_wins = reputation[a].decided_wins + d
          /\ reputation'[a].decided_losses = reputation[a].decided_losses + n
          /\ reputation'[a].challenges_won = reputation[a].challenges_won + u
          /\ reputation'[a].challenges_lost = reputation[a].challenges_lost + v
          /\ reputation'[a].inconclusive_participations
                 = reputation[a].inconclusive_participations
      BY <2>1, DecisionCounts
    <3> QED
      BY <3>1, <3>2
<1> HIDE DEF o, d, n, u, v
<1>8. \A f \in Signals : reputation'[a][f] = reputation[a][f] + Credit(o, a)[f]
  BY <1>5, <1>7, SignalNames
<1> QED
  BY <1>8 DEF o

\* What a step of the engine adds to the counters is what the round it ends, if
\* any, credits.
EndsAndCredits(r) ==
    /\ r \notin Ended
    /\ Ended' = Ended \cup {r}
    /\ \A a \in Account, f \in Signals :
           reputation'[a][f] = reputation[a][f] + Credit(GetRoundOutcome(r)', a)[f]

\* When round r ends and its successor opens, no other round ends.
LEMMA OnlyOneEnds ==
    ASSUME NEW r \in Rounds, r \notin Ended, r \in Ended',
           \A k \in Rounds \ {r} : RoundOpened(k) \/ RoundKept(k)
    PROVE  Ended' = Ended \cup {r}
<1>1. \A k \in Rounds \ {r} : k \in Ended' <=> k \in Ended
  BY DEF Ended, RoundOpened, RoundKept, FinalStatus, RefundStatus
<1> QED
  BY <1>1 DEF Ended

\* Every step ends one round and credits it, or none.
LEMMA StepEnds ==
    ASSUME Inductive, [Next]_vars
    PROVE  \/ \E r \in Rounds : EndsAndCredits(r)
           \/ Ended' = Ended /\ reputation' = reputation
<1> USE DEF Inductive
<1> DEFINE Quiet == Ended' = Ended /\ reputation' = reputation
<1>1. ASSUME NEW r \in Rounds, round_status[r] = "open", round_status'[r] = "cancelled",
             \A k \in Rounds \ {r} : RoundOpened(k) \/ RoundKept(k),
             reputation' = reputation
      PROVE  EndsAndCredits(r)
  <2>1. r \notin Ended /\ r \in Ended'
    BY <1>1 DEF Ended, FinalStatus, RefundStatus
  <2>2. \A a \in Account, f \in Signals :
            reputation'[a][f] = reputation[a][f] + Credit(GetRoundOutcome(r)', a)[f]
    <3>1. \A a \in Account, f \in Signals : reputation[a][f] \in Nat
      BY SignalNames DEF TypeOK, ReputationType
    <3> QED
      BY <1>1, <3>1, CancelledCreditsNothing
  <2> QED
    BY <1>1, <2>1, <2>2, OnlyOneEnds DEF EndsAndCredits
<1>2. CASE Adjudicate
  <2> DEFINE r == current_round
  <2>1. r \in Rounds /\ round_status[r] = "open" /\ UNCHANGED interpretations
    BY <1>2, AdjudicationEnds
  <2>2. r \notin Ended
    BY <2>1 DEF Ended, FinalStatus, RefundStatus
  <2>3. CASE /\ round_status'[r] \in {"unchanged", "inconclusive"}
             /\ RoundOpened(r + 1)
             /\ \A k \in Rounds \ {r, r + 1} : RoundKept(k)
             /\ reputation' = CreditParticipations(r)
    <3>1. r \in Ended'
      BY <2>1, <2>3 DEF Ended, RefundStatus
    <3>2. Ended' = Ended \cup {r}
      BY <2>1, <2>2, <2>3, <3>1, OnlyOneEnds
    <3> QED
      BY <2>1, <2>2, <2>3, <3>2, JudgedCredits DEF EndsAndCredits
  <2>4. CASE /\ round_status' = [round_status EXCEPT ![r] = "decided_pending"]
             /\ reputation' = reputation
    BY <2>1, <2>4 DEF Ended, TypeOK, FinalStatus, RefundStatus
  <2> QED
    BY <1>2, <2>1, <2>3, <2>4, AdjudicationEnds
<1>3. ASSUME NEW r \in Rounds, ResolveChallenge(r) \/ Finalize(r)
      PROVE  EndsAndCredits(r)
  <2>1. PICK winner \in Content, outcome \in Outcomes :
            RoundWon(r, winner, outcome) /\ FinalizeRound(r, winner, outcome)
    BY <1>3, WinningChanges
  <2>2. \A k \in Rounds \ {r} : RoundOpened(k) \/ RoundKept(k)
    BY <1>3, WinningChanges
  <2>3. r \notin Ended /\ r \in Ended'
    BY <2>1 DEF RoundWon, Ended, PendingStatus, FinalStatus, RefundStatus
  <2> QED
    BY <2>1, <2>2, <2>3, OnlyOneEnds, DecidedCredits DEF EndsAndCredits
<1>4. ASSUME NEW r \in Rounds, CancelRound(r)
      PROVE  EndsAndCredits(r)
  <2>1. reputation' = reputation
    BY <1>4 DEF CancelRound, verdictVars
  <2> QED
    BY <1>1, <1>4, <2>1, CancellationEnds
<1>5. CASE FinalizeClose
  <2>1. /\ current_round \in Rounds
        /\ round_status[current_round] = "open"
        /\ round_status'[current_round] = "cancelled"
        /\ reputation' = reputation
    BY <1>5 DEF FinalizeClose, Closable, verdictVars, TypeOK
  <2> QED
    BY <1>1, <1>5, <2>1, ClosingChanges
<1>6. ASSUME NEW r \in Rounds, Settle(r)
      PROVE  Quiet
  BY <1>6 DEF Settle, verdictVars, Ended, TypeOK, FinalStatus
<1>7. ASSUME NEW r \in Rounds, NEW a \in Account, NEW c \in Content, NEW bond \in Amounts,
             Challenge(r, a, c, bond)
      PROVE  Quiet
  BY <1>7 DEF Challenge, Ended, TypeOK, FinalStatus, RefundStatus
<1>8. CASE UNCHANGED <<round_status, reputation>>
  BY <1>8 DEF Ended
<1> QED
  BY <1>2, <1>3, <1>4, <1>5, <1>6, <1>7, <1>8
  DEF Next, Tick, SubmitInterpretation, BackInterpretation, Claim, AddSource, ClaimSourceBond,
      CloseMonocle, CancelClose, FlushResidual, vars, roundVars, verdictVars

\* What is still to be recorded for an account, and what an account has.
Due(a, f) == SumFunctionOnSet([r \in Rounds |-> Credit(GetRoundOutcome(r), a)[f]], Unrecorded)

RecordsType == records \in [Account -> [DOMAIN Blank -> Nat]]

\* Signals are fields of a record of the aggregator.
LEMMA SignalsRecorded == Signals \subseteq DOMAIN Blank
BY SignalNames DEF Blank

\* record_round moves what is due into the records.
LEMMA RecordingMoves ==
    ASSUME RecordedInductive, RecordsType, NEW spelled \in Spelling, NEW r \in Rounds,
           RecordRound(spelled, r), NEW a \in Account, NEW f \in Signals
    PROVE  records'[a][f] + Due(a, f)' = records[a][f] + Due(a, f)
<1> DEFINE c == [k \in Rounds |-> Credit(GetRoundOutcome(k), a)[f]]
           d == [k \in Rounds |-> Credit(GetRoundOutcome(k)', a)[f]]
           S == Unrecorded
<1>1. UNCHANGED vars /\ <<Engine, r>> \notin DOMAIN recorded_rounds /\ Final(round_status[r])
  BY DEF RecordRound, Key, GetRoundOutcome
<1>2. DOMAIN recorded_rounds' = DOMAIN recorded_rounds \cup {<<Engine, r>>}
  BY DEF RecordRound, Key
<1>3. d = c
  <2>1. \A k \in Rounds : GetRoundOutcome(k)' = GetRoundOutcome(k)
    BY <1>1 DEF vars, roundVars, stakeVars, verdictVars, GetRoundOutcome, Ids
  <2> QED
    BY <2>1
<1>4. Ended' = Ended
  BY <1>1 DEF vars, roundVars, Ended
<1>5. r \in S /\ Unrecorded' = S \ {r}
  BY <1>1, <1>2, <1>4 DEF Unrecorded, Ended, Final
<1>6. f \in DOMAIN Blank
  BY SignalsRecorded
<1>7. records'[a][f] = records[a][f] + c[r] /\ records[a][f] \in Nat
  BY <1>6 DEF RecordRound, RecordsType
<1>8. S \subseteq Rounds /\ IsFiniteSet(S)
  BY RoundsCounted DEF Unrecorded, Ended
<1>9. \A k \in Rounds : c[k] \in Int
  BY <1>6, CreditIsNat
<1>10. Due(a, f)' = SumFunctionOnSet(c, S \ {r})
  BY <1>3, <1>5 DEF Due
<1>11. Due(a, f) = SumFunctionOnSet(c, S)
  BY DEF Due
<1> HIDE DEF c, d, S
<1>12. SumFunctionOnSet(c, S) = c[r] + SumFunctionOnSet(c, S \ {r})
  BY <1>5, <1>8, <1>9, SumRemove
<1>13. SumFunctionOnSet(c, S \ {r}) \in Int /\ c[r] \in Int
  <2>1. IsFiniteSet(S \ {r}) /\ r \in Rounds
    BY <1>8, FS_Subset
  <2> QED
    BY <1>8, <1>9, <2>1, SumInt
<1> QED
  BY <1>7, <1>10, <1>11, <1>12, <1>13

\* A step of the engine adds to what is due what it adds to the counters.
LEMMA EngineAddsDue ==
    ASSUME RecordedInductive, [Next]_vars, UNCHANGED recVars,
           NEW a \in Account, NEW f \in Signals
    PROVE  reputation'[a][f] - Due(a, f)' = reputation[a][f] - Due(a, f)
<1> DEFINE c == [k \in Rounds |-> Credit(GetRoundOutcome(k), a)[f]]
           d == [k \in Rounds |-> Credit(GetRoundOutcome(k)', a)[f]]
           S == Unrecorded
<1>1. \A k \in Rounds : c[k] \in Int /\ d[k] \in Int
  BY SignalsRecorded, CreditIsNat
<1>2. S \subseteq Ended /\ S \subseteq Rounds /\ IsFiniteSet(S)
  BY RoundsCounted DEF Unrecorded, Ended
<1>3. \A k \in S : d[k] = c[k]
  BY <1>2, CreditStands DEF RecordedInductive, Ended, Final
<1>4. DOMAIN recorded_rounds' = DOMAIN recorded_rounds
  BY DEF recVars
<1>5. Due(a, f) = SumFunctionOnSet(c, S) /\ Due(a, f)' = SumFunctionOnSet(d, Unrecorded')
  BY DEF Due
<1>6. SumFunctionOnSet(d, S) = SumFunctionOnSet(c, S) /\ SumFunctionOnSet(c, S) \in Int
  <2> HIDE DEF c, d, S
  <2> QED
    BY <1>1, <1>2, <1>3, SumEqual, SumInt
<1>7. reputation[a][f] \in Int
  BY SignalNames DEF RecordedInductive, Inductive, TypeOK, ReputationType
<1>8. ASSUME NEW r \in Rounds, EndsAndCredits(r)
      PROVE  reputation'[a][f] - Due(a, f)' = reputation[a][f] - Due(a, f)
  <2>1. <<Engine, r>> \notin DOMAIN recorded_rounds
    <3>1. ~Final(round_status[r])
      BY <1>8 DEF EndsAndCredits, Ended, Final
    <3> QED
      BY <3>1 DEF RecordedInductive
  <2>2. Unrecorded' = S \cup {r} /\ r \notin S
    BY <1>4, <1>8, <2>1 DEF EndsAndCredits, Unrecorded
  <2>3. reputation'[a][f] = reputation[a][f] + d[r]
    BY <1>8 DEF EndsAndCredits
  <2> HIDE DEF c, d, S
  <2>4. SumFunctionOnSet(d, S \cup {r}) = d[r] + SumFunctionOnSet(d, S)
    <3>1. \A k \in S \cup {r} : d[k] \in Int
      BY <1>1, <1>2
    <3> QED
      BY <1>2, <2>2, <3>1, SumAdd
  <2>5. d[r] \in Int
    BY <1>1
  <2> QED
    BY <1>5, <1>6, <1>7, <2>2, <2>3, <2>4, <2>5
<1>9. CASE Ended' = Ended /\ reputation' = reputation
  <2>1. Unrecorded' = S
    BY <1>4, <1>9 DEF Unrecorded
  <2> HIDE DEF c, d, S
  <2> QED
    BY <1>5, <1>6, <1>9, <2>1
<1> QED
  BY <1>8, <1>9, StepEnds DEF RecordedInductive

\* The two ledgers beside what the records need.
AgreeInductive ==
    /\ RecordedInductive
    /\ RecordsType
    /\ \A a \in Account, f \in Signals : reputation[a][f] = records[a][f] + Due(a, f)

\* Both ledgers are empty at first.
LEMMA InitAgrees == RepInit => AgreeInductive
<1> SUFFICES ASSUME RepInit PROVE AgreeInductive
  OBVIOUS
<1>1. RecordedInductive
  BY RepInitInductive
<1>2. RecordsType
  BY DEF RepInit, RecordsType, Blank
<1>3. Unrecorded = {}
  BY DEF RepInit, Init, Unrecorded, Ended, FinalStatus, RefundStatus
<1>4. ASSUME NEW a \in Account, NEW f \in Signals
      PROVE  reputation[a][f] = records[a][f] + Due(a, f)
  <2>1. Due(a, f) = 0
    BY <1>3, SumEmpty DEF Due
  <2>2. reputation[a][f] = 0 /\ records[a][f] = 0
    BY SignalNames DEF RepInit, Init, NoReputation, Blank
  <2> QED
    BY <2>1, <2>2
<1> QED
  BY <1>1, <1>2, <1>4 DEF AgreeInductive

\* What is due to an account can be added up.
LEMMA DueIsInt ==
    ASSUME NEW a \in Account, NEW f \in Signals
    PROVE  Due(a, f) \in Int /\ Due(a, f)' \in Int
<1> DEFINE c == [k \in Rounds |-> Credit(GetRoundOutcome(k), a)[f]]
           d == [k \in Rounds |-> Credit(GetRoundOutcome(k)', a)[f]]
<1>1. \A k \in Rounds : c[k] \in Int /\ d[k] \in Int
  BY SignalsRecorded, CreditIsNat
<1>2. /\ Unrecorded \subseteq Rounds /\ IsFiniteSet(Unrecorded)
      /\ Unrecorded' \subseteq Rounds /\ IsFiniteSet(Unrecorded')
  BY RoundsCounted DEF Unrecorded, Ended
<1>3. SumFunctionOnSet(c, Unrecorded) \in Int /\ SumFunctionOnSet(d, Unrecorded') \in Int
  <2> HIDE DEF c, d
  <2> QED
    BY <1>1, <1>2, SumInt
<1> QED
  BY <1>3 DEF Due

\* A credit in the engine is due until the aggregator records it, and only then
\* leaves what is due.
LEMMA StepAgrees == AgreeInductive /\ [RepNext]_allVars => AgreeInductive'
<1> SUFFICES ASSUME AgreeInductive, [RepNext]_allVars PROVE AgreeInductive'
  OBVIOUS
<1> USE DEF AgreeInductive
<1>1. RecordedInductive'
  BY RepStepInductive
<1>2. ASSUME NEW a \in Account, NEW f \in Signals
      PROVE  /\ reputation[a][f] \in Nat /\ reputation'[a][f] \in Nat
             /\ records[a][f] \in Nat
             /\ reputation[a][f] = records[a][f] + Due(a, f)
  <2>1. reputation[a] \in ReputationType /\ reputation'[a] \in ReputationType
    BY <1>1 DEF RecordedInductive, Inductive, TypeOK
  <2> QED
    BY <2>1, SignalNames, SignalsRecorded DEF ReputationType, RecordsType
<1>3. CASE [Next]_vars /\ UNCHANGED recVars
  <2>1. records' = records
    BY <1>3 DEF recVars
  <2>2. ASSUME NEW a \in Account, NEW f \in Signals
        PROVE  reputation'[a][f] = records'[a][f] + Due(a, f)'
    <3>1. reputation'[a][f] - Due(a, f)' = reputation[a][f] - Due(a, f)
      BY <1>3, EngineAddsDue
    <3> QED
      BY <1>2, <2>1, <3>1, DueIsInt
  <2> QED
    BY <1>1, <2>1, <2>2 DEF RecordsType
<1>4. ASSUME NEW spelled \in Spelling, NEW r \in Rounds, RecordRound(spelled, r)
      PROVE  AgreeInductive'
  <2>1. reputation' = reputation
    BY <1>4 DEF RecordRound, vars, verdictVars
  <2>2. RecordsType'
    <3> DEFINE credit == [a \in Account |-> Credit(GetRoundOutcome(r), a)]
    <3>1. records' = [a \in Account |-> [f \in DOMAIN Blank |-> records[a][f] + credit[a][f]]]
      BY <1>4 DEF RecordRound
    <3>2. \A a \in Account, f \in DOMAIN Blank : records[a][f] \in Nat /\ credit[a][f] \in Nat
      BY CreditIsNat DEF RecordsType
    <3> HIDE DEF credit
    <3> QED
      BY <3>1, <3>2 DEF RecordsType
  <2>3. ASSUME NEW a \in Account, NEW f \in Signals
        PROVE  reputation'[a][f] = records'[a][f] + Due(a, f)'
    BY <1>2, <1>4, <2>1, RecordingMoves
  <2> QED
    BY <1>1, <2>2, <2>3
<1> QED
  BY <1>3, <1>4 DEF RepNext, allVars

\* The engine's counters are the aggregator's records and what it would still
\* apply: every ended round counts exactly once, whoever records it, when, in
\* which order and under which spelling of the engine's address.
THEOREM TwoLedgersAgree == RepSpec => []LedgersAgree
<1>1. AgreeInductive => LedgersAgree
  BY DEF AgreeInductive, LedgersAgree, Due
<1> QED
  BY <1>1, InitAgrees, StepAgrees, PTL DEF RepSpec

===============================================================================
