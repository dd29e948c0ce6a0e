---------------------------- MODULE MonocleProofs ----------------------------
(***************************************************************************)
(* Every method of the engine preserves Inductive; the safety properties   *)
(* that do not speak of sums follow, and so does that the engine           *)
(* implements LiveFeed.                                                    *)
(***************************************************************************)
EXTENDS MonocleInvariant, FiniteSetTheorems, TLAPS

(* Arithmetic and finite sets                                              *)

\* Rounding a share down keeps what was paid pro rata.
LEMMA FloorShare ==
    ASSUME NEW paid \in Nat, NEW taken \in Nat, NEW total \in Nat \ {0}, NEW pot \in Nat,
           NEW stake \in Nat,
           paid * total <= taken * pot
    PROVE  LET share == (stake * pot) \div total IN
           /\ share \in Nat
           /\ (paid + share) * total <= (taken + stake) * pot
           /\ taken + stake < total => paid + share <= pot
<1> DEFINE share == (stake * pot) \div total
<1>1. stake * pot \in Nat
  OBVIOUS
<1>2. share \in Nat /\ share * total <= stake * pot
  <2>1. \A m \in Nat : m \div total \in Nat /\ (m \div total) * total <= m
    OBVIOUS
  <2> QED
    BY <1>1, <2>1
<1> HIDE DEF share
<1>3. (paid + share) * total <= (taken + stake) * pot
  <2>1. (paid + share) * total = paid * total + share * total
    BY <1>2
  <2>2. (taken + stake) * pot = taken * pot + stake * pot
    OBVIOUS
  <2>3. paid * total \in Nat /\ share * total \in Nat /\ taken * pot \in Nat
    BY <1>2
  <2> QED
    BY <1>1, <1>2, <2>1, <2>2, <2>3
<1>4. ASSUME taken + stake < total
      PROVE  paid + share <= pot
  <2>1. (taken + stake) * pot <= total * pot
    BY <1>4
  <2>2. (paid + share) * total <= total * pot
    BY <1>2, <1>3, <2>1
  <2>3. ASSUME NEW x \in Nat, x > pot
        PROVE  x * total > total * pot
    BY <2>3
  <2>4. paid + share \in Nat
    BY <1>2
  <2> QED
    BY <2>2, <2>3, <2>4
<1> QED
  BY <1>2, <1>3, <1>4 DEF share

\* Counting contents gives a number.
LEMMA ContentsCounted ==
    ASSUME NEW S \in SUBSET Content
    PROVE  Cardinality(S) \in Nat
BY FS_Subset, FS_CardinalityType, ContentAssumption

-----------------------------------------------------------------------------
(* Types                                                                   *)

\* The guards of LeaveRound always hold: only the current round of an engine
\* that is not closed is ever left.
LEMMA RoundLeft ==
    ASSUME TypeOK, OneRoundInFlight,
           NEW r \in Rounds, NEW s \in RoundStatus, NEW m \in MetaType,
           round_status[r] \in {"open"} \cup PendingStatus,
           r < MaxRound,
           LeaveRound(r, s, m)
    PROVE  /\ r = current_round
           /\ r + 1 \in Rounds
           /\ status # "closed"
           /\ current_round' = r + 1
           /\ round_status' = [round_status EXCEPT ![r] = s, ![r + 1] = "open"]
           /\ meta' = [meta EXCEPT ![r] = m, ![r + 1] = BlankMeta(now)]
           /\ round_status' \in [Rounds -> RoundStatus]
           /\ meta' \in [Rounds -> MetaType]
<1>1. r = current_round /\ status # "closed"
  <2>1. r \in Nat /\ current_round \in Nat
    BY TimeAssumption DEF TypeOK, Rounds
  <2>2. round_status[r] \notin {"none", "cancelled"} \cup FinalStatus \cup RefundStatus
    BY DEF PendingStatus, FinalStatus, RefundStatus
  <2> QED
    BY <2>1, <2>2 DEF OneRoundInFlight
<1>2. r + 1 \in Rounds
  BY TimeAssumption DEF Rounds
<1>3. /\ current_round' = r + 1
      /\ round_status' = [round_status EXCEPT ![r] = s, ![r + 1] = "open"]
      /\ meta' = [meta EXCEPT ![r] = m, ![r + 1] = BlankMeta(now)]
  BY <1>1 DEF LeaveRound, Advances
<1>4. BlankMeta(now) \in MetaType
  BY DEF TypeOK, BlankMeta, MetaType, ContentOrNone
<1>5. round_status' \in [Rounds -> RoundStatus]
  BY <1>2, <1>3 DEF TypeOK, RoundStatus
<1>6. meta' \in [Rounds -> MetaType]
  BY <1>2, <1>3, <1>4 DEF TypeOK
<1> QED
  BY <1>1, <1>2, <1>3, <1>5, <1>6

\* The constructor leaves a state of the type.
LEMMA InitType == Init => TypeOK
<1> SUFFICES ASSUME Init PROVE TypeOK
  OBVIOUS
<1>1. current_round \in Rounds
  BY TimeAssumption DEF Init, Rounds
<1>2. round_status \in [Rounds -> RoundStatus]
  BY DEF Init, RoundStatus
<1>3. meta \in [Rounds -> MetaType]
  BY DEF Init, BlankMeta, MetaType, ContentOrNone
<1>4. interpretations \in [Rounds -> [Content -> InterpretationType]]
  BY DEF Init, NoInterpretation, InterpretationType, AccountOrNone
<1>5. round_challenge \in [Rounds -> ChallengeType]
  BY DEF Init, NoChallenge, ChallengeType, AccountOrNone, ContentOrNone
<1>6. NoSnapshot \in Snapshot
  BY DEF NoSnapshot, Snapshot
<1>7. evidence_hash \in [Rounds -> Snapshot] /\ live \in LiveType
  BY <1>6 DEF Init, LiveType, ContentOrNone
<1>8. source_records \in [Source -> SourceType]
  BY DEF Init, SourceType, AccountOrNone
<1>9. reputation \in [Account -> ReputationType]
  BY DEF Init, NoReputation, ReputationType
<1> QED
  BY <1>1, <1>2, <1>3, <1>4, <1>5, <1>7, <1>8, <1>9 DEF Init, TypeOK

\* A pool that grows is a pool.
LEMMA StakePoolType ==
    ASSUME NEW m \in MetaType, NEW amount \in Nat
    PROVE  [m EXCEPT !.stake_pool = @ + amount] \in MetaType
BY DEF MetaType

\* An entry that is backed is an entry.
LEMMA BackedType ==
    ASSUME NEW i \in InterpretationType, NEW a \in Account, NEW amount \in Nat
    PROVE  Backed(i, a, amount) \in InterpretationType
BY DEF Backed, InterpretationType

\* submit_interpretation keeps the type.
LEMMA SubmitType ==
    ASSUME TypeOK, NEW a \in Account, NEW c \in Content, NEW amount \in Amounts,
           SubmitInterpretation(a, c, amount)
    PROVE  TypeOK'
<1> DEFINE r == current_round
<1>1. amount \in Nat /\ r \in Rounds
  BY AmountAssumption DEF TypeOK
<1>2. interpretations' \in [Rounds -> [Content -> InterpretationType]]
  <2>1. [author |-> a, total_stake |-> amount,
         backers |-> [b \in Account |-> IF b = a THEN amount ELSE 0]] \in InterpretationType
    BY <1>1 DEF InterpretationType, AccountOrNone
  <2> QED
    BY <1>1, <2>1 DEF TypeOK, SubmitInterpretation
<1>3. meta' \in [Rounds -> MetaType]
  <2>1. meta' = [meta EXCEPT ![r] = [meta[r] EXCEPT !.stake_pool = @ + amount]]
    BY DEF SubmitInterpretation
  <2> QED
    BY <1>1, <2>1, StakePoolType DEF TypeOK
<1>4. bucket_round' \in [Rounds -> Nat] /\ vault_tracked' \in Nat /\ balance' \in Nat
  BY <1>1 DEF TypeOK, SubmitInterpretation, CreditRound
<1> QED
  BY <1>1, <1>2, <1>3, <1>4
  DEF TypeOK, SubmitInterpretation, CreditRound, lifecycleVars, verdictVars

\* back_interpretation keeps it.
LEMMA BackType ==
    ASSUME TypeOK, NEW a \in Account, NEW c \in Content, NEW amount \in Amounts,
           BackInterpretation(a, c, amount)
    PROVE  TypeOK'
<1> DEFINE r == current_round
<1>1. amount \in Nat /\ r \in Rounds
  BY AmountAssumption DEF TypeOK
<1>2. interpretations' \in [Rounds -> [Content -> InterpretationType]]
  <2>1. interpretations[r][c] \in InterpretationType
    BY <1>1 DEF TypeOK
  <2>2. Backed(interpretations[r][c], a, amount) \in InterpretationType
    BY <1>1, <2>1, BackedType
  <2> QED
    BY <1>1, <2>2 DEF TypeOK, BackInterpretation
<1>3. meta' \in [Rounds -> MetaType]
  <2>1. meta' = [meta EXCEPT ![r] = [meta[r] EXCEPT !.stake_pool = @ + amount]]
    BY DEF BackInterpretation
  <2> QED
    BY <1>1, <2>1, StakePoolType DEF TypeOK
<1>4. bucket_round' \in [Rounds -> Nat] /\ vault_tracked' \in Nat /\ balance' \in Nat
  BY <1>1 DEF TypeOK, BackInterpretation, CreditRound
<1> QED
  BY <1>1, <1>2, <1>3, <1>4
  DEF TypeOK, BackInterpretation, CreditRound, lifecycleVars, verdictVars

\* A source whose counters change is a source.
LEMMA SourceUpdateType ==
    ASSUME NEW rec \in SourceType, NEW misses \in Nat, NEW ok \in BOOLEAN,
           NEW bond \in {"refundable", "forfeited", rec.bond_status}
    PROVE  [rec EXCEPT !.misses = misses, !.last_fetch_ok = ok, !.bond_status = bond]
               \in SourceType
BY DEF SourceType

\* So is one that a fetch reports on.
LEMMA FetchReportedType ==
    ASSUME TypeOK, NEW s \in Source, NEW ok
    PROVE  FetchReported(s, ok) \in SourceType
<1> DEFINE rec == source_records[s]
           misses == AtMost(rec.misses + 1, MaxMisses)
           bond == IF rec.bond_status = "locked" THEN "refundable" ELSE rec.bond_status
           lost == IF rec.bond_status = "locked" /\ misses >= MaxMisses
                   THEN "forfeited" ELSE rec.bond_status
<1>1. rec \in SourceType
  BY DEF TypeOK
<1>2. misses \in Nat /\ rec.misses \in Nat
  BY <1>1, SourceAssumption DEF SourceType, AtMost
<1>3. bond \in {"refundable", rec.bond_status} /\ lost \in {"forfeited", rec.bond_status}
  OBVIOUS
<1>4. \/ FetchReported(s, ok) =
             [rec EXCEPT !.misses = 0, !.last_fetch_ok = TRUE, !.bond_status = bond]
      \/ FetchReported(s, ok) =
             [rec EXCEPT !.misses = misses, !.last_fetch_ok = FALSE, !.bond_status = lost]
      \/ FetchReported(s, ok) = [rec EXCEPT !.last_fetch_ok = FALSE]
  BY DEF FetchReported, Missed
<1>5. [rec EXCEPT !.last_fetch_ok = FALSE] \in SourceType
  BY <1>1 DEF SourceType
<1> HIDE DEF rec, misses, bond, lost
<1>6. [rec EXCEPT !.misses = 0, !.last_fetch_ok = TRUE, !.bond_status = bond] \in SourceType
  BY <1>1, <1>3, SourceUpdateType
<1>7. [rec EXCEPT !.misses = misses, !.last_fetch_ok = FALSE, !.bond_status = lost] \in SourceType
  BY <1>1, <1>2, <1>3, SourceUpdateType
<1> QED
  BY <1>4, <1>5, <1>6, <1>7

\* A fetch report changes the sources and what is forfeited, and no other fund.
LEMMA FetchReportType ==
    ASSUME TypeOK, NEW ok, ApplyFetchReport(ok)
    PROVE  /\ source_records' \in [Source -> SourceType]
           /\ bucket_sources' \in Nat
           /\ bucket_carry' \in Nat
           /\ UNCHANGED <<bucket_round, bucket_residual, vault_tracked, balance>>
<1>1. source_records' \in [Source -> SourceType]
  BY FetchReportedType DEF ApplyFetchReport
<1> DEFINE amount == SumFunctionOnSet(Bonds, Forfeits(ok))
<1>2. /\ amount \in 0..bucket_sources
      /\ bucket_sources' = bucket_sources - amount
      /\ bucket_carry' = bucket_carry + amount
      /\ UNCHANGED <<bucket_round, bucket_residual, vault_tracked, balance>>
  BY DEF ApplyFetchReport, MoveForfeits
<1> HIDE DEF amount
<1> QED
  BY <1>1, <1>2 DEF TypeOK

\* What is fetched was in the snapshot of the round.
LEMMA FetchedIsSnapshot == Fetches \subseteq Snapshot
<1> SUFFICES ASSUME NEW f \in Fetches PROVE f \in Snapshot
  OBVIOUS
<1>1. PICK lost \in SUBSET (Present \cap Unreliable) : f \in [Present \ lost -> Page]
  BY DEF Fetches
<1>2. Present \ lost \in SUBSET Source
  BY DEF Present
<1> QED
  BY <1>1, <1>2 DEF Snapshot

\* Crediting participations keeps the reputations' type.
LEMMA ParticipationsType ==
    ASSUME TypeOK, NEW r \in Rounds
    PROVE  CreditParticipations(r) \in [Account -> ReputationType]
<1> SUFFICES ASSUME NEW a \in Account
             PROVE  [reputation[a] EXCEPT !.inconclusive_participations =
                        @ + Cardinality(Authored(r, a))] \in ReputationType
  BY DEF CreditParticipations
<1>1. Cardinality(Authored(r, a)) \in Nat
  BY ContentsCounted DEF Authored
<1>2. reputation[a] \in ReputationType
  BY DEF TypeOK
<1> QED
  BY <1>1, <1>2 DEF ReputationType

\* Crediting a decision keeps it.
LEMMA DecisionType ==
    ASSUME TypeOK, NEW r \in Rounds, NEW winner \in Content, NEW outcome
    PROVE  CreditDecision(r, winner, outcome) \in [Account -> ReputationType]
<1> SUFFICES ASSUME NEW a \in Account
             PROVE  [reputation[a] EXCEPT
                        !.decided_wins = @ + Cardinality(Authored(r, a) \cap {winner}),
                        !.decided_losses = @ + Cardinality(Losing(r, a, winner)),
                        !.challenges_won = @ + (IF WonChallenge(r, a, outcome) THEN 1 ELSE 0),
                        !.challenges_lost = @ + (IF LostChallenge(r, a, outcome) THEN 1 ELSE 0)]
                        \in ReputationType
  BY DEF CreditDecision
<1>1. /\ Cardinality(Authored(r, a) \cap {winner}) \in Nat
      /\ Cardinality(Losing(r, a, winner)) \in Nat
  BY ContentsCounted DEF Authored, Losing
<1>2. /\ (IF WonChallenge(r, a, outcome) THEN 1 ELSE 0) \in Nat
      /\ (IF LostChallenge(r, a, outcome) THEN 1 ELSE 0) \in Nat
  OBVIOUS
<1>3. reputation[a] \in ReputationType
  BY DEF TypeOK
<1>4. ASSUME NEW p \in ReputationType,
             NEW w \in Nat, NEW l \in Nat, NEW x \in Nat, NEW y \in Nat
      PROVE  [p EXCEPT !.decided_wins = @ + w, !.decided_losses = @ + l,
                       !.challenges_won = @ + x, !.challenges_lost = @ + y]
                 \in ReputationType
  <2>1. \A i, j, k, n \in Nat :
            [p EXCEPT !.decided_wins = i, !.decided_losses = j,
                      !.challenges_won = k, !.challenges_lost = n] \in ReputationType
    BY DEF ReputationType
  <2>2. /\ p.decided_wins + w \in Nat
        /\ p.decided_losses + l \in Nat
        /\ p.challenges_won + x \in Nat
        /\ p.challenges_lost + y \in Nat
    BY DEF ReputationType
  <2> QED
    BY <2>1, <2>2
<1> QED
  BY <1>1, <1>2, <1>3, <1>4

\* Decide keeps the round and its stakes.
LEMMA DecideType ==
    ASSUME TypeOK, NEW r \in Rounds, NEW winner \in Content, Decide(r, winner)
    PROVE  /\ meta' \in [Rounds -> MetaType]
           /\ round_status' \in [Rounds -> RoundStatus]
<1>1. \A m \in MetaType, d \in Nat :
          [m EXCEPT !.pending_winner = winner, !.challenge_deadline = d] \in MetaType
  BY DEF MetaType, ContentOrNone
<1>2. meta[r] \in MetaType /\ now + ChallengeWindow \in Nat
  BY TimeAssumption DEF TypeOK
<1>3. meta' = [meta EXCEPT ![r] =
          [meta[r] EXCEPT !.pending_winner = winner,
                          !.challenge_deadline = now + ChallengeWindow]]
  BY DEF Decide
<1>4. meta' \in [Rounds -> MetaType]
  BY <1>1, <1>2, <1>3 DEF TypeOK
<1>5. round_status' \in [Rounds -> RoundStatus]
  BY DEF TypeOK, Decide, RoundStatus, PendingStatus
<1> QED
  BY <1>4, <1>5

\* adjudicate keeps the type.
LEMMA AdjudicateType ==
    ASSUME TypeOK, OneRoundInFlight, StakedRounds, Adjudicate
    PROVE  TypeOK'
<1> DEFINE r == current_round
<1>1. r \in Rounds /\ round_status[r] = "open" /\ r < MaxRound
  BY DEF TypeOK, Adjudicate, StakedRounds
<1>2. PICK fetched \in Fetches :
          /\ ApplyFetchReport(DOMAIN fetched)
          /\ evidence_hash' = [evidence_hash EXCEPT ![r] = fetched]
          /\ \/ Inconclude(r, "unchanged")
             \/ Inconclude(r, "inconclusive")
             \/ \E winner \in Ids(r) : Decide(r, winner)
  BY DEF Adjudicate
<1>3. evidence_hash' \in [Rounds -> Snapshot]
  BY <1>2, FetchedIsSnapshot DEF TypeOK
<1>4. /\ current_round' \in Rounds
      /\ round_status' \in [Rounds -> RoundStatus]
      /\ meta' \in [Rounds -> MetaType]
      /\ reputation' \in [Account -> ReputationType]
  <2>1. ASSUME NEW s \in RefundStatus, Inconclude(r, s)
        PROVE  <1>4!1 /\ <1>4!2 /\ <1>4!3 /\ <1>4!4
    <3>1. s \in RoundStatus /\ meta[r] \in MetaType
      BY <1>1 DEF RoundStatus, TypeOK
    <3>2. LeaveRound(r, s, meta[r]) /\ reputation' = CreditParticipations(r)
      BY <2>1 DEF Inconclude
    <3> QED
      BY <1>1, <3>1, <3>2, RoundLeft, ParticipationsType
  <2>2. ASSUME NEW winner \in Ids(r), Decide(r, winner)
        PROVE  <1>4!1 /\ <1>4!2 /\ <1>4!3 /\ <1>4!4
    <3>1. winner \in Content
      BY DEF Ids
    <3> QED
      BY <1>1, <2>2, <3>1, DecideType DEF Decide, TypeOK
  <2> QED
    BY <1>2, <2>1, <2>2 DEF RefundStatus
<1>5. /\ source_records' \in [Source -> SourceType]
      /\ bucket_sources' \in Nat
      /\ bucket_carry' \in Nat
      /\ UNCHANGED <<bucket_round, bucket_residual, vault_tracked, balance>>
  BY <1>2, FetchReportType
<1> QED
  BY <1>3, <1>4, <1>5 DEF TypeOK, Adjudicate, lifecycleVars, stakeVars

\* challenge keeps it.
LEMMA ChallengeCallType ==
    ASSUME TypeOK, NEW r \in Rounds, NEW a \in Account, NEW c \in Content,
           NEW bond \in Amounts, Challenge(r, a, c, bond)
    PROVE  TypeOK'
<1>1. bond \in Nat /\ meta[r] \in MetaType
  BY AmountAssumption DEF TypeOK
<1>2. meta' \in [Rounds -> MetaType]
  <2>1. [meta[r] EXCEPT !.challenge_bond = bond] \in MetaType
    BY <1>1 DEF MetaType
  <2> QED
    BY <2>1 DEF Challenge, TypeOK
<1>3. round_challenge' \in [Rounds -> ChallengeType]
  <2>1. [challenger |-> a, alternative_id |-> c, original_winner |-> meta[r].pending_winner,
         bond |-> bond, challenged_at |-> now, outcome |-> "open"] \in ChallengeType
    BY <1>1 DEF ChallengeType, AccountOrNone, ContentOrNone, MetaType, TypeOK
  <2> QED
    BY <2>1 DEF Challenge, TypeOK
<1>4. round_status' \in [Rounds -> RoundStatus]
  BY DEF Challenge, TypeOK, RoundStatus, PendingStatus
<1>5. bucket_round' \in [Rounds -> Nat] /\ vault_tracked' \in Nat /\ balance' \in Nat
  BY <1>1 DEF TypeOK, Challenge, CreditRound
<1> QED
  BY <1>2, <1>3, <1>4, <1>5 DEF TypeOK, Challenge, CreditRound, lifecycleVars, stakeVars

\* The challenger's payout is covered by the stake and the bond of the round.
LEMMA PayoutCovered ==
    ASSUME NEW outcome, NEW bond \in Nat, NEW pool \in Nat
    PROVE  /\ ChallengerPayout(outcome, bond, pool) \in Nat
           /\ ChallengerPayout(outcome, bond, pool) <= pool + bond
<1> DEFINE reward == (pool * RewardBps) \div 10000
<1>1. reward \in Nat /\ reward <= pool
  <2> DEFINE product == pool * RewardBps
  <2>1. RewardBps \in 0..10000
    BY AmountAssumption
  <2>2. product \in Nat /\ product <= pool * 10000
    BY <2>1
  <2> HIDE DEF product
  <2>3. product \div 10000 \in Nat /\ product \div 10000 <= pool
    BY <2>2
  <2> QED
    BY <2>3 DEF product
<1>2. ChallengeReward(bond, pool) = IF reward < bond THEN reward ELSE bond
  BY DEF ChallengeReward, AtMost
<1> HIDE DEF reward
<1>3. ChallengeReward(bond, pool) \in Nat /\ ChallengeReward(bond, pool) <= pool
  BY <1>1, <1>2
<1> QED
  BY <1>3 DEF ChallengerPayout

\* A pot is never negative: the challenger is paid from the pool and the bond.
LEMMA PotIsNat ==
    ASSUME NEW pool \in Nat, NEW bonus \in Nat, NEW bond \in Nat, NEW payout \in Nat,
           payout <= pool + bond
    PROVE  Pot(pool, bonus, bond, payout) \in Nat
BY DEF Pot

\* The record of a finalized round is a record.
LEMMA FinalMetaType ==
    ASSUME NEW m \in MetaType, NEW winner \in Content, NEW total \in Nat, NEW bonus \in Nat,
           NEW pot \in Nat, NEW payout \in Nat
    PROVE  [m EXCEPT !.pending_winner = winner, !.winner_id = winner, !.winner_total = total,
                     !.bonus = bonus, !.pot = pot, !.challenger_payout = payout] \in MetaType
BY DEF MetaType, ContentOrNone

\* What an interpretation of the round must satisfy to win it.
Electable(r, winner) ==
    /\ winner \in Ids(r)
    /\ round_status[r] \in PendingStatus
    /\ r < MaxRound

\* _finalize_round keeps the type and opens the next round.
LEMMA FinalizeRoundType ==
    ASSUME TypeOK, OneRoundInFlight, NEW r \in Rounds, NEW winner, Electable(r, winner),
           NEW outcome \in {"none", "upheld", "rejected", "unresolved", "expired"},
           FinalizeRound(r, winner, outcome)
    PROVE  /\ TypeOK'
           /\ r = current_round
           /\ r + 1 \in Rounds
           /\ status # "closed"
           /\ current_round' = r + 1
           /\ round_status' = [round_status EXCEPT ![r] = "finalized", ![r + 1] = "open"]
<1> DEFINE m == meta[r]
           payout == ChallengerPayout(outcome, m.challenge_bond, m.stake_pool)
           bonus == Bonus(r)
           total == interpretations[r][winner].total_stake
           pot == Pot(m.stake_pool, bonus, m.challenge_bond, payout)
           final == [m EXCEPT !.pending_winner = winner, !.winner_id = winner,
                              !.winner_total = total, !.bonus = bonus, !.pot = pot,
                              !.challenger_payout = payout]
<1>1. /\ winner \in Content
      /\ m \in MetaType
      /\ m.stake_pool \in Nat /\ m.challenge_bond \in Nat
      /\ bonus \in Nat
      /\ total \in Nat
  <2>1. winner \in Content /\ m \in MetaType
    BY DEF Electable, Ids, TypeOK
  <2>2. m.stake_pool \in Nat /\ m.challenge_bond \in Nat /\ m.bonus \in Nat
    BY <2>1 DEF MetaType
  <2>3. bonus \in Nat
    <3>1. bucket_carry \in Nat
      BY DEF TypeOK
    <3> QED
      BY <2>2, <3>1 DEF Bonus
  <2>4. interpretations[r][winner] \in InterpretationType
    BY <2>1 DEF TypeOK
  <2>5. total \in Nat
    BY <2>4 DEF InterpretationType
  <2> QED
    BY <2>1, <2>2, <2>3, <2>5
<1>2. payout \in Nat /\ payout <= m.stake_pool + m.challenge_bond
  BY <1>1, PayoutCovered
<1>3. pot \in Nat
  <2> HIDE DEF payout, bonus, m
  <2> QED
    BY <1>1, <1>2, PotIsNat
<1>4. final \in MetaType
  <2> HIDE DEF payout, bonus, m, total, pot
  <2> QED
    BY <1>1, <1>2, <1>3, FinalMetaType
<1>5. LeaveRound(r, "finalized", final)
  BY DEF FinalizeRound
<1> HIDE DEF final
<1>6. /\ r = current_round
      /\ r + 1 \in Rounds
      /\ status # "closed"
      /\ current_round' = r + 1
      /\ round_status' = [round_status EXCEPT ![r] = "finalized", ![r + 1] = "open"]
      /\ round_status' \in [Rounds -> RoundStatus]
      /\ meta' \in [Rounds -> MetaType]
  <2>1. "finalized" \in RoundStatus
    BY DEF RoundStatus, FinalStatus
  <2> QED
    BY <1>4, <1>5, <2>1, RoundLeft DEF Electable
<1>7. bucket_round' \in [Rounds -> Nat] /\ bucket_carry' \in Nat
  <2>1. bucket_round' = [bucket_round EXCEPT ![r] = @ + bucket_carry] /\ bucket_carry' = 0
    BY DEF FinalizeRound
  <2>2. bucket_round \in [Rounds -> Nat] /\ bucket_carry \in Nat
    BY DEF TypeOK
  <2> QED
    BY <2>1, <2>2
<1>8. round_challenge' \in [Rounds -> ChallengeType]
  <2>1. [round_challenge[r] EXCEPT !.outcome = outcome] \in ChallengeType
    BY DEF TypeOK, ChallengeType
  <2>2. round_challenge' = [round_challenge EXCEPT ![r] =
            [round_challenge[r] EXCEPT !.outcome = outcome]]
    BY DEF FinalizeRound
  <2> QED
    BY <2>1, <2>2 DEF TypeOK
<1>9. live' \in LiveType
  <2>1. live' = [id |-> winner, round |-> r,
                 evidence_hash |-> evidence_hash[r], judged |-> Ids(r)]
    BY DEF FinalizeRound, NewLive
  <2>2. winner \in ContentOrNone /\ r \in Nat /\ Ids(r) \in SUBSET Content
    BY <1>1, TimeAssumption DEF ContentOrNone, Ids, Rounds
  <2>3. evidence_hash[r] \in Snapshot
    BY DEF TypeOK
  <2> QED
    BY <2>1, <2>2, <2>3 DEF LiveType
<1>10. reputation' \in [Account -> ReputationType]
  BY <1>1, DecisionType DEF FinalizeRound
<1> QED
  BY <1>6, <1>7, <1>8, <1>9, <1>10
  DEF FinalizeRound, TypeOK, lifecycleVars, stakeVars

\* claim keeps the type: no fund it pays from is overdrawn.
LEMMA ClaimType ==
    ASSUME TypeOK, PotCovers, NativeTracked, NEW r \in Rounds, NEW a \in Account, Claim(r, a)
    PROVE  TypeOK'
<1> DEFINE m == meta[r]
           stake == WinnerStake(r, a)
           share == WinnerShare(r, a)
<1>1. m \in MetaType
  BY DEF TypeOK
<1>2. stake \in Nat
  BY DEF WinnerStake, TypeOK, MetaType, InterpretationType, ContentOrNone
<1>3. ASSUME round_status[r] = "settled"
      PROVE  share \in Nat
  <2>1. /\ m.winner_total \in Nat \ {0} /\ m.pot \in Nat
        /\ m.paid_winners \in Nat /\ m.paid_winners <= m.pot
    BY <1>1, <1>3 DEF PotCovers, Finals, FinalStatus, MetaType
  <2>2. ProRata(r, a) \in Nat
    <3> DEFINE product == WinnerStake(r, a) * m.pot
    <3>1. product \in Nat
      BY <1>2, <2>1
    <3> HIDE DEF product
    <3>2. product \div m.winner_total \in Nat
      BY <2>1, <3>1
    <3> QED
      BY <3>2 DEF ProRata, product
  <2>3. m.pot - m.paid_winners \in Nat
    BY <2>1
  <2> QED
    BY <2>2, <2>3 DEF WinnerShare
<1>4. AfterClaim(r, a) \in MetaType
  <2>1. CASE round_status[r] = "settled"
    <3>1. \A taken, paid \in Nat :
              [m EXCEPT !.claimed_winner_stake = taken, !.paid_winners = paid] \in MetaType
      BY <1>1 DEF MetaType
    <3>2. m.claimed_winner_stake + stake \in Nat /\ m.paid_winners + share \in Nat
      BY <1>1, <1>2, <1>3, <2>1 DEF MetaType
    <3>3. AfterClaim(r, a) = [m EXCEPT !.claimed_winner_stake = m.claimed_winner_stake + stake,
                                       !.paid_winners = m.paid_winners + share]
      BY <2>1 DEF AfterClaim
    <3> QED
      BY <3>1, <3>2, <3>3
  <2>2. CASE round_status[r] # "settled"
    BY <1>1, <2>2 DEF AfterClaim
  <2> QED
    BY <2>1, <2>2
<1>5. meta' \in [Rounds -> MetaType]
  BY <1>4 DEF Claim, TypeOK
<1>6. bucket_round' \in [Rounds -> Nat] /\ vault_tracked' \in Nat /\ balance' \in Nat
  <2> DEFINE owed == Owed(r, a)
  <2>1. /\ owed \in 0..bucket_round[r]
        /\ owed <= vault_tracked
        /\ vault_tracked' = vault_tracked - owed
        /\ balance' = balance - owed
        /\ bucket_round' = [bucket_round EXCEPT ![r] = @ - owed]
    BY DEF Claim, Debit
  <2> HIDE DEF owed
  <2> QED
    BY <2>1 DEF TypeOK, NativeTracked
<1> QED
  BY <1>5, <1>6 DEF Claim, TypeOK, lifecycleVars, stakeVars, verdictVars

\* Every winner that finalize or resolve_challenge may pick was submitted in
\* the round.
LEMMA WinnersElectable ==
    ASSUME Inductive, NEW r \in Rounds, round_status[r] \in PendingStatus
    PROVE  /\ Electable(r, meta[r].pending_winner)
           /\ round_status[r] = "challenged" =>
                  \A outcome : Electable(r, WinnerAfter(r, outcome))
<1>1. meta[r].pending_winner \in Ids(r) /\ r < MaxRound
  BY DEF Inductive, RoundRecords, VerdictRecords, StakedRounds
<1>2. round_status[r] = "challenged" => round_challenge[r].alternative_id \in Ids(r)
  BY DEF Inductive, RoundRecords, ChallengeRecords
<1> QED
  BY <1>1, <1>2 DEF Electable, WinnerAfter

\* resolve_challenge and finalize are _finalize_round with an electable winner.
LEMMA EndsInFinalizeRound ==
    ASSUME Inductive, NEW r \in Rounds, ResolveChallenge(r) \/ Finalize(r)
    PROVE  \E winner \in Content,
              outcome \in {"none", "upheld", "rejected", "unresolved", "expired"} :
              /\ Electable(r, winner)
              /\ outcome = "none" => round_status[r] = "decided_pending"
              /\ outcome # "none" => round_status[r] = "challenged"
              /\ winner = WinnerAfter(r, outcome)
              /\ FinalizeRound(r, winner, outcome)
<1>1. \A winner : Electable(r, winner) => winner \in Content
  BY DEF Electable, Ids
<1>2. CASE ResolveChallenge(r)
  BY <1>1, <1>2, WinnersElectable DEF ResolveChallenge, PendingStatus
<1>3. CASE Finalize(r)
  <2>1. \/ round_status[r] = "decided_pending" /\ FinalizeRound(r, meta[r].pending_winner, "none")
        \/ round_status[r] = "challenged" /\ FinalizeRound(r, meta[r].pending_winner, "expired")
    BY <1>3 DEF Finalize
  <2>2. Electable(r, meta[r].pending_winner)
    BY <2>1, WinnersElectable DEF PendingStatus
  <2>3. WinnerAfter(r, "none") = meta[r].pending_winner
        /\ WinnerAfter(r, "expired") = meta[r].pending_winner
    BY DEF WinnerAfter
  <2> QED
    BY <1>1, <2>1, <2>2, <2>3
<1> QED
  BY <1>2, <1>3

\* Every method keeps every variable of its type.
LEMMA TypeStep ==
    ASSUME Inductive, [Next]_vars
    PROVE  TypeOK'
<1> USE DEF Inductive
<1>1. CASE Tick
  BY <1>1 DEF Tick, TypeOK, lifecycleVars, roundVars, stakeVars, verdictVars, vaultVars
<1>2. ASSUME NEW a \in Account, NEW c \in Content, NEW amount \in Amounts,
             SubmitInterpretation(a, c, amount)
      PROVE  TypeOK'
  BY <1>2, SubmitType
<1>3. ASSUME NEW a \in Account, NEW c \in Content, NEW amount \in Amounts,
             BackInterpretation(a, c, amount)
      PROVE  TypeOK'
  BY <1>3, BackType
<1>4. CASE Adjudicate
  BY <1>4, AdjudicateType DEF RoundRecords
<1>5. ASSUME NEW r \in Rounds, NEW a \in Account, NEW c \in Content, NEW bond \in Amounts,
             Challenge(r, a, c, bond)
      PROVE  TypeOK'
  BY <1>5, ChallengeCallType
<1>6. ASSUME NEW r \in Rounds, ResolveChallenge(r) \/ Finalize(r)
      PROVE  TypeOK'
  BY <1>6, EndsInFinalizeRound, FinalizeRoundType
<1>7. ASSUME NEW r \in Rounds, CancelRound(r)
      PROVE  TypeOK'
  <2>1. "cancelled" \in RoundStatus /\ meta[r] \in MetaType
    BY DEF RoundStatus, RefundStatus, TypeOK
  <2>2. /\ current_round' \in Rounds
        /\ round_status' \in [Rounds -> RoundStatus]
        /\ meta' \in [Rounds -> MetaType]
    BY <1>7, <2>1, RoundLeft DEF CancelRound
  <2> QED
    BY <1>7, <2>2
    DEF CancelRound, TypeOK, lifecycleVars, stakeVars, verdictVars, vaultVars
<1>8. ASSUME NEW r \in Rounds, Settle(r)
      PROVE  TypeOK'
  BY <1>8
  DEF Settle, TypeOK, RoundStatus, FinalStatus, lifecycleVars, stakeVars, verdictVars, vaultVars
<1>9. ASSUME NEW r \in Rounds, NEW a \in Claimants, Claim(r, a)
      PROVE  TypeOK'
  BY <1>9, ClaimType, AccountAssumption DEF RoundRecords
<1>10. ASSUME NEW a \in Account, NEW s \in Source, NEW bond \in Amounts, AddSource(a, s, bond)
       PROVE  TypeOK'
  <2>1. bond \in Nat
    BY AmountAssumption
  <2>2. [added_by |-> a, add_bond |-> bond, bond_status |-> "locked",
         misses |-> 0, last_fetch_ok |-> FALSE] \in SourceType
    BY <2>1 DEF SourceType, AccountOrNone
  <2>3. source_records' \in [Source -> SourceType]
    BY <1>10, <2>2 DEF AddSource, TypeOK
  <2> QED
    BY <1>10, <2>1, <2>3 DEF AddSource, TypeOK, lifecycleVars, roundVars, stakeVars, verdictVars
<1>11. ASSUME NEW a \in Account, NEW s \in Source, ClaimSourceBond(a, s)
       PROVE  TypeOK'
  <2>1. [source_records[s] EXCEPT !.bond_status = "refunded"] \in SourceType
    BY DEF SourceType, TypeOK
  <2>2. source_records' \in [Source -> SourceType]
    BY <1>11, <2>1 DEF ClaimSourceBond, TypeOK
  <2> QED
    BY <1>11, <2>2
    DEF ClaimSourceBond, Debit, NativeTracked, TypeOK,
        lifecycleVars, roundVars, stakeVars, verdictVars
<1>12. ASSUME NEW a \in Account, CloseMonocle(a) \/ CancelClose(a)
       PROVE  TypeOK'
  BY <1>12
  DEF CloseMonocle, CancelClose, TypeOK, roundVars, stakeVars, verdictVars, vaultVars
<1>13. CASE FinalizeClose
  <2>1. source_records' \in [Source -> SourceType]
    <3>1. ASSUME NEW s \in Source
          PROVE  [source_records[s] EXCEPT !.bond_status = "refundable"] \in SourceType
      BY DEF SourceType, TypeOK
    <3> QED
      BY <1>13, <3>1 DEF FinalizeClose, BondsReleased, TypeOK
  <2>2. round_status' \in [Rounds -> RoundStatus]
    BY <1>13 DEF FinalizeClose, TypeOK, RoundStatus, RefundStatus
  <2>3. bucket_carry' \in Nat /\ bucket_residual' \in Nat
    BY <1>13 DEF FinalizeClose, TypeOK
  <2> QED
    BY <1>13, <2>1, <2>2, <2>3 DEF FinalizeClose, TypeOK, stakeVars, verdictVars
<1>14. CASE FlushResidual
  BY <1>14
  DEF FlushResidual, Debit, NativeTracked, TypeOK,
      lifecycleVars, roundVars, stakeVars, verdictVars
<1>15. CASE UNCHANGED vars
  BY <1>15
  DEF vars, TypeOK, lifecycleVars, roundVars, stakeVars, verdictVars, vaultVars
<1> QED
  BY <1>1, <1>2, <1>3, <1>4, <1>5, <1>6, <1>7, <1>8, <1>9, <1>10, <1>11, <1>12, <1>13,
     <1>14, <1>15 DEF Next

-----------------------------------------------------------------------------
(* Rounds                                                                  *)

\* What the records ask of the status of round k: whether it is open, pending,
\* final, refunded, or none of these yet.
SameStanding(k) ==
    /\ \A s \in {"none", "decided_pending", "challenged", "unchanged"} :
           round_status'[k] = s <=> round_status[k] = s
    /\ round_status'[k] \in FinalStatus <=> round_status[k] \in FinalStatus
    /\ round_status'[k] = "open" => round_status[k] = "open"
    /\ Undecided(k)' <=> Undecided(k)
    /\ Claimable(k) => Claimable(k)'

\* A step that changes neither the records nor what they ask of the statuses.
LEMMA RecordsStand ==
    ASSUME RoundRecords,
           UNCHANGED <<meta, interpretations, round_challenge, evidence_hash, claimed, live,
                       bucket_round>>,
           \A k \in Rounds : SameStanding(k)
    PROVE  RoundRecords'
<1> USE DEF RoundRecords
<1>1. \A k \in Rounds : Ids(k)' = Ids(k) /\ ChallengerUnpaid(k)' = ChallengerUnpaid(k)
  BY DEF Ids, ChallengerUnpaid
<1>2. \A k \in Rounds :
          /\ round_status'[k] \in FinalStatus <=> round_status[k] \in FinalStatus
          /\ round_status'[k] \in PendingStatus <=> round_status[k] \in PendingStatus
          /\ round_status'[k] = "open" => round_status[k] = "open"
          /\ round_status'[k] = "none" <=> round_status[k] = "none"
          /\ round_status'[k] = "challenged" <=> round_status[k] = "challenged"
          /\ round_status'[k] = "unchanged" <=> round_status[k] = "unchanged"
          /\ round_status'[k] = "decided_pending" <=> round_status[k] = "decided_pending"
          /\ Undecided(k)' <=> Undecided(k)
          /\ Claimable(k) => Claimable(k)'
  BY DEF SameStanding, PendingStatus
<1>3. Finals' = Finals
  BY <1>2 DEF Finals
<1>4. StakedRounds'
  BY <1>1, <1>2 DEF StakedRounds
<1>5. VerdictRecords'
  BY <1>1, <1>2 DEF VerdictRecords
<1>6. ChallengeRecords'
  BY <1>1, <1>2 DEF ChallengeRecords
<1>7. SettlementRecords'
  BY <1>2 DEF SettlementRecords
<1>8. RoundLedger'
  BY <1>1, <1>2 DEF RoundLedger
<1>9. PotCovers'
  BY <1>3 DEF PotCovers
<1>10. LiveOutputIsFinal'
  BY <1>3 DEF LiveOutputIsFinal
<1>11. LiveRecords'
  BY DEF LiveRecords, Ids
<1>12. WinnerJustified'
  BY <1>1, <1>3 DEF WinnerJustified, Finals
<1>13. UnchangedIsStale'
  BY <1>1, <1>2, <1>3 DEF UnchangedIsStale, Finals
<1> QED
  BY <1>4, <1>5, <1>6, <1>7, <1>8, <1>9, <1>10, <1>11, <1>12, <1>13

\* A step that does not touch the rounds.
LEMMA RecordsUntouched ==
    ASSUME RoundRecords,
           UNCHANGED <<round_status, meta, interpretations, round_challenge, evidence_hash,
                       claimed, live, bucket_round>>
    PROVE  RoundRecords'
<1>1. \A k \in Rounds : SameStanding(k)
  BY DEF SameStanding, Undecided, Claimable
<1> QED
  BY <1>1, RecordsStand

\* submit_interpretation and back_interpretation: a stake arrives in the open
\* round.
LEMMA StakeArrives ==
    ASSUME Inductive, NEW r \in Rounds, round_status[r] = "open", r < MaxRound,
           NEW c \in Content, NEW i \in InterpretationType,
           i.author # None, i.total_stake > 0, NEW amount \in Nat,
           interpretations' = [interpretations EXCEPT ![r][c] = i],
           meta' = [meta EXCEPT ![r].stake_pool = @ + amount],
           bucket_round' = [bucket_round EXCEPT ![r] = @ + amount],
           UNCHANGED <<round_status, round_challenge, evidence_hash, claimed, live>>
    PROVE  RoundRecords'
<1> USE DEF Inductive, RoundRecords
<1>1. /\ meta \in [Rounds -> MetaType]
      /\ bucket_round \in [Rounds -> Nat]
      /\ interpretations \in [Rounds -> [Content -> InterpretationType]]
  BY DEF TypeOK
<1>2. \A k \in Rounds \ {r} :
          /\ meta'[k] = meta[k]
          /\ interpretations'[k] = interpretations[k]
          /\ bucket_round'[k] = bucket_round[k]
          /\ Ids(k)' = Ids(k)
  BY <1>1 DEF Ids
<1>3. /\ Ids(r)' = Ids(r) \cup {c}
      /\ \A d \in Ids(r)' : interpretations'[r][d].total_stake > 0
  BY <1>1 DEF Ids, StakedRounds
<1>4. /\ meta'[r] = [meta[r] EXCEPT !.stake_pool = @ + amount]
      /\ bucket_round'[r] = bucket_round[r] + amount
  BY <1>1
<1>5. Finals' = Finals /\ r \notin Finals
  BY DEF Finals, FinalStatus
<1>6. StakedRounds'
  BY <1>2, <1>3 DEF StakedRounds
<1>7. meta[r] \in MetaType
  BY <1>1
<1>8. VerdictRecords'
  BY <1>2, <1>4, <1>7 DEF VerdictRecords, Undecided, MetaType, PendingStatus, FinalStatus
<1>9. ChallengeRecords'
  BY <1>2, <1>4, <1>7 DEF ChallengeRecords, Undecided, MetaType
<1>10. SettlementRecords'
  BY <1>2, <1>4, <1>7 DEF SettlementRecords, Claimable, MetaType
<1>11. RoundLedger'
  <2>1. SUFFICES ASSUME NEW k \in Rounds PROVE RoundLedger!(k)'
    BY DEF RoundLedger
  <2>2. CASE k = r
    BY <1>4, <1>7, <2>2 DEF RoundLedger, MetaType, FinalStatus
  <2>3. CASE k # r
    BY <1>2, <2>3 DEF RoundLedger, ChallengerUnpaid
  <2> QED
    BY <2>2, <2>3
<1>12. PotCovers'
  BY <1>2, <1>5 DEF PotCovers, Finals
<1>13. LiveOutputIsFinal'
  BY <1>2, <1>5 DEF LiveOutputIsFinal, Finals
<1>14. LiveRecords'
  BY <1>2, <1>5, <1>13 DEF LiveRecords, LiveOutputIsFinal, Finals
<1>15. WinnerJustified'
  BY <1>2, <1>5 DEF WinnerJustified, Finals
<1>16. UnchangedIsStale'
  BY <1>2, <1>5 DEF UnchangedIsStale, Finals
<1> QED
  BY <1>6, <1>8, <1>9, <1>10, <1>11, <1>12, <1>13, <1>14, <1>15, <1>16

\* A round ends in a refund and its successor opens.
LEMMA RoundRefunded ==
    ASSUME Inductive, NEW r \in Rounds, NEW s \in RefundStatus,
           round_status[r] = "open", r < MaxRound,
           LeaveRound(r, s, meta[r]),
           UNCHANGED <<interpretations, round_challenge, claimed, live, bucket_round>>,
           \A k \in Rounds \ {r} : evidence_hash'[k] = evidence_hash[k],
           s = "unchanged" => /\ live.id # None
                              /\ Ids(r) \subseteq live.judged
                              /\ evidence_hash'[r] = live.evidence_hash
    PROVE  RoundRecords'
<1> USE DEF Inductive, RoundRecords
<1> DEFINE n == r + 1
<1>1. meta[r] \in MetaType /\ s \in RoundStatus
  BY DEF TypeOK, RoundStatus
<1>2. /\ r = current_round
      /\ n \in Rounds
      /\ round_status' = [round_status EXCEPT ![r] = s, ![n] = "open"]
      /\ meta' = [meta EXCEPT ![r] = meta[r], ![n] = BlankMeta(now)]
  BY <1>1, RoundLeft
<1>3. /\ r \in Nat /\ n \in Nat /\ n # r /\ n > r
      /\ round_status[n] = "none"
  BY <1>2, TimeAssumption DEF OneRoundInFlight, Rounds
<1>4. /\ round_status \in [Rounds -> RoundStatus]
      /\ meta \in [Rounds -> MetaType]
  BY DEF TypeOK
<1>5. /\ round_status'[r] = s /\ round_status'[n] = "open"
      /\ meta'[n] = BlankMeta(now)
      /\ \A k \in Rounds \ {n} : meta'[k] = meta[k]
      /\ \A k \in Rounds \ {r, n} : round_status'[k] = round_status[k]
  BY <1>2, <1>3, <1>4
<1>6. \A k \in Rounds : Ids(k)' = Ids(k) /\ ChallengerUnpaid(k)' =
          IF k = n THEN 0 ELSE ChallengerUnpaid(k)
  <2>1. BlankMeta(now).challenger_payout = 0
    BY DEF BlankMeta
  <2> QED
    BY <1>5, <2>1 DEF Ids, ChallengerUnpaid
<1>7. Finals' = Finals /\ r \notin Finals /\ n \notin Finals
  BY <1>2, <1>3, <1>5 DEF Finals, FinalStatus, RefundStatus
<1>8. StakedRounds'
  BY <1>3, <1>5, <1>6 DEF StakedRounds, RefundStatus
<1>9. VerdictRecords'
  BY <1>1, <1>5, <1>6
  DEF VerdictRecords, Undecided, BlankMeta, PendingStatus, FinalStatus, RefundStatus
<1>10. ChallengeRecords'
  <2>1. BlankMeta(now).challenge_bond = 0
    BY DEF BlankMeta
  <2> QED
    BY <1>1, <1>3, <1>5, <1>6, <2>1 DEF ChallengeRecords, Undecided, RefundStatus
<1>11. SettlementRecords'
  <2>1. /\ BlankMeta(now).bonus = 0
        /\ BlankMeta(now).paid_winners = 0
        /\ BlankMeta(now).claimed_winner_stake = 0
    BY DEF BlankMeta
  <2> QED
    BY <1>1, <1>3, <1>5, <2>1
    DEF SettlementRecords, Claimable, ClaimableStatus, RefundStatus, FinalStatus
<1>12. RoundLedger'
  <2>1. SUFFICES ASSUME NEW k \in Rounds PROVE RoundLedger!(k)'
    BY DEF RoundLedger
  <2>2. CASE k = n
    <3>1. BlankMeta(now).stake_pool + BlankMeta(now).bonus + BlankMeta(now).challenge_bond = 0
      BY DEF BlankMeta
    <3>2. bucket_round[n] = 0
      BY <1>2, <1>3 DEF SettlementRecords
    <3> QED
      BY <1>5, <2>2, <3>1, <3>2 DEF FinalStatus
  <2>3. CASE k # n
    BY <1>5, <1>6, <2>3 DEF RoundLedger, RefundStatus, FinalStatus, PendingStatus
  <2> QED
    BY <2>2, <2>3
<1>13. PotCovers'
  BY <1>5, <1>7 DEF PotCovers, Finals
<1>14. LiveOutputIsFinal'
  BY <1>5, <1>7 DEF LiveOutputIsFinal, Finals
<1>15. LiveRecords'
  <2>1. live.round # 0 => live.round \in Rounds \ {r}
    BY <1>7 DEF LiveOutputIsFinal, Finals
  <2> QED
    BY <1>6, <2>1 DEF LiveRecords
<1>16. WinnerJustified'
  BY <1>5, <1>6, <1>7 DEF WinnerJustified, Finals
<1>17. UnchangedIsStale'
  <2>1. SUFFICES ASSUME NEW q \in Rounds, round_status'[q] = "unchanged"
                 PROVE  \E k \in Finals :
                            /\ k < q
                            /\ \A j \in Finals : j < q => j <= k
                            /\ Ids(q) \subseteq Ids(k)
                            /\ evidence_hash'[q] = evidence_hash'[k]
    BY <1>6, <1>7 DEF UnchangedIsStale, Finals
  <2>2. CASE q = r
    <3>1. live.round \in Finals /\ (\A j \in Finals : j <= live.round)
      BY <1>5, <2>1, <2>2 DEF LiveOutputIsFinal
    <3>2. live.round # 0
      BY <1>5, <2>1, <2>2 DEF LiveOutputIsFinal
    <3>3. live.round < r
      BY <1>2, <1>3, <1>7, <3>1, TimeAssumption
      DEF OneRoundInFlight, Finals, FinalStatus, Rounds
    <3>4. Ids(r) \subseteq Ids(live.round) /\ evidence_hash'[r] = evidence_hash'[live.round]
      BY <1>5, <1>7, <2>1, <2>2, <3>1, <3>2 DEF LiveRecords, Finals
    <3> QED
      BY <2>2, <3>1, <3>3, <3>4
  <2>3. CASE q # r
    <3>1. round_status[q] = "unchanged"
      BY <1>5, <2>1, <2>3
    <3> QED
      BY <1>7, <2>3, <3>1 DEF UnchangedIsStale, Finals
  <2> QED
    BY <2>2, <2>3
<1> QED
  BY <1>8, <1>9, <1>10, <1>11, <1>12, <1>13, <1>14, <1>15, <1>16, <1>17

\* A round gets its provisional winner.
LEMMA RoundDecided ==
    ASSUME Inductive, NEW r \in Rounds, NEW winner \in Ids(r),
           round_status[r] = "open",
           Decide(r, winner),
           UNCHANGED <<interpretations, round_challenge, claimed, live, bucket_round>>,
           \A k \in Rounds \ {r} : evidence_hash'[k] = evidence_hash[k]
    PROVE  RoundRecords'
<1> USE DEF Inductive, RoundRecords
<1>1. /\ round_status \in [Rounds -> RoundStatus]
      /\ meta \in [Rounds -> MetaType]
      /\ meta[r] \in MetaType
  BY DEF TypeOK
<1>2. /\ round_status'[r] = "decided_pending"
      /\ \A k \in Rounds \ {r} : round_status'[k] = round_status[k] /\ meta'[k] = meta[k]
      /\ meta'[r] = [meta[r] EXCEPT !.pending_winner = winner,
                                    !.challenge_deadline = now + ChallengeWindow]
  BY <1>1 DEF Decide
<1>3. /\ meta'[r].pending_winner = winner
      /\ meta'[r].stake_pool = meta[r].stake_pool
      /\ meta'[r].bonus = meta[r].bonus
      /\ meta'[r].challenge_bond = meta[r].challenge_bond
      /\ meta'[r].paid_winners = meta[r].paid_winners
      /\ meta'[r].claimed_winner_stake = meta[r].claimed_winner_stake
      /\ meta'[r].challenger_payout = meta[r].challenger_payout
  BY <1>1, <1>2 DEF MetaType
<1>4. \A k \in Rounds : Ids(k)' = Ids(k) /\ ChallengerUnpaid(k)' = ChallengerUnpaid(k)
  BY <1>2, <1>3 DEF Ids, ChallengerUnpaid
<1>5. Finals' = Finals /\ r \notin Finals
  BY <1>2 DEF Finals, FinalStatus
<1>16. \A k \in Rounds :
          /\ meta'[k].bonus = meta[k].bonus
          /\ meta'[k].paid_winners = meta[k].paid_winners
          /\ meta'[k].claimed_winner_stake = meta[k].claimed_winner_stake
          /\ round_status'[k] \in FinalStatus <=> round_status[k] \in FinalStatus
          /\ round_status'[k] = "none" <=> round_status[k] = "none"
          /\ Claimable(k)' <=> Claimable(k)
          /\ Undecided(k)' => Undecided(k)
  <2>1. SUFFICES ASSUME NEW k \in Rounds PROVE <1>16!(k)
    OBVIOUS
  <2>2. CASE k = r
    BY <1>2, <1>3, <2>2
    DEF Claimable, Undecided, ClaimableStatus, FinalStatus, RefundStatus
  <2>3. CASE k # r
    BY <1>2, <1>3, <2>3 DEF Claimable, Undecided
  <2> QED
    BY <2>2, <2>3
<1>6. StakedRounds'
  BY <1>2, <1>4 DEF StakedRounds
<1>7. VerdictRecords'
  BY <1>2, <1>3, <1>4 DEF VerdictRecords, Undecided, PendingStatus, FinalStatus, RefundStatus
<1>8. ChallengeRecords'
  <2>1. SUFFICES ASSUME NEW k \in Rounds PROVE ChallengeRecords!(k)'
    BY DEF ChallengeRecords
  <2>2. CASE k = r
    BY <1>2, <1>3, <2>2 DEF ChallengeRecords, Undecided
  <2>3. CASE k # r
    BY <1>2, <1>4, <1>16, <2>3 DEF ChallengeRecords
  <2> QED
    BY <2>2, <2>3
<1>9. SettlementRecords'
  BY <1>16 DEF SettlementRecords
<1>10. RoundLedger'
  <2>1. SUFFICES ASSUME NEW k \in Rounds PROVE RoundLedger!(k)'
    BY DEF RoundLedger
  <2>2. CASE k = r
    BY <1>2, <1>3, <2>2 DEF RoundLedger, FinalStatus
  <2>3. CASE k # r
    BY <1>2, <1>4, <2>3 DEF RoundLedger
  <2> QED
    BY <2>2, <2>3
<1>11. PotCovers'
  BY <1>2, <1>5 DEF PotCovers, Finals
<1>12. LiveOutputIsFinal'
  BY <1>2, <1>5 DEF LiveOutputIsFinal, Finals
<1>13. LiveRecords'
  <2>1. live.round # 0 => live.round \in Rounds \ {r}
    BY <1>5 DEF LiveOutputIsFinal, Finals
  <2> QED
    BY <1>4, <2>1 DEF LiveRecords
<1>14. WinnerJustified'
  BY <1>2, <1>4, <1>5 DEF WinnerJustified, Finals
<1>15. UnchangedIsStale'
  BY <1>2, <1>4, <1>5 DEF UnchangedIsStale, Finals
<1> QED
  BY <1>6, <1>7, <1>8, <1>9, <1>10, <1>11, <1>12, <1>13, <1>14, <1>15

\* A challenge leaves the records of every round consistent.
LEMMA ChallengeRecorded ==
    ASSUME Inductive, NEW r \in Rounds, NEW a \in Account, NEW c \in Content,
           NEW bond \in Amounts, Challenge(r, a, c, bond)
    PROVE  RoundRecords'
<1> USE DEF Inductive, RoundRecords
<1>1. /\ round_status \in [Rounds -> RoundStatus]
      /\ meta \in [Rounds -> MetaType] /\ meta[r] \in MetaType
      /\ bucket_round \in [Rounds -> Nat]
      /\ round_challenge \in [Rounds -> ChallengeType]
      /\ bond \in Nat
  BY AmountAssumption DEF TypeOK
<1>2. /\ round_status[r] = "decided_pending"
      /\ round_status'[r] = "challenged"
      /\ meta'[r] = [meta[r] EXCEPT !.challenge_bond = bond]
      /\ bucket_round'[r] = bucket_round[r] + bond
      /\ round_challenge'[r] =
             [challenger |-> a, alternative_id |-> c, original_winner |-> meta[r].pending_winner,
              bond |-> bond, challenged_at |-> now, outcome |-> "open"]
      /\ c \in Ids(r) /\ c # meta[r].pending_winner
      /\ UNCHANGED <<interpretations, evidence_hash, claimed, live>>
  BY <1>1 DEF Challenge, CreditRound, stakeVars
<1>3. \A k \in Rounds \ {r} :
          /\ round_status'[k] = round_status[k]
          /\ meta'[k] = meta[k]
          /\ bucket_round'[k] = bucket_round[k]
          /\ round_challenge'[k] = round_challenge[k]
  BY <1>1 DEF Challenge, CreditRound
<1>4. /\ meta'[r].pending_winner = meta[r].pending_winner
      /\ meta'[r].stake_pool = meta[r].stake_pool
      /\ meta'[r].bonus = meta[r].bonus
      /\ meta[r].challenge_bond = 0
      /\ meta'[r].challenge_bond = bond
      /\ meta'[r].paid_winners = meta[r].paid_winners
      /\ meta'[r].claimed_winner_stake = meta[r].claimed_winner_stake
      /\ meta[r].stake_pool \in Nat /\ meta[r].bonus \in Nat
  BY <1>1, <1>2 DEF MetaType, ChallengeRecords
<1>5. \A k \in Rounds : Ids(k)' = Ids(k)
  BY <1>2 DEF Ids
<1>6. Finals' = Finals /\ r \notin Finals
  BY <1>2, <1>3 DEF Finals, FinalStatus
<1>17. \A k \in Rounds :
          /\ meta'[k].bonus = meta[k].bonus
          /\ meta'[k].paid_winners = meta[k].paid_winners
          /\ meta'[k].claimed_winner_stake = meta[k].claimed_winner_stake
          /\ round_status'[k] \in FinalStatus <=> round_status[k] \in FinalStatus
          /\ round_status'[k] = "none" <=> round_status[k] = "none"
          /\ Claimable(k)' <=> Claimable(k)
          /\ Undecided(k)' => Undecided(k)
  <2>1. SUFFICES ASSUME NEW k \in Rounds PROVE <1>17!(k)
    OBVIOUS
  <2>2. CASE k = r
    BY <1>2, <1>4, <2>2
    DEF Claimable, Undecided, ClaimableStatus, FinalStatus, RefundStatus
  <2>3. CASE k # r
    BY <1>2, <1>3, <2>3 DEF Claimable, Undecided
  <2> QED
    BY <2>2, <2>3
<1>7. StakedRounds'
  BY <1>2, <1>3, <1>5 DEF StakedRounds
<1>8. VerdictRecords'
  <2>1. SUFFICES ASSUME NEW k \in Rounds PROVE VerdictRecords!(k)'
    BY DEF VerdictRecords
  <2>2. CASE k = r
    BY <1>2, <1>4, <1>5, <2>2
    DEF VerdictRecords, Undecided, PendingStatus, FinalStatus, RefundStatus
  <2>3. CASE k # r
    BY <1>3, <1>5, <1>17, <2>3 DEF VerdictRecords
  <2> QED
    BY <2>2, <2>3
<1>9. ChallengeRecords'
  <2>1. SUFFICES ASSUME NEW k \in Rounds PROVE ChallengeRecords!(k)'
    BY DEF ChallengeRecords
  <2>2. CASE k = r
    <3>1. ~Undecided(r)' /\ round_status'[r] # "decided_pending"
      BY <1>2 DEF Undecided, RefundStatus
    <3>2. /\ round_challenge'[r].challenger = a
          /\ round_challenge'[r].outcome = "open"
          /\ round_challenge'[r].alternative_id = c
          /\ round_challenge'[r].original_winner = meta[r].pending_winner
      BY <1>2
    <3> QED
      BY <1>2, <1>4, <1>5, <2>2, <3>1, <3>2
  <2>3. CASE k # r
    BY <1>3, <1>5, <1>17, <2>3 DEF ChallengeRecords
  <2> QED
    BY <2>2, <2>3
<1>10. SettlementRecords'
  <2>1. \A k \in Rounds : round_status'[k] = "none" => bucket_round'[k] = bucket_round[k]
    BY <1>2, <1>3
  <2> QED
    BY <1>2, <1>17, <2>1 DEF SettlementRecords
<1>11. RoundLedger'
  <2>1. SUFFICES ASSUME NEW k \in Rounds PROVE RoundLedger!(k)'
    BY DEF RoundLedger
  <2>2. CASE k = r
    <3>1. bucket_round[r] = meta[r].stake_pool + meta[r].bonus + meta[r].challenge_bond
      BY <1>2 DEF RoundLedger, PendingStatus
    <3>2. bucket_round'[r] = meta'[r].stake_pool + meta'[r].bonus + meta'[r].challenge_bond
      BY <1>1, <1>2, <1>4, <3>1
    <3>3. round_status'[r] \notin FinalStatus
      BY <1>2 DEF FinalStatus
    <3> QED
      BY <2>2, <3>2, <3>3
  <2>3. CASE k # r
    BY <1>2, <1>3, <2>3 DEF RoundLedger, ChallengerUnpaid
  <2> QED
    BY <2>2, <2>3
<1>12. PotCovers'
  BY <1>3, <1>6 DEF PotCovers, Finals
<1>13. LiveOutputIsFinal'
  BY <1>2, <1>3, <1>6 DEF LiveOutputIsFinal, Finals
<1>14. LiveRecords'
  <2>1. live.round # 0 => live.round \in Rounds
    BY DEF LiveOutputIsFinal, Finals
  <2> QED
    BY <1>2, <1>5, <2>1 DEF LiveRecords
<1>15. WinnerJustified'
  BY <1>2, <1>3, <1>5, <1>6 DEF WinnerJustified, Finals
<1>16. UnchangedIsStale'
  BY <1>2, <1>3, <1>5, <1>6 DEF UnchangedIsStale, Finals
<1> QED
  BY <1>7, <1>8, <1>9, <1>10, <1>11, <1>12, <1>13, <1>14, <1>15, <1>16

\* resolve_challenge and finalize: a round becomes final, its ledger is closed
\* and its successor opens.
LEMMA RoundFinalized ==
    ASSUME Inductive, NEW r \in Rounds, NEW winner \in Content, Electable(r, winner),
           NEW outcome \in {"none", "upheld", "rejected", "unresolved", "expired"},
           outcome = "none" => round_status[r] = "decided_pending",
           outcome # "none" => round_status[r] = "challenged",
           winner = WinnerAfter(r, outcome),
           FinalizeRound(r, winner, outcome)
    PROVE  RoundRecords'
<1> USE DEF Inductive, RoundRecords
<1> DEFINE n == r + 1
           m == meta[r]
           payout == ChallengerPayout(outcome, m.challenge_bond, m.stake_pool)
           pot == Pot(m.stake_pool, Bonus(r), m.challenge_bond, payout)
           total == interpretations[r][winner].total_stake
           final == [m EXCEPT !.pending_winner = winner, !.winner_id = winner,
                              !.winner_total = total, !.bonus = Bonus(r), !.pot = pot,
                              !.challenger_payout = payout]
<1>1. /\ TypeOK'
      /\ r = current_round
      /\ n \in Rounds
      /\ status # "closed"
      /\ round_status' = [round_status EXCEPT ![r] = "finalized", ![n] = "open"]
  BY FinalizeRoundType
<1>2. /\ r \in Nat /\ n \in Nat /\ n # r /\ n > r
      /\ round_status[n] = "none"
  BY <1>1, TimeAssumption DEF OneRoundInFlight, Rounds
<1>3. /\ round_status \in [Rounds -> RoundStatus]
      /\ meta \in [Rounds -> MetaType] /\ m \in MetaType
      /\ bucket_round \in [Rounds -> Nat] /\ bucket_carry \in Nat
      /\ round_challenge \in [Rounds -> ChallengeType]
      /\ round_challenge[r] \in ChallengeType
      /\ claimed \subseteq Rounds \X Account
  BY DEF TypeOK
<1>4. /\ meta' = [meta EXCEPT ![r] = final, ![n] = BlankMeta(now)]
      /\ bucket_round' = [bucket_round EXCEPT ![r] = @ + bucket_carry]
      /\ round_challenge' = [round_challenge EXCEPT ![r].outcome = outcome]
      /\ live' = [id |-> winner, round |-> r,
                  evidence_hash |-> evidence_hash[r], judged |-> Ids(r)]
      /\ UNCHANGED <<interpretations, evidence_hash, claimed>>
  BY <1>1 DEF FinalizeRound, LeaveRound, Advances, NewLive, stakeVars
<1>u. /\ interpretations' = interpretations
      /\ evidence_hash' = evidence_hash
      /\ claimed' = claimed
      /\ live'.round = r /\ live'.id = winner
      /\ live'.judged = Ids(r) /\ live'.evidence_hash = evidence_hash[r]
  BY <1>4
<1>5. /\ round_status'[r] = "finalized" /\ round_status'[n] = "open"
      /\ meta'[n] = BlankMeta(now) /\ meta'[r] = final
      /\ bucket_round'[r] = bucket_round[r] + bucket_carry
      /\ \A k \in Rounds \ {r} : /\ bucket_round'[k] = bucket_round[k]
                                 /\ round_challenge'[k] = round_challenge[k]
      /\ \A k \in Rounds \ {r, n} : meta'[k] = meta[k] /\ round_status'[k] = round_status[k]
  <2> HIDE DEF final
  <2> QED
    BY <1>1, <1>2, <1>3, <1>4
<1>6. /\ meta'[r].pending_winner = winner
      /\ meta'[r].winner_id = winner
      /\ meta'[r].winner_total = total
      /\ meta'[r].pot = pot
      /\ meta'[r].challenger_payout = payout
      /\ meta'[r].paid_winners = m.paid_winners
      /\ meta'[r].claimed_winner_stake = m.claimed_winner_stake
  <2> HIDE DEF pot, payout, total, m
  <2> QED
    BY <1>3, <1>5 DEF MetaType
<1>7. /\ round_challenge'[r].challenger = round_challenge[r].challenger
      /\ round_challenge'[r].alternative_id = round_challenge[r].alternative_id
      /\ round_challenge'[r].original_winner = round_challenge[r].original_winner
      /\ round_challenge'[r].outcome = outcome
  BY <1>3, <1>4 DEF ChallengeType
<1>8. /\ round_status[r] \in PendingStatus /\ winner \in Ids(r)
      /\ m.paid_winners = 0 /\ m.claimed_winner_stake = 0
      /\ \A a \in Account : <<r, a>> \notin claimed
  BY DEF Electable, SettlementRecords, PendingStatus, FinalStatus, Claimable,
         ClaimableStatus, RefundStatus
<1>9. Finals' = Finals \cup {r} /\ r \notin Finals /\ n \notin Finals
  <2>1. /\ round_status[r] \notin FinalStatus /\ round_status'[r] \in FinalStatus
        /\ round_status[n] \notin FinalStatus /\ round_status'[n] \notin FinalStatus
    BY <1>2, <1>5, <1>8 DEF FinalStatus, PendingStatus
  <2>2. \A k \in Rounds : round_status'[k] \in FinalStatus
                           <=> round_status[k] \in FinalStatus \/ k = r
    BY <1>5, <2>1
  <2> QED
    BY <2>1, <2>2 DEF Finals
<1>10. \A k \in Rounds : Ids(k)' = Ids(k)
  BY <1>4 DEF Ids
<1>11. \A k \in Finals : k < r /\ k \in Rounds \ {r, n}
  BY <1>1, <1>2, <1>9, TimeAssumption DEF OneRoundInFlight, Finals, FinalStatus, Rounds
<1>12. total \in Nat \ {0}
  <2>1. interpretations[r][winner] \in InterpretationType
    BY DEF TypeOK
  <2> QED
    BY <1>8, <2>1 DEF InterpretationType, StakedRounds
<1>13. StakedRounds'
  BY <1>2, <1>4, <1>5, <1>10 DEF StakedRounds, Electable
<1>14. VerdictRecords'
  <2>1. SUFFICES ASSUME NEW k \in Rounds PROVE VerdictRecords!(k)'
    BY DEF VerdictRecords
  <2>2. CASE k = r
    BY <1>5, <1>6, <2>2 DEF Undecided, PendingStatus, FinalStatus, RefundStatus
  <2>3. CASE k = n
    <3>1. BlankMeta(now).pending_winner = None
      BY DEF BlankMeta
    <3> QED
      BY <1>5, <2>3, <3>1 DEF PendingStatus, FinalStatus
  <2>4. CASE k \notin {r, n}
    BY <1>5, <1>10, <2>4 DEF VerdictRecords, Undecided
  <2> QED
    BY <2>2, <2>3, <2>4
<1>15. ChallengeRecords'
  <2>1. SUFFICES ASSUME NEW k \in Rounds PROVE ChallengeRecords!(k)'
    BY DEF ChallengeRecords
  <2>2. CASE k = r
    BY <1>5, <2>2 DEF Undecided, RefundStatus
  <2>3. CASE k = n
    <3>1. BlankMeta(now).challenge_bond = 0
      BY DEF BlankMeta
    <3>2. round_challenge'[n] = NoChallenge
      BY <1>2, <1>5, <2>3 DEF ChallengeRecords, Undecided
    <3> QED
      BY <1>5, <2>3, <3>1, <3>2
  <2>4. CASE k \notin {r, n}
    BY <1>5, <1>10, <2>4 DEF ChallengeRecords, Undecided
  <2> QED
    BY <2>2, <2>3, <2>4
<1>16. SettlementRecords'
  <2>1. /\ BlankMeta(now).bonus = 0
        /\ BlankMeta(now).paid_winners = 0
        /\ BlankMeta(now).claimed_winner_stake = 0
    BY DEF BlankMeta
  <2>2. ASSUME NEW k \in Rounds, round_status'[k] \notin FinalStatus
        PROVE  /\ meta'[k].bonus = 0
               /\ meta'[k].paid_winners = 0
               /\ meta'[k].claimed_winner_stake = 0
    <3>1. k # r
      BY <1>5, <2>2 DEF FinalStatus
    <3>2. CASE k = n
      BY <1>5, <2>1, <3>2
    <3>3. CASE k # n
      BY <1>5, <2>2, <3>1, <3>3 DEF SettlementRecords
    <3> QED
      BY <3>2, <3>3
  <2>3. \A k \in Rounds : round_status'[k] = "none" => bucket_round'[k] = 0
    BY <1>5 DEF SettlementRecords
  <2>4. ASSUME NEW k \in Rounds, NEW a \in Account, <<k, a>> \in claimed
        PROVE  Claimable(k)'
    <3>1. Claimable(k)
      BY <2>4 DEF SettlementRecords
    <3>2. k # r /\ k # n
      BY <1>2, <1>8, <2>4, <3>1 DEF Claimable, ClaimableStatus, RefundStatus
    <3> QED
      BY <1>5, <3>1, <3>2 DEF Claimable
  <2> QED
    BY <1>4, <2>2, <2>3, <2>4 DEF SettlementRecords
<1>17. RoundLedger'
  <2>1. SUFFICES ASSUME NEW k \in Rounds PROVE RoundLedger!(k)'
    BY DEF RoundLedger
  <2>2. CASE k = r
    <3>1. bucket_round[r] = m.stake_pool + m.bonus + m.challenge_bond
      BY <1>8 DEF RoundLedger
    <3>2. ChallengerUnpaid(k)' = payout
      <4>1. CASE outcome = "none"
        <5>1. round_challenge[r].challenger = None
          BY <4>1 DEF ChallengeRecords, NoChallenge
        <5>2. payout = 0
          BY <4>1 DEF ChallengerPayout
        <5> QED
          BY <1>7, <2>2, <5>1, <5>2 DEF ChallengerUnpaid
      <4>2. CASE outcome # "none"
        <5>1. round_challenge[r].challenger \in Account
          BY <4>2 DEF ChallengeRecords
        <5>2. round_challenge[r].challenger # None /\ <<r, round_challenge[r].challenger>> \notin claimed
          BY <1>8, <5>1, AccountAssumption
        <5> HIDE DEF payout
        <5> QED
          BY <1>6, <1>7, <1>u, <2>2, <5>2 DEF ChallengerUnpaid
      <4> QED
        BY <4>1, <4>2
    <3>3. /\ m.stake_pool \in Nat /\ m.bonus \in Nat /\ m.challenge_bond \in Nat
          /\ payout \in Nat
      BY <1>3, PayoutCovered DEF MetaType
    <3>4. pot = m.stake_pool + (m.bonus + bucket_carry) + m.challenge_bond - payout
      BY DEF Pot, Bonus
    <3>5. bucket_round'[r] = pot - 0 + payout
      <4> HIDE DEF payout, pot, m
      <4> QED
        BY <1>3, <1>5, <3>1, <3>3, <3>4
    <3>6. meta'[r].pot = pot /\ meta'[r].paid_winners = 0
      BY <1>6, <1>8
    <3> HIDE DEF payout, pot, m
    <3> QED
      BY <1>5, <2>2, <3>2, <3>5, <3>6 DEF PendingStatus
  <2>3. CASE k = n
    <3>1. BlankMeta(now).stake_pool + BlankMeta(now).bonus + BlankMeta(now).challenge_bond = 0
      BY DEF BlankMeta
    <3>2. bucket_round'[n] = 0
      BY <1>2, <1>5, <2>3 DEF SettlementRecords
    <3> QED
      BY <1>5, <2>3, <3>1, <3>2 DEF FinalStatus
  <2>4. CASE k \notin {r, n}
    <3>1. ChallengerUnpaid(k)' = ChallengerUnpaid(k)
      BY <1>5, <1>u, <2>4 DEF ChallengerUnpaid
    <3> QED
      BY <1>5, <2>4, <3>1 DEF RoundLedger
  <2> QED
    BY <2>2, <2>3, <2>4
<1>18. PotCovers'
  <2>1. SUFFICES ASSUME NEW k \in Finals' PROVE PotCovers!(k)'
    BY DEF PotCovers
  <2>2. CASE k = r
    <3>1. pot \in Nat
      BY <1>1, <1>6 DEF TypeOK, MetaType
    <3> HIDE DEF pot, total, m
    <3> QED
      BY <1>6, <1>8, <1>12, <2>2, <3>1
  <2>3. CASE k # r
    BY <1>5, <1>9, <1>11, <2>3 DEF PotCovers
  <2> QED
    BY <2>2, <2>3
<1>19. LiveOutputIsFinal'
  <2>1. live'.round # 0 /\ live'.round \in Finals'
    BY <1>9, <1>u, TimeAssumption DEF Rounds
  <2>2. \A j \in Finals' : j <= live'.round
    BY <1>2, <1>9, <1>11, <1>u, TimeAssumption DEF Rounds
  <2>3. live'.id = meta'[live'.round].winner_id
    BY <1>6, <1>u
  <2> QED
    BY <2>1, <2>2, <2>3 DEF LiveOutputIsFinal
<1>20. LiveRecords'
  BY <1>10, <1>u DEF LiveRecords
<1>21. WinnerJustified'
  <2>1. SUFFICES ASSUME NEW k \in Finals' PROVE WinnerJustified!(k)'
    BY DEF WinnerJustified
  <2>2. CASE k = r
    <3>1. outcome = "none" => round_challenge[r].challenger = None
      BY DEF ChallengeRecords, NoChallenge
    <3>2. outcome # "none" => round_challenge[r].original_winner = m.pending_winner
      BY DEF ChallengeRecords
    <3>3. winner = IF outcome = "upheld" THEN round_challenge[r].alternative_id
                                         ELSE m.pending_winner
      BY DEF WinnerAfter
    <3> QED
      BY <1>4, <1>6, <1>7, <1>8, <1>10, <2>2, <3>1, <3>2, <3>3
  <2>3. CASE k # r
    <3>1. k \in Finals /\ k \in Rounds \ {r, n}
      BY <1>9, <1>11, <2>3
    <3> QED
      BY <1>5, <1>10, <1>u, <3>1 DEF WinnerJustified
  <2> QED
    BY <2>2, <2>3
<1>22. UnchangedIsStale'
  <2>1. SUFFICES ASSUME NEW q \in Rounds, round_status'[q] = "unchanged"
                 PROVE  \E k \in Finals' :
                            /\ k < q
                            /\ \A j \in Finals' : j < q => j <= k
                            /\ Ids(q) \subseteq Ids(k)
                            /\ evidence_hash[q] = evidence_hash[k]
    BY <1>4, <1>9, <1>10 DEF UnchangedIsStale, Finals
  <2>2. q \notin {r, n} /\ round_status[q] = "unchanged"
    BY <1>5, <2>1
  <2>3. q < r
    BY <1>1, <1>2, <2>2, TimeAssumption DEF OneRoundInFlight, Rounds
  <2>4. PICK k \in Finals : /\ k < q
                            /\ \A j \in Finals : j < q => j <= k
                            /\ Ids(q) \subseteq Ids(k)
                            /\ evidence_hash[q] = evidence_hash[k]
    BY <2>2 DEF UnchangedIsStale
  <2>5. ~(r < q)
    BY <1>2, <2>3, TimeAssumption DEF Rounds
  <2> QED
    BY <1>9, <2>4, <2>5
<1> QED
  BY <1>13, <1>14, <1>15, <1>16, <1>17, <1>18, <1>19, <1>20, <1>21, <1>22

\* settle leaves them consistent.
LEMMA RoundSettled ==
    ASSUME Inductive, NEW r \in Rounds, Settle(r)
    PROVE  RoundRecords'
<1>1. /\ round_status[r] = "finalized"
      /\ round_status'[r] = "settled"
      /\ \A k \in Rounds \ {r} : round_status'[k] = round_status[k]
  BY DEF Settle, TypeOK, Inductive
<1>2. UNCHANGED <<meta, interpretations, round_challenge, evidence_hash, claimed, live,
                  bucket_round>>
  BY DEF Settle, stakeVars, verdictVars, vaultVars
<1>3. ASSUME NEW k \in Rounds
      PROVE  SameStanding(k)
  <2>1. CASE k = r
    BY <1>1, <2>1
    DEF SameStanding, Undecided, Claimable, FinalStatus, PendingStatus, RefundStatus,
        ClaimableStatus
  <2>2. CASE k # r
    BY <1>1, <2>2 DEF SameStanding, Undecided, Claimable
  <2> QED
    BY <2>1, <2>2
<1> QED
  BY <1>2, <1>3, RecordsStand DEF Inductive

\* The last winner takes the rest of the pot, the others a share rounded down.
LEMMA ShareWithinPot ==
    ASSUME Inductive, NEW r \in Finals, NEW a \in Account
    PROVE  LET stake == WinnerStake(r, a)
               share == WinnerShare(r, a)
               taken == meta[r].claimed_winner_stake + stake
               paid == meta[r].paid_winners + share
           IN  /\ stake \in Nat
               /\ share \in Nat
               /\ paid <= meta[r].pot
               /\ taken < meta[r].winner_total =>
                      paid * meta[r].winner_total <= taken * meta[r].pot
<1> USE DEF Inductive, RoundRecords
<1> DEFINE stake == WinnerStake(r, a)
           m == meta[r]
<1>1. /\ r \in Rounds
      /\ m.winner_total \in Nat \ {0} /\ m.pot \in Nat
      /\ m.paid_winners \in Nat /\ m.claimed_winner_stake \in Nat
      /\ m.paid_winners <= m.pot
      /\ m.claimed_winner_stake < m.winner_total =>
             m.paid_winners * m.winner_total <= m.claimed_winner_stake * m.pot
  <2>1. r \in Rounds /\ m \in MetaType
    BY DEF Finals, TypeOK
  <2> QED
    BY <2>1 DEF PotCovers, MetaType
<1>2. stake \in Nat
  BY <1>1 DEF WinnerStake, TypeOK, MetaType, InterpretationType, ContentOrNone
<1>3. CASE stake = 0
  <2>1. WinnerShare(r, a) = 0
    BY <1>3 DEF WinnerShare
  <2> HIDE DEF stake, m
  <2>2. m.paid_winners + 0 = m.paid_winners /\ m.claimed_winner_stake + 0 = m.claimed_winner_stake
    BY <1>1
  <2> QED
    BY <1>1, <1>3, <2>1, <2>2 DEF stake, m
<1>4. CASE stake # 0 /\ m.claimed_winner_stake + stake >= m.winner_total
  <2>1. WinnerShare(r, a) = m.pot - m.paid_winners
    BY <1>4 DEF WinnerShare
  <2>2. m.paid_winners + (m.pot - m.paid_winners) = m.pot /\ m.pot - m.paid_winners \in Nat
    BY <1>1
  <2>3. ~(m.claimed_winner_stake + stake < m.winner_total)
    BY <1>1, <1>2, <1>4
  <2> QED
    BY <1>1, <1>2, <2>1, <2>2, <2>3
<1>5. CASE stake # 0 /\ ~(m.claimed_winner_stake + stake >= m.winner_total)
  <2>1. WinnerShare(r, a) = (stake * m.pot) \div m.winner_total
    BY <1>5 DEF WinnerShare, ProRata
  <2>2. m.claimed_winner_stake < m.winner_total /\ m.claimed_winner_stake + stake < m.winner_total
    BY <1>1, <1>2, <1>5
  <2>3. m.paid_winners * m.winner_total <= m.claimed_winner_stake * m.pot
    BY <1>1, <2>2
  <2> DEFINE share == (stake * m.pot) \div m.winner_total
  <2>4. /\ share \in Nat
        /\ (m.paid_winners + share) * m.winner_total
               <= (m.claimed_winner_stake + stake) * m.pot
        /\ m.claimed_winner_stake + stake < m.winner_total =>
               m.paid_winners + share <= m.pot
    <3> HIDE DEF stake, m
    <3> QED
      BY <1>1, <1>2, <2>3, FloorShare, Zenon
  <2> HIDE DEF share
  <2> QED
    BY <1>2, <2>1, <2>2, <2>4 DEF share
<1> QED
  BY <1>3, <1>4, <1>5

\* claim: what leaves the bucket is what the ledger no longer owes.
LEMMA RoundClaimed ==
    ASSUME Inductive, NEW r \in Rounds, NEW a \in Account, Claim(r, a)
    PROVE  RoundRecords'
<1> USE DEF Inductive, RoundRecords
<1> DEFINE m == meta[r]
<1>1. /\ meta \in [Rounds -> MetaType] /\ m \in MetaType
      /\ bucket_round \in [Rounds -> Nat]
      /\ claimed \subseteq Rounds \X Account
  BY DEF TypeOK
<1>2. /\ round_status' = round_status
      /\ interpretations' = interpretations
      /\ round_challenge' = round_challenge
      /\ evidence_hash' = evidence_hash
      /\ live' = live
      /\ claimed' = claimed \cup {<<r, a>>}
      /\ <<r, a>> \notin claimed
      /\ Claimable(r)
  BY DEF Claim, stakeVars, verdictVars, Claimable
<1>3. /\ meta' = [meta EXCEPT ![r] = AfterClaim(r, a)]
      /\ bucket_round' = [bucket_round EXCEPT ![r] = @ - Owed(r, a)]
  BY DEF Claim
<1>4. /\ meta'[r] = AfterClaim(r, a)
      /\ \A k \in Rounds \ {r} : meta'[k] = meta[k] /\ bucket_round'[k] = bucket_round[k]
      /\ bucket_round'[r] = bucket_round[r] - Owed(r, a)
  BY <1>1, <1>3
<1>5. /\ meta'[r].pending_winner = m.pending_winner
      /\ meta'[r].challenge_bond = m.challenge_bond
      /\ meta'[r].bonus = m.bonus
      /\ meta'[r].pot = m.pot
      /\ meta'[r].winner_id = m.winner_id
      /\ meta'[r].winner_total = m.winner_total
      /\ meta'[r].challenger_payout = m.challenger_payout
  <2> DEFINE taken == m.claimed_winner_stake + WinnerStake(r, a)
             paid == m.paid_winners + WinnerShare(r, a)
  <2>1. \/ AfterClaim(r, a) = m
        \/ AfterClaim(r, a) = [m EXCEPT !.claimed_winner_stake = taken, !.paid_winners = paid]
    BY DEF AfterClaim
  <2> HIDE DEF taken, paid
  <2> QED
    BY <1>1, <1>4, <2>1 DEF MetaType
<1>6. round_status[r] # "settled" => meta'[r] = m
  BY <1>4 DEF AfterClaim
<1>7. round_status[r] = "settled" =>
          /\ meta'[r].claimed_winner_stake = m.claimed_winner_stake + WinnerStake(r, a)
          /\ meta'[r].paid_winners = m.paid_winners + WinnerShare(r, a)
  BY <1>1, <1>4 DEF AfterClaim, MetaType
<1>8. Finals' = Finals
  BY <1>2 DEF Finals
<1>9. \A k \in Rounds : Ids(k)' = Ids(k)
  BY <1>2 DEF Ids
<1>10. StakedRounds'
  BY <1>2, <1>9 DEF StakedRounds
<1>11. VerdictRecords'
  BY <1>2, <1>4, <1>5, <1>9 DEF VerdictRecords, Undecided
<1>12. ChallengeRecords'
  <2>1. \A k \in Rounds : /\ meta'[k].challenge_bond = meta[k].challenge_bond
                          /\ meta'[k].pending_winner = meta[k].pending_winner
    BY <1>4, <1>5
  <2> QED
    BY <1>2, <1>9, <2>1 DEF ChallengeRecords, Undecided
<1>13. SettlementRecords'
  <2>1. \A k \in Rounds : round_status[k] \notin FinalStatus => meta'[k] = meta[k]
    BY <1>4, <1>6 DEF FinalStatus
  <2>2. \A k \in Rounds : round_status[k] = "none" => bucket_round'[k] = bucket_round[k]
    BY <1>2, <1>4 DEF Claimable, ClaimableStatus, RefundStatus
  <2>3. \A k \in Rounds, b \in Account : <<k, b>> \in claimed' => Claimable(k)
    BY <1>2 DEF SettlementRecords
  <2> QED
    BY <1>2, <2>1, <2>2, <2>3 DEF SettlementRecords, Claimable
<1>14. RoundLedger'
  <2>1. SUFFICES ASSUME NEW k \in Rounds PROVE RoundLedger!(k)'
    BY DEF RoundLedger
  <2>2. CASE k = r
    <3>1. CASE round_status[r] = "settled"
      <4>1. r \in Finals
        BY <3>1 DEF Finals, FinalStatus
      <4> DEFINE share == WinnerShare(r, a)
                 payout == m.challenger_payout
                 due == IF Challenged(r, a) THEN payout ELSE 0
                 unpaid == ChallengerUnpaid(r)
      <4>2. share \in Nat /\ payout \in Nat /\ m.pot \in Nat /\ m.paid_winners \in Nat
        BY <1>1, <4>1, ShareWithinPot DEF MetaType
      <4>3. bucket_round[r] = m.pot - m.paid_winners + unpaid
        BY <3>1 DEF RoundLedger, FinalStatus
      <4>4. Owed(r, a) = share + due
        BY <3>1 DEF Owed, RefundStatus
      <4>5. unpaid \in Nat /\ due \in Nat
        BY <4>2 DEF ChallengerUnpaid
      <4>6. ChallengerUnpaid(k)' = unpaid - due
        <5>1. CASE Challenged(r, a)
          <6>1. round_challenge[r].challenger = a /\ a # None
            BY <5>1, AccountAssumption DEF Challenged
          <6>2. unpaid = payout /\ due = payout
            BY <1>2, <5>1, <6>1 DEF ChallengerUnpaid
          <6>3. ChallengerUnpaid(k)' = 0
            BY <1>2, <2>2, <6>1 DEF ChallengerUnpaid
          <6> QED
            BY <4>2, <6>2, <6>3
        <5>2. CASE ~Challenged(r, a)
          <6>1. round_challenge[r].challenger # a
            BY <5>2 DEF Challenged
          <6>2. ChallengerUnpaid(k)' = unpaid
            BY <1>2, <1>5, <2>2, <6>1 DEF ChallengerUnpaid
          <6>3. due = 0
            BY <5>2
          <6> QED
            BY <4>5, <6>2, <6>3
        <5> QED
          BY <5>1, <5>2
      <4>7. bucket_round'[r] = m.pot - (m.paid_winners + share) + (unpaid - due)
        <5> HIDE DEF share, due, unpaid, m
        <5> QED
          BY <1>4, <4>2, <4>3, <4>4, <4>5
      <4>8. meta'[k].pot = m.pot /\ meta'[k].paid_winners = m.paid_winners + share
        BY <1>5, <1>7, <2>2, <3>1
      <4> HIDE DEF share, due, unpaid, m
      <4> QED
        BY <1>2, <2>2, <3>1, <4>6, <4>7, <4>8 DEF PendingStatus
    <3>2. CASE round_status[r] # "settled"
      BY <1>2, <2>2, <3>2
      DEF Claimable, ClaimableStatus, RefundStatus, FinalStatus, PendingStatus
    <3> QED
      BY <3>1, <3>2
  <2>3. CASE k # r
    <3>1. ChallengerUnpaid(k)' = ChallengerUnpaid(k)
      BY <1>2, <1>4, <2>3 DEF ChallengerUnpaid
    <3> QED
      BY <1>2, <1>4, <2>3, <3>1 DEF RoundLedger
  <2> QED
    BY <2>2, <2>3
<1>15. PotCovers'
  <2>1. SUFFICES ASSUME NEW k \in Finals PROVE PotCovers!(k)'
    BY <1>8 DEF PotCovers
  <2>2. CASE k = r /\ round_status[r] = "settled"
    <3>1. /\ m.paid_winners + WinnerShare(r, a) <= m.pot
          /\ m.claimed_winner_stake + WinnerStake(r, a) < m.winner_total =>
                 (m.paid_winners + WinnerShare(r, a)) * m.winner_total
                     <= (m.claimed_winner_stake + WinnerStake(r, a)) * m.pot
      BY <2>2, ShareWithinPot
    <3>2. m.winner_total > 0
      BY <2>2 DEF PotCovers
    <3> HIDE DEF m
    <3> QED
      BY <1>5, <1>7, <2>2, <3>1, <3>2
  <2>3. CASE k # r \/ round_status[r] # "settled"
    <3>1. meta'[k] = meta[k]
      BY <1>4, <1>6, <2>3 DEF Finals
    <3> QED
      BY <3>1 DEF PotCovers
  <2> QED
    BY <2>2, <2>3
<1>16. \A k \in Rounds : /\ meta'[k].winner_id = meta[k].winner_id
                         /\ meta'[k].winner_total = meta[k].winner_total
  BY <1>4, <1>5
<1>17. LiveOutputIsFinal'
  BY <1>2, <1>8, <1>16 DEF LiveOutputIsFinal, Finals
<1>18. LiveRecords'
  BY <1>2 DEF LiveRecords, Ids
<1>19. WinnerJustified'
  BY <1>2, <1>8, <1>9, <1>16 DEF WinnerJustified, Finals
<1>20. UnchangedIsStale'
  BY <1>2, <1>8, <1>9 DEF UnchangedIsStale, Finals
<1> QED
  BY <1>10, <1>11, <1>12, <1>13, <1>14, <1>15, <1>17, <1>18, <1>19, <1>20

\* finalize_close cancels the open round and opens no successor.
LEMMA RoundClosed ==
    ASSUME Inductive, FinalizeClose
    PROVE  RoundRecords'
<1> DEFINE r == current_round
<1>1. /\ r \in Rounds
      /\ round_status[r] = "open"
      /\ round_status'[r] = "cancelled"
      /\ \A k \in Rounds \ {r} : round_status'[k] = round_status[k]
  BY DEF FinalizeClose, Closable, TypeOK, Inductive
<1>2. UNCHANGED <<meta, interpretations, round_challenge, evidence_hash, claimed, live,
                  bucket_round>>
  BY DEF FinalizeClose, stakeVars, verdictVars
<1>3. ASSUME NEW k \in Rounds
      PROVE  SameStanding(k)
  <2>1. CASE k = r
    BY <1>1, <2>1
    DEF SameStanding, Undecided, Claimable, FinalStatus, PendingStatus, RefundStatus,
        ClaimableStatus
  <2>2. CASE k # r
    BY <1>1, <2>2 DEF SameStanding, Undecided, Claimable
  <2> QED
    BY <2>1, <2>2
<1> QED
  BY <1>2, <1>3, RecordsStand DEF Inductive

-----------------------------------------------------------------------------
(* One round in flight, the timers, the close                              *)

\* Leaving a round opens its successor and keeps the timers and the closing.
LEMMA SuccessorOpens ==
    ASSUME Inductive, NEW r \in Rounds, NEW s \in FinalStatus \cup RefundStatus,
           NEW m \in MetaType,
           round_status[r] \in {"open"} \cup PendingStatus, r < MaxRound,
           LeaveRound(r, s, m),
           UNCHANGED <<now, status, close_requested_at, interpretations>>
    PROVE  OneRoundInFlight' /\ TimersPast' /\ ClosingDrains' /\ status' # "closed"
<1> USE DEF Inductive, RoundRecords
<1> DEFINE n == r + 1
<1>1. /\ r = current_round
      /\ n \in Rounds
      /\ status # "closed"
      /\ current_round' = n
      /\ round_status' = [round_status EXCEPT ![r] = s, ![n] = "open"]
      /\ meta' = [meta EXCEPT ![r] = m, ![n] = BlankMeta(now)]
  BY RoundLeft DEF RoundStatus
<1>2. r \in Nat /\ n # r /\ n > r /\ round_status[n] = "none"
  BY <1>1, TimeAssumption DEF OneRoundInFlight, Rounds
<1>3. /\ round_status'[r] = s /\ round_status'[n] = "open"
      /\ \A k \in Rounds \ {r, n} : round_status'[k] = round_status[k]
      /\ meta'[n].opened_at = now
  BY <1>1, <1>2 DEF TypeOK, BlankMeta
<1>4. OneRoundInFlight'
  <2>1. SUFFICES ASSUME NEW k \in Rounds PROVE OneRoundInFlight!(k)'
    BY DEF OneRoundInFlight
  <2>2. k \in Nat
    BY TimeAssumption DEF Rounds
  <2>3. CASE k = r
    BY <1>1, <1>2, <1>3, <2>3
  <2>4. CASE k = n
    BY <1>1, <1>3, <2>4, <2>2
  <2>5. CASE k \notin {r, n}
    <3>1. round_status'[k] = round_status[k]
      BY <1>3, <2>5
    <3>2. k < r \/ k > n
      BY <1>2, <2>2, <2>5
    <3>3. CASE k < r
      BY <1>1, <1>2, <2>2, <3>1, <3>3 DEF OneRoundInFlight
    <3>4. CASE k > n
      BY <1>1, <1>2, <2>2, <3>1, <3>4 DEF OneRoundInFlight
    <3> QED
      BY <3>2, <3>3, <3>4
  <2> QED
    BY <2>3, <2>4, <2>5
<1>5. TimersPast'
  BY <1>1, <1>3 DEF TimersPast, TypeOK
<1>6. ClosingDrains'
  <2>1. Ids(n)' = {}
    BY <1>1, <1>2 DEF StakedRounds, Ids
  <2> QED
    BY <1>1, <2>1 DEF ClosingDrains
<1> QED
  BY <1>1, <1>4, <1>5, <1>6

\* A step in which the current round stays in flight.
LEMMA RoundStays ==
    ASSUME Inductive,
           UNCHANGED <<status, close_requested_at, current_round>>,
           now' \in Nat, now <= now',
           \A k \in Rounds : meta'[k].opened_at = meta[k].opened_at,
           status # "active" => interpretations' = interpretations,
           \A k \in Rounds :
               \/ round_status'[k] = round_status[k]
               \/ /\ round_status[k] \in FinalStatus
                  /\ round_status'[k] \in FinalStatus
               \/ /\ round_status[k] \in {"open"} \cup PendingStatus
                  /\ round_status'[k] \in {"open"} \cup PendingStatus
    PROVE  OneRoundInFlight' /\ TimersPast' /\ ClosingDrains'
<1> USE DEF Inductive
<1>1. OneRoundInFlight'
  <2>1. SUFFICES ASSUME NEW k \in Rounds PROVE OneRoundInFlight!(k)'
    BY DEF OneRoundInFlight
  <2>2. "none" \notin FinalStatus \cup PendingStatus
        /\ "cancelled" \notin FinalStatus \cup PendingStatus
        /\ (FinalStatus \cup RefundStatus) \cap ({"open"} \cup PendingStatus) = {}
    BY DEF FinalStatus, PendingStatus, RefundStatus
  <2>3. k \in Nat /\ current_round \in Nat
    BY TimeAssumption DEF Rounds, TypeOK
  <2> QED
    BY <2>2, <2>3 DEF OneRoundInFlight
<1>2. TimersPast'
  <2>1. /\ current_round \in Rounds
        /\ meta[current_round].opened_at \in Nat
        /\ close_requested_at \in Nat /\ now \in Nat
    BY DEF TypeOK, MetaType
  <2> QED
    BY <2>1 DEF TimersPast
<1>3. ClosingDrains'
  BY DEF ClosingDrains, Ids, TypeOK
<1> QED
  BY <1>1, <1>2, <1>3

\* Outside finalize_close the end of the engine is not touched.
LEMMA StaysQuiescent ==
    ASSUME Inductive, TypeOK', OneRoundInFlight', UNCHANGED status,
           status = "closed" =>
               /\ bucket_carry' = 0
               /\ \A s \in Source :
                      source_records'[s].bond_status = "locked"
                          => source_records[s].bond_status = "locked"
    PROVE  ClosedIsQuiescent'
<1> SUFFICES ASSUME status = "closed"
             PROVE  ClosedIsQuiescent'
  BY DEF ClosedIsQuiescent
<1>1. \A r \in Rounds : round_status'[r] \notin {"open"} \cup PendingStatus
  <2>1. SUFFICES ASSUME NEW r \in Rounds
                 PROVE  round_status'[r] \notin {"open"} \cup PendingStatus
    OBVIOUS
  <2>2. r \in Nat /\ current_round' \in Nat
    BY TimeAssumption DEF Rounds, TypeOK
  <2>3. round_status'[r] \in FinalStatus \cup RefundStatus \cup {"none", "cancelled"}
    BY <2>2 DEF OneRoundInFlight
  <2> QED
    BY <2>3 DEF FinalStatus, RefundStatus, PendingStatus
<1> QED
  BY <1>1 DEF ClosedIsQuiescent, Inductive

-----------------------------------------------------------------------------
(* Every step                                                              *)

Others == OneRoundInFlight /\ RoundRecords /\ NativeTracked /\ TimersPast /\ ClosingDrains

\* submit_interpretation keeps the invariant.
LEMMA SubmitStep ==
    ASSUME Inductive, NEW a \in Account, NEW c \in Content, NEW amount \in Amounts,
           SubmitInterpretation(a, c, amount)
    PROVE  Others' /\ ClosedIsQuiescent'
<1> USE DEF Inductive
<1> DEFINE r == current_round
           i == [author |-> a, total_stake |-> amount,
                 backers |-> [b \in Account |-> IF b = a THEN amount ELSE 0]]
<1>1. /\ amount \in Nat /\ amount > 0
      /\ r \in Rounds
      /\ a # None
      /\ TypeOK'
  BY AmountAssumption, AccountAssumption, SubmitType DEF TypeOK
<1>2. /\ status = "active" /\ round_status[r] = "open" /\ r < MaxRound
      /\ interpretations' = [interpretations EXCEPT ![r][c] = i]
      /\ meta' = [meta EXCEPT ![r].stake_pool = @ + amount]
      /\ bucket_round' = [bucket_round EXCEPT ![r] = @ + amount]
      /\ vault_tracked' = vault_tracked + amount
      /\ balance' = balance + amount
      /\ UNCHANGED <<now, status, close_requested_at, current_round, round_status,
                     round_challenge, evidence_hash, claimed, live>>
  BY DEF SubmitInterpretation, Accepting, CreditRound, lifecycleVars, verdictVars
<1>3. i \in InterpretationType
  BY <1>1 DEF InterpretationType, AccountOrNone
<1>4. RoundRecords'
  BY <1>1, <1>2, <1>3, StakeArrives
<1>5. \A k \in Rounds : meta'[k].opened_at = meta[k].opened_at
  BY <1>1, <1>2 DEF TypeOK, MetaType
<1>6. OneRoundInFlight' /\ TimersPast' /\ ClosingDrains'
  BY <1>2, <1>5, RoundStays DEF TypeOK
<1>7. NativeTracked'
  BY <1>2 DEF NativeTracked
<1>8. ClosedIsQuiescent'
  BY <1>2 DEF ClosedIsQuiescent
<1> QED
  BY <1>4, <1>6, <1>7, <1>8 DEF Others

\* back_interpretation keeps it.
LEMMA BackStep ==
    ASSUME Inductive, NEW a \in Account, NEW c \in Content, NEW amount \in Amounts,
           BackInterpretation(a, c, amount)
    PROVE  Others' /\ ClosedIsQuiescent'
<1> USE DEF Inductive
<1> DEFINE r == current_round
           i == Backed(interpretations[r][c], a, amount)
<1>1. /\ amount \in Nat
      /\ r \in Rounds
      /\ interpretations \in [Rounds -> [Content -> InterpretationType]]
      /\ interpretations[r][c] \in InterpretationType
  BY AmountAssumption DEF TypeOK
<1>2. /\ status = "active" /\ round_status[r] = "open" /\ c \in Ids(r)
      /\ interpretations' = [interpretations EXCEPT ![r][c] = i]
      /\ meta' = [meta EXCEPT ![r].stake_pool = @ + amount]
      /\ bucket_round' = [bucket_round EXCEPT ![r] = @ + amount]
      /\ vault_tracked' = vault_tracked + amount
      /\ balance' = balance + amount
      /\ UNCHANGED <<now, status, close_requested_at, current_round, round_status,
                     round_challenge, evidence_hash, claimed, live>>
  BY <1>1 DEF BackInterpretation, Accepting, CreditRound, lifecycleVars, verdictVars
<1>3. i \in InterpretationType
  BY <1>1, BackedType
<1>4. i.author # None /\ i.total_stake > 0
  <2>1. interpretations[r][c].total_stake > 0 /\ interpretations[r][c].total_stake \in Nat
    BY <1>1, <1>2 DEF RoundRecords, StakedRounds, InterpretationType
  <2>2. i.author = interpretations[r][c].author
        /\ i.total_stake = interpretations[r][c].total_stake + amount
    BY DEF Backed
  <2> HIDE DEF i
  <2> QED
    BY <1>1, <1>2, <2>1, <2>2 DEF Ids
<1>5. r < MaxRound
  BY <1>1, <1>2 DEF RoundRecords, StakedRounds
<1>6. RoundRecords'
  <2> HIDE DEF i
  <2> QED
    BY <1>1, <1>2, <1>3, <1>4, <1>5, StakeArrives
<1>7. \A k \in Rounds : meta'[k].opened_at = meta[k].opened_at
  BY <1>1, <1>2 DEF TypeOK, MetaType
<1>8. OneRoundInFlight' /\ TimersPast' /\ ClosingDrains'
  BY <1>2, <1>7, RoundStays DEF TypeOK
<1>9. NativeTracked'
  BY <1>2 DEF NativeTracked
<1>10. ClosedIsQuiescent'
  BY <1>2 DEF ClosedIsQuiescent
<1> QED
  BY <1>6, <1>8, <1>9, <1>10 DEF Others

\* adjudicate keeps it.
LEMMA AdjudicateStep ==
    ASSUME Inductive, Adjudicate
    PROVE  Others' /\ ClosedIsQuiescent'
<1> USE DEF Inductive
<1> DEFINE r == current_round
<1>1. r \in Rounds /\ round_status[r] = "open" /\ r < MaxRound /\ status # "closed"
  BY DEF TypeOK, Adjudicate, RoundRecords, StakedRounds
<1>2. PICK fetched \in Fetches :
          /\ ApplyFetchReport(DOMAIN fetched)
          /\ evidence_hash' = [evidence_hash EXCEPT ![r] = fetched]
          /\ \/ EvidenceUnchanged(r, fetched) /\ Inconclude(r, "unchanged")
             \/ Inconclude(r, "inconclusive")
             \/ \E winner \in Ids(r) : Decide(r, winner)
  BY DEF Adjudicate
<1>3. /\ UNCHANGED <<now, status, close_requested_at, interpretations, round_challenge,
                     live, claimed>>
      /\ UNCHANGED <<bucket_round, vault_tracked, balance>>
  BY <1>2 DEF Adjudicate, lifecycleVars, stakeVars, ApplyFetchReport, MoveForfeits
<1>4. /\ \A k \in Rounds \ {r} : evidence_hash'[k] = evidence_hash[k]
      /\ evidence_hash'[r] = fetched
  BY <1>1, <1>2 DEF TypeOK
<1>5. NativeTracked'
  BY <1>3 DEF NativeTracked
<1>6. ClosedIsQuiescent'
  BY <1>1, <1>3 DEF ClosedIsQuiescent
<1>7. ASSUME NEW s \in {"unchanged", "inconclusive"}, Inconclude(r, s),
             s = "unchanged" => EvidenceUnchanged(r, fetched)
      PROVE  Others'
  <2>1. LeaveRound(r, s, meta[r])
    BY <1>7 DEF Inconclude
  <2>2. s \in RefundStatus /\ meta[r] \in MetaType
    BY <1>1 DEF RefundStatus, TypeOK
  <2>3. s = "unchanged" => /\ live.id # None
                           /\ Ids(r) \subseteq live.judged
                           /\ evidence_hash'[r] = live.evidence_hash
    BY <1>4, <1>7 DEF EvidenceUnchanged, NothingNew
  <2>4. RoundRecords'
    BY <1>1, <1>3, <1>4, <2>1, <2>2, <2>3, RoundRefunded
  <2>5. OneRoundInFlight' /\ TimersPast' /\ ClosingDrains'
    BY <1>1, <1>3, <2>1, <2>2, SuccessorOpens
  <2> QED
    BY <1>5, <2>4, <2>5 DEF Others
<1>8. ASSUME NEW winner \in Ids(r), Decide(r, winner)
      PROVE  Others'
  <2>1. RoundRecords'
    BY <1>1, <1>3, <1>4, <1>8, RoundDecided
  <2>2. \A k \in Rounds : meta'[k].opened_at = meta[k].opened_at
    BY <1>8 DEF Decide, TypeOK, MetaType
  <2>3. /\ current_round' = current_round
        /\ round_status'[r] = "decided_pending"
        /\ \A k \in Rounds \ {r} : round_status'[k] = round_status[k]
    BY <1>8 DEF Decide, TypeOK
  <2>4. OneRoundInFlight' /\ TimersPast' /\ ClosingDrains'
    BY <1>1, <1>3, <2>2, <2>3, RoundStays DEF TypeOK, PendingStatus
  <2> QED
    BY <1>5, <2>1, <2>4 DEF Others
<1> QED
  BY <1>2, <1>6, <1>7, <1>8

\* challenge keeps it.
LEMMA ChallengeStep ==
    ASSUME Inductive, NEW r \in Rounds, NEW a \in Account, NEW c \in Content,
           NEW bond \in Amounts, Challenge(r, a, c, bond)
    PROVE  Others' /\ ClosedIsQuiescent'
<1> USE DEF Inductive
<1>1. /\ round_status[r] = "decided_pending"
      /\ round_status' = [round_status EXCEPT ![r] = "challenged"]
      /\ meta' = [meta EXCEPT ![r].challenge_bond = bond]
      /\ vault_tracked' = vault_tracked + bond
      /\ balance' = balance + bond
      /\ UNCHANGED <<now, status, close_requested_at, current_round, interpretations,
                     bucket_carry, source_records>>
  BY DEF Challenge, CreditRound, lifecycleVars, stakeVars
<1>2. TypeOK'
  BY ChallengeCallType
<1>3. RoundRecords'
  BY ChallengeRecorded
<1>4. \A k \in Rounds : meta'[k].opened_at = meta[k].opened_at
  BY <1>1 DEF TypeOK, MetaType
<1>5. /\ round_status'[r] = "challenged"
      /\ \A k \in Rounds \ {r} : round_status'[k] = round_status[k]
  BY <1>1 DEF TypeOK
<1>6. OneRoundInFlight' /\ TimersPast' /\ ClosingDrains'
  BY <1>1, <1>4, <1>5, RoundStays DEF TypeOK, PendingStatus
<1>7. NativeTracked'
  BY <1>1 DEF NativeTracked
<1>8. ClosedIsQuiescent'
  BY <1>1, <1>2, <1>6, StaysQuiescent DEF ClosedIsQuiescent
<1> QED
  BY <1>3, <1>6, <1>7, <1>8 DEF Others

\* finalize and resolve_challenge keep it.
LEMMA FinalizeStep ==
    ASSUME Inductive, NEW r \in Rounds, ResolveChallenge(r) \/ Finalize(r)
    PROVE  Others' /\ ClosedIsQuiescent'
<1> USE DEF Inductive
<1>1. PICK winner \in Content,
           outcome \in {"none", "upheld", "rejected", "unresolved", "expired"} :
              /\ Electable(r, winner)
              /\ outcome = "none" => round_status[r] = "decided_pending"
              /\ outcome # "none" => round_status[r] = "challenged"
              /\ winner = WinnerAfter(r, outcome)
              /\ FinalizeRound(r, winner, outcome)
  BY EndsInFinalizeRound
<1>2. RoundRecords'
  BY <1>1, RoundFinalized
<1>3. /\ TypeOK'
      /\ r = current_round /\ r + 1 \in Rounds /\ status # "closed"
      /\ current_round' = r + 1
      /\ round_status' = [round_status EXCEPT ![r] = "finalized", ![r + 1] = "open"]
  BY <1>1, FinalizeRoundType
<1>4. UNCHANGED <<now, status, close_requested_at, interpretations, vault_tracked, balance>>
  BY <1>1 DEF FinalizeRound, lifecycleVars, stakeVars
<1>5. \E m : meta' = [meta EXCEPT ![r] = m, ![r + 1] = BlankMeta(now)]
  BY <1>1, <1>3 DEF FinalizeRound, LeaveRound, Advances
<1>6. OneRoundInFlight' /\ TimersPast' /\ ClosingDrains'
  <2>1. PICK m : meta' = [meta EXCEPT ![r] = m, ![r + 1] = BlankMeta(now)]
    BY <1>5
  <2>2. m \in MetaType
    <3>1. meta'[r] = m
      BY <1>3, <2>1, TimeAssumption DEF TypeOK, Rounds
    <3> QED
      BY <1>3, <3>1 DEF TypeOK
  <2>3. LeaveRound(r, "finalized", m)
    BY <1>3, <2>1 DEF LeaveRound, Advances
  <2>4. round_status[r] \in {"open"} \cup PendingStatus /\ r < MaxRound
    BY <1>1 DEF Electable
  <2>5. "finalized" \in FinalStatus \cup RefundStatus
    BY DEF FinalStatus
  <2> QED
    BY <1>4, <2>2, <2>3, <2>4, <2>5, SuccessorOpens
<1>7. NativeTracked'
  BY <1>4 DEF NativeTracked
<1>8. ClosedIsQuiescent'
  BY <1>3, <1>4 DEF ClosedIsQuiescent
<1> QED
  BY <1>2, <1>6, <1>7, <1>8 DEF Others

\* cancel_round keeps it.
LEMMA CancelStep ==
    ASSUME Inductive, NEW r \in Rounds, CancelRound(r)
    PROVE  Others' /\ ClosedIsQuiescent'
<1> USE DEF Inductive
<1>1. /\ round_status[r] = "open" /\ r < MaxRound
      /\ LeaveRound(r, "cancelled", meta[r])
      /\ UNCHANGED <<now, status, close_requested_at, interpretations, vault_tracked, balance,
                     round_challenge, claimed, live, bucket_round, evidence_hash>>
  BY DEF CancelRound, lifecycleVars, stakeVars, verdictVars, vaultVars
<1>2. "cancelled" \in RefundStatus /\ meta[r] \in MetaType
  BY DEF RefundStatus, TypeOK
<1>3. RoundRecords'
  BY <1>1, <1>2, RoundRefunded
<1>4. OneRoundInFlight' /\ TimersPast' /\ ClosingDrains' /\ status' # "closed"
  BY <1>1, <1>2, SuccessorOpens
<1>5. NativeTracked'
  BY <1>1 DEF NativeTracked
<1> QED
  BY <1>3, <1>4, <1>5 DEF Others, ClosedIsQuiescent

\* settle keeps it.
LEMMA SettleStep ==
    ASSUME Inductive, NEW r \in Rounds, Settle(r)
    PROVE  Others' /\ ClosedIsQuiescent'
<1> USE DEF Inductive
<1>1. /\ round_status[r] = "finalized"
      /\ round_status' = [round_status EXCEPT ![r] = "settled"]
      /\ UNCHANGED <<now, status, close_requested_at, current_round, meta, interpretations,
                     vault_tracked, balance, bucket_carry, source_records>>
  BY DEF Settle, lifecycleVars, stakeVars, vaultVars
<1>2. RoundRecords'
  BY RoundSettled
<1>3. OneRoundInFlight' /\ TimersPast' /\ ClosingDrains'
  <2>1. \A k \in Rounds : \/ round_status'[k] = round_status[k]
                          \/ round_status[k] \in FinalStatus /\ round_status'[k] \in FinalStatus
    BY <1>1 DEF TypeOK, FinalStatus
  <2> QED
    BY <1>1, <2>1, RoundStays DEF TypeOK
<1>4. NativeTracked'
  BY <1>1 DEF NativeTracked
<1>5. ClosedIsQuiescent'
  BY <1>1 DEF ClosedIsQuiescent, PendingStatus, TypeOK
<1> QED
  BY <1>2, <1>3, <1>4, <1>5 DEF Others

\* claim keeps it.
LEMMA ClaimStep ==
    ASSUME Inductive, NEW r \in Rounds, NEW a \in Account, Claim(r, a)
    PROVE  Others' /\ ClosedIsQuiescent'
<1> USE DEF Inductive
<1>1. /\ UNCHANGED <<now, status, close_requested_at, current_round, round_status,
                     interpretations, bucket_carry, source_records>>
      /\ meta' = [meta EXCEPT ![r] = AfterClaim(r, a)]
  BY DEF Claim, lifecycleVars, stakeVars
<1>2. RoundRecords'
  BY RoundClaimed
<1>3. \A k \in Rounds : meta'[k].opened_at = meta[k].opened_at
  <2>1. AfterClaim(r, a).opened_at = meta[r].opened_at
    BY DEF AfterClaim, TypeOK, MetaType
  <2> QED
    BY <1>1, <2>1 DEF TypeOK
<1>4. OneRoundInFlight' /\ TimersPast' /\ ClosingDrains'
  BY <1>1, <1>3, RoundStays DEF TypeOK
<1>5. NativeTracked'
  BY DEF Claim, Debit, NativeTracked
<1>6. ClosedIsQuiescent'
  BY <1>1 DEF ClosedIsQuiescent
<1> QED
  BY <1>2, <1>4, <1>5, <1>6 DEF Others

\* The methods that leave the rounds alone.
LEMMA SourceStep ==
    ASSUME Inductive, NEW a \in Account, NEW s \in Source,
           \/ \E bond \in Amounts : AddSource(a, s, bond)
           \/ ClaimSourceBond(a, s)
    PROVE  Others' /\ ClosedIsQuiescent'
<1> USE DEF Inductive
<1>1. /\ UNCHANGED <<now, status, close_requested_at, current_round, round_status, meta,
                     interpretations, round_challenge, evidence_hash, claimed, live,
                     bucket_round, bucket_carry>>
      /\ NativeTracked'
  BY DEF AddSource, ClaimSourceBond, Debit, NativeTracked, lifecycleVars, roundVars,
         stakeVars, verdictVars
<1>2. RoundRecords'
  BY <1>1, RecordsUntouched
<1>3. OneRoundInFlight' /\ TimersPast' /\ ClosingDrains'
  BY <1>1, RoundStays DEF TypeOK
<1>4. ClosedIsQuiescent'
  <2>1. CASE \E bond \in Amounts : AddSource(a, s, bond)
    BY <1>1, <2>1 DEF AddSource, ClosedIsQuiescent
  <2>2. CASE ClaimSourceBond(a, s)
    <3>1. source_records' = [source_records EXCEPT ![s] =
              [source_records[s] EXCEPT !.bond_status = "refunded"]]
      BY <2>2 DEF ClaimSourceBond
    <3>2. [source_records[s] EXCEPT !.bond_status = "refunded"].bond_status = "refunded"
      BY DEF TypeOK, SourceType
    <3> QED
      BY <1>1, <3>1, <3>2 DEF ClosedIsQuiescent, TypeOK
  <2> QED
    BY <2>1, <2>2
<1> QED
  BY <1>1, <1>2, <1>3, <1>4 DEF Others

\* close_monocle, cancel_close, finalize_close and flush_residual keep it.
LEMMA CloseStep ==
    ASSUME Inductive,
           \/ \E a \in Account : CloseMonocle(a) \/ CancelClose(a)
           \/ FinalizeClose
           \/ FlushResidual
    PROVE  Others' /\ ClosedIsQuiescent'
<1> USE DEF Inductive
<1>1. /\ UNCHANGED <<now, current_round, meta, interpretations, round_challenge, evidence_hash,
                     claimed, live, bucket_round>>
      /\ NativeTracked'
  BY DEF CloseMonocle, CancelClose, FinalizeClose, FlushResidual, Debit, NativeTracked,
         roundVars, stakeVars, verdictVars, vaultVars
<1>2. ASSUME NEW a \in Account, CloseMonocle(a) \/ CancelClose(a)
      PROVE  Others' /\ ClosedIsQuiescent'
  <2>1. /\ round_status' = round_status
        /\ status # "closed" /\ status' # "closed"
        /\ \/ status' = "closing" /\ close_requested_at' = now
           \/ status' = "active" /\ close_requested_at' = 0
    BY <1>2 DEF CloseMonocle, CancelClose, roundVars
  <2>2. RoundRecords'
    BY <1>1, <2>1, RecordsUntouched
  <2>3. OneRoundInFlight'
    BY <1>1, <2>1 DEF OneRoundInFlight
  <2>4. now \in Nat /\ current_round \in Rounds /\ meta[current_round].opened_at \in Nat
    BY DEF TypeOK, MetaType
  <2>5. TimersPast' /\ ClosingDrains'
    BY <1>1, <2>1, <2>4 DEF TimersPast, ClosingDrains
  <2> QED
    BY <1>1, <2>1, <2>2, <2>3, <2>5 DEF Others, ClosedIsQuiescent
<1>3. CASE FinalizeClose
  <2> DEFINE r == current_round
  <2>1. /\ status' = "closed" /\ status # "closed"
        /\ close_requested_at' = close_requested_at
        /\ r \in Rounds
        /\ round_status[r] = "open" /\ round_status'[r] = "cancelled"
        /\ \A k \in Rounds \ {r} : round_status'[k] = round_status[k]
        /\ bucket_carry' = 0
        /\ source_records' = BondsReleased
    BY <1>3 DEF FinalizeClose, Closable, TypeOK
  <2>2. RoundRecords'
    BY <1>3, RoundClosed
  <2>3. OneRoundInFlight'
    <3>1. SUFFICES ASSUME NEW k \in Rounds PROVE OneRoundInFlight!(k)'
      BY DEF OneRoundInFlight
    <3>2. k \in Nat /\ r \in Nat
      BY <2>1, TimeAssumption DEF Rounds
    <3> QED
      BY <1>1, <2>1, <3>2 DEF OneRoundInFlight
  <2>4. TimersPast' /\ ClosingDrains'
    BY <1>1, <2>1 DEF TimersPast, ClosingDrains
  <2>5. ClosedIsQuiescent'
    <3>1. ASSUME NEW s \in Source
          PROVE  source_records'[s].bond_status # "locked"
      BY <2>1 DEF BondsReleased, TypeOK, SourceType
    <3>2. ASSUME NEW k \in Rounds
          PROVE  round_status'[k] \notin {"open"} \cup PendingStatus
      <4>1. k \in Nat /\ r \in Nat
        BY <2>1, TimeAssumption DEF Rounds
      <4> QED
        BY <2>1, <4>1 DEF OneRoundInFlight, FinalStatus, RefundStatus, PendingStatus
    <3> QED
      BY <2>1, <3>1, <3>2 DEF ClosedIsQuiescent
  <2> QED
    BY <1>1, <2>2, <2>3, <2>4, <2>5 DEF Others
<1>4. CASE FlushResidual
  <2>1. UNCHANGED <<status, close_requested_at, round_status, bucket_carry, source_records>>
    BY <1>4 DEF FlushResidual, lifecycleVars, roundVars
  <2>2. RoundRecords'
    BY <1>1, <2>1, RecordsUntouched
  <2>3. OneRoundInFlight' /\ TimersPast' /\ ClosingDrains'
    BY <1>1, <2>1, RoundStays DEF TypeOK
  <2> QED
    BY <1>1, <2>1, <2>2, <2>3 DEF Others, ClosedIsQuiescent
<1> QED
  BY <1>2, <1>3, <1>4

-----------------------------------------------------------------------------
(* What a step may never do                                                *)

\* DecidedRoundsFrozen for one round.
Frozen(r) ==
    /\ round_status[r] \notin {"none", "open"} =>
           /\ interpretations'[r] = interpretations[r]
           /\ meta'[r].stake_pool = meta[r].stake_pool
    /\ round_status[r] \in FinalStatus =>
           /\ round_status'[r] \in FinalStatus
           /\ meta'[r].winner_id = meta[r].winner_id
           /\ meta'[r].pot = meta[r].pot
           /\ meta'[r].challenger_payout = meta[r].challenger_payout

\* A round that is left keeps its stakes, and nothing earlier is touched.
LEMMA LeavingFreezes ==
    ASSUME Inductive, NEW r \in Rounds, NEW s \in FinalStatus \cup RefundStatus,
           NEW m \in MetaType, m.stake_pool = meta[r].stake_pool,
           round_status[r] \in {"open"} \cup PendingStatus, r < MaxRound,
           LeaveRound(r, s, m), interpretations' = interpretations,
           NEW k \in Rounds
    PROVE  Frozen(k)
<1> DEFINE n == r + 1
<1>1. /\ r = current_round
      /\ n \in Rounds
      /\ round_status' = [round_status EXCEPT ![r] = s, ![n] = "open"]
      /\ meta' = [meta EXCEPT ![r] = m, ![n] = BlankMeta(now)]
  BY RoundLeft DEF RoundStatus, Inductive
<1>2. n # r /\ round_status[n] = "none"
  BY <1>1, TimeAssumption DEF OneRoundInFlight, Rounds, Inductive
<1>3. meta'[r] = m
  BY <1>1, <1>2 DEF Inductive, TypeOK
<1>4. CASE k = r
  BY <1>3, <1>4 DEF Frozen, FinalStatus, PendingStatus
<1>5. CASE k = n
  BY <1>2, <1>5 DEF Frozen, FinalStatus
<1>6. CASE k \notin {r, n}
  BY <1>1, <1>6 DEF Frozen, Inductive, TypeOK
<1> QED
  BY <1>4, <1>5, <1>6

\* What has ended no longer changes.
LEMMA StepFreezes ==
    ASSUME Inductive, [Next]_vars, NEW k \in Rounds
    PROVE  Frozen(k)
<1> USE DEF Inductive
<1>1. ASSUME UNCHANGED <<interpretations, meta>>,
             round_status'[k] = round_status[k] \/ round_status[k] \notin FinalStatus
      PROVE  Frozen(k)
  BY <1>1 DEF Frozen
<1>2. ASSUME NEW a \in Account, NEW c \in Content, NEW amount \in Amounts,
             SubmitInterpretation(a, c, amount) \/ BackInterpretation(a, c, amount)
      PROVE  Frozen(k)
  <2> DEFINE r == current_round
  <2>1. /\ round_status[r] = "open" /\ round_status' = round_status
        /\ meta' = [meta EXCEPT ![r].stake_pool = @ + amount]
        /\ \E i : interpretations' = [interpretations EXCEPT ![r][c] = i]
    BY <1>2 DEF SubmitInterpretation, BackInterpretation, Accepting
  <2>2. CASE k = r
    BY <2>1, <2>2 DEF Frozen, FinalStatus
  <2>3. CASE k # r
    BY <2>1, <2>3 DEF Frozen, TypeOK
  <2> QED
    BY <2>2, <2>3
<1>3. CASE Adjudicate
  <2> DEFINE r == current_round
  <2>1. /\ r \in Rounds /\ round_status[r] = "open" /\ r < MaxRound
        /\ interpretations' = interpretations
        /\ meta[r] \in MetaType
    BY <1>3 DEF Adjudicate, TypeOK, RoundRecords, StakedRounds, stakeVars
  <2>2. \/ \E s \in {"unchanged", "inconclusive"} : LeaveRound(r, s, meta[r])
        \/ \E winner \in Ids(r) : Decide(r, winner)
    BY <1>3 DEF Adjudicate, Inconclude
  <2>3. ASSUME NEW s \in {"unchanged", "inconclusive"}, LeaveRound(r, s, meta[r])
        PROVE  Frozen(k)
    BY <2>1, <2>3, LeavingFreezes DEF RefundStatus
  <2>4. ASSUME NEW winner \in Ids(r), Decide(r, winner)
        PROVE  Frozen(k)
    <3>1. CASE k = r
      BY <2>1, <3>1 DEF Frozen, FinalStatus
    <3>2. CASE k # r
      BY <2>1, <2>4, <3>2 DEF Decide, Frozen, TypeOK
    <3> QED
      BY <3>1, <3>2
  <2> QED
    BY <2>2, <2>3, <2>4
<1>4. ASSUME NEW r \in Rounds, NEW a \in Account, NEW c \in Content, NEW bond \in Amounts,
             Challenge(r, a, c, bond)
      PROVE  Frozen(k)
  <2>1. /\ interpretations' = interpretations
        /\ round_status[r] = "decided_pending"
        /\ round_status' = [round_status EXCEPT ![r] = "challenged"]
        /\ meta' = [meta EXCEPT ![r].challenge_bond = bond]
    BY <1>4 DEF Challenge, stakeVars
  <2>2. CASE k = r
    BY <2>1, <2>2 DEF Frozen, FinalStatus, TypeOK, MetaType
  <2>3. CASE k # r
    BY <2>1, <2>3 DEF Frozen, TypeOK
  <2> QED
    BY <2>2, <2>3
<1>5. ASSUME NEW r \in Rounds, ResolveChallenge(r) \/ Finalize(r)
      PROVE  Frozen(k)
  <2>1. PICK winner \in Content,
             outcome \in {"none", "upheld", "rejected", "unresolved", "expired"} :
                Electable(r, winner) /\ FinalizeRound(r, winner, outcome)
    BY <1>5, EndsInFinalizeRound
  <2>2. /\ TypeOK' /\ r = current_round /\ r + 1 \in Rounds /\ r + 1 # r /\ status # "closed"
    BY <2>1, FinalizeRoundType, TimeAssumption DEF Rounds
  <2>3. PICK x, y, z, u, w, v : LET m == [meta[r] EXCEPT !.pending_winner = x, !.winner_id = y,
                                      !.winner_total = z, !.bonus = u, !.pot = w,
                                      !.challenger_payout = v]
                               IN  LeaveRound(r, "finalized", m)
    BY <2>1 DEF FinalizeRound
  <2> DEFINE m == [meta[r] EXCEPT !.pending_winner = x, !.winner_id = y,
                                  !.winner_total = z, !.bonus = u, !.pot = w,
                                  !.challenger_payout = v]
  <2>4. m.stake_pool = meta[r].stake_pool
    BY DEF TypeOK, MetaType
  <2>5. LeaveRound(r, "finalized", m)
    BY <2>3
  <2> HIDE DEF m
  <2>6. m \in MetaType
    <3>1. meta'[r] = m
      BY <2>2, <2>5 DEF LeaveRound, Advances, TypeOK
    <3> QED
      BY <2>2, <3>1 DEF TypeOK
  <2>7. interpretations' = interpretations
    BY <2>1 DEF FinalizeRound, stakeVars
  <2>8. round_status[r] \in {"open"} \cup PendingStatus /\ r < MaxRound
    BY <2>1 DEF Electable
  <2> QED
    BY <2>4, <2>5, <2>6, <2>7, <2>8, LeavingFreezes DEF FinalStatus
<1>6. ASSUME NEW r \in Rounds, CancelRound(r)
      PROVE  Frozen(k)
  <2>1. meta[r] \in MetaType /\ "cancelled" \in RefundStatus
    BY DEF TypeOK, RefundStatus
  <2> QED
    BY <1>6, <2>1, LeavingFreezes DEF CancelRound, stakeVars
<1>7. ASSUME NEW r \in Rounds, Settle(r)
      PROVE  Frozen(k)
  BY <1>7 DEF Settle, stakeVars, Frozen, TypeOK, FinalStatus
<1>8. ASSUME NEW r \in Rounds, NEW a \in Claimants, Claim(r, a)
      PROVE  Frozen(k)
  <2>1. /\ interpretations' = interpretations /\ round_status' = round_status
        /\ meta' = [meta EXCEPT ![r] = AfterClaim(r, a)]
    BY <1>8 DEF Claim, stakeVars
  <2> DEFINE m == meta[r]
             taken == m.claimed_winner_stake + WinnerStake(r, a)
             paid == m.paid_winners + WinnerShare(r, a)
  <2>2. \/ AfterClaim(r, a) = m
        \/ AfterClaim(r, a) = [m EXCEPT !.claimed_winner_stake = taken, !.paid_winners = paid]
    BY DEF AfterClaim
  <2> HIDE DEF taken, paid
  <2>3. /\ AfterClaim(r, a).stake_pool = m.stake_pool
        /\ AfterClaim(r, a).winner_id = m.winner_id
        /\ AfterClaim(r, a).pot = m.pot
        /\ AfterClaim(r, a).challenger_payout = m.challenger_payout
    BY <2>2 DEF TypeOK, MetaType
  <2>4. CASE k = r
    BY <2>1, <2>3, <2>4 DEF Frozen, TypeOK
  <2>5. CASE k # r
    BY <2>1, <2>5 DEF Frozen, TypeOK
  <2> QED
    BY <2>4, <2>5
<1>9. ASSUME \/ Tick
             \/ \E a \in Account, s \in Source :
                    (\E bond \in Amounts : AddSource(a, s, bond)) \/ ClaimSourceBond(a, s)
             \/ \E a \in Account : CloseMonocle(a) \/ CancelClose(a)
             \/ FlushResidual
             \/ UNCHANGED vars
      PROVE  Frozen(k)
  <2>1. UNCHANGED <<round_status, interpretations, meta>>
    BY <1>9
    DEF Tick, AddSource, ClaimSourceBond, CloseMonocle, CancelClose, FlushResidual, vars,
        roundVars, stakeVars
  <2> QED
    BY <1>1, <2>1
<1>10. CASE FinalizeClose
  <2>1. UNCHANGED <<interpretations, meta>>
    BY <1>10 DEF FinalizeClose, stakeVars
  <2>2. round_status'[k] = round_status[k] \/ round_status[k] \notin FinalStatus
    BY <1>10 DEF FinalizeClose, Closable, TypeOK, FinalStatus
  <2> QED
    BY <1>1, <2>1, <2>2
<1> QED
  BY <1>2, <1>3, <1>4, <1>5, <1>6, <1>7, <1>8, <1>9, <1>10 DEF Next

\* ForfeitJustified for one step.
LEMMA StepForfeits ==
    ASSUME TypeOK, [Next]_vars, NEW s \in Source,
           source_records'[s].bond_status = "forfeited",
           source_records[s].bond_status # "forfeited"
    PROVE  /\ source_records[s].bond_status = "locked"
           /\ \E t \in Source \ {s} : source_records'[t].last_fetch_ok
<1>1. source_records \in [Source -> SourceType]
  BY DEF TypeOK
<1>2. CASE Adjudicate
  <2>1. PICK fetched \in Fetches : ApplyFetchReport(DOMAIN fetched)
    BY <1>2 DEF Adjudicate
  <2> DEFINE ok == DOMAIN fetched
  <2>2. ok \subseteq Source
    <3>1. PICK lost \in SUBSET (Present \cap Unreliable) : fetched \in [Present \ lost -> Page]
      BY DEF Fetches
    <3> QED
      BY <3>1 DEF Present
  <2> HIDE DEF ok
  <2>3. \A t \in Source : source_records'[t] = FetchReported(t, ok)
    BY <2>1 DEF ApplyFetchReport, ok
  <2>4. ~(s \in ok)
    <3>1. ASSUME s \in ok
          PROVE  FetchReported(s, ok).bond_status # "forfeited"
      BY <1>1, <3>1 DEF FetchReported, Missed, SourceType
    <3> QED
      BY <2>3, <3>1
  <2>5. Missed(s, ok) /\ source_records[s].bond_status = "locked"
    BY <1>1, <2>3, <2>4 DEF FetchReported, SourceType
  <2>6. PICK t \in ok : TRUE
    BY <2>5 DEF Missed
  <2>7. t \in Source \ {s} /\ source_records'[t] = FetchReported(t, ok)
    BY <2>2, <2>3, <2>4, <2>6
  <2>8. FetchReported(t, ok).last_fetch_ok
    BY <1>1, <2>6, <2>7 DEF FetchReported, Missed, SourceType
  <2> QED
    BY <2>5, <2>7, <2>8
<1>3. ASSUME NEW a \in Account, NEW q \in Source, NEW bond \in Amounts, AddSource(a, q, bond)
      PROVE  FALSE
  BY <1>1, <1>3 DEF AddSource
<1>4. ASSUME NEW a \in Account, NEW q \in Source, ClaimSourceBond(a, q)
      PROVE  FALSE
  BY <1>1, <1>4 DEF ClaimSourceBond, SourceType
<1>5. CASE FinalizeClose
  BY <1>1, <1>5 DEF FinalizeClose, BondsReleased, SourceType
<1>6. CASE UNCHANGED source_records
  BY <1>6
<1> QED
  BY <1>2, <1>3, <1>4, <1>5, <1>6
  DEF Next, Tick, SubmitInterpretation, BackInterpretation, Challenge, ResolveChallenge,
      Finalize, FinalizeRound, CancelRound, Settle, Claim, CloseMonocle, CancelClose,
      FlushResidual, vars

-----------------------------------------------------------------------------
(* The theorems                                                            *)

\* The constructor establishes the invariant.
LEMMA InitInductive == Init => Inductive
<1> SUFFICES ASSUME Init PROVE Inductive
  OBVIOUS
<1>1. TypeOK
  BY InitType
<1>2. /\ \A r \in Rounds : r \in Nat /\ r >= 1
      /\ \A r \in Rounds : round_status[r] = IF r = 1 THEN "open" ELSE "none"
      /\ \A r \in Rounds : meta[r] = BlankMeta(0)
      /\ \A r \in Rounds : bucket_round[r] = 0 /\ round_challenge[r] = NoChallenge
      /\ current_round = 1 /\ status = "active" /\ claimed = {}
  BY TimeAssumption DEF Init, Rounds
<1>3. \A r \in Rounds : Ids(r) = {}
  BY DEF Init, Ids, NoInterpretation
<1>4. Finals = {}
  BY <1>2 DEF Finals, FinalStatus
<1>5. OneRoundInFlight
  BY <1>2 DEF OneRoundInFlight
<1>6. StakedRounds
  BY <1>3 DEF StakedRounds
<1>7. VerdictRecords
  BY <1>2 DEF VerdictRecords, BlankMeta, PendingStatus, FinalStatus
<1>8. ChallengeRecords
  BY <1>2 DEF ChallengeRecords, BlankMeta
<1>9. SettlementRecords
  BY <1>2 DEF SettlementRecords, BlankMeta
<1>10. RoundLedger
  BY <1>2 DEF RoundLedger, BlankMeta, FinalStatus
<1>11. PotCovers
  BY <1>4 DEF PotCovers
<1>12. LiveOutputIsFinal /\ LiveRecords
  BY <1>4 DEF Init, LiveOutputIsFinal, LiveRecords
<1>13. WinnerJustified
  BY <1>4 DEF WinnerJustified
<1>14. UnchangedIsStale
  BY <1>2 DEF UnchangedIsStale
<1>15. NativeTracked
  BY DEF Init, NativeTracked
<1>16. ClosedIsQuiescent
  BY <1>2 DEF ClosedIsQuiescent
<1>17. TimersPast
  BY <1>2, TimeAssumption DEF Init, TimersPast, BlankMeta, Rounds
<1>18. ClosingDrains
  BY <1>2 DEF ClosingDrains
<1> QED
  BY <1>1, <1>5, <1>6, <1>7, <1>8, <1>9, <1>10, <1>11, <1>12, <1>13, <1>14, <1>15, <1>16,
     <1>17, <1>18 DEF Inductive, RoundRecords

\* Every method keeps it.
LEMMA StepInductive == Inductive /\ [Next]_vars => Inductive'
<1> SUFFICES ASSUME Inductive, [Next]_vars PROVE Inductive'
  OBVIOUS
<1>1. TypeOK'
  BY TypeStep
<1>2. Others' /\ ClosedIsQuiescent'
  <2>1. ASSUME UNCHANGED <<status, close_requested_at, current_round, round_status, meta,
                           interpretations, round_challenge, evidence_hash, claimed, live,
                           bucket_round, bucket_carry, source_records, vault_tracked, balance>>,
               now' \in Nat, now <= now'
        PROVE  Others' /\ ClosedIsQuiescent'
    <3>1. RoundRecords'
      BY <2>1, RecordsUntouched DEF Inductive
    <3>2. OneRoundInFlight' /\ TimersPast' /\ ClosingDrains'
      BY <2>1, RoundStays
    <3>3. NativeTracked' /\ ClosedIsQuiescent'
      BY <2>1 DEF Inductive, NativeTracked, ClosedIsQuiescent
    <3> QED
      BY <3>1, <3>2, <3>3 DEF Others
  <2>2. CASE Tick
    BY <2>1, <2>2
    DEF Tick, Inductive, TypeOK, lifecycleVars, roundVars, stakeVars, verdictVars, vaultVars
  <2>3. CASE UNCHANGED vars
    BY <2>1, <2>3
    DEF vars, Inductive, TypeOK, lifecycleVars, roundVars, stakeVars, verdictVars, vaultVars
  <2>4. ASSUME NEW a \in Account, NEW c \in Content, NEW amount \in Amounts,
               SubmitInterpretation(a, c, amount) \/ BackInterpretation(a, c, amount)
        PROVE  Others' /\ ClosedIsQuiescent'
    BY <2>4, SubmitStep, BackStep
  <2>5. ASSUME NEW r \in Rounds, NEW a \in Account, NEW c \in Content, NEW bond \in Amounts,
               Challenge(r, a, c, bond)
        PROVE  Others' /\ ClosedIsQuiescent'
    BY <2>5, ChallengeStep
  <2>6. ASSUME NEW r \in Rounds, ResolveChallenge(r) \/ Finalize(r)
        PROVE  Others' /\ ClosedIsQuiescent'
    BY <2>6, FinalizeStep
  <2>7. ASSUME NEW r \in Rounds, CancelRound(r) \/ Settle(r)
        PROVE  Others' /\ ClosedIsQuiescent'
    BY <2>7, CancelStep, SettleStep
  <2>8. ASSUME NEW r \in Rounds, NEW a \in Claimants, Claim(r, a)
        PROVE  Others' /\ ClosedIsQuiescent'
    BY <2>8, ClaimStep, AccountAssumption
  <2>9. ASSUME NEW a \in Account, NEW s \in Source,
               \/ \E bond \in Amounts : AddSource(a, s, bond)
               \/ ClaimSourceBond(a, s)
        PROVE  Others' /\ ClosedIsQuiescent'
    BY <2>9, SourceStep
  <2> QED
    BY <2>2, <2>3, <2>4, <2>5, <2>6, <2>7, <2>8, <2>9, AdjudicateStep, CloseStep DEF Next
<1> QED
  BY <1>1, <1>2 DEF Inductive, Others

\* Whatever the constants, every reachable state satisfies the inductive
\* invariant.
THEOREM InductiveInvariant == Spec => []Inductive
BY InitInductive, StepInductive, PTL DEF Spec

\* Every variable keeps its type: no bucket, pot or counter becomes negative.
THEOREM TypesKept == Spec => []TypeOK
<1>1. Inductive => TypeOK
  BY DEF Inductive
<1> QED
  BY <1>1, InductiveInvariant, PTL

\* At most one round is undecided, and it is the current one.
THEOREM OnlyOneInFlight == Spec => []OneRoundInFlight
<1>1. Inductive => OneRoundInFlight
  BY DEF Inductive
<1> QED
  BY <1>1, InductiveInvariant, PTL

\* The bucket of a round always agrees with the ledger of the round, through
\* stakes, challenges, the carry, the finalization and every order of claims.
THEOREM LedgerKept == Spec => []RoundLedger
<1>1. Inductive => RoundLedger
  BY DEF Inductive, RoundRecords
<1> QED
  BY <1>1, InductiveInvariant, PTL

\* A published verdict never ends in a refund.
THEOREM VerdictsHonoured == Spec => []PendingNeverRefunded
<1>1. Inductive => PendingNeverRefunded
  BY DEF Inductive, RoundRecords, VerdictRecords, ChallengeRecords, Undecided,
         PendingNeverRefunded
<1> QED
  BY <1>1, InductiveInvariant, PTL

\* What agents read as live is the winner of the latest final round.
THEOREM LiveIsFinal == Spec => []LiveOutputIsFinal
<1>1. Inductive => LiveOutputIsFinal
  BY DEF Inductive, RoundRecords
<1> QED
  BY <1>1, InductiveInvariant, PTL

\* A final winner was submitted, and only an upheld challenge replaced the
\* published one.
THEOREM WinnersJustified == Spec => []WinnerJustified
<1>1. Inductive => WinnerJustified
  BY DEF Inductive, RoundRecords
<1> QED
  BY <1>1, InductiveInvariant, PTL

\* "unchanged" is returned only where nothing is new since the last final round.
THEOREM UnchangedStale == Spec => []UnchangedIsStale
<1>1. Inductive => UnchangedIsStale
  BY DEF Inductive, RoundRecords
<1> QED
  BY <1>1, InductiveInvariant, PTL

\* A closed engine holds nothing back.
THEOREM CloseIsComplete == Spec => []ClosedIsQuiescent
<1>1. Inductive => ClosedIsQuiescent
  BY DEF Inductive
<1> QED
  BY <1>1, InductiveInvariant, PTL

\* A round opened while the engine is closing stays empty.
THEOREM ClosingIsDraining == Spec => []ClosingDrains
<1>1. Inductive => ClosingDrains
  BY DEF Inductive
<1> QED
  BY <1>1, InductiveInvariant, PTL

\* Nobody stakes on a verdict that is known, and a final round keeps its winner
\* and its pot.
THEOREM DecidedFrozen == Spec => DecidedRoundsFrozen
<1>1. Inductive /\ [Next]_vars => DecidedRoundsFrozen!1
  BY StepFreezes DEF Frozen
<1> QED
  BY <1>1, InductiveInvariant, PTL DEF Spec, DecidedRoundsFrozen

\* No bond is forfeited in a pass in which every other source was lost too.
THEOREM ForfeitsJustified == Spec => ForfeitJustified
<1>1. TypeOK /\ [Next]_vars => ForfeitJustified!1
  BY StepForfeits
<1> QED
  BY <1>1, TypesKept, PTL DEF Spec, ForfeitJustified

-----------------------------------------------------------------------------
(* The engine implements LiveFeed: every method is one step of the feed,   *)
(* or none.                                                                *)

\* Nothing of round k changes in the feed.
FeedSame(k) ==
    /\ FeedPhase'[k] = FeedPhase[k]
    /\ FeedVerdict'[k] = FeedVerdict[k]
    /\ FeedRival'[k] = FeedRival[k]
    /\ FeedSince'[k] = FeedSince[k]

\* The phase a reader of the feed sees, from the status of the round.
LEMMA PhaseOfRound ==
    ASSUME NEW r \in Rounds
    PROVE  /\ round_status[r] = "decided_pending" => FeedPhase[r] = "pending"
           /\ round_status[r] = "challenged" => FeedPhase[r] = "contested"
           /\ round_status[r] \in FinalStatus => FeedPhase[r] = "final"
           /\ round_status[r] \in RefundStatus => FeedPhase[r] = "refunded"
           /\ round_status[r] \in {"none", "open"} => FeedPhase[r] = "undecided"
BY DEF FeedPhase, FinalStatus, RefundStatus

\* The same after a step.
LEMMA PhaseOfRoundNext ==
    ASSUME NEW r \in Rounds
    PROVE  /\ round_status'[r] = "decided_pending" => FeedPhase'[r] = "pending"
           /\ round_status'[r] = "challenged" => FeedPhase'[r] = "contested"
           /\ round_status'[r] \in FinalStatus => FeedPhase'[r] = "final"
           /\ round_status'[r] \in RefundStatus => FeedPhase'[r] = "refunded"
           /\ round_status'[r] \in {"none", "open"} => FeedPhase'[r] = "undecided"
BY DEF FeedPhase, FinalStatus, RefundStatus

\* The feed of a state is a feed.
LEMMA FeedFunctions ==
    /\ FeedPhase = [k \in Rounds |-> FeedPhase[k]]
    /\ FeedVerdict = [k \in Rounds |-> FeedVerdict[k]]
    /\ FeedRival = [k \in Rounds |-> FeedRival[k]]
    /\ FeedSince = [k \in Rounds |-> FeedSince[k]]
    /\ FeedPhase' = [k \in Rounds |-> FeedPhase'[k]]
    /\ FeedVerdict' = [k \in Rounds |-> FeedVerdict'[k]]
    /\ FeedRival' = [k \in Rounds |-> FeedRival'[k]]
    /\ FeedSince' = [k \in Rounds |-> FeedSince'[k]]
BY DEF FeedPhase, FeedVerdict, FeedRival, FeedSince

\* A step of the feed changes at most one round.
LEMMA FeedChangesOne ==
    ASSUME NEW r \in Rounds, \A k \in Rounds \ {r} : FeedSame(k)
    PROVE  /\ FeedPhase' = [FeedPhase EXCEPT ![r] = FeedPhase'[r]]
           /\ FeedVerdict' = [FeedVerdict EXCEPT ![r] = FeedVerdict'[r]]
           /\ FeedRival' = [FeedRival EXCEPT ![r] = FeedRival'[r]]
           /\ FeedSince' = [FeedSince EXCEPT ![r] = FeedSince'[r]]
           /\ FeedPhase'[r] = FeedPhase[r] => FeedPhase' = FeedPhase
           /\ FeedVerdict'[r] = FeedVerdict[r] => FeedVerdict' = FeedVerdict
           /\ FeedRival'[r] = FeedRival[r] => FeedRival' = FeedRival
           /\ FeedSince'[r] = FeedSince[r] => FeedSince' = FeedSince
BY FeedFunctions DEF FeedSame

\* What the feed does not see.
LEMMA FeedUntouched ==
    ASSUME NEW k \in Rounds,
           \/ round_status'[k] = round_status[k]
           \/ round_status[k] \in FinalStatus /\ round_status'[k] \in FinalStatus
           \/ round_status[k] \in {"none", "open"} /\ round_status'[k] \in {"none", "open"},
           meta'[k].pending_winner = meta[k].pending_winner,
           meta'[k].challenge_deadline = meta[k].challenge_deadline
               \/ meta[k].pending_winner = None,
           round_challenge'[k].challenger = round_challenge[k].challenger,
           round_challenge'[k].alternative_id = round_challenge[k].alternative_id,
           round_challenge'[k].challenged_at = round_challenge[k].challenged_at
    PROVE  FeedSame(k)
<1>1. FeedPhase'[k] = FeedPhase[k]
  BY DEF FeedPhase, FinalStatus, RefundStatus
<1>2. FeedVerdict'[k] = FeedVerdict[k] /\ FeedRival'[k] = FeedRival[k]
  BY DEF FeedVerdict, FeedRival
<1>3. FeedSince'[k] = FeedSince[k]
  BY DEF FeedSince
<1> QED
  BY <1>1, <1>2, <1>3 DEF FeedSame

\* A step that no reader sees is a stutter.
LEMMA FeedStutters ==
    ASSUME \A k \in Rounds : FeedSame(k), now' = now, live' = live
    PROVE  UNCHANGED Feed!feedVars
<1>1. /\ FeedPhase' = FeedPhase
      /\ FeedVerdict' = FeedVerdict
      /\ FeedRival' = FeedRival
      /\ FeedSince' = FeedSince
  BY FeedFunctions DEF FeedSame
<1> QED
  BY <1>1 DEF Feed!feedVars

\* Every round before the current one is over.
LEMMA FeedTurn ==
    ASSUME Inductive
    PROVE  Feed!Turn(current_round)
<1>1. SUFFICES ASSUME NEW k \in Rounds, k < current_round
               PROVE  FeedPhase[k] \in {"final", "refunded"}
  BY DEF Feed!Turn
<1>2. round_status[k] \in FinalStatus \cup RefundStatus
  BY <1>1 DEF Inductive, OneRoundInFlight
<1> QED
  BY <1>2, PhaseOfRound

\* A round ends in a refund: Refund of the feed.
LEMMA FeedRefunds ==
    ASSUME Inductive, NEW r \in Rounds, r = current_round, round_status[r] = "open",
           round_status'[r] \in RefundStatus,
           meta'[r] = meta[r], round_challenge' = round_challenge,
           \A k \in Rounds \ {r} : FeedSame(k),
           now' = now, live' = live
    PROVE  Feed!Refund(r)
<1>1. FeedPhase[r] = "undecided" /\ FeedPhase'[r] = "refunded"
  BY PhaseOfRound, PhaseOfRoundNext
<1>2. /\ FeedVerdict'[r] = FeedVerdict[r]
      /\ FeedRival'[r] = FeedRival[r]
      /\ FeedSince'[r] = FeedSince[r]
  BY DEF FeedVerdict, FeedRival, FeedSince
<1> QED
  BY <1>1, <1>2, FeedTurn, FeedChangesOne DEF Feed!Refund, Feed!Undecided

\* _advance_round opens the successor unseen.
LEMMA FeedSuccessor ==
    ASSUME Inductive, NEW r \in Rounds, NEW s \in RoundStatus, NEW m \in MetaType,
           round_status[r] \in {"open"} \cup PendingStatus, r < MaxRound,
           LeaveRound(r, s, m),
           \A k \in Rounds \ {r} : round_challenge'[k] = round_challenge[k],
           NEW k \in Rounds \ {r}
    PROVE  FeedSame(k)
<1> DEFINE n == r + 1
<1>1. /\ r = current_round
      /\ n \in Rounds
      /\ round_status' = [round_status EXCEPT ![r] = s, ![n] = "open"]
      /\ meta' = [meta EXCEPT ![r] = m, ![n] = BlankMeta(now)]
  BY RoundLeft DEF Inductive
<1>2. n # r /\ round_status[n] = "none"
  BY <1>1, TimeAssumption DEF OneRoundInFlight, Rounds, Inductive
<1>3. CASE k = n
  <2>1. meta[k].pending_winner = None
    BY <1>2, <1>3 DEF Inductive, RoundRecords, VerdictRecords, Undecided
  <2>2. meta'[k].pending_winner = None /\ round_status'[k] = "open"
    BY <1>1, <1>3 DEF BlankMeta, Inductive, TypeOK
  <2> QED
    BY <1>2, <1>3, <2>1, <2>2, FeedUntouched
<1>4. CASE k # n
  <2>1. meta'[k] = meta[k] /\ round_status'[k] = round_status[k]
    BY <1>1, <1>4 DEF Inductive, TypeOK
  <2> QED
    BY <2>1, FeedUntouched
<1> QED
  BY <1>3, <1>4

\* An adjudication publishes.
LEMMA FeedPublishes ==
    ASSUME Inductive, Adjudicate
    PROVE  Feed!Next
<1> DEFINE r == current_round
<1>1. /\ r \in Rounds /\ round_status[r] = "open" /\ r < MaxRound
      /\ meta[r] \in MetaType
      /\ UNCHANGED <<now, live, round_challenge>>
  BY DEF Adjudicate, Inductive, TypeOK, RoundRecords, StakedRounds
<1>2. \/ \E s \in {"unchanged", "inconclusive"} : LeaveRound(r, s, meta[r])
      \/ \E winner \in Ids(r) : Decide(r, winner)
  BY DEF Adjudicate, Inconclude
<1>3. ASSUME NEW s \in {"unchanged", "inconclusive"}, LeaveRound(r, s, meta[r])
      PROVE  Feed!Next
  <2>1. s \in RoundStatus /\ s \in RefundStatus
    BY DEF RoundStatus, RefundStatus
  <2>2. \A k \in Rounds \ {r} : FeedSame(k)
    BY <1>1, <1>3, <2>1, FeedSuccessor
  <2>3. /\ round_status' = [round_status EXCEPT ![r] = s, ![r + 1] = "open"]
        /\ meta' = [meta EXCEPT ![r] = meta[r], ![r + 1] = BlankMeta(now)]
        /\ r + 1 # r
    BY <1>1, <1>3, <2>1, RoundLeft, TimeAssumption DEF Inductive, Rounds
  <2>4. round_status'[r] \in RefundStatus /\ meta'[r] = meta[r]
    BY <1>1, <2>1, <2>3 DEF Inductive, TypeOK
  <2>5. Feed!Refund(r)
    BY <1>1, <2>2, <2>4, FeedRefunds
  <2> QED
    BY <1>1, <2>5 DEF Feed!Next
<1>4. ASSUME NEW winner \in Ids(r), Decide(r, winner)
      PROVE  Feed!Next
  <2>1. /\ round_status' = [round_status EXCEPT ![r] = "decided_pending"]
        /\ meta' = [meta EXCEPT ![r] =
               [meta[r] EXCEPT !.pending_winner = winner,
                               !.challenge_deadline = now + ChallengeWindow]]
    BY <1>4 DEF Decide
  <2>2. \A k \in Rounds \ {r} : FeedSame(k)
    BY <1>1, <2>1, FeedUntouched DEF Inductive, TypeOK
  <2>3. /\ round_status'[r] = "decided_pending"
        /\ meta'[r].pending_winner = winner
        /\ meta'[r].challenge_deadline = now + ChallengeWindow
    BY <1>1, <2>1 DEF Inductive, TypeOK, MetaType
  <2>4. round_challenge[r].challenger = None
    BY <1>1 DEF Inductive, RoundRecords, ChallengeRecords, Undecided, NoChallenge
  <2>5. winner \in Content /\ winner # None
    BY ContentAssumption DEF Ids
  <2>6. /\ FeedPhase[r] = "undecided" /\ FeedPhase'[r] = "pending"
        /\ FeedVerdict'[r] = winner
        /\ FeedRival'[r] = FeedRival[r]
    BY <1>1, <2>3, PhaseOfRound, PhaseOfRoundNext DEF FeedVerdict, FeedRival
  <2>7. FeedSince'[r] = now
    <3>1. now \in Nat /\ ChallengeWindow \in Nat
      BY TimeAssumption DEF Inductive, TypeOK
    <3>2. FeedSince'[r] = (now + ChallengeWindow) - ChallengeWindow
      BY <1>1, <2>3, <2>4, <2>5 DEF FeedSince
    <3> QED
      BY <3>1, <3>2
  <2>8. Feed!Publish(r, winner)
    BY <1>1, <2>2, <2>6, <2>7, FeedTurn, FeedChangesOne DEF Feed!Publish, Feed!Undecided
  <2> QED
    BY <1>1, <2>5, <2>8 DEF Feed!Next
<1> QED
  BY <1>2, <1>3, <1>4

\* A challenge contests.
LEMMA FeedContests ==
    ASSUME Inductive, NEW r \in Rounds, NEW a \in Account, NEW c \in Content,
           NEW bond \in Amounts, Challenge(r, a, c, bond)
    PROVE  Feed!Contest(r, c)
<1>1. /\ round_status[r] = "decided_pending"
      /\ now <= meta[r].challenge_deadline
      /\ c # meta[r].pending_winner
      /\ round_status' = [round_status EXCEPT ![r] = "challenged"]
      /\ meta' = [meta EXCEPT ![r].challenge_bond = bond]
      /\ round_challenge' = [round_challenge EXCEPT ![r] =
             [challenger |-> a, alternative_id |-> c, original_winner |-> meta[r].pending_winner,
              bond |-> bond, challenged_at |-> now, outcome |-> "open"]]
      /\ now' = now /\ live' = live
  BY DEF Challenge
<1>2. /\ round_status \in [Rounds -> RoundStatus] /\ meta \in [Rounds -> MetaType]
      /\ round_challenge \in [Rounds -> ChallengeType]
      /\ now \in Nat /\ ChallengeWindow \in Nat /\ meta[r].challenge_deadline \in Nat
  BY TimeAssumption DEF Inductive, TypeOK, MetaType
<1>3. \A k \in Rounds \ {r} : FeedSame(k)
  BY <1>1, <1>2, FeedUntouched
<1>4. /\ meta[r].pending_winner # None
      /\ round_challenge[r].challenger = None
      /\ a # None
  BY <1>1, AccountAssumption, ContentAssumption
  DEF Inductive, RoundRecords, VerdictRecords, ChallengeRecords, PendingStatus, NoChallenge, Ids
<1>5. /\ meta'[r].pending_winner = meta[r].pending_winner
      /\ round_status'[r] = "challenged"
      /\ round_challenge'[r].challenger = a
      /\ round_challenge'[r].alternative_id = c
      /\ round_challenge'[r].challenged_at = now
  BY <1>1, <1>2 DEF MetaType
<1>6. /\ FeedPhase[r] = "pending" /\ FeedPhase'[r] = "contested"
      /\ FeedVerdict'[r] = FeedVerdict[r] /\ FeedVerdict[r] = meta[r].pending_winner
      /\ FeedRival'[r] = c
      /\ FeedSince'[r] = now
  BY <1>1, <1>4, <1>5, PhaseOfRound, PhaseOfRoundNext DEF FeedVerdict, FeedRival, FeedSince
<1>7. FeedSince[r] = meta[r].challenge_deadline - ChallengeWindow
  BY <1>4 DEF FeedSince
<1>8. now <= FeedSince[r] + ChallengeWindow
  BY <1>1, <1>2, <1>7
<1> QED
  BY <1>1, <1>3, <1>6, <1>8, FeedChangesOne DEF Feed!Contest

\* A round that is finalized makes its verdict final.
LEMMA FeedFinalizes ==
    ASSUME Inductive, NEW r \in Rounds, ResolveChallenge(r) \/ Finalize(r)
    PROVE  Feed!Confirm(r) \/ Feed!Answer(r)
<1>1. PICK winner \in Content,
           outcome \in {"none", "upheld", "rejected", "unresolved", "expired"} :
              /\ Electable(r, winner)
              /\ outcome = "none" => round_status[r] = "decided_pending"
              /\ outcome # "none" => round_status[r] = "challenged"
              /\ winner = WinnerAfter(r, outcome)
              /\ FinalizeRound(r, winner, outcome)
  BY EndsInFinalizeRound
<1>2. PICK x, y, z, u, w : LeaveRound(r, "finalized",
          [meta[r] EXCEPT !.pending_winner = winner, !.winner_id = winner, !.winner_total = x,
                          !.bonus = y, !.pot = z, !.challenger_payout = u])
  BY <1>1 DEF FinalizeRound
<1> DEFINE m == [meta[r] EXCEPT !.pending_winner = winner, !.winner_id = winner,
                                !.winner_total = x, !.bonus = y, !.pot = z,
                                !.challenger_payout = u]
<1>3. /\ m.pending_winner = winner
      /\ m.challenge_deadline = meta[r].challenge_deadline
  BY DEF Inductive, TypeOK, MetaType
<1>4. LeaveRound(r, "finalized", m)
  BY <1>2
<1> HIDE DEF m
<1>5. /\ TypeOK' /\ r = current_round /\ r + 1 \in Rounds /\ r + 1 # r /\ status # "closed"
      /\ round_status' = [round_status EXCEPT ![r] = "finalized", ![r + 1] = "open"]
  BY <1>1, FinalizeRoundType, TimeAssumption DEF Inductive, Rounds
<1>6. meta'[r] = m
  BY <1>4, <1>5 DEF LeaveRound, Advances, Inductive, TypeOK
<1>7. /\ round_challenge' = [round_challenge EXCEPT ![r].outcome = outcome]
      /\ live'.id = winner /\ live'.round = r
      /\ now' = now
  BY <1>1 DEF FinalizeRound, NewLive
<1>8. /\ round_challenge \in [Rounds -> ChallengeType]
      /\ round_challenge[r] \in ChallengeType
      /\ now \in Nat /\ ChallengeWindow \in Nat /\ meta[r].challenge_deadline \in Nat
  BY TimeAssumption DEF Inductive, TypeOK, MetaType
<1>9. /\ round_challenge'[r].challenger = round_challenge[r].challenger
      /\ round_challenge'[r].alternative_id = round_challenge[r].alternative_id
      /\ round_challenge'[r].challenged_at = round_challenge[r].challenged_at
      /\ \A k \in Rounds \ {r} : round_challenge'[k] = round_challenge[k]
  BY <1>7, <1>8 DEF ChallengeType
<1>10. \A k \in Rounds \ {r} : FeedSame(k)
  <2>1. m \in MetaType
    BY <1>5, <1>6 DEF TypeOK
  <2>2. "finalized" \in RoundStatus
    BY DEF RoundStatus, FinalStatus
  <2>3. round_status[r] \in {"open"} \cup PendingStatus /\ r < MaxRound
    BY <1>1 DEF Electable
  <2> QED
    BY <1>4, <1>9, <2>1, <2>2, <2>3, FeedSuccessor
<1>11. meta[r].pending_winner \in Content /\ meta[r].pending_winner # None /\ winner # None
  BY <1>1, ContentAssumption
  DEF Electable, Inductive, RoundRecords, VerdictRecords, Ids
<1>12. /\ FeedVerdict'[r] = winner
       /\ FeedVerdict[r] = meta[r].pending_winner
       /\ FeedRival'[r] = FeedRival[r]
       /\ FeedRival[r] = round_challenge[r].alternative_id
       /\ FeedSince'[r] = FeedSince[r]
  BY <1>3, <1>6, <1>9, <1>11 DEF FeedVerdict, FeedRival, FeedSince
<1>13. FeedPhase'[r] = "final"
  <2>1. round_status'[r] \in FinalStatus
    BY <1>5 DEF FinalStatus, Inductive, TypeOK
  <2> QED
    BY <2>1, PhaseOfRoundNext
<1>14. Feed!Becomes(r, winner)
  BY <1>7, <1>10, <1>12, <1>13, FeedChangesOne DEF Feed!Becomes
<1>15. CASE outcome = "none"
  <2>1. round_status[r] = "decided_pending" /\ winner = meta[r].pending_winner
    BY <1>1, <1>15 DEF WinnerAfter
  <2>2. now > meta[r].challenge_deadline
    BY <2>1 DEF ResolveChallenge, Finalize
  <2>3. FeedSince[r] = meta[r].challenge_deadline - ChallengeWindow
    <3>1. round_challenge[r].challenger = None
      BY <2>1 DEF Inductive, RoundRecords, ChallengeRecords, NoChallenge
    <3> QED
      BY <1>11, <3>1 DEF FeedSince
  <2>4. now > FeedSince[r] + ChallengeWindow
    BY <1>8, <2>2, <2>3
  <2> QED
    BY <1>12, <1>14, <2>1, <2>4, PhaseOfRound DEF Feed!Confirm
<1>16. CASE outcome # "none"
  <2>1. FeedPhase[r] = "contested"
    BY <1>1, <1>16, PhaseOfRound
  <2>2. winner \in {FeedVerdict[r], FeedRival[r]}
    BY <1>1, <1>12 DEF WinnerAfter
  <2> QED
    BY <1>14, <2>1, <2>2 DEF Feed!Answer
<1> QED
  BY <1>15, <1>16

\* The engine starts as the feed does.
LEMMA FeedInit == Init => Feed!Init
<1> SUFFICES ASSUME Init PROVE Feed!Init
  OBVIOUS
<1>1. \A r \in Rounds : /\ round_status[r] \in {"none", "open"}
                        /\ meta[r].pending_winner = None
                        /\ round_challenge[r] = NoChallenge
  BY DEF Init, BlankMeta
<1>2. FeedPhase = [r \in Rounds |-> "undecided"]
  BY <1>1, PhaseOfRound, FeedFunctions
<1>3. FeedVerdict = [r \in Rounds |-> None] /\ FeedRival = [r \in Rounds |-> None]
  BY <1>1 DEF FeedVerdict, FeedRival, NoChallenge
<1>4. FeedSince = [r \in Rounds |-> 0]
  BY <1>1 DEF FeedSince, NoChallenge
<1> QED
  BY <1>2, <1>3, <1>4 DEF Init, Feed!Init

\* Every step of the engine is a step of the feed, or none.
LEMMA FeedStep == Inductive /\ [Next]_vars => [Feed!Next]_Feed!feedVars
<1> SUFFICES ASSUME Inductive, [Next]_vars
             PROVE  Feed!Next \/ UNCHANGED Feed!feedVars
  OBVIOUS
<1>1. CASE Tick
  <2>1. /\ now' = now + 1 /\ live' = live
        /\ UNCHANGED <<round_status, meta, round_challenge>>
    BY <1>1 DEF Tick, roundVars, verdictVars
  <2>2. /\ FeedPhase' = FeedPhase /\ FeedVerdict' = FeedVerdict
        /\ FeedRival' = FeedRival /\ FeedSince' = FeedSince
    BY <2>1 DEF FeedPhase, FeedVerdict, FeedRival, FeedSince
  <2> QED
    BY <2>1, <2>2 DEF Feed!Next, Feed!Pass
<1>2. ASSUME UNCHANGED <<now, live, round_status, round_challenge>>,
             \A k \in Rounds : /\ meta'[k].pending_winner = meta[k].pending_winner
                               /\ meta'[k].challenge_deadline = meta[k].challenge_deadline
      PROVE  UNCHANGED Feed!feedVars
  BY <1>2, FeedUntouched, FeedStutters
<1>3. ASSUME NEW a \in Account, NEW c \in Content, NEW amount \in Amounts,
             SubmitInterpretation(a, c, amount) \/ BackInterpretation(a, c, amount)
      PROVE  UNCHANGED Feed!feedVars
  <2>1. /\ UNCHANGED <<now, live, round_status, round_challenge>>
        /\ meta' = [meta EXCEPT ![current_round].stake_pool = @ + amount]
    BY <1>3 DEF SubmitInterpretation, BackInterpretation, verdictVars
  <2>2. \A k \in Rounds : /\ meta'[k].pending_winner = meta[k].pending_winner
                          /\ meta'[k].challenge_deadline = meta[k].challenge_deadline
    BY <2>1 DEF Inductive, TypeOK, MetaType
  <2> QED
    BY <1>2, <2>1, <2>2
<1>4. ASSUME NEW r \in Rounds, CancelRound(r)
      PROVE  Feed!Next
  <2>1. /\ round_status[r] = "open" /\ r < MaxRound
        /\ LeaveRound(r, "cancelled", meta[r])
        /\ UNCHANGED <<now, live, round_challenge>>
    BY <1>4 DEF CancelRound, verdictVars
  <2>2. "cancelled" \in RoundStatus /\ "cancelled" \in RefundStatus /\ meta[r] \in MetaType
    BY DEF RoundStatus, RefundStatus, Inductive, TypeOK
  <2>3. \A k \in Rounds \ {r} : FeedSame(k)
    BY <2>1, <2>2, FeedSuccessor
  <2>4. /\ r = current_round
        /\ round_status' = [round_status EXCEPT ![r] = "cancelled", ![r + 1] = "open"]
        /\ meta' = [meta EXCEPT ![r] = meta[r], ![r + 1] = BlankMeta(now)]
        /\ r + 1 # r
    BY <2>1, <2>2, RoundLeft, TimeAssumption DEF Inductive, Rounds
  <2>5. round_status'[r] \in RefundStatus /\ meta'[r] = meta[r]
    BY <2>2, <2>4 DEF Inductive, TypeOK
  <2>6. Feed!Refund(r)
    BY <2>1, <2>3, <2>4, <2>5, FeedRefunds
  <2> QED
    BY <2>6 DEF Feed!Next
<1>5. CASE FinalizeClose
  <2> DEFINE r == current_round
  <2>1. /\ r \in Rounds /\ round_status[r] = "open"
        /\ round_status' = [round_status EXCEPT ![r] = "cancelled"]
        /\ UNCHANGED <<now, live, round_challenge, meta>>
    BY <1>5 DEF FinalizeClose, Closable, verdictVars, Inductive, TypeOK
  <2>2. round_status'[r] \in RefundStatus
    BY <2>1 DEF Inductive, TypeOK, RefundStatus
  <2>3. \A k \in Rounds \ {r} : FeedSame(k)
    BY <2>1, FeedUntouched DEF Inductive, TypeOK
  <2>4. Feed!Refund(r)
    BY <2>1, <2>2, <2>3, FeedRefunds
  <2> QED
    BY <2>1, <2>4 DEF Feed!Next
<1>6. ASSUME NEW r \in Rounds, Settle(r)
      PROVE  UNCHANGED Feed!feedVars
  <2>1. /\ UNCHANGED <<now, live, round_challenge, meta>>
        /\ \A k \in Rounds : \/ round_status'[k] = round_status[k]
                             \/ round_status[k] \in FinalStatus /\ round_status'[k] \in FinalStatus
    BY <1>6 DEF Settle, verdictVars, Inductive, TypeOK, FinalStatus
  <2> QED
    BY <2>1, FeedUntouched, FeedStutters
<1>7. ASSUME NEW r \in Rounds, NEW a \in Claimants, Claim(r, a)
      PROVE  UNCHANGED Feed!feedVars
  <2>1. /\ UNCHANGED <<now, live, round_challenge, round_status>>
        /\ meta' = [meta EXCEPT ![r] = AfterClaim(r, a)]
    BY <1>7 DEF Claim, verdictVars
  <2> DEFINE taken == meta[r].claimed_winner_stake + WinnerStake(r, a)
             paid == meta[r].paid_winners + WinnerShare(r, a)
  <2>2. \/ AfterClaim(r, a) = meta[r]
        \/ AfterClaim(r, a) = [meta[r] EXCEPT !.claimed_winner_stake = taken,
                                              !.paid_winners = paid]
    BY DEF AfterClaim
  <2> HIDE DEF taken, paid
  <2>3. /\ AfterClaim(r, a).pending_winner = meta[r].pending_winner
        /\ AfterClaim(r, a).challenge_deadline = meta[r].challenge_deadline
    BY <2>2 DEF Inductive, TypeOK, MetaType
  <2>4. \A k \in Rounds : /\ meta'[k].pending_winner = meta[k].pending_winner
                          /\ meta'[k].challenge_deadline = meta[k].challenge_deadline
    BY <2>1, <2>3 DEF Inductive, TypeOK
  <2> QED
    BY <1>2, <2>1, <2>4
<1>8. ASSUME \/ \E a \in Account, s \in Source :
                    (\E bond \in Amounts : AddSource(a, s, bond)) \/ ClaimSourceBond(a, s)
             \/ \E a \in Account : CloseMonocle(a) \/ CancelClose(a)
             \/ FlushResidual
             \/ UNCHANGED vars
      PROVE  UNCHANGED Feed!feedVars
  <2>1. UNCHANGED <<now, live, round_status, meta, round_challenge>>
    BY <1>8
    DEF AddSource, ClaimSourceBond, CloseMonocle, CancelClose, FlushResidual, vars,
        roundVars, verdictVars
  <2> QED
    BY <1>2, <2>1
<1>9. ASSUME NEW r \in Rounds, NEW a \in Account, NEW c \in Content, NEW bond \in Amounts,
             Challenge(r, a, c, bond)
      PROVE  Feed!Next
  BY <1>9, FeedContests DEF Feed!Next
<1>10. ASSUME NEW r \in Rounds, ResolveChallenge(r) \/ Finalize(r)
       PROVE  Feed!Next
  BY <1>10, FeedFinalizes DEF Feed!Next
<1> QED
  BY <1>1, <1>3, <1>4, <1>5, <1>6, <1>7, <1>8, <1>9, <1>10, FeedPublishes DEF Next

\* The engine implements the feed: a published verdict may be contested for the
\* whole window, becomes final only after it or after a contest, in the order of
\* the rounds, and is never withdrawn.
THEOREM EngineImplementsFeed == Spec => FeedSpec
<1>1. Init => Feed!Init
  BY FeedInit
<1>2. Inductive /\ [Next]_vars => [Feed!Next]_Feed!feedVars
  BY FeedStep
<1> QED
  BY <1>1, <1>2, InductiveInvariant, PTL DEF Spec, Feed!Spec, FeedSpec

===============================================================================
