------------------------- MODULE MonocleLedgerProofs -------------------------
(***************************************************************************)
(* The sums of the ledgers: what is held, staked, forfeited, owed and paid *)
(* agrees after every method.                                              *)
(***************************************************************************)
EXTENDS MonocleProofs, SumTheorems

\* There are finitely many rounds to sum over.
LEMMA RoundsFinite == IsFiniteSet(Rounds)
BY FS_Interval, TimeAssumption DEF Rounds

-----------------------------------------------------------------------------
(* What a step does to one round                                           *)

ClaimsKept(k) == \A a \in Account : <<k, a>> \in claimed' <=> <<k, a>> \in claimed

\* Nothing the ledgers speak of: at most it is settled.
RoundKept(k) ==
    /\ meta'[k] = meta[k]
    /\ interpretations'[k] = interpretations[k]
    /\ round_challenge'[k] = round_challenge[k]
    /\ bucket_round'[k] = bucket_round[k]
    /\ ClaimsKept(k)
    /\ \/ round_status'[k] = round_status[k]
       \/ round_status[k] = "finalized" /\ round_status'[k] = "settled"

\* It opens as the successor of the round that is left.
RoundOpened(k) ==
    /\ round_status[k] = "none"
    /\ round_status'[k] = "open"
    /\ meta'[k] = BlankMeta(now)
    /\ interpretations'[k] = interpretations[k]
    /\ bucket_round'[k] = bucket_round[k]
    /\ ClaimsKept(k)

\* A stake arrives, with a new interpretation or for a known one.
RoundStaked(k, c, a, amount) ==
    LET old == interpretations[k][c] IN
    /\ round_status[k] = "open"
    /\ round_status'[k] = "open"
    /\ meta'[k] = [meta[k] EXCEPT !.stake_pool = @ + amount]
    /\ \E author \in Account :
           interpretations'[k] = [interpretations[k] EXCEPT ![c] =
               [author |-> author, total_stake |-> old.total_stake + amount,
                backers |-> [old.backers EXCEPT ![a] = @ + amount]]]
    /\ ClaimsKept(k)

\* It is decided or challenged.
RoundJudged(k) ==
    /\ \/ /\ round_status[k] = "open" /\ round_status'[k] = "decided_pending"
          /\ meta'[k].challenge_deadline = now + ChallengeWindow
       \/ /\ round_status[k] = "decided_pending" /\ round_status'[k] = "challenged"
          /\ meta'[k].challenge_deadline = meta[k].challenge_deadline
          /\ now <= meta[k].challenge_deadline
          /\ round_challenge'[k].challenged_at = now
    /\ now' = now
    /\ meta'[k].stake_pool = meta[k].stake_pool
    /\ meta'[k].bonus = meta[k].bonus
    /\ interpretations'[k] = interpretations[k]
    /\ ClaimsKept(k)

\* It ends without a winner.
RoundEnds(k) ==
    /\ round_status[k] = "open"
    /\ round_status'[k] \in RefundStatus
    /\ meta'[k] = meta[k]
    /\ interpretations'[k] = interpretations[k]
    /\ bucket_round'[k] = bucket_round[k]
    /\ ClaimsKept(k)

\* It ends with a winner.
RoundWon(k, winner, outcome) ==
    LET m == meta[k]
        payout == ChallengerPayout(outcome, m.challenge_bond, m.stake_pool)
    IN  /\ winner \in Ids(k)
        /\ round_status[k] \in PendingStatus
        /\ round_status'[k] = "finalized"
        /\ meta'[k] =
               [m EXCEPT !.pending_winner = winner,
                         !.winner_id = winner,
                         !.winner_total = interpretations[k][winner].total_stake,
                         !.bonus = Bonus(k),
                         !.pot = Pot(m.stake_pool, Bonus(k), m.challenge_bond, payout),
                         !.challenger_payout = payout]
        /\ interpretations'[k] = interpretations[k]
        /\ round_challenge'[k].outcome = outcome
        /\ ClaimsKept(k)

Outcomes == {"none", "upheld", "rejected", "unresolved", "expired"}

\* All of these but the arrival of a stake and the end with a winner.
RoundMoves(k) ==
    \/ RoundKept(k)
    \/ RoundOpened(k)
    \/ RoundJudged(k)
    \/ RoundEnds(k)
    \/ \E a \in Account : Claim(k, a)

\* A stake arrives in round r, and no other round changes.
Staking(r, c, a, amount) ==
    /\ RoundStaked(r, c, a, amount)
    /\ \A k \in Rounds \ {r} : RoundKept(k)
    /\ total_stake_all_time' = total_stake_all_time + amount

\* Round r ends with a winner, and no other round does.
Winning(r, winner, outcome) ==
    /\ RoundWon(r, winner, outcome)
    /\ FinalizeRound(r, winner, outcome)
    /\ \A k \in Rounds \ {r} : RoundKept(k) \/ RoundOpened(k)

\* A round is left: it takes its ledger m, its successor opens, no other round
\* changes.
LEMMA LeavingChanges ==
    ASSUME Inductive, NEW r \in Rounds, NEW s \in FinalStatus \cup RefundStatus,
           NEW m \in MetaType, round_status[r] \in {"open"} \cup PendingStatus, r < MaxRound,
           LeaveRound(r, s, m), UNCHANGED <<interpretations, claimed>>,
           \A k \in Rounds \ {r} : /\ round_challenge'[k] = round_challenge[k]
                                   /\ bucket_round'[k] = bucket_round[k]
    PROVE  /\ round_status'[r] = s
           /\ meta'[r] = m
           /\ r + 1 \in Rounds
           /\ RoundOpened(r + 1)
           /\ \A k \in Rounds \ {r, r + 1} : RoundKept(k)
<1> USE DEF Inductive
<1> DEFINE n == r + 1
<1>1. /\ r = current_round
      /\ n \in Rounds
      /\ round_status' = [round_status EXCEPT ![r] = s, ![n] = "open"]
      /\ meta' = [meta EXCEPT ![r] = m, ![n] = BlankMeta(now)]
  BY RoundLeft DEF RoundStatus
<1>2. n # r /\ round_status[n] = "none"
  BY <1>1, TimeAssumption DEF OneRoundInFlight, Rounds
<1>3. round_status'[r] = s /\ meta'[r] = m
  BY <1>1, <1>2 DEF TypeOK
<1>4. RoundOpened(n)
  BY <1>1, <1>2 DEF RoundOpened, ClaimsKept, TypeOK
<1>5. \A k \in Rounds \ {r, n} : RoundKept(k)
  BY <1>1 DEF RoundKept, ClaimsKept, TypeOK
<1> QED
  BY <1>1, <1>3, <1>4, <1>5

\* submit_interpretation, back_interpretation
LEMMA SubmitChanges ==
    ASSUME Inductive, BlankStakes, NEW a \in Account, NEW c \in Content, NEW amount \in Amounts,
           SubmitInterpretation(a, c, amount)
    PROVE  /\ current_round \in Rounds
           /\ RoundStaked(current_round, c, a, amount)
           /\ \A k \in Rounds \ {current_round} : RoundKept(k)
<1> USE DEF Inductive
<1> DEFINE r == current_round
           old == interpretations[r][c]
           i == [author |-> a, total_stake |-> amount,
                 backers |-> [b \in Account |-> IF b = a THEN amount ELSE 0]]
<1>1. r \in Rounds /\ amount \in Nat
  BY AmountAssumption DEF TypeOK
<1>2. /\ round_status[r] = "open" /\ c \notin Ids(r)
      /\ interpretations' = [interpretations EXCEPT ![r][c] = i]
      /\ meta' = [meta EXCEPT ![r].stake_pool = @ + amount]
      /\ bucket_round' = [bucket_round EXCEPT ![r] = @ + amount]
      /\ UNCHANGED <<round_status, round_challenge, claimed>>
  BY DEF SubmitInterpretation, Accepting, CreditRound, verdictVars
<1>3. old = NoInterpretation
  BY <1>1, <1>2 DEF BlankStakes
<1>4. /\ old.total_stake + amount = amount
      /\ [old.backers EXCEPT ![a] = @ + amount]
             = [b \in Account |-> IF b = a THEN amount ELSE 0]
  BY <1>1, <1>3 DEF NoInterpretation
<1>5. interpretations'[r] = [interpretations[r] EXCEPT ![c] =
          [author |-> a, total_stake |-> old.total_stake + amount,
           backers |-> [old.backers EXCEPT ![a] = @ + amount]]]
  <2>1. interpretations'[r] = [interpretations[r] EXCEPT ![c] = i]
    BY <1>1, <1>2 DEF TypeOK
  <2> QED
    BY <1>4, <2>1
<1>6. meta'[r] = [meta[r] EXCEPT !.stake_pool = @ + amount]
  BY <1>1, <1>2 DEF TypeOK
<1>7. RoundStaked(r, c, a, amount)
  BY <1>2, <1>5, <1>6 DEF RoundStaked, ClaimsKept
<1>8. \A k \in Rounds \ {r} : RoundKept(k)
  BY <1>1, <1>2 DEF RoundKept, ClaimsKept, TypeOK
<1> QED
  BY <1>1, <1>7, <1>8

\* Backing stakes on one entry of the round in flight.
LEMMA BackChanges ==
    ASSUME Inductive, NEW a \in Account, NEW c \in Content, NEW amount \in Amounts,
           BackInterpretation(a, c, amount)
    PROVE  /\ current_round \in Rounds
           /\ RoundStaked(current_round, c, a, amount)
           /\ \A k \in Rounds \ {current_round} : RoundKept(k)
<1> USE DEF Inductive
<1> DEFINE r == current_round
           old == interpretations[r][c]
<1>1. r \in Rounds /\ amount \in Nat
  BY AmountAssumption DEF TypeOK
<1>2. /\ round_status[r] = "open" /\ c \in Ids(r)
      /\ interpretations' = [interpretations EXCEPT ![r][c] = Backed(old, a, amount)]
      /\ meta' = [meta EXCEPT ![r].stake_pool = @ + amount]
      /\ bucket_round' = [bucket_round EXCEPT ![r] = @ + amount]
      /\ UNCHANGED <<round_status, round_challenge, claimed>>
  BY <1>1 DEF BackInterpretation, Accepting, CreditRound, verdictVars, TypeOK
<1>3. old.author \in Account
  BY <1>1, <1>2 DEF Ids, TypeOK, InterpretationType, AccountOrNone
<1>4. interpretations'[r] = [interpretations[r] EXCEPT ![c] =
          [author |-> old.author, total_stake |-> old.total_stake + amount,
           backers |-> [old.backers EXCEPT ![a] = @ + amount]]]
  BY <1>1, <1>2 DEF TypeOK, Backed
<1>5. meta'[r] = [meta[r] EXCEPT !.stake_pool = @ + amount]
  BY <1>1, <1>2 DEF TypeOK
<1>6. RoundStaked(r, c, a, amount)
  BY <1>2, <1>3, <1>4, <1>5 DEF RoundStaked, ClaimsKept
<1>7. \A k \in Rounds \ {r} : RoundKept(k)
  BY <1>1, <1>2 DEF RoundKept, ClaimsKept, TypeOK
<1> QED
  BY <1>1, <1>6, <1>7

\* adjudicate and cancel_round, when the round ends without a winner
LEMMA EndingChanges ==
    ASSUME Inductive, NEW r \in Rounds, NEW s \in RefundStatus,
           round_status[r] = "open", r < MaxRound, LeaveRound(r, s, meta[r]),
           UNCHANGED <<interpretations, claimed, round_challenge, bucket_round>>
    PROVE  /\ RoundEnds(r)
           /\ r + 1 \in Rounds
           /\ RoundOpened(r + 1)
           /\ \A k \in Rounds \ {r, r + 1} : RoundKept(k)
<1>1. meta[r] \in MetaType
  BY DEF Inductive, TypeOK
<1>2. /\ round_status'[r] = s
      /\ meta'[r] = meta[r]
      /\ r + 1 \in Rounds
      /\ RoundOpened(r + 1)
      /\ \A k \in Rounds \ {r, r + 1} : RoundKept(k)
  BY <1>1, LeavingChanges
<1> QED
  BY <1>2 DEF RoundEnds, ClaimsKept

\* adjudicate, when it names a winner
LEMMA DecidingChanges ==
    ASSUME Inductive, NEW r \in Rounds, NEW winner, round_status[r] = "open", Decide(r, winner),
           UNCHANGED <<now, interpretations, claimed, round_challenge, bucket_round>>
    PROVE  /\ RoundJudged(r)
           /\ \A k \in Rounds \ {r} : RoundKept(k)
<1> USE DEF Inductive
<1>1. /\ meta'[r] = [meta[r] EXCEPT !.pending_winner = winner,
                                    !.challenge_deadline = now + ChallengeWindow]
      /\ round_status'[r] = "decided_pending"
      /\ \A k \in Rounds \ {r} : meta'[k] = meta[k] /\ round_status'[k] = round_status[k]
  BY DEF Decide, TypeOK
<1>2. /\ meta'[r].stake_pool = meta[r].stake_pool /\ meta'[r].bonus = meta[r].bonus
      /\ meta'[r].challenge_deadline = now + ChallengeWindow
  BY <1>1 DEF TypeOK, MetaType
<1> QED
  BY <1>1, <1>2 DEF RoundJudged, RoundKept, ClaimsKept

\* A challenge touches the round it is of.
LEMMA ChallengeChanges ==
    ASSUME Inductive, NEW r \in Rounds, NEW a \in Account, NEW c \in Content, NEW bond \in Amounts,
           Challenge(r, a, c, bond)
    PROVE  /\ RoundJudged(r)
           /\ \A k \in Rounds \ {r} : RoundKept(k)
<1> USE DEF Inductive
<1>1. /\ round_status[r] = "decided_pending"
      /\ round_status' = [round_status EXCEPT ![r] = "challenged"]
      /\ meta' = [meta EXCEPT ![r].challenge_bond = bond]
      /\ bucket_round' = [bucket_round EXCEPT ![r] = @ + bond]
      /\ \A k \in Rounds \ {r} : round_challenge'[k] = round_challenge[k]
      /\ UNCHANGED <<now, interpretations, claimed>>
  BY DEF Challenge, CreditRound, stakeVars, TypeOK
<1>2. /\ meta'[r].stake_pool = meta[r].stake_pool /\ meta'[r].bonus = meta[r].bonus
      /\ meta'[r].challenge_deadline = meta[r].challenge_deadline
      /\ round_status'[r] = "challenged"
  BY <1>1 DEF TypeOK, MetaType
<1>3. now <= meta[r].challenge_deadline /\ round_challenge'[r].challenged_at = now
  BY DEF Challenge, TypeOK
<1> QED
  BY <1>1, <1>2, <1>3 DEF RoundJudged, RoundKept, ClaimsKept, TypeOK

\* resolve_challenge, finalize
LEMMA WinningChanges ==
    ASSUME Inductive, NEW r \in Rounds, ResolveChallenge(r) \/ Finalize(r)
    PROVE  /\ \E winner \in Content, outcome \in Outcomes :
                  RoundWon(r, winner, outcome) /\ FinalizeRound(r, winner, outcome)
           /\ r + 1 \in Rounds
           /\ RoundOpened(r + 1)
           /\ \A k \in Rounds \ {r, r + 1} : RoundKept(k)
<1> USE DEF Inductive
<1>1. PICK winner \in Content, outcome \in Outcomes :
          Electable(r, winner) /\ FinalizeRound(r, winner, outcome)
  BY EndsInFinalizeRound DEF Outcomes
<1> DEFINE m == meta[r]
           payout == ChallengerPayout(outcome, m.challenge_bond, m.stake_pool)
           pot == Pot(m.stake_pool, Bonus(r), m.challenge_bond, payout)
           w == [m EXCEPT !.pending_winner = winner, !.winner_id = winner,
                          !.winner_total = interpretations[r][winner].total_stake,
                          !.bonus = Bonus(r), !.pot = pot, !.challenger_payout = payout]
<1>2. w \in MetaType
  <2>1. m \in MetaType /\ Bonus(r) \in Nat
    BY DEF TypeOK, MetaType, Bonus
  <2>2. payout \in Nat /\ payout <= m.stake_pool + m.challenge_bond
    BY <2>1, PayoutCovered DEF MetaType
  <2>3. pot \in Nat
    BY <2>1, <2>2, PotIsNat DEF MetaType
  <2>4. interpretations[r][winner].total_stake \in Nat
    BY DEF TypeOK, InterpretationType
  <2> HIDE DEF m, payout, pot
  <2> QED
    BY <2>1, <2>2, <2>3, <2>4, FinalMetaType
<1>3. /\ LeaveRound(r, "finalized", w)
      /\ UNCHANGED <<interpretations, claimed>>
      /\ round_challenge' = [round_challenge EXCEPT ![r].outcome = outcome]
      /\ bucket_round' = [bucket_round EXCEPT ![r] = @ + bucket_carry]
  BY <1>1 DEF FinalizeRound, stakeVars
<1>4. /\ round_challenge'[r].outcome = outcome
      /\ \A k \in Rounds \ {r} : /\ round_challenge'[k] = round_challenge[k]
                                 /\ bucket_round'[k] = bucket_round[k]
  BY <1>3 DEF TypeOK, ChallengeType
<1>5. /\ round_status'[r] = "finalized" /\ meta'[r] = w
      /\ r + 1 \in Rounds
      /\ RoundOpened(r + 1)
      /\ \A k \in Rounds \ {r, r + 1} : RoundKept(k)
  <2>1. "finalized" \in FinalStatus /\ round_status[r] \in PendingStatus /\ r < MaxRound
    BY <1>1 DEF Electable, FinalStatus
  <2> HIDE DEF w
  <2> QED
    BY <1>2, <1>3, <1>4, <2>1, LeavingChanges
<1>6. RoundWon(r, winner, outcome)
  BY <1>1, <1>3, <1>4, <1>5 DEF RoundWon, Electable, ClaimsKept
<1> QED
  BY <1>1, <1>5, <1>6

\* A claim touches the round it is of.
LEMMA ClaimChanges ==
    ASSUME Inductive, NEW r \in Rounds, NEW a \in Account, Claim(r, a)
    PROVE  \A k \in Rounds \ {r} : RoundKept(k)
<1> USE DEF Inductive
<1>1. /\ meta' = [meta EXCEPT ![r] = AfterClaim(r, a)]
      /\ bucket_round' = [bucket_round EXCEPT ![r] = @ - Owed(r, a)]
      /\ claimed' = claimed \cup {<<r, a>>}
      /\ UNCHANGED <<round_status, interpretations, round_challenge>>
  BY DEF Claim, stakeVars, verdictVars
<1> QED
  BY <1>1 DEF RoundKept, ClaimsKept, TypeOK

\* adjudicate: what it does to the rounds, and to the bonds.
LEMMA AdjudicationChanges ==
    ASSUME Inductive, Adjudicate
    PROVE  /\ current_round \in Rounds
           /\ \A k \in Rounds : RoundKept(k) \/ RoundOpened(k) \/ RoundJudged(k) \/ RoundEnds(k)
           /\ \E ok \in SUBSET Source : ApplyFetchReport(ok)
           /\ UNCHANGED <<status, bucket_round, bucket_residual, vault_tracked, interpretations,
                          total_stake_all_time>>
           /\ status # "closed"
<1> USE DEF Inductive
<1> DEFINE r == current_round
<1>1. r \in Rounds /\ round_status[r] = "open" /\ r < MaxRound /\ status # "closed"
  BY DEF TypeOK, Adjudicate, RoundRecords, StakedRounds
<1>2. PICK fetched \in Fetches :
          /\ ApplyFetchReport(DOMAIN fetched)
          /\ \/ Inconclude(r, "unchanged")
             \/ Inconclude(r, "inconclusive")
             \/ \E winner \in Ids(r) : Decide(r, winner)
  BY DEF Adjudicate
<1>3. DOMAIN fetched \in SUBSET Source
  BY DEF Fetches, Present
<1>4. UNCHANGED <<now, status, interpretations, total_stake_all_time, round_challenge, claimed,
                  bucket_round, bucket_residual, vault_tracked>>
  BY <1>2 DEF Adjudicate, lifecycleVars, stakeVars, ApplyFetchReport, MoveForfeits
<1>5. ASSUME NEW s \in {"unchanged", "inconclusive"}, Inconclude(r, s)
      PROVE  \A k \in Rounds : RoundKept(k) \/ RoundOpened(k) \/ RoundEnds(k)
  <2>1. s \in RefundStatus /\ LeaveRound(r, s, meta[r])
    BY <1>5 DEF RefundStatus, Inconclude
  <2>2. /\ RoundEnds(r)
        /\ RoundOpened(r + 1)
        /\ \A k \in Rounds \ {r, r + 1} : RoundKept(k)
    BY <1>1, <1>4, <2>1, EndingChanges
  <2> QED
    BY <2>2
<1>6. ASSUME NEW winner \in Ids(r), Decide(r, winner)
      PROVE  \A k \in Rounds : RoundKept(k) \/ RoundJudged(k)
  BY <1>1, <1>4, <1>6, DecidingChanges
<1> QED
  BY <1>1, <1>2, <1>3, <1>4, <1>5, <1>6

\* finalize_close
LEMMA ClosingChanges ==
    ASSUME Inductive, FinalizeClose
    PROVE  /\ current_round \in Rounds
           /\ RoundEnds(current_round)
           /\ \A k \in Rounds \ {current_round} : RoundKept(k)
<1>1. /\ current_round \in Rounds
      /\ round_status[current_round] = "open"
      /\ round_status' = [round_status EXCEPT ![current_round] = "cancelled"]
      /\ UNCHANGED <<meta, interpretations, round_challenge, claimed, bucket_round>>
  BY DEF Inductive, TypeOK, FinalizeClose, Closable, stakeVars, verdictVars
<1> QED
  BY <1>1 DEF RoundEnds, RoundKept, ClaimsKept, RefundStatus, Inductive, TypeOK

\* The steps that change no round, or only settle one.
LEMMA OtherChanges ==
    ASSUME Inductive,
           \/ Tick \/ FlushResidual \/ UNCHANGED vars
           \/ \E r \in Rounds : Settle(r)
           \/ \E a \in Account : CloseMonocle(a) \/ CancelClose(a)
           \/ \E a \in Account, s \in Source :
                  ClaimSourceBond(a, s) \/ \E bond \in Amounts : AddSource(a, s, bond)
    PROVE  \A k \in Rounds : RoundKept(k)
<1>1. UNCHANGED <<meta, interpretations, round_challenge, claimed, bucket_round>>
  BY DEF Tick, FlushResidual, vars, Settle, CloseMonocle, CancelClose, ClaimSourceBond, AddSource,
         lifecycleVars, roundVars, stakeVars, verdictVars, vaultVars
<1>2. \A k \in Rounds :
          \/ round_status'[k] = round_status[k]
          \/ round_status[k] = "finalized" /\ round_status'[k] = "settled"
  <2>1. CASE round_status' = round_status
    BY <2>1
  <2>2. CASE \E r \in Rounds : Settle(r)
    BY <2>2 DEF Settle, Inductive, TypeOK
  <2> QED
    BY <2>1, <2>2
    DEF Tick, FlushResidual, vars, CloseMonocle, CancelClose, ClaimSourceBond, AddSource,
        roundVars
<1> QED
  BY <1>1, <1>2 DEF RoundKept, ClaimsKept

\* Whatever the step, a stake arrives in one round, or one round is won, or
\* neither happens in any round.
LEMMA StepMoves ==
    ASSUME Inductive, BlankStakes, [Next]_vars
    PROVE  \/ \E r \in Rounds, c \in Content, a \in Account, amount \in Nat :
                  Staking(r, c, a, amount)
           \/ \E r \in Rounds : ResolveChallenge(r) \/ Finalize(r)
           \/ /\ \A k \in Rounds : RoundMoves(k)
              /\ UNCHANGED total_stake_all_time
<1> DEFINE Moves == /\ \A k \in Rounds : RoundMoves(k)
                    /\ UNCHANGED total_stake_all_time
<1> USE DEF RoundMoves
<1>1. ASSUME NEW a \in Account, NEW c \in Content, NEW amount \in Amounts,
             SubmitInterpretation(a, c, amount) \/ BackInterpretation(a, c, amount)
      PROVE  \E r \in Rounds : Staking(r, c, a, amount) /\ amount \in Nat
  <2>1. amount \in Nat
    BY AmountAssumption
  <2>2. total_stake_all_time' = total_stake_all_time + amount
    BY <1>1 DEF SubmitInterpretation, BackInterpretation
  <2> QED
    BY <1>1, <2>1, <2>2, SubmitChanges, BackChanges DEF Staking
<1>2. CASE Adjudicate
  BY <1>2, AdjudicationChanges
<1>3. ASSUME NEW r \in Rounds, NEW a \in Account, NEW c \in Content, NEW bond \in Amounts,
             Challenge(r, a, c, bond)
      PROVE  Moves
  BY <1>3, ChallengeChanges DEF Challenge, stakeVars
<1>5. ASSUME NEW r \in Rounds, CancelRound(r)
      PROVE  Moves
  <2>1. /\ round_status[r] = "open" /\ r < MaxRound
        /\ LeaveRound(r, "cancelled", meta[r])
        /\ UNCHANGED <<interpretations, claimed, round_challenge, bucket_round,
                       total_stake_all_time>>
        /\ "cancelled" \in RefundStatus
    BY <1>5 DEF CancelRound, stakeVars, verdictVars, vaultVars, RefundStatus
  <2> QED
    BY <2>1, EndingChanges
<1>6. ASSUME NEW r \in Rounds, NEW a \in Claimants, Claim(r, a)
      PROVE  Moves
  <2>1. a \in Account /\ UNCHANGED total_stake_all_time
    BY <1>6, AccountAssumption DEF Claim, stakeVars
  <2> QED
    BY <1>6, <2>1, ClaimChanges
<1>7. CASE FinalizeClose
  BY <1>7, ClosingChanges DEF FinalizeClose, stakeVars
<1>8. CASE \/ Tick \/ FlushResidual \/ UNCHANGED vars
           \/ \E r \in Rounds : Settle(r)
           \/ \E a \in Account : CloseMonocle(a) \/ CancelClose(a)
           \/ \E a \in Account, s \in Source :
                  ClaimSourceBond(a, s) \/ \E bond \in Amounts : AddSource(a, s, bond)
  <2>1. UNCHANGED total_stake_all_time
    BY <1>8 DEF Tick, FlushResidual, vars, Settle, CloseMonocle, CancelClose, ClaimSourceBond,
                AddSource, stakeVars
  <2> QED
    BY <1>8, <2>1, OtherChanges
<1> QED
  BY <1>1, <1>2, <1>3, <1>5, <1>6, <1>7, <1>8 DEF Next

\* What a step does to the rounds: one entry is staked on, one round is won, or
\* the money of a round only moves on.
LEMMA StepChanges ==
    ASSUME Inductive, BlankStakes, [Next]_vars
    PROVE  \/ \E r \in Rounds, c \in Content, a \in Account, amount \in Nat :
                  Staking(r, c, a, amount)
           \/ \E r \in Rounds, winner \in Content, outcome \in Outcomes :
                  Winning(r, winner, outcome)
           \/ /\ \A k \in Rounds : RoundMoves(k)
              /\ UNCHANGED total_stake_all_time
BY StepMoves, WinningChanges DEF Winning

-----------------------------------------------------------------------------
(* Stakes                                                                  *)

\* A round that was never opened is blank.
LEMMA UnopenedIsBlank ==
    ASSUME Inductive, BlankStakes, StakeBooksAgree, NEW k \in Rounds, round_status[k] = "none"
    PROVE  /\ \A c \in Content : interpretations[k][c] = NoInterpretation
           /\ meta[k].stake_pool = 0
           /\ meta[k].bonus = 0
           /\ bucket_round[k] = 0
<1> USE DEF Inductive, RoundRecords
<1>1. Ids(k) = {}
  BY DEF StakedRounds
<1>2. \A c \in Content : interpretations[k][c] = NoInterpretation
  BY <1>1 DEF BlankStakes
<1>3. meta[k].stake_pool = 0
  <2> DEFINE f == [c \in Content |-> interpretations[k][c].total_stake]
  <2>1. f \in [Content -> Int] /\ \A c \in Content : f[c] = 0
    BY <1>2 DEF NoInterpretation
  <2>2. meta[k].stake_pool = SumFunction(f)
    BY DEF StakeBooksAgree
  <2> HIDE DEF f
  <2> QED
    BY <2>1, <2>2, FunctionSumZero, ContentAssumption
<1>4. meta[k].bonus = 0 /\ bucket_round[k] = 0
  BY DEF SettlementRecords, FinalStatus
<1> QED
  BY <1>2, <1>3, <1>4

\* A stake is recorded for an account that did not exist before, or is added.
LEMMA BlankStep ==
    ASSUME Inductive, BlankStakes, [Next]_vars
    PROVE  BlankStakes'
<1> USE DEF Inductive
<1> SUFFICES ASSUME NEW k \in Rounds, NEW c \in Content, interpretations'[k][c].author = None
             PROVE  interpretations'[k][c] = NoInterpretation
  BY DEF BlankStakes, Ids
<1>1. CASE interpretations'[k] = interpretations[k]
  BY <1>1 DEF BlankStakes, Ids
<1>2. ASSUME NEW d \in Content, NEW a \in Account, NEW amount \in Nat,
             RoundStaked(k, d, a, amount)
      PROVE  interpretations'[k][c] = NoInterpretation
  <2>1. PICK author \in Account :
            interpretations'[k] = [interpretations[k] EXCEPT ![d] =
                [author |-> author,
                 total_stake |-> interpretations[k][d].total_stake + amount,
                 backers |-> [interpretations[k][d].backers EXCEPT ![a] = @ + amount]]]
    BY <1>2 DEF RoundStaked
  <2>2. interpretations'[k][d].author # None
    BY <2>1, AccountAssumption DEF TypeOK
  <2>3. c # d /\ interpretations'[k][c] = interpretations[k][c]
    BY <2>1, <2>2 DEF TypeOK
  <2> QED
    BY <2>3 DEF BlankStakes, Ids
<1> QED
  BY <1>1, <1>2, StepChanges
  DEF Staking, Winning, RoundMoves, RoundKept, RoundOpened, RoundJudged, RoundEnds, RoundWon,
      Claim, stakeVars

\* The two records of the stakes of one round.
StakesOf(k) ==
    /\ meta[k].stake_pool = SumFunction([c \in Content |-> interpretations[k][c].total_stake])
    /\ \A c \in Content :
           interpretations[k][c].total_stake = SumFunction(interpretations[k][c].backers)

\* A stake that arrives is added to the backer, the interpretation and the round.
LEMMA StakedRoundAdds ==
    ASSUME Inductive, NEW k \in Rounds, NEW c \in Content, NEW a \in Account, NEW amount \in Nat,
           StakesOf(k), RoundStaked(k, c, a, amount)
    PROVE  StakesOf(k)' /\ meta'[k].stake_pool = meta[k].stake_pool + amount
<1> USE DEF Inductive
<1> DEFINE old == interpretations[k][c]
           new == interpretations'[k][c]
           f == [d \in Content |-> interpretations[k][d].total_stake]
           g == [d \in Content |-> interpretations'[k][d].total_stake]
<1>1. PICK author \in Account :
          interpretations'[k] = [interpretations[k] EXCEPT ![c] =
              [author |-> author, total_stake |-> old.total_stake + amount,
               backers |-> [old.backers EXCEPT ![a] = @ + amount]]]
  BY DEF RoundStaked
<1>2. /\ \A d \in Content : /\ interpretations[k][d].total_stake \in Nat
                            /\ interpretations[k][d].backers \in [Account -> Nat]
      /\ meta[k].stake_pool \in Nat
  BY DEF TypeOK, InterpretationType, MetaType
<1>3. /\ new.total_stake = old.total_stake + amount
      /\ new.backers = [old.backers EXCEPT ![a] = @ + amount]
      /\ \A d \in Content \ {c} : interpretations'[k][d] = interpretations[k][d]
  BY <1>1 DEF TypeOK
<1>4. SumFunction(new.backers) = SumFunction(old.backers) + amount
  <2>1. /\ old.backers \in [Account -> Int] /\ new.backers \in [Account -> Int]
        /\ new.backers[a] - old.backers[a] = amount
        /\ \A b \in Account \ {a} : new.backers[b] = old.backers[b]
    BY <1>2, <1>3
  <2> HIDE DEF old, new
  <2> QED
    BY <2>1, FunctionSumChangeAt, AccountAssumption
<1>5. SumFunction(g) = SumFunction(f) + amount
  <2>1. /\ f \in [Content -> Int] /\ g \in [Content -> Int]
        /\ g[c] - f[c] = amount
        /\ \A d \in Content \ {c} : g[d] = f[d]
    BY <1>2, <1>3
  <2> HIDE DEF f, g
  <2> QED
    BY <2>1, FunctionSumChangeAt, ContentAssumption
<1>6. meta'[k].stake_pool = meta[k].stake_pool + amount
  BY DEF RoundStaked, TypeOK, MetaType
<1>7. meta'[k].stake_pool = SumFunction(g)
  BY <1>5, <1>6 DEF StakesOf
<1>8. ASSUME NEW d \in Content
      PROVE  interpretations'[k][d].total_stake = SumFunction(interpretations'[k][d].backers)
  BY <1>3, <1>4 DEF StakesOf
<1> QED
  BY <1>6, <1>7, <1>8 DEF StakesOf

\* The three records of the stakes go on agreeing.
LEMMA StakeStep ==
    ASSUME Inductive, BlankStakes, StakeBooksAgree, [Next]_vars
    PROVE  StakeBooksAgree'
<1> USE DEF Inductive
<1> DEFINE f == [r \in Rounds |-> meta[r].stake_pool]
           g == [r \in Rounds |-> meta'[r].stake_pool]
<1>1. \A k \in Rounds : StakesOf(k)
  BY DEF StakeBooksAgree, StakesOf
<1>2. f \in [Rounds -> Int] /\ total_stake_all_time = SumFunction(f)
  BY DEF StakeBooksAgree, TypeOK, MetaType
<1>3. ASSUME NEW k \in Rounds, interpretations'[k] = interpretations[k],
             meta'[k].stake_pool = meta[k].stake_pool
      PROVE  StakesOf(k)'
  BY <1>1, <1>3 DEF StakesOf
<1>4. ASSUME NEW k \in Rounds,
             \/ RoundMoves(k)
             \/ \E winner \in Content, outcome \in Outcomes : RoundWon(k, winner, outcome)
      PROVE  interpretations'[k] = interpretations[k] /\ meta'[k].stake_pool = meta[k].stake_pool
  <2>1. CASE RoundOpened(k)
    BY <2>1, UnopenedIsBlank DEF RoundOpened, BlankMeta
  <2>2. CASE RoundKept(k) \/ RoundJudged(k) \/ RoundEnds(k)
    BY <2>2 DEF RoundKept, RoundJudged, RoundEnds
  <2>3. ASSUME NEW winner, NEW outcome, RoundWon(k, winner, outcome)
        PROVE  interpretations'[k] = interpretations[k] /\ meta'[k].stake_pool = meta[k].stake_pool
    BY <2>3 DEF RoundWon, TypeOK, MetaType
  <2>4. ASSUME NEW a \in Account, Claim(k, a)
        PROVE  interpretations'[k] = interpretations[k] /\ meta'[k].stake_pool = meta[k].stake_pool
    <3>1. AfterClaim(k, a).stake_pool = meta[k].stake_pool
      BY DEF AfterClaim, TypeOK, MetaType
    <3> QED
      BY <2>4, <3>1 DEF Claim, stakeVars, TypeOK
  <2> QED
    BY <1>4, <2>1, <2>2, <2>3, <2>4 DEF RoundMoves
<1>5. ASSUME NEW r \in Rounds, NEW c \in Content, NEW a \in Account, NEW amount \in Nat,
             Staking(r, c, a, amount)
      PROVE  StakeBooksAgree'
  <2>1. StakesOf(r)' /\ meta'[r].stake_pool = meta[r].stake_pool + amount
    BY <1>1, <1>5, StakedRoundAdds DEF Staking
  <2>2. \A k \in Rounds \ {r} : StakesOf(k)' /\ meta'[k] = meta[k]
    BY <1>3, <1>5 DEF Staking, RoundKept
  <2>3. SumFunction(g) = SumFunction(f) + amount
    <3>1. /\ g \in [Rounds -> Int]
          /\ g[r] - f[r] = amount
          /\ \A k \in Rounds \ {r} : g[k] = f[k]
      BY <1>2, <2>1, <2>2
    <3> HIDE DEF f, g
    <3> QED
      BY <1>2, <3>1, FunctionSumChangeAt, RoundsFinite
  <2>4. total_stake_all_time' = SumFunction(g)
    BY <1>2, <1>5, <2>3 DEF Staking
  <2>5. \A k \in Rounds : StakesOf(k)'
    BY <2>1, <2>2
  <2> QED
    BY <2>4, <2>5 DEF StakeBooksAgree, StakesOf
<1>6. ASSUME UNCHANGED total_stake_all_time,
             \A k \in Rounds : /\ interpretations'[k] = interpretations[k]
                               /\ meta'[k].stake_pool = meta[k].stake_pool
      PROVE  StakeBooksAgree'
  <2>1. g = f
    BY <1>6
  <2>2. total_stake_all_time' = SumFunction(g)
    BY <1>2, <1>6, <2>1
  <2>3. \A k \in Rounds : StakesOf(k)'
    BY <1>3, <1>6
  <2> QED
    BY <2>2, <2>3 DEF StakeBooksAgree, StakesOf
<1>7. ASSUME NEW r \in Rounds, NEW winner \in Content, NEW outcome \in Outcomes,
             Winning(r, winner, outcome)
      PROVE  StakeBooksAgree'
  <2>1. UNCHANGED total_stake_all_time
    BY <1>7 DEF Winning, FinalizeRound, stakeVars
  <2>2. \A k \in Rounds : RoundMoves(k) \/ k = r
    BY <1>7 DEF Winning, RoundMoves
  <2> QED
    BY <1>4, <1>6, <1>7, <2>1, <2>2 DEF Winning
<1> QED
  BY <1>4, <1>5, <1>6, <1>7, StepChanges

-----------------------------------------------------------------------------
(* Custody                                                                 *)

\* What one round's bucket gains or loses, all of them do.
LEMMA HeldChanges ==
    ASSUME TypeOK, TypeOK', NEW r \in Rounds, NEW d \in Int,
           bucket_round'[r] = bucket_round[r] + d,
           \A k \in Rounds \ {r} : bucket_round'[k] = bucket_round[k]
    PROVE  SumFunction(bucket_round') = SumFunction(bucket_round) + d
<1> DEFINE f == bucket_round
           g == bucket_round'
<1>1. /\ f \in [Rounds -> Int] /\ g \in [Rounds -> Int]
      /\ g[r] - f[r] = d
      /\ \A k \in Rounds \ {r} : g[k] = f[k]
  BY DEF TypeOK
<1>2. SumFunction(g) = SumFunction(f) + d
  <2> HIDE DEF f, g
  <2> QED
    BY <1>1, FunctionSumChangeAt, RoundsFinite
<1> QED
  BY <1>2

\* vault_tracked is the sum of the buckets, whatever is credited, debited or
\* moved.
LEMMA VaultStep ==
    ASSUME Inductive, VaultConserved, [Next]_vars
    PROVE  VaultConserved'
<1> USE DEF Inductive
<1> DEFINE Tracked == vault_tracked = SumFunction(bucket_round) + bucket_sources + bucket_carry + bucket_residual
<1>1. TypeOK' /\ NativeTracked'
  BY TypeStep, StepInductive
<1>2. Tracked /\ SumFunction(bucket_round) \in Nat
  BY FunctionSumNat, RoundsFinite DEF VaultConserved, TypeOK
<1>3. /\ vault_tracked \in Nat /\ bucket_sources \in Nat /\ bucket_carry \in Nat
      /\ bucket_residual \in Nat
      /\ vault_tracked' \in Nat /\ bucket_sources' \in Nat /\ bucket_carry' \in Nat
      /\ bucket_residual' \in Nat
  BY <1>1 DEF TypeOK
<1>4. SUFFICES Tracked'
  BY <1>1 DEF VaultConserved, NativeTracked
<1>5. ASSUME NEW r \in Rounds, NEW amount \in Nat, CreditRound(r, amount)
      PROVE  Tracked'
  <2>1. /\ bucket_round'[r] = bucket_round[r] + amount
        /\ \A k \in Rounds \ {r} : bucket_round'[k] = bucket_round[k]
    BY <1>5 DEF CreditRound, TypeOK
  <2>2. SumFunction(bucket_round') = SumFunction(bucket_round) + amount
    BY <1>1, <2>1, HeldChanges
  <2> QED
    BY <1>2, <1>3, <1>5, <2>2 DEF CreditRound
<1>6. ASSUME UNCHANGED vaultVars
      PROVE  Tracked'
  BY <1>2, <1>6 DEF vaultVars
<1>7. ASSUME NEW a \in Account, NEW c \in Content, NEW amount \in Amounts,
             SubmitInterpretation(a, c, amount) \/ BackInterpretation(a, c, amount)
      PROVE  Tracked'
  BY <1>5, <1>7, AmountAssumption DEF SubmitInterpretation, BackInterpretation, TypeOK
<1>8. CASE Adjudicate
  <2>1. PICK ok \in SUBSET Source : MoveForfeits(ok)
    BY <1>8, AdjudicationChanges DEF ApplyFetchReport
  <2> DEFINE amount == SumFunctionOnSet(Bonds, Forfeits(ok))
  <2>2. /\ amount \in 0..bucket_sources
        /\ bucket_sources' = bucket_sources - amount
        /\ bucket_carry' = bucket_carry + amount
        /\ UNCHANGED <<bucket_round, bucket_residual, vault_tracked>>
    BY <2>1 DEF MoveForfeits
  <2>3. SumFunction(bucket_round') = SumFunction(bucket_round)
    BY <2>2 
  <2> HIDE DEF amount
  <2> QED
    BY <1>2, <1>3, <2>2, <2>3
<1>9. ASSUME NEW r \in Rounds, NEW a \in Account, NEW c \in Content, NEW bond \in Amounts,
             Challenge(r, a, c, bond)
      PROVE  Tracked'
  BY <1>5, <1>9, AmountAssumption DEF Challenge
<1>10. ASSUME NEW r \in Rounds, ResolveChallenge(r) \/ Finalize(r)
       PROVE  Tracked'
  <2>1. /\ bucket_round' = [bucket_round EXCEPT ![r] = @ + bucket_carry]
        /\ bucket_carry' = 0
        /\ UNCHANGED <<bucket_sources, bucket_residual, vault_tracked>>
    BY <1>10, WinningChanges DEF FinalizeRound
  <2>2. /\ bucket_round'[r] = bucket_round[r] + bucket_carry
        /\ \A k \in Rounds \ {r} : bucket_round'[k] = bucket_round[k]
    BY <2>1 DEF TypeOK
  <2>3. SumFunction(bucket_round') = SumFunction(bucket_round) + bucket_carry
    BY <1>1, <1>3, <2>2, HeldChanges
  <2> QED
    BY <1>2, <1>3, <2>1, <2>3
<1>11. ASSUME NEW r \in Rounds, NEW a \in Claimants, Claim(r, a)
       PROVE  Tracked'
  <2> DEFINE owed == Owed(r, a)
  <2>1. /\ owed \in 0..bucket_round[r]
        /\ vault_tracked' = vault_tracked - owed
        /\ bucket_round' = [bucket_round EXCEPT ![r] = @ - owed]
        /\ UNCHANGED <<bucket_sources, bucket_carry, bucket_residual>>
    BY <1>11 DEF Claim, Debit
  <2> HIDE DEF owed
  <2>2. /\ owed \in Int
        /\ bucket_round'[r] = bucket_round[r] + (0 - owed)
        /\ \A k \in Rounds \ {r} : bucket_round'[k] = bucket_round[k]
    BY <2>1 DEF TypeOK
  <2>3. SumFunction(bucket_round') = SumFunction(bucket_round) + (0 - owed)
    BY <1>1, <2>2, HeldChanges
  <2> QED
    BY <1>2, <1>3, <2>1, <2>2, <2>3
<1>12. ASSUME NEW a \in Account, NEW s \in Source, NEW bond \in Amounts, AddSource(a, s, bond)
       PROVE  Tracked'
  <2>1. bond \in Nat /\ SumFunction(bucket_round') = SumFunction(bucket_round)
    BY <1>12, AmountAssumption DEF AddSource
  <2> QED
    BY <1>2, <1>3, <1>12, <2>1 DEF AddSource
<1>13. ASSUME NEW a \in Account, NEW s \in Source, ClaimSourceBond(a, s)
       PROVE  Tracked'
  <2>1. SumFunction(bucket_round') = SumFunction(bucket_round) /\ source_records[s].add_bond \in Nat
    BY <1>13 DEF ClaimSourceBond, TypeOK, SourceType
  <2> QED
    BY <1>2, <1>3, <1>13, <2>1 DEF ClaimSourceBond, Debit
<1>14. CASE FinalizeClose
  <2>1. SumFunction(bucket_round') = SumFunction(bucket_round)
    BY <1>14 DEF FinalizeClose
  <2> QED
    BY <1>2, <1>3, <1>14, <2>1 DEF FinalizeClose
<1>15. CASE FlushResidual
  <2>1. SumFunction(bucket_round') = SumFunction(bucket_round)
    BY <1>15 DEF FlushResidual
  <2> QED
    BY <1>2, <1>3, <1>15, <2>1 DEF FlushResidual, Debit
<1>16. CASE \/ Tick \/ UNCHANGED vars
            \/ \E r \in Rounds : CancelRound(r) \/ Settle(r)
            \/ \E a \in Account : CloseMonocle(a) \/ CancelClose(a)
  BY <1>6, <1>16 DEF Tick, vars, CancelRound, Settle, CloseMonocle, CancelClose
<1> QED
  BY <1>7, <1>8, <1>9, <1>10, <1>11, <1>12, <1>13, <1>14, <1>15, <1>16 DEF Next

-----------------------------------------------------------------------------
(* Source bonds                                                            *)

\* The sources whose bond is in the bucket, and those that lost it.
Covered == {s \in Source : source_records[s].bond_status \in {"locked", "refundable"}}

Forfeited == {s \in Source : source_records[s].bond_status = "forfeited"}

\* The bonds held and the bonds lost, as sums over two sets of sources.
LEMMA BondSets ==
    /\ BondsWith({"locked", "refundable"}) = SumFunctionOnSet(Bonds, Covered)
    /\ BondsWith({"forfeited"}) = SumFunctionOnSet(Bonds, Forfeited)
<1>1. Forfeited = {s \in Source : source_records[s].bond_status \in {"forfeited"}}
  BY DEF Forfeited
<1> QED
  BY <1>1 DEF BondsWith, Covered

\* The same after a step.
LEMMA BondSetsNext ==
    /\ BondsWith({"locked", "refundable"})' = SumFunctionOnSet(Bonds', Covered')
    /\ BondsWith({"forfeited"})' = SumFunctionOnSet(Bonds', Forfeited')
<1>1. Forfeited' = {s \in Source : source_records'[s].bond_status \in {"forfeited"}}
  BY DEF Forfeited
<1> QED
  BY <1>1 DEF BondsWith, Covered

\* A bond is an amount.
LEMMA BondsAreNat ==
    ASSUME TypeOK
    PROVE  \A s \in Source : Bonds[s] \in Nat
BY DEF Bonds, TypeOK, SourceType

\* There are finitely many sources to sum over.
LEMMA SourcesFinite ==
    ASSUME NEW S \in SUBSET Source
    PROVE  IsFiniteSet(S)
BY FS_Subset, SourceAssumption

\* A fetch pass moves the bonds it forfeits from one set to the other.
LEMMA PassMoves ==
    ASSUME TypeOK, NEW ok, source_records' = [s \in Source |-> FetchReported(s, ok)]
    PROVE  /\ Bonds' = Bonds
           /\ Covered' = Covered \ Forfeits(ok)
           /\ Forfeits(ok) \subseteq Covered
           /\ Forfeited' = Forfeited \cup Forfeits(ok)
           /\ Forfeited \cap Forfeits(ok) = {}
<1>1. ASSUME NEW s \in Source
      PROVE  /\ FetchReported(s, ok).add_bond = source_records[s].add_bond
             /\ \/ FetchReported(s, ok).bond_status = source_records[s].bond_status
                \/ /\ source_records[s].bond_status = "locked"
                   /\ FetchReported(s, ok).bond_status \in {"refundable", "forfeited"}
  <2> DEFINE rec == source_records[s]
             misses == AtMost(rec.misses + 1, MaxMisses)
             bond == IF rec.bond_status = "locked" THEN "refundable" ELSE rec.bond_status
             lost == IF rec.bond_status = "locked" /\ misses >= MaxMisses
                     THEN "forfeited" ELSE rec.bond_status
  <2>1. rec \in SourceType
    BY DEF TypeOK
  <2>2. \/ FetchReported(s, ok) =
               [rec EXCEPT !.misses = 0, !.last_fetch_ok = TRUE, !.bond_status = bond]
        \/ FetchReported(s, ok) =
               [rec EXCEPT !.misses = misses, !.last_fetch_ok = FALSE, !.bond_status = lost]
        \/ FetchReported(s, ok) = [rec EXCEPT !.last_fetch_ok = FALSE]
    BY DEF FetchReported, Missed
  <2>3. \/ bond = rec.bond_status
        \/ rec.bond_status = "locked" /\ bond = "refundable"
    OBVIOUS
  <2>4. \/ lost = rec.bond_status
        \/ rec.bond_status = "locked" /\ lost = "forfeited"
    OBVIOUS
  <2> HIDE DEF rec, misses, bond, lost
  <2>5. /\ FetchReported(s, ok).add_bond = rec.add_bond
        /\ FetchReported(s, ok).bond_status \in {bond, lost, rec.bond_status}
    BY <2>1, <2>2 DEF SourceType
  <2> QED
    BY <2>3, <2>4, <2>5 DEF rec
<1>2. \A s \in Source : source_records'[s] = FetchReported(s, ok)
  OBVIOUS
<1>3. Bonds' = Bonds
  BY <1>1, <1>2 DEF Bonds
<1>4. Covered' = Covered \ Forfeits(ok) /\ Forfeits(ok) \subseteq Covered
  BY <1>1, <1>2 DEF Covered, Forfeits
<1>5. Forfeited' = Forfeited \cup Forfeits(ok) /\ Forfeited \cap Forfeits(ok) = {}
  BY <1>1, <1>2 DEF Forfeited, Forfeits
<1> QED
  BY <1>3, <1>4, <1>5

\* A fetch pass moves exactly what it forfeits from the bonds to the carry.
LEMMA PassForfeits ==
    ASSUME TypeOK, NEW ok, ApplyFetchReport(ok)
    PROVE  LET amount == SumFunctionOnSet(Bonds, Forfeits(ok)) IN
           /\ SumFunctionOnSet(Bonds', Covered') = SumFunctionOnSet(Bonds, Covered) - amount
           /\ SumFunctionOnSet(Bonds', Forfeited') = SumFunctionOnSet(Bonds, Forfeited) + amount
           /\ bucket_sources' = bucket_sources - amount
           /\ bucket_carry' = bucket_carry + amount
<1> DEFINE F == Forfeits(ok)
           C == Covered \ F
           L == Forfeited
           b == Bonds
<1>1. /\ Bonds' = b /\ Covered' = C /\ Forfeited' = L \cup F
      /\ F \subseteq Covered /\ L \cap F = {}
  BY PassMoves DEF ApplyFetchReport
<1>2. /\ C \cup F = Covered /\ C \cap F = {}
      /\ C \in SUBSET Source /\ F \in SUBSET Source /\ L \in SUBSET Source
  BY <1>1 DEF Covered, Forfeits, Forfeited
<1>3. IsFiniteSet(C) /\ IsFiniteSet(F) /\ IsFiniteSet(L)
  BY <1>2, SourcesFinite
<1>4. \A s \in Source : b[s] \in Int
  BY BondsAreNat
<1>5. /\ bucket_sources' = bucket_sources - SumFunctionOnSet(b, F)
      /\ bucket_carry' = bucket_carry + SumFunctionOnSet(b, F)
  BY DEF ApplyFetchReport, MoveForfeits
<1>6. /\ SumFunctionOnSet(b, C \cup F) = SumFunctionOnSet(b, C) + SumFunctionOnSet(b, F)
      /\ SumFunctionOnSet(b, L \cup F) = SumFunctionOnSet(b, L) + SumFunctionOnSet(b, F)
  <2> HIDE DEF C, F, L, b
  <2> QED
    BY <1>1, <1>2, <1>3, <1>4, SumUnion
<1>7. SumFunctionOnSet(b, C) \in Int /\ SumFunctionOnSet(b, F) \in Int
  <2> HIDE DEF C, F, b
  <2> QED
    BY <1>2, <1>3, <1>4, SumInt
<1>8. SumFunctionOnSet(b, C) = SumFunctionOnSet(b, Covered) - SumFunctionOnSet(b, F)
  <2>1. SumFunctionOnSet(b, Covered) = SumFunctionOnSet(b, C) + SumFunctionOnSet(b, F)
    BY <1>2, <1>6
  <2> HIDE DEF C, F, b
  <2> QED
    BY <1>7, <2>1
<1> QED
  BY <1>1, <1>5, <1>6, <1>8

\* add_source: a new bond is in the bucket.
LEMMA SourceAdds ==
    ASSUME TypeOK, NEW a \in Account, NEW s \in Source, NEW bond \in Amounts, AddSource(a, s, bond)
    PROVE  /\ SumFunctionOnSet(Bonds', Covered') = SumFunctionOnSet(Bonds, Covered) + bond
           /\ SumFunctionOnSet(Bonds', Forfeited') = SumFunctionOnSet(Bonds, Forfeited)
<1> DEFINE C == Covered
           L == Forfeited
           b == Bonds
           d == Bonds'
<1>1. /\ source_records[s].bond_status = "absent"
      /\ source_records'[s].add_bond = bond
      /\ source_records'[s].bond_status = "locked"
      /\ \A q \in Source \ {s} : source_records'[q] = source_records[q]
      /\ bond \in Int
  BY AmountAssumption DEF AddSource, Present, TypeOK
<1>2. Covered' = C \cup {s} /\ s \notin C /\ Forfeited' = L /\ s \notin L
  BY <1>1 DEF Covered, Forfeited
<1>3. C \in SUBSET Source /\ L \in SUBSET Source
  BY DEF Covered, Forfeited
<1>4. \A q \in Source : b[q] \in Int /\ d[q] = IF q = s THEN bond ELSE b[q]
  BY <1>1, BondsAreNat DEF Bonds
<1>5. IsFiniteSet(C) /\ IsFiniteSet(L)
  BY <1>3, SourcesFinite
<1> HIDE DEF C, L, b, d
<1>6. (\A q \in C \cup {s} : d[q] \in Int) /\ d[s] = bond
  BY <1>1, <1>3, <1>4
<1>7. (\A q \in C : d[q] = b[q] /\ b[q] \in Int) /\ (\A q \in L : d[q] = b[q] /\ b[q] \in Int)
  BY <1>2, <1>3, <1>4
<1>8. SumFunctionOnSet(d, C \cup {s}) = d[s] + SumFunctionOnSet(d, C)
  BY <1>2, <1>5, <1>6, SumAdd
<1>9. /\ SumFunctionOnSet(d, C) = SumFunctionOnSet(b, C)
      /\ SumFunctionOnSet(d, L) = SumFunctionOnSet(b, L)
      /\ SumFunctionOnSet(b, C) \in Int
  BY <1>5, <1>7, SumEqual, SumInt
<1>10. SumFunctionOnSet(d, C \cup {s}) = SumFunctionOnSet(b, C) + bond
  BY <1>1, <1>6, <1>8, <1>9
<1> QED
  BY <1>2, <1>9, <1>10 DEF C, L, b, d

\* claim_source_bond: the bond leaves the bucket.
LEMMA BondLeaves ==
    ASSUME TypeOK, NEW a \in Account, NEW s \in Source, ClaimSourceBond(a, s)
    PROVE  /\ SumFunctionOnSet(Bonds', Covered')
                  = SumFunctionOnSet(Bonds, Covered) - source_records[s].add_bond
           /\ SumFunctionOnSet(Bonds', Forfeited') = SumFunctionOnSet(Bonds, Forfeited)
<1> DEFINE C == Covered
           b == Bonds
<1>1. /\ source_records[s].bond_status = "refundable"
      /\ source_records'[s].add_bond = source_records[s].add_bond
      /\ source_records'[s].bond_status = "refunded"
      /\ \A q \in Source \ {s} : source_records'[q] = source_records[q]
  BY DEF ClaimSourceBond, TypeOK, SourceType
<1>2. Covered' = C \ {s} /\ s \in C /\ Forfeited' = Forfeited /\ C \in SUBSET Source
  BY <1>1 DEF Covered, Forfeited
<1>3. Bonds' = b /\ b[s] = source_records[s].add_bond
  BY <1>1 DEF Bonds
<1>4. IsFiniteSet(C) /\ IsFiniteSet(C \ {s})
  BY <1>2, SourcesFinite
<1>5. \A q \in C : b[q] \in Int
  BY <1>2, BondsAreNat
<1>6. SumFunctionOnSet(b, C \ {s}) = SumFunctionOnSet(b, C) - b[s]
  <2> HIDE DEF C, b
  <2>1. /\ SumFunctionOnSet(b, C) = b[s] + SumFunctionOnSet(b, C \ {s})
        /\ SumFunctionOnSet(b, C \ {s}) \in Int
        /\ b[s] \in Int
    BY <1>2, <1>4, <1>5, SumRemove, SumInt
  <2> QED
    BY <2>1
<1> QED
  BY <1>2, <1>3, <1>6

\* finalize_close: the locked bonds stay in the bucket.
LEMMA ReleaseKeeps ==
    ASSUME TypeOK, FinalizeClose
    PROVE  Bonds' = Bonds /\ Covered' = Covered
<1>1. \A s \in Source :
          /\ source_records'[s].add_bond = source_records[s].add_bond
          /\ \/ source_records'[s].bond_status = source_records[s].bond_status
             \/ /\ source_records[s].bond_status = "locked"
                /\ source_records'[s].bond_status = "refundable"
  BY DEF FinalizeClose, BondsReleased, TypeOK, SourceType
<1> QED
  BY <1>1 DEF Bonds, Covered

\* What happens to the bonds in a step: a pass, a new bond, a refund, or the
\* release of the locked ones; any other step leaves the sources alone.
LEMMA SourcesKept ==
    ASSUME [Next]_vars, ~Adjudicate, ~FinalizeClose,
           ~\E a \in Account, s \in Source, bond \in Amounts : AddSource(a, s, bond),
           ~\E a \in Account, s \in Source : ClaimSourceBond(a, s)
    PROVE  UNCHANGED <<source_records, bucket_sources>>
BY DEF Next, Tick, SubmitInterpretation, BackInterpretation, CreditRound, Challenge,
       ResolveChallenge, Finalize, FinalizeRound, CancelRound, Settle, Claim, CloseMonocle,
       CancelClose, FlushResidual, vars, vaultVars

\* What is held for the sources is what their bonds are, after every step.
LEMMA BondStep ==
    ASSUME Inductive, SourceBondsCovered, [Next]_vars
    PROVE  SourceBondsCovered'
<1> USE DEF Inductive
<1> DEFINE sum == SumFunctionOnSet(Bonds, Covered)
           next == SumFunctionOnSet(Bonds', Covered')
<1>1. bucket_sources = sum
  BY BondSets DEF SourceBondsCovered
<1>2. SUFFICES bucket_sources' = next
  BY BondSetsNext DEF SourceBondsCovered
<1>3. CASE Adjudicate
  <2>1. PICK ok \in SUBSET Source : ApplyFetchReport(ok)
    BY <1>3, AdjudicationChanges
  <2> DEFINE amount == SumFunctionOnSet(Bonds, Forfeits(ok))
  <2>2. next = sum - amount /\ bucket_sources' = bucket_sources - amount
    BY <2>1, PassForfeits
  <2> QED
    BY <1>1, <2>2
<1>4. ASSUME NEW a \in Account, NEW s \in Source, NEW bond \in Amounts, AddSource(a, s, bond)
      PROVE  bucket_sources' = next
  <2>1. next = sum + bond /\ bucket_sources' = bucket_sources + bond
    BY <1>4, SourceAdds DEF AddSource
  <2> QED
    BY <1>1, <2>1
<1>5. ASSUME NEW a \in Account, NEW s \in Source, ClaimSourceBond(a, s)
      PROVE  bucket_sources' = next
  <2> DEFINE bond == source_records[s].add_bond
  <2>1. next = sum - bond /\ bucket_sources' = bucket_sources - bond
    BY <1>5, BondLeaves DEF ClaimSourceBond
  <2> QED
    BY <1>1, <2>1
<1>6. CASE FinalizeClose
  <2>1. bucket_sources' = bucket_sources
    BY <1>6 DEF FinalizeClose
  <2> QED
    BY <1>1, <1>6, <2>1, ReleaseKeeps
<1>7. CASE UNCHANGED <<source_records, bucket_sources>>
  BY <1>1, <1>7 DEF Bonds, Covered
<1> QED
  BY <1>3, <1>4, <1>5, <1>6, <1>7, SourcesKept

\* Only a round that is won changes its bonus.
LEMMA BonusKept ==
    ASSUME Inductive, BlankStakes, StakeBooksAgree, NEW k \in Rounds,
           \/ RoundMoves(k)
           \/ \E c \in Content, a \in Account, amount \in Nat : RoundStaked(k, c, a, amount)
    PROVE  meta'[k].bonus = meta[k].bonus
<1> USE DEF Inductive
<1>1. CASE RoundOpened(k)
  BY <1>1, UnopenedIsBlank DEF RoundOpened, BlankMeta
<1>2. CASE RoundKept(k) \/ RoundJudged(k) \/ RoundEnds(k)
  BY <1>2 DEF RoundKept, RoundJudged, RoundEnds
<1>3. ASSUME NEW c, NEW a, NEW amount, RoundStaked(k, c, a, amount)
      PROVE  meta'[k].bonus = meta[k].bonus
  BY <1>3 DEF RoundStaked, TypeOK, MetaType
<1>4. ASSUME NEW a \in Account, Claim(k, a)
      PROVE  meta'[k].bonus = meta[k].bonus
  <2>1. AfterClaim(k, a).bonus = meta[k].bonus
    BY DEF AfterClaim, TypeOK, MetaType
  <2> QED
    BY <1>4, <2>1 DEF Claim, TypeOK
<1> QED
  BY <1>1, <1>2, <1>3, <1>4 DEF RoundMoves

\* Carry and bonuses take up what is forfeited.
LEMMA ForfeitStep ==
    ASSUME Inductive, BlankStakes, StakeBooksAgree, ForfeitsReachWinners, [Next]_vars
    PROVE  ForfeitsReachWinners'
<1> USE DEF Inductive
<1> DEFINE f == [r \in Rounds |-> meta[r].bonus]
           g == [r \in Rounds |-> meta'[r].bonus]
           lost == SumFunctionOnSet(Bonds, Forfeited)
           next == SumFunctionOnSet(Bonds', Forfeited')
<1>1. SUFFICES ASSUME status' # "closed"
               PROVE  next = bucket_carry' + SumFunction(g)
  BY BondSetsNext DEF ForfeitsReachWinners
<1>2. ~FinalizeClose /\ status # "closed"
  BY <1>1
  DEF Next, Tick, SubmitInterpretation, BackInterpretation, Adjudicate, Challenge,
      ResolveChallenge, Finalize, FinalizeRound, CancelRound, Settle, Claim, AddSource,
      ClaimSourceBond, CloseMonocle, CancelClose, FinalizeClose, FlushResidual, vars,
      lifecycleVars
<1>3. lost = bucket_carry + SumFunction(f)
  BY <1>2, BondSets DEF ForfeitsReachWinners
<1>4. f \in [Rounds -> Int] /\ SumFunction(f) \in Int /\ bucket_carry \in Int
  <2>1. f \in [Rounds -> Nat]
    BY DEF TypeOK, MetaType
  <2>2. SumFunction(f) \in Nat
    <3> HIDE DEF f
    <3> QED
      BY <2>1, FunctionSumNat, RoundsFinite
  <2> QED
    BY <2>1, <2>2 DEF TypeOK
<1>5. ASSUME NEW r \in Rounds, NEW winner \in Content, NEW outcome \in Outcomes,
             Winning(r, winner, outcome)
      PROVE  next = bucket_carry' + SumFunction(g)
  <2>1. next = lost /\ bucket_carry' = 0
    BY <1>5 DEF Winning, FinalizeRound, Bonds, Forfeited
  <2>2. g[r] = f[r] + bucket_carry
    <3>1. meta'[r].bonus = Bonus(r)
      BY <1>5 DEF Winning, RoundWon, TypeOK, MetaType
    <3> QED
      BY <3>1 DEF Bonus
  <2>3. \A k \in Rounds \ {r} : g[k] = f[k]
    BY <1>5, BonusKept DEF Winning, RoundMoves
  <2>4. SumFunction(g) = SumFunction(f) + bucket_carry
    <3>1. g \in [Rounds -> Int]
      BY <1>4, <2>2, <2>3
    <3>2. SumFunction(g) = SumFunction(f) + (g[r] - f[r])
      <4> HIDE DEF f, g
      <4> QED
        BY <1>4, <2>3, <3>1, FunctionSumChangeAt, RoundsFinite
    <3>3. g[r] - f[r] = bucket_carry
      BY <1>4, <2>2
    <3> QED
      BY <3>2, <3>3
  <2> QED
    BY <1>3, <1>4, <2>1, <2>4
<1>6. ASSUME \A k \in Rounds : meta'[k].bonus = meta[k].bonus,
             ~\E r \in Rounds : ResolveChallenge(r) \/ Finalize(r)
      PROVE  next = bucket_carry' + SumFunction(g)
  <2>1. g = f
    BY <1>6
  <2>2. CASE Adjudicate
    <3>1. PICK ok \in SUBSET Source : ApplyFetchReport(ok)
      BY <2>2, AdjudicationChanges
    <3> DEFINE F == Forfeits(ok)
               amount == SumFunctionOnSet(Bonds, F)
    <3>2. next = lost + amount /\ bucket_carry' = bucket_carry + amount
      BY <3>1, PassForfeits
    <3>3. amount \in Int
      <4>1. F \in SUBSET Source /\ \A s \in F : Bonds[s] \in Int
        BY BondsAreNat DEF Forfeits
      <4> HIDE DEF F
      <4> QED
        BY <4>1, SourcesFinite, SumInt
    <3> HIDE DEF amount, lost, next, g, f
    <3> QED
      BY <1>3, <1>4, <2>1, <3>2, <3>3
  <2>3. CASE ~Adjudicate
    <3>1. bucket_carry' = bucket_carry
      BY <1>2, <1>6, <2>3
      DEF Next, Tick, SubmitInterpretation, BackInterpretation, CreditRound, Challenge, CancelRound,
          Settle, Claim, AddSource, ClaimSourceBond, CloseMonocle, CancelClose, FlushResidual,
          vars, vaultVars
    <3>2. next = lost
      BY <1>2, <2>3, SourcesKept, SourceAdds, BondLeaves DEF Bonds, Forfeited
    <3> QED
      BY <1>3, <2>1, <3>1, <3>2
  <2> QED
    BY <2>2, <2>3
<1>7. CASE \E r \in Rounds : ResolveChallenge(r) \/ Finalize(r)
  BY <1>5, <1>7, WinningChanges DEF Winning
<1>8. CASE ~\E r \in Rounds : ResolveChallenge(r) \/ Finalize(r)
  <2>1. \A k \in Rounds : meta'[k].bonus = meta[k].bonus
    <3>1. ASSUME NEW r \in Rounds, NEW c \in Content, NEW a \in Account, NEW amount \in Nat,
                 Staking(r, c, a, amount)
          PROVE  \A k \in Rounds : meta'[k].bonus = meta[k].bonus
      BY <3>1, BonusKept DEF Staking, RoundMoves
    <3>2. ASSUME \A k \in Rounds : RoundMoves(k)
          PROVE  \A k \in Rounds : meta'[k].bonus = meta[k].bonus
      BY <3>2, BonusKept
    <3> QED
      BY <1>8, <3>1, <3>2, StepMoves
  <2> QED
    BY <1>6, <1>8, <2>1
<1> QED
  BY <1>7, <1>8

-----------------------------------------------------------------------------
(* Refunds                                                                 *)

\* The stakes of a round add up by account as they do by interpretation.
LEMMA StakesByAccount ==
    ASSUME Inductive, StakeBooksAgree, NEW k \in Rounds
    PROVE  /\ \A a \in Account : OwnStake(k, a) \in Nat
           /\ meta[k].stake_pool = SumFunction([a \in Account |-> OwnStake(k, a)])
<1> USE DEF Inductive
<1> DEFINE m == [c \in Content |-> interpretations[k][c].backers]
           row == [c \in Content |-> SumFunctionOnSet(m[c], Account)]
           col == [a \in Account |-> SumFunctionOnSet([c \in Content |-> m[c][a]], Content)]
<1>1. \A c \in Content : m[c] \in [Account -> Nat]
  BY DEF TypeOK, InterpretationType
<1>2. \A c \in Content : interpretations[k][c].total_stake = SumFunctionOnSet(m[c], Account)
  <2> TAKE c \in Content
  <2>1. interpretations[k][c].total_stake = SumFunction(m[c])
    BY DEF StakeBooksAgree
  <2> HIDE DEF m
  <2> QED
    BY <1>1, <2>1 DEF SumFunction
<1>3. meta[k].stake_pool = SumFunctionOnSet(row, Content)
  <2>1. [c \in Content |-> interpretations[k][c].total_stake] = row
    BY <1>2
  <2>2. meta[k].stake_pool = SumFunction(row)
    BY <2>1 DEF StakeBooksAgree
  <2> QED
    BY <2>2 DEF SumFunction
<1>4. SumFunctionOnSet(row, Content) = SumFunctionOnSet(col, Account)
  <2>1. \A c \in Content, a \in Account : m[c][a] \in Int
    BY <1>1
  <2> HIDE DEF m
  <2> QED
    BY <2>1, SumExchange, ContentAssumption, AccountAssumption
<1>5. ASSUME NEW a \in Account
      PROVE  OwnStake(k, a) = col[a] /\ OwnStake(k, a) \in Nat
  <2> DEFINE f == [c \in Content |-> interpretations[k][c].backers[a]]
  <2>1. f \in [Content -> Nat]
    BY <1>1
  <2>2. SumFunction(f) \in Nat
    <3> HIDE DEF f
    <3> QED
      BY <2>1, FunctionSumNat, ContentAssumption
  <2>3. f = [c \in Content |-> m[c][a]]
    OBVIOUS
  <2>4. SumFunction(f) = SumFunctionOnSet(f, Content)
    BY DEF SumFunction
  <2> QED
    BY <2>2, <2>3, <2>4 DEF OwnStake
<1>6. [a \in Account |-> OwnStake(k, a)] = col
  BY <1>5
<1>7. SumFunction(col) = SumFunctionOnSet(col, Account)
  BY DEF SumFunction
<1> QED
  BY <1>3, <1>4, <1>5, <1>6, <1>7

\* What the accounts may still take back from round k.
Refunds(k) == [a \in Account |-> IF <<k, a>> \in claimed THEN 0 ELSE OwnStake(k, a)]

\* A refunded round owes its stakes when it ends, and what was not claimed since.
LEMMA RefundStep ==
    ASSUME Inductive, BlankStakes, StakeBooksAgree, RefundsCovered, [Next]_vars
    PROVE  RefundsCovered'
<1> USE DEF Inductive
<1> SUFFICES ASSUME NEW k \in Rounds, round_status'[k] \in RefundStatus
             PROVE  bucket_round'[k] = SumFunction(Refunds(k)')
  BY DEF RefundsCovered, Refunds
<1>1. round_status[k] \in RefundStatus => bucket_round[k] = SumFunction(Refunds(k))
  BY DEF RefundsCovered, Refunds
<1>2. CASE RoundKept(k)
  <2>1. round_status[k] \in RefundStatus /\ bucket_round'[k] = bucket_round[k]
    BY <1>2 DEF RoundKept, RefundStatus, FinalStatus
  <2>2. \A a \in Account : OwnStake(k, a)' = OwnStake(k, a)
    BY <1>2 DEF RoundKept, OwnStake
  <2>3. Refunds(k)' = Refunds(k)
    BY <1>2, <2>2 DEF RoundKept, ClaimsKept, Refunds
  <2> QED
    BY <1>1, <2>1, <2>3
<1>3. CASE RoundEnds(k)
  <2>1. /\ round_status[k] = "open"
        /\ bucket_round'[k] = bucket_round[k]
        /\ interpretations'[k] = interpretations[k]
        /\ ClaimsKept(k)
    BY <1>3 DEF RoundEnds
  <2>2. bucket_round[k] = meta[k].stake_pool
    <3>1. bucket_round[k] = meta[k].stake_pool + meta[k].bonus + meta[k].challenge_bond
      BY <2>1 DEF RoundRecords, RoundLedger
    <3>2. meta[k].bonus = 0 /\ meta[k].challenge_bond = 0
      BY <2>1 DEF RoundRecords, SettlementRecords, ChallengeRecords, Undecided, FinalStatus
    <3>3. meta[k].stake_pool \in Nat
      BY DEF TypeOK, MetaType
    <3> QED
      BY <3>1, <3>2, <3>3
  <2>3. \A a \in Account : <<k, a>> \notin claimed'
    <3>1. ~Claimable(k)
      BY <2>1 DEF Claimable, ClaimableStatus, RefundStatus
    <3> QED
      BY <2>1, <3>1 DEF RoundRecords, SettlementRecords, ClaimsKept
  <2>4. \A a \in Account : OwnStake(k, a)' = OwnStake(k, a)
    BY <2>1 DEF OwnStake
  <2>5. Refunds(k)' = [a \in Account |-> OwnStake(k, a)]
    BY <2>3, <2>4 DEF Refunds
  <2> QED
    BY <2>1, <2>2, <2>5, StakesByAccount
<1>4. ASSUME NEW a \in Account, Claim(k, a)
      PROVE  bucket_round'[k] = SumFunction(Refunds(k)')
  <2> DEFINE f == Refunds(k)
             g == Refunds(k)'
             own == OwnStake(k, a)
  <2>1. /\ round_status[k] \in RefundStatus
        /\ bucket_round'[k] = bucket_round[k] - own
        /\ <<k, a>> \notin claimed
        /\ claimed' = claimed \cup {<<k, a>>}
        /\ UNCHANGED interpretations
    <3>1. round_status' = round_status /\ interpretations' = interpretations
      BY <1>4 DEF Claim, stakeVars
    <3>2. Owed(k, a) = own
      BY <3>1 DEF Owed, RefundStatus
    <3>3. bucket_round'[k] = bucket_round[k] - Owed(k, a)
      BY <1>4 DEF Claim, TypeOK
    <3> QED
      BY <1>4, <3>1, <3>2, <3>3 DEF Claim
  <2>2. \A b \in Account : OwnStake(k, b)' = OwnStake(k, b) /\ OwnStake(k, b) \in Nat
    BY <2>1, StakesByAccount DEF OwnStake
  <2>3. /\ f \in [Account -> Int] /\ g \in [Account -> Int]
        /\ f[a] = own /\ g[a] = 0
        /\ \A b \in Account \ {a} : g[b] = f[b]
    BY <2>1, <2>2 DEF Refunds
  <2>4. SumFunction(g) = SumFunction(f) + (0 - own)
    <3> HIDE DEF f, g
    <3> QED
      BY <2>3, FunctionSumChangeAt, AccountAssumption
  <2>5. own \in Nat /\ bucket_round[k] \in Nat
    BY <2>2 DEF TypeOK
  <2> HIDE DEF own, f, g
  <2>6. bucket_round[k] = SumFunction(f)
    BY <1>1, <2>1 DEF f
  <2>7. bucket_round'[k] = SumFunction(g)
    BY <2>1, <2>4, <2>5, <2>6
  <2> QED
    BY <2>7 DEF g
<1>5. CASE RoundOpened(k) \/ RoundJudged(k)
  BY <1>5 DEF RoundOpened, RoundJudged, RefundStatus, PendingStatus
<1>6. ASSUME NEW c, NEW a, NEW amount, RoundStaked(k, c, a, amount)
      PROVE  FALSE
  BY <1>6 DEF RoundStaked, RefundStatus
<1>7. ASSUME NEW winner, NEW outcome, RoundWon(k, winner, outcome)
      PROVE  FALSE
  BY <1>7 DEF RoundWon, RefundStatus
<1> QED
  BY <1>2, <1>3, <1>4, <1>5, <1>6, <1>7, StepChanges DEF Staking, Winning, RoundMoves

-----------------------------------------------------------------------------
(* Winners                                                                 *)

\* A claim changes what was paid and claimed of a pot, and no other field.
LEMMA ClaimKeepsTerms ==
    ASSUME Inductive, NEW k \in Rounds, NEW a \in Account, Claim(k, a)
    PROVE  /\ meta'[k].stake_pool = meta[k].stake_pool
           /\ meta'[k].bonus = meta[k].bonus
           /\ meta'[k].challenge_bond = meta[k].challenge_bond
           /\ meta'[k].winner_id = meta[k].winner_id
           /\ meta'[k].winner_total = meta[k].winner_total
           /\ meta'[k].pot = meta[k].pot
           /\ meta'[k].challenger_payout = meta[k].challenger_payout
           /\ round_status[k] = "settled" =>
                  /\ meta'[k].claimed_winner_stake = meta[k].claimed_winner_stake + WinnerStake(k, a)
                  /\ meta'[k].paid_winners = meta[k].paid_winners + WinnerShare(k, a)
<1> DEFINE m == meta[k]
           taken == m.claimed_winner_stake + WinnerStake(k, a)
           paid == m.paid_winners + WinnerShare(k, a)
<1>1. m \in MetaType /\ meta'[k] = AfterClaim(k, a)
  BY DEF Inductive, TypeOK, Claim
<1>2. AfterClaim(k, a) =
          IF round_status[k] = "settled"
          THEN [m EXCEPT !.claimed_winner_stake = taken, !.paid_winners = paid]
          ELSE m
  BY DEF AfterClaim
<1> HIDE DEF taken, paid, m
<1>3. /\ meta'[k].stake_pool = m.stake_pool
      /\ meta'[k].bonus = m.bonus
      /\ meta'[k].challenge_bond = m.challenge_bond
      /\ meta'[k].winner_id = m.winner_id
      /\ meta'[k].winner_total = m.winner_total
      /\ meta'[k].pot = m.pot
      /\ meta'[k].challenger_payout = m.challenger_payout
      /\ round_status[k] = "settled" =>
             meta'[k].claimed_winner_stake = taken /\ meta'[k].paid_winners = paid
  BY <1>1, <1>2 DEF MetaType
<1> QED
  BY <1>3 DEF taken, paid, m

\* A claim is made on a refunded or a settled round, for the first time.
LEMMA ClaimOnce ==
    ASSUME Inductive, NEW k \in Rounds, NEW a \in Account, Claim(k, a)
    PROVE  /\ round_status[k] \in ClaimableStatus
           /\ round_status' = round_status
           /\ interpretations' = interpretations
           /\ round_challenge' = round_challenge
           /\ <<k, a>> \notin claimed
           /\ claimed' = claimed \cup {<<k, a>>}
           /\ bucket_round'[k] = bucket_round[k] - Owed(k, a)
<1>1. /\ round_status[k] \in ClaimableStatus
      /\ round_status' = round_status
      /\ interpretations' = interpretations
      /\ round_challenge' = round_challenge
      /\ <<k, a>> \notin claimed
      /\ claimed' = claimed \cup {<<k, a>>}
      /\ bucket_round' = [bucket_round EXCEPT ![k] = @ - Owed(k, a)]
  BY DEF Claim, stakeVars, verdictVars
<1> QED
  BY <1>1 DEF Inductive, TypeOK

\* The winning stake of the accounts that have claimed from round k.
TakenBy(k) == [a \in Account |-> IF <<k, a>> \in claimed THEN WinnerStake(k, a) ELSE 0]

\* The winning stake counted as claimed is that of the claimants; the last of
\* them leaves nothing of the pot.
LEMMA WinnersStep ==
    ASSUME Inductive, BlankStakes, WinnersPaid, [Next]_vars
    PROVE  WinnersPaid'
<1> USE DEF Inductive
<1> DEFINE Paid(k) == /\ meta[k].claimed_winner_stake = SumFunction(TakenBy(k))
                      /\ meta[k].claimed_winner_stake >= meta[k].winner_total =>
                             meta[k].paid_winners = meta[k].pot
<1> SUFFICES ASSUME NEW k \in Rounds, round_status'[k] \in FinalStatus
             PROVE  Paid(k)'
  BY DEF WinnersPaid, Finals, TakenBy
<1>1. round_status[k] \in FinalStatus => Paid(k)
  BY DEF WinnersPaid, Finals, TakenBy
<1>2. CASE RoundKept(k)
  <2>1. round_status[k] \in FinalStatus
    BY <1>2 DEF RoundKept, FinalStatus
  <2>2. \A a \in Account : WinnerStake(k, a)' = WinnerStake(k, a)
    BY <1>2 DEF RoundKept, WinnerStake
  <2>3. TakenBy(k)' = TakenBy(k) /\ meta'[k] = meta[k]
    BY <1>2, <2>2 DEF RoundKept, ClaimsKept, TakenBy
  <2> QED
    BY <1>1, <2>1, <2>3
<1>3. ASSUME NEW winner, NEW outcome, RoundWon(k, winner, outcome)
      PROVE  Paid(k)'
  <2>1. round_status[k] \in PendingStatus /\ ClaimsKept(k) /\ winner \in Ids(k)
    BY <1>3 DEF RoundWon
  <2>2. \A a \in Account : <<k, a>> \notin claimed'
    <3>1. ~Claimable(k)
      BY <2>1 DEF Claimable, ClaimableStatus, RefundStatus, PendingStatus
    <3> QED
      BY <2>1, <3>1 DEF RoundRecords, SettlementRecords, ClaimsKept
  <2>3. SumFunction(TakenBy(k)') = 0
    <3> DEFINE f == TakenBy(k)'
    <3>1. f \in [Account -> Int] /\ \A a \in Account : f[a] = 0
      BY <2>2 DEF TakenBy
    <3>2. SumFunction(f) = 0
      <4> HIDE DEF f
      <4> QED
        BY <3>1, FunctionSumZero, AccountAssumption
    <3> QED
      BY <3>2
  <2>4. meta'[k].claimed_winner_stake = 0
    <3>1. meta'[k].claimed_winner_stake = meta[k].claimed_winner_stake
      BY <1>3 DEF RoundWon, TypeOK, MetaType
    <3> QED
      BY <2>1, <3>1 DEF RoundRecords, SettlementRecords, PendingStatus, FinalStatus
  <2>5. meta'[k].winner_total \in Nat /\ meta'[k].winner_total > 0
    <3>1. meta'[k].winner_total = interpretations[k][winner].total_stake
      BY <1>3 DEF RoundWon, TypeOK, MetaType
    <3>2. interpretations[k][winner].total_stake > 0
      BY <2>1 DEF RoundRecords, StakedRounds
    <3>3. interpretations[k][winner].total_stake \in Nat
      BY <2>1 DEF Ids, TypeOK, InterpretationType
    <3> QED
      BY <3>1, <3>2, <3>3
  <2> QED
    BY <2>3, <2>4, <2>5
<1>4. ASSUME NEW a \in Account, Claim(k, a)
      PROVE  Paid(k)'
  <2> DEFINE stake == WinnerStake(k, a)
             share == WinnerShare(k, a)
             taken == meta[k].claimed_winner_stake
             f == TakenBy(k)
             g == TakenBy(k)'
  <2>1. /\ round_status[k] = "settled"
        /\ <<k, a>> \notin claimed
        /\ claimed' = claimed \cup {<<k, a>>}
        /\ interpretations' = interpretations
    BY <1>4, ClaimOnce DEF ClaimableStatus, RefundStatus, FinalStatus
  <2>2. /\ meta'[k].claimed_winner_stake = taken + stake
        /\ meta'[k].paid_winners = meta[k].paid_winners + share
        /\ meta'[k].pot = meta[k].pot
        /\ meta'[k].winner_total = meta[k].winner_total
        /\ meta'[k].winner_id = meta[k].winner_id
    BY <1>4, <2>1, ClaimKeepsTerms
  <2>3. k \in Finals
    BY <2>1 DEF Finals, FinalStatus
  <2>4. \A b \in Account : WinnerStake(k, b)' = WinnerStake(k, b) /\ WinnerStake(k, b) \in Nat
    BY <2>1, <2>2, <2>3, ShareWithinPot DEF WinnerStake
  <2>5. /\ f \in [Account -> Int] /\ g \in [Account -> Int]
        /\ f[a] = 0 /\ g[a] = stake
        /\ \A b \in Account \ {a} : g[b] = f[b]
    BY <2>1, <2>4 DEF TakenBy
  <2>6. SumFunction(g) = SumFunction(f) + (stake - 0)
    <3> HIDE DEF f, g, stake
    <3> QED
      BY <2>5, FunctionSumChangeAt, AccountAssumption
  <2>7. /\ stake \in Nat /\ taken \in Nat
        /\ meta[k].winner_total \in Nat /\ meta[k].pot \in Nat /\ meta[k].paid_winners \in Nat
    BY <2>4 DEF TypeOK, MetaType
  <2>8. meta'[k].claimed_winner_stake = SumFunction(g)
    <3>1. taken = SumFunction(f)
      BY <1>1, <2>1 DEF FinalStatus
    <3> HIDE DEF f, g, taken, stake
    <3> QED
      BY <2>2, <2>6, <2>7, <3>1
  <2>9. ASSUME taken + stake >= meta[k].winner_total
        PROVE  meta[k].paid_winners + share = meta[k].pot
    <3>1. CASE stake = 0
      <4>1. share = 0
        BY <3>1 DEF WinnerShare
      <4>2. taken >= meta[k].winner_total
        <5> HIDE DEF taken, stake
        <5> QED
          BY <2>7, <2>9, <3>1
      <4>3. meta[k].paid_winners = meta[k].pot
        BY <1>1, <2>1, <4>2 DEF FinalStatus
      <4> QED
        BY <2>7, <4>1, <4>3
    <3>2. CASE stake # 0
      <4>1. share = meta[k].pot - meta[k].paid_winners
        BY <2>9, <3>2 DEF WinnerShare
      <4> QED
        BY <2>7, <4>1
    <3> QED
      BY <3>1, <3>2
  <2> HIDE DEF taken, share, stake
  <2> QED
    BY <2>2, <2>8, <2>9
<1>5. CASE RoundOpened(k) \/ RoundJudged(k) \/ RoundEnds(k)
  BY <1>5 DEF RoundOpened, RoundJudged, RoundEnds, RefundStatus, PendingStatus, FinalStatus
<1>6. ASSUME NEW c, NEW a, NEW amount, RoundStaked(k, c, a, amount)
      PROVE  FALSE
  BY <1>6 DEF RoundStaked, FinalStatus
<1> HIDE DEF Paid
<1> QED
  BY <1>2, <1>3, <1>4, <1>5, <1>6, StepChanges DEF Staking, Winning, RoundMoves

\* The pot is fixed when the round becomes final.
LEMMA PotStep ==
    ASSUME Inductive, BlankStakes, PotRecords, [Next]_vars
    PROVE  PotRecords'
<1> USE DEF Inductive
<1> DEFINE Fixed(k) ==
        /\ meta[k].challenger_payout =
               ChallengerPayout(round_challenge[k].outcome, meta[k].challenge_bond,
                                meta[k].stake_pool)
        /\ meta[k].pot = Pot(meta[k].stake_pool, meta[k].bonus, meta[k].challenge_bond,
                             meta[k].challenger_payout)
<1> SUFFICES ASSUME NEW k \in Rounds, round_status'[k] \in FinalStatus
             PROVE  Fixed(k)'
  BY DEF PotRecords, Finals
<1>1. round_status[k] \in FinalStatus => Fixed(k)
  BY DEF PotRecords, Finals
<1>2. CASE RoundKept(k)
  BY <1>1, <1>2 DEF RoundKept, FinalStatus
<1>3. ASSUME NEW winner, NEW outcome, RoundWon(k, winner, outcome)
      PROVE  Fixed(k)'
  <2> DEFINE m == meta[k]
             payout == ChallengerPayout(outcome, m.challenge_bond, m.stake_pool)
             pot == Pot(m.stake_pool, Bonus(k), m.challenge_bond, payout)
  <2>1. /\ m \in MetaType
        /\ round_challenge'[k].outcome = outcome
        /\ meta'[k] =
               [m EXCEPT !.pending_winner = winner,
                         !.winner_id = winner,
                         !.winner_total = interpretations[k][winner].total_stake,
                         !.bonus = Bonus(k),
                         !.pot = pot,
                         !.challenger_payout = payout]
    BY <1>3 DEF RoundWon, TypeOK
  <2> HIDE DEF m, payout, pot
  <2>2. /\ meta'[k].stake_pool = m.stake_pool
        /\ meta'[k].bonus = Bonus(k)
        /\ meta'[k].challenge_bond = m.challenge_bond
        /\ meta'[k].pot = pot
        /\ meta'[k].challenger_payout = payout
    BY <2>1 DEF MetaType
  <2> QED
    BY <2>1, <2>2 DEF payout, pot
<1>4. ASSUME NEW a \in Account, Claim(k, a)
      PROVE  Fixed(k)'
  BY <1>1, <1>4, ClaimKeepsTerms, ClaimOnce
<1>5. CASE RoundOpened(k) \/ RoundJudged(k) \/ RoundEnds(k)
  BY <1>5 DEF RoundOpened, RoundJudged, RoundEnds, RefundStatus, PendingStatus, FinalStatus
<1>6. ASSUME NEW c, NEW a, NEW amount, RoundStaked(k, c, a, amount)
      PROVE  FALSE
  BY <1>6 DEF RoundStaked, FinalStatus
<1> HIDE DEF Fixed
<1> QED
  BY <1>2, <1>3, <1>4, <1>5, <1>6, StepChanges DEF Staking, Winning, RoundMoves

-----------------------------------------------------------------------------
(* The invariant                                                           *)

\* A new engine holds, owes and records nothing.
LEMMA InitLedgers == Init => Ledgers
<1> SUFFICES ASSUME Init PROVE Ledgers
  OBVIOUS
<1> USE DEF Init
<1>1. VaultConserved
  <2>1. bucket_round \in [Rounds -> Int] /\ \A r \in Rounds : bucket_round[r] = 0
    OBVIOUS
  <2>2. SumFunction(bucket_round) = 0
    BY <2>1, FunctionSumZero, RoundsFinite
  <2> QED
    BY <2>2 DEF VaultConserved
<1>2. StakeBooksAgree
  <2> DEFINE f == [r \in Rounds |-> meta[r].stake_pool]
             g(r) == [c \in Content |-> interpretations[r][c].total_stake]
             h(r, c) == interpretations[r][c].backers
  <2>1. SumFunction(f) = 0
    <3>1. f \in [Rounds -> Int] /\ \A r \in Rounds : f[r] = 0
      BY DEF BlankMeta
    <3> HIDE DEF f
    <3> QED
      BY <3>1, FunctionSumZero, RoundsFinite
  <2>2. ASSUME NEW r \in Rounds
        PROVE  SumFunction(g(r)) = 0
    <3>1. g(r) \in [Content -> Int] /\ \A c \in Content : g(r)[c] = 0
      BY DEF NoInterpretation
    <3> HIDE DEF g
    <3> QED
      BY <3>1, FunctionSumZero, ContentAssumption
  <2>3. ASSUME NEW r \in Rounds, NEW c \in Content
        PROVE  SumFunction(h(r, c)) = 0
    <3>1. h(r, c) \in [Account -> Int] /\ \A a \in Account : h(r, c)[a] = 0
      BY DEF NoInterpretation
    <3> HIDE DEF h
    <3> QED
      BY <3>1, FunctionSumZero, AccountAssumption
  <2>4. /\ total_stake_all_time = 0
        /\ \A r \in Rounds : meta[r].stake_pool = 0
        /\ \A r \in Rounds, c \in Content : interpretations[r][c].total_stake = 0
    BY DEF BlankMeta, NoInterpretation
  <2> QED
    BY <2>1, <2>2, <2>3, <2>4 DEF StakeBooksAgree
<1>3. BlankStakes
  BY DEF BlankStakes
<1>4. Covered = {} /\ Forfeited = {}
  BY DEF Covered, Forfeited
<1>5. SourceBondsCovered
  BY <1>4, BondSets, SumEmpty DEF SourceBondsCovered
<1>6. ForfeitsReachWinners
  <2> DEFINE f == [r \in Rounds |-> meta[r].bonus]
  <2>1. f \in [Rounds -> Int] /\ \A r \in Rounds : f[r] = 0
    BY DEF BlankMeta
  <2>2. SumFunction(f) = 0
    <3> HIDE DEF f
    <3> QED
      BY <2>1, FunctionSumZero, RoundsFinite
  <2>3. BondsWith({"forfeited"}) = 0
    BY <1>4, BondSets, SumEmpty
  <2> QED
    BY <2>2, <2>3 DEF ForfeitsReachWinners
<1>7. \A r \in Rounds : round_status[r] \in {"open", "none"}
  OBVIOUS
<1>8. RefundsCovered /\ WinnersPaid /\ PotRecords
  BY <1>7 DEF RefundsCovered, WinnersPaid, PotRecords, Finals, RefundStatus, FinalStatus
<1> QED
  BY <1>1, <1>2, <1>3, <1>5, <1>6, <1>8 DEF Ledgers

\* Every method keeps the ledgers.
LEMMA StepLedgers == Inductive /\ Ledgers /\ [Next]_vars => Ledgers'
<1> SUFFICES ASSUME Inductive, Ledgers, [Next]_vars PROVE Ledgers'
  OBVIOUS
<1>1. /\ VaultConserved /\ StakeBooksAgree /\ BlankStakes /\ SourceBondsCovered
      /\ ForfeitsReachWinners /\ RefundsCovered /\ WinnersPaid /\ PotRecords
  BY DEF Ledgers
<1>2. VaultConserved'
  BY <1>1, VaultStep
<1>3. StakeBooksAgree'
  BY <1>1, StakeStep
<1>4. BlankStakes'
  BY <1>1, BlankStep
<1>5. SourceBondsCovered'
  BY <1>1, BondStep
<1>6. ForfeitsReachWinners'
  BY <1>1, ForfeitStep
<1>7. RefundsCovered'
  BY <1>1, RefundStep
<1>8. WinnersPaid'
  BY <1>1, WinnersStep
<1>9. PotRecords'
  BY <1>1, PotStep
<1> QED
  BY <1>2, <1>3, <1>4, <1>5, <1>6, <1>7, <1>8, <1>9 DEF Ledgers

\* After every call the ledgers agree with one another and cover what is owed,
\* however many accounts, contents, sources and rounds there are.
THEOREM LedgersInvariant == Spec => [](Inductive /\ Ledgers)
<1>1. Init => Inductive /\ Ledgers
  BY InitInductive, InitLedgers
<1>2. (Inductive /\ Ledgers) /\ [Next]_vars => (Inductive /\ Ledgers)'
  BY StepInductive, StepLedgers
<1> QED
  BY <1>1, <1>2, PTL DEF Spec

-----------------------------------------------------------------------------
(* What the engine promises about money                                    *)

\* The vault holds what its buckets say, and the three records of the stakes
\* agree, after every call.
THEOREM BooksBalance == Spec => []BooksAgree
<1>1. Inductive /\ Ledgers => BooksAgree
  BY DEF Ledgers, BooksAgree
<1> QED
  BY <1>1, LedgersInvariant, PTL

\* The sources bucket is the sum of the bonds that may still be returned or
\* forfeited.
THEOREM BondsCovered == Spec => []SourceBondsCovered
<1>1. Inductive /\ Ledgers => SourceBondsCovered
  BY DEF Ledgers
<1> QED
  BY <1>1, LedgersInvariant, PTL

\* Every forfeited bond waits in the carry or is the bonus of some round.
THEOREM ForfeitsKept == Spec => []ForfeitsReachWinners
<1>1. Inductive /\ Ledgers => ForfeitsReachWinners
  BY DEF Ledgers
<1> QED
  BY <1>1, LedgersInvariant, PTL

\* A round holds no more than the vault.
LEMMA RoundWithinVault ==
    ASSUME Inductive, Ledgers, NEW r \in Rounds
    PROVE  bucket_round[r] <= vault_tracked
<1>1. /\ vault_tracked = SumFunction(bucket_round) + bucket_sources + bucket_carry
                             + bucket_residual
      /\ bucket_sources \in Nat /\ bucket_carry \in Nat /\ bucket_residual \in Nat
      /\ bucket_round \in [Rounds -> Nat]
  BY DEF Ledgers, VaultConserved, Inductive, TypeOK
<1>2. SumFunction(bucket_round) \in Nat /\ bucket_round[r] <= SumFunction(bucket_round)
  BY <1>1, FunctionSumNat, FunctionSumBounds, RoundsFinite
<1>3. bucket_round[r] \in Nat
  BY <1>1
<1> QED
  BY <1>1, <1>2, <1>3

\* Any refund that is still to be claimed is part of what the round holds.
LEMMA RefundPayable ==
    ASSUME Inductive, Ledgers, NEW r \in Rounds, NEW a \in Account,
           round_status[r] \in RefundStatus, <<r, a>> \notin claimed
    PROVE  Owed(r, a) \in Nat /\ Owed(r, a) <= bucket_round[r]
<1> DEFINE f == Refunds(r)
<1>1. Owed(r, a) = OwnStake(r, a)
  BY DEF Owed, RefundStatus
<1>2. \A b \in Account : OwnStake(r, b) \in Nat
  BY StakesByAccount DEF Ledgers
<1>3. f \in [Account -> Nat] /\ f[a] = OwnStake(r, a)
  BY <1>2 DEF Refunds
<1>4. bucket_round[r] = SumFunction(f)
  BY DEF Ledgers, RefundsCovered, Refunds
<1>5. f[a] <= SumFunction(f)
  <2> HIDE DEF f
  <2> QED
    BY <1>3, FunctionSumBounds, AccountAssumption
<1> QED
  BY <1>1, <1>2, <1>3, <1>4, <1>5

\* A settled round holds any share and any challenger's payout still unclaimed.
LEMMA SharePayable ==
    ASSUME Inductive, NEW r \in Rounds, NEW a \in Account,
           round_status[r] = "settled", <<r, a>> \notin claimed
    PROVE  Owed(r, a) \in Nat /\ Owed(r, a) <= bucket_round[r]
<1> DEFINE m == meta[r]
           share == WinnerShare(r, a)
           due == IF Challenged(r, a) THEN m.challenger_payout ELSE 0
           unpaid == ChallengerUnpaid(r)
<1>1. r \in Finals /\ m \in MetaType
  BY DEF Finals, FinalStatus, Inductive, TypeOK
<1>2. Owed(r, a) = share + due
  BY DEF Owed, RefundStatus
<1>3. share \in Nat /\ m.paid_winners + share <= m.pot
  BY <1>1, ShareWithinPot
<1>4. bucket_round[r] = m.pot - m.paid_winners + unpaid
  BY DEF Inductive, RoundRecords, RoundLedger, FinalStatus
<1>5. m.pot \in Nat /\ m.paid_winners \in Nat /\ m.challenger_payout \in Nat
  BY <1>1 DEF MetaType
<1>6. due \in Nat /\ unpaid \in Nat /\ due <= unpaid
  BY <1>5, AccountAssumption DEF ChallengerUnpaid, Challenged
<1> HIDE DEF m, share, due, unpaid
<1> QED
  BY <1>2, <1>3, <1>4, <1>5, <1>6

\* The vault can pay every claim that _owed grants, in any order of the claims.
THEOREM ClaimsPayable == Spec => []EveryClaimPayable
<1>1. ASSUME Inductive, Ledgers, NEW r \in Rounds, Claimable(r), NEW a \in Unclaimed(r)
      PROVE  /\ Owed(r, a) >= 0
             /\ Owed(r, a) <= bucket_round[r]
             /\ Owed(r, a) <= vault_tracked
  <2>1. a \in Account /\ <<r, a>> \notin claimed
    BY <1>1 DEF Unclaimed
  <2>2. Owed(r, a) \in Nat /\ Owed(r, a) <= bucket_round[r]
    BY <1>1, <2>1, RefundPayable, SharePayable DEF Claimable, ClaimableStatus
  <2>3. bucket_round[r] <= vault_tracked /\ bucket_round[r] \in Nat /\ vault_tracked \in Nat
    BY <1>1, RoundWithinVault DEF Inductive, TypeOK
  <2> QED
    BY <2>2, <2>3
<1>2. Inductive /\ Ledgers => EveryClaimPayable
  BY <1>1 DEF EveryClaimPayable
<1> QED
  BY <1>2, LedgersInvariant, PTL

\* Who did not take part has no stake in the round.
LEMMA BystanderHasNoStake ==
    ASSUME Inductive, NEW r \in Rounds, NEW a \in Account, ~Participated(r, a)
    PROVE  /\ \A c \in Content : interpretations[r][c].backers[a] = 0
           /\ OwnStake(r, a) = 0
           /\ WinnerStake(r, a) = 0
<1> DEFINE f == [c \in Content |-> interpretations[r][c].backers[a]]
<1>1. \A c \in Content : interpretations[r][c].backers[a] = 0
  <2> TAKE c \in Content
  <2>1. interpretations[r][c].backers[a] \in Nat
    BY DEF Inductive, TypeOK, InterpretationType
  <2>2. ~(interpretations[r][c].backers[a] > 0)
    BY DEF Participated
  <2> QED
    BY <2>1, <2>2
<1>2. SumFunction(f) = 0
  <2>1. f \in [Content -> Int] /\ \A c \in Content : f[c] = 0
    BY <1>1
  <2> HIDE DEF f
  <2> QED
    BY <2>1, FunctionSumZero, ContentAssumption
<1>3. WinnerStake(r, a) = 0
  BY <1>1 DEF WinnerStake, Inductive, TypeOK, MetaType, ContentOrNone
<1> QED
  BY <1>1, <1>2, <1>3 DEF OwnStake

\* The winning stake is that of the winner's backers.
LEMMA WinningStakeAddsUp ==
    ASSUME Inductive, Ledgers, NEW r \in Finals
    PROVE  /\ r \in Rounds /\ meta[r].winner_id \in Content
           /\ interpretations[r][meta[r].winner_id].backers \in [Account -> Nat]
           /\ \A a \in Account :
                  WinnerStake(r, a) = interpretations[r][meta[r].winner_id].backers[a]
           /\ meta[r].winner_total
                  = SumFunction(interpretations[r][meta[r].winner_id].backers)
<1> DEFINE w == meta[r].winner_id
<1>1. r \in Rounds
  BY DEF Finals
<1>2. w \in Ids(r) /\ meta[r].winner_total = interpretations[r][w].total_stake
  BY DEF Inductive, RoundRecords, WinnerJustified
<1>3. w \in Content /\ w # None
  BY <1>2, ContentAssumption DEF Ids
<1>4. interpretations[r][w].total_stake = SumFunction(interpretations[r][w].backers)
  BY <1>1, <1>3 DEF Ledgers, StakeBooksAgree
<1>5. interpretations[r][w].backers \in [Account -> Nat]
  BY <1>1, <1>3 DEF Inductive, TypeOK, InterpretationType
<1> QED
  BY <1>1, <1>2, <1>3, <1>4, <1>5 DEF WinnerStake

\* When every participant has claimed a refunded round, nothing is left in it.
LEMMA RefundsDrain ==
    ASSUME Inductive, Ledgers, NEW r \in Rounds, round_status[r] \in RefundStatus, Unclaimed(r) = {}
    PROVE  bucket_round[r] = 0
<1> DEFINE f == Refunds(r)
<1>1. \A a \in Account : f[a] = 0
  BY BystanderHasNoStake DEF Unclaimed, Refunds
<1>2. f \in [Account -> Int]
  <2>1. \A a \in Account : f[a] \in Int
    BY <1>1
  <2>2. f = [a \in Account |-> f[a]]
    BY DEF Refunds
  <2> HIDE DEF f
  <2> QED
    BY <2>1, <2>2
<1>3. SumFunction(f) = 0
  <2> HIDE DEF f
  <2> QED
    BY <1>1, <1>2, FunctionSumZero, AccountAssumption
<1> QED
  BY <1>3 DEF Ledgers, RefundsCovered, Refunds

\* When every participant has claimed a settled round, the last winner took the
\* rest of the pot and the challenger the payout.
LEMMA PotDrains ==
    ASSUME Inductive, Ledgers, NEW r \in Rounds, round_status[r] = "settled", Unclaimed(r) = {}
    PROVE  bucket_round[r] = 0
<1> DEFINE m == meta[r]
           backers == interpretations[r][m.winner_id].backers
<1>1. r \in Finals /\ m \in MetaType
  BY DEF Finals, FinalStatus, Inductive, TypeOK
<1>2. /\ m.winner_total = SumFunction(backers)
      /\ backers \in [Account -> Nat]
      /\ \A a \in Account : WinnerStake(r, a) = backers[a]
  BY <1>1, WinningStakeAddsUp
<1>3. TakenBy(r) = backers
  <2>1. \A a \in Account : <<r, a>> \in claimed \/ WinnerStake(r, a) = 0
    BY BystanderHasNoStake DEF Unclaimed
  <2>2. \A a \in Account : (IF <<r, a>> \in claimed THEN WinnerStake(r, a) ELSE 0) = backers[a]
    BY <1>2, <2>1
  <2>3. backers = [a \in Account |-> backers[a]]
    BY <1>2
  <2> HIDE DEF backers
  <2> QED
    BY <2>2, <2>3 DEF TakenBy
<1>4. m.claimed_winner_stake = m.winner_total
  BY <1>1, <1>2, <1>3 DEF Ledgers, WinnersPaid, TakenBy
<1>5. m.paid_winners = m.pot /\ m.pot \in Nat
  <2>1. m.winner_total \in Nat /\ m.pot \in Nat
    BY <1>1 DEF MetaType
  <2>2. m.claimed_winner_stake >= m.winner_total => m.paid_winners = m.pot
    BY <1>1 DEF Ledgers, WinnersPaid
  <2> HIDE DEF m
  <2> QED
    BY <1>4, <2>1, <2>2
<1>6. ChallengerUnpaid(r) = 0
  <2>1. round_challenge[r].challenger \in Account \cup {None}
    BY DEF Inductive, TypeOK, ChallengeType, AccountOrNone
  <2>2. \A a \in Account : Challenged(r, a) => <<r, a>> \in claimed
    BY DEF Unclaimed, Participated
  <2> QED
    BY <2>1, <2>2 DEF ChallengerUnpaid, Challenged
<1>7. bucket_round[r] = m.pot - m.paid_winners + ChallengerUnpaid(r)
  BY DEF Inductive, RoundRecords, RoundLedger, FinalStatus
<1> HIDE DEF m
<1> QED
  BY <1>5, <1>6, <1>7

\* A claimable round whose participants have all claimed is empty: rounding
\* leaves no dust, and no stake or bond is orphaned.
THEOREM NothingIsStranded == Spec => []NothingStrands
<1>1. Inductive /\ Ledgers => NothingStrands
  BY RefundsDrain, PotDrains DEF NothingStrands, Claimable, ClaimableStatus
<1> QED
  BY <1>1, LedgersInvariant, PTL

-----------------------------------------------------------------------------
(* What a winner gets back                                                 *)

\* A share that is worth n shares of one is at least n, for the last winner
\* and for the others.
LEMMA FairShare ==
    ASSUME NEW n \in Nat, NEW total \in Nat \ {0}, NEW stake \in Nat, NEW pot \in Nat,
           NEW taken \in Nat, NEW paid \in Nat,
           n * total <= stake * pot,
           taken + stake <= total,
           paid * total <= taken * pot
    PROVE  /\ n <= (stake * pot) \div total
           /\ n <= pot - paid
<1>1. n <= (stake * pot) \div total
  <2>1. \A x \in Nat : n * total <= x => n <= x \div total
    OBVIOUS
  <2>2. stake * pot \in Nat
    OBVIOUS
  <2> QED
    BY <2>1, <2>2
<1>2. n <= pot - paid
  <2>1. (n + paid) * total = n * total + paid * total
    OBVIOUS
  <2>2. (stake + taken) * pot = stake * pot + taken * pot
    OBVIOUS
  <2>3. (stake + taken) * pot <= total * pot
    OBVIOUS
  <2>4. /\ n * total \in Nat /\ paid * total \in Nat /\ stake * pot \in Nat
        /\ taken * pot \in Nat /\ total * pot \in Nat
    OBVIOUS
  <2>5. (n + paid) * total <= total * pot
    BY <2>1, <2>2, <2>3, <2>4
  <2>6. \A x \in Nat : x > pot => x * total > total * pot
    OBVIOUS
  <2>7. n + paid \in Nat
    OBVIOUS
  <2>8. ~(n + paid > pot)
    BY <2>5, <2>6, <2>7
  <2> QED
    BY <2>7, <2>8
<1> QED
  BY <1>1, <1>2

\* What the claimants and one more winner had staked is part of the winning stake.
LEMMA TakenWithinWinning ==
    ASSUME Inductive, Ledgers, NEW r \in Finals, NEW a \in Account, <<r, a>> \notin claimed
    PROVE  meta[r].claimed_winner_stake + WinnerStake(r, a) <= meta[r].winner_total
<1> DEFINE h == interpretations[r][meta[r].winner_id].backers
           f == TakenBy(r)
           g == [b \in Account |-> IF <<r, b>> \in claimed THEN 0 ELSE WinnerStake(r, b)]
<1>1. /\ h \in [Account -> Nat]
      /\ \A b \in Account : WinnerStake(r, b) = h[b]
      /\ meta[r].winner_total = SumFunction(h)
  BY WinningStakeAddsUp
<1>2. meta[r].claimed_winner_stake = SumFunction(f)
  BY DEF Ledgers, WinnersPaid, TakenBy
<1> HIDE DEF h
<1>3. /\ f \in [Account -> Nat] /\ g \in [Account -> Nat]
      /\ g[a] = WinnerStake(r, a)
      /\ \A b \in Account : h[b] = f[b] + g[b]
  BY <1>1 DEF TakenBy
<1> HIDE DEF f, g
<1>4. SumFunction(h) = SumFunction(f) + SumFunction(g)
  <2>1. \A b \in Account : f[b] \in Int /\ g[b] \in Int /\ h[b] = f[b] + g[b]
    BY <1>3
  <2>2. SumFunctionOnSet(h, Account) = SumFunctionOnSet(f, Account) + SumFunctionOnSet(g, Account)
    BY <2>1, SumPlus, AccountAssumption
  <2> QED
    BY <1>1, <1>3, <2>2 DEF SumFunction
<1>5. SumFunction(f) \in Nat /\ SumFunction(g) \in Nat /\ g[a] \in Nat /\ g[a] <= SumFunction(g)
  BY <1>3, FunctionSumNat, FunctionSumBounds, AccountAssumption
<1> QED
  BY <1>1, <1>2, <1>3, <1>4, <1>5

\* A winner's share is worth the stake at the rate of the pot.
LEMMA ShareAtLeast ==
    ASSUME Inductive, Ledgers, NEW r \in Finals, NEW a \in Account, <<r, a>> \notin claimed,
           WinnerStake(r, a) > 0,
           NEW n \in Nat, n * meta[r].winner_total <= WinnerStake(r, a) * meta[r].pot
    PROVE  n <= WinnerShare(r, a)
<1> DEFINE m == meta[r]
           stake == WinnerStake(r, a)
           total == m.winner_total
           pot == m.pot
           taken == m.claimed_winner_stake
           paid == m.paid_winners
<1>1. stake \in Nat
  BY ShareWithinPot
<1>2. /\ total \in Nat \ {0} /\ pot \in Nat /\ taken \in Nat /\ paid \in Nat
      /\ taken < total => paid * total <= taken * pot
  <2>1. m \in MetaType
    BY DEF Finals, Inductive, TypeOK
  <2> QED
    BY <2>1 DEF MetaType, Inductive, RoundRecords, PotCovers
<1>3. taken + stake <= total
  BY TakenWithinWinning
<1>4. WinnerShare(r, a) \in {pot - paid, (stake * pot) \div total}
  BY DEF WinnerShare, ProRata
<1>5. n * total <= stake * pot
  OBVIOUS
<1>6. stake > 0
  OBVIOUS
<1> HIDE DEF m, stake, total, pot, taken, paid
<1>7. paid * total <= taken * pot
  BY <1>1, <1>2, <1>3, <1>6
<1>8. n <= (stake * pot) \div total /\ n <= pot - paid
  BY <1>1, <1>2, <1>3, <1>5, <1>7, FairShare
<1> QED
  BY <1>4, <1>8

\* The winning stake is part of the stake of the round.
LEMMA WinningWithinPool ==
    ASSUME Inductive, Ledgers, NEW r \in Finals
    PROVE  meta[r].winner_total <= meta[r].stake_pool
<1> DEFINE f == [c \in Content |-> interpretations[r][c].total_stake]
           w == meta[r].winner_id
<1>1. r \in Rounds /\ w \in Content
  BY WinningStakeAddsUp
<1>2. f \in [Content -> Nat]
  BY <1>1 DEF Inductive, TypeOK, InterpretationType
<1>3. meta[r].stake_pool = SumFunction(f)
  BY <1>1 DEF Ledgers, StakeBooksAgree
<1>4. meta[r].winner_total = f[w]
  BY <1>1 DEF Inductive, RoundRecords, WinnerJustified
<1>5. f[w] <= SumFunction(f)
  <2> HIDE DEF f, w
  <2> QED
    BY <1>1, <1>2, FunctionSumBounds, ContentAssumption
<1> QED
  BY <1>3, <1>4, <1>5

\* What a final pot is worth against the stakes: all of them, unless the reward
\* of an upheld challenge was taken out.
LEMMA PotWorth ==
    ASSUME Inductive, Ledgers, NEW r \in Finals
    PROVE  IF round_challenge[r].outcome = "upheld"
           THEN meta[r].stake_pool * (10000 - RewardBps) <= meta[r].pot * 10000
           ELSE meta[r].stake_pool <= meta[r].pot
<1> DEFINE m == meta[r]
           pool == m.stake_pool
           bond == m.challenge_bond
           cut == (pool * RewardBps) \div 10000
<1>1. /\ pool \in Nat /\ bond \in Nat /\ m.bonus \in Nat /\ m.pot \in Nat
      /\ m.challenger_payout \in Nat
  <2>1. m \in MetaType
    BY DEF Finals, Inductive, TypeOK
  <2> QED
    BY <2>1 DEF MetaType
<1>2. /\ m.challenger_payout = ChallengerPayout(round_challenge[r].outcome, bond, pool)
      /\ m.pot = pool + m.bonus + bond - m.challenger_payout
  BY DEF Ledgers, PotRecords, Pot
<1>3. CASE round_challenge[r].outcome = "upheld"
  <2>1. m.challenger_payout = bond + ChallengeReward(bond, pool)
    BY <1>2, <1>3 DEF ChallengerPayout
  <2>2. cut \in Nat /\ cut * 10000 <= pool * RewardBps /\ pool * RewardBps \in Nat
    <3>1. pool * RewardBps \in Nat
      <4>1. RewardBps \in Nat /\ \A x, y \in Nat : x * y \in Nat
        BY AmountAssumption
      <4> QED
        BY <1>1, <4>1
    <3>2. \A x \in Nat : x \div 10000 \in Nat /\ (x \div 10000) * 10000 <= x
      OBVIOUS
    <3> QED
      BY <3>1, <3>2
  <2>3. ChallengeReward(bond, pool) \in Nat /\ ChallengeReward(bond, pool) <= cut
    BY <1>1, <2>2 DEF ChallengeReward, AtMost
  <2> HIDE DEF cut, m, pool, bond
  <2>4. pool <= m.pot + cut
    BY <1>1, <1>2, <2>1, <2>2, <2>3
  <2>5. pool * (10000 - RewardBps) = pool * 10000 - pool * RewardBps
    BY <1>1, AmountAssumption
  <2>6. pool * (10000 - RewardBps) <= m.pot * 10000
    BY <1>1, <2>2, <2>4, <2>5
  <2> QED
    BY <1>3, <2>6 DEF pool, m
<1>4. CASE round_challenge[r].outcome # "upheld"
  <2>1. m.challenger_payout \in {0, bond}
    BY <1>2, <1>4 DEF ChallengerPayout
  <2> HIDE DEF m, pool, bond
  <2>2. pool <= m.pot
    BY <1>1, <1>2, <2>1
  <2> QED
    BY <1>4, <2>2 DEF pool, m
<1> QED
  BY <1>3, <1>4

\* The rate of the pot, from the rate of the pool.
LEMMA RateOfPot ==
    ASSUME NEW stake \in Nat, NEW total \in Nat, NEW pool \in Nat, NEW pot \in Nat, NEW rate \in Nat,
           total <= pool, pool * rate <= pot * 10000
    PROVE  LET n == (stake * rate) \div 10000 IN n \in Nat /\ n * total <= stake * pot
<1> DEFINE n == (stake * rate) \div 10000
<1>1. n \in Nat /\ n * 10000 <= stake * rate /\ stake * rate \in Nat
  <2>1. stake * rate \in Nat
    OBVIOUS
  <2>2. \A x \in Nat : x \div 10000 \in Nat /\ (x \div 10000) * 10000 <= x
    OBVIOUS
  <2> QED
    BY <2>1, <2>2
<1> HIDE DEF n
<1>2. total * rate <= pool * rate
  OBVIOUS
<1>3. total * rate <= pot * 10000
  <2>1. total * rate \in Nat /\ pool * rate \in Nat
    OBVIOUS
  <2> QED
    BY <1>2, <2>1
<1>4. (n * 10000) * total <= (stake * rate) * total
  <2>1. \A x, y, z \in Nat : x <= y => x * z <= y * z
    OBVIOUS
  <2>2. n * 10000 \in Nat
    BY <1>1
  <2> QED
    BY <1>1, <2>1, <2>2
<1>5. stake * (total * rate) <= stake * (pot * 10000)
  <2>1. \A x, y, z \in Nat : x <= y => z * x <= z * y
    OBVIOUS
  <2>2. total * rate \in Nat /\ pot * 10000 \in Nat
    OBVIOUS
  <2> QED
    BY <1>3, <2>1, <2>2
<1>6. /\ (n * 10000) * total = 10000 * (n * total)
      /\ (stake * rate) * total = stake * (total * rate)
      /\ stake * (pot * 10000) = 10000 * (stake * pot)
  BY <1>1
<1>7. n * total \in Nat /\ stake * pot \in Nat /\ stake * (total * rate) \in Nat
  BY <1>1
<1>8. 10000 * (n * total) <= 10000 * (stake * pot)
  BY <1>4, <1>5, <1>6, <1>7
<1>9. n * total <= stake * pot
  BY <1>7, <1>8
<1> QED
  BY <1>1, <1>9 DEF n

\* claim, by a winner of a settled round.
LEMMA WinnerPaid ==
    ASSUME Inductive, Ledgers, NEW r \in Rounds, NEW a \in Account, Claim(r, a),
           round_status[r] = "settled", WinnerStake(r, a) > 0
    PROVE  LET got == bucket_round[r] - bucket_round'[r] IN
           IF round_challenge[r].outcome = "upheld"
           THEN got >= (WinnerStake(r, a) * (10000 - RewardBps)) \div 10000
           ELSE got >= WinnerStake(r, a)
<1> DEFINE m == meta[r]
           stake == WinnerStake(r, a)
           share == WinnerShare(r, a)
           rate == 10000 - RewardBps
           got == bucket_round[r] - bucket_round'[r]
           due == IF Challenged(r, a) THEN m.challenger_payout ELSE 0
<1>1. r \in Finals /\ m \in MetaType
  BY DEF Finals, FinalStatus, Inductive, TypeOK
<1>2. /\ m.stake_pool \in Nat /\ m.pot \in Nat /\ m.winner_total \in Nat
      /\ m.challenger_payout \in Nat
  BY <1>1 DEF MetaType
<1>3. stake \in Nat /\ share \in Nat
  BY <1>1, ShareWithinPot
<1>4. m.winner_total <= m.stake_pool
  BY <1>1, WinningWithinPool
<1>5. got >= share
  <2>1. bucket_round'[r] = bucket_round[r] - (share + due)
    <3>1. bucket_round'[r] = bucket_round[r] - Owed(r, a)
      BY ClaimOnce
    <3>2. Owed(r, a) = share + due
      BY DEF Owed, RefundStatus
    <3> QED
      BY <3>1, <3>2
  <2>2. due \in Nat /\ bucket_round[r] \in Nat
    BY <1>2 DEF Inductive, TypeOK
  <2> HIDE DEF due, share
  <2> QED
    BY <1>3, <2>1, <2>2
<1>6. got \in Int
  <2>1. TypeOK'
    BY ClaimType DEF Inductive, RoundRecords
  <2> QED
    BY <2>1 DEF Inductive, TypeOK
<1>7. <<r, a>> \notin claimed
  BY ClaimOnce
<1>8. CASE round_challenge[r].outcome = "upheld"
  <2> DEFINE n == (stake * rate) \div 10000
  <2>1. m.stake_pool * rate <= m.pot * 10000 /\ rate \in Nat
    <3>1. m.stake_pool * rate <= m.pot * 10000
      BY <1>1, <1>8, PotWorth
    <3>2. rate \in Nat
      BY AmountAssumption
    <3> QED
      BY <3>1, <3>2
  <2>2. n \in Nat /\ n * m.winner_total <= stake * m.pot
    <3> HIDE DEF stake, rate, m
    <3> QED
      BY <1>2, <1>3, <1>4, <2>1, RateOfPot
  <2>3. n <= share
    <3> HIDE DEF n
    <3> QED
      BY <1>1, <1>7, <2>2, ShareAtLeast
  <2>4. got >= n
    <3> HIDE DEF got, share, n
    <3> QED
      BY <1>3, <1>5, <1>6, <2>2, <2>3
  <2> QED
    BY <1>8, <2>4
<1>9. CASE round_challenge[r].outcome # "upheld"
  <2>1. m.stake_pool <= m.pot
    BY <1>1, <1>9, PotWorth
  <2>2. stake * m.winner_total <= stake * m.pot
    <3> HIDE DEF stake, m
    <3> QED
      BY <1>2, <1>3, <1>4, <2>1
  <2>3. stake <= share
    BY <1>1, <1>3, <1>7, <2>2, ShareAtLeast
  <2>4. got >= stake
    <3> HIDE DEF got, share, stake
    <3> QED
      BY <1>3, <1>5, <1>6, <2>3
  <2> QED
    BY <1>9, <2>4
<1> QED
  BY <1>8, <1>9

\* Nobody claims in any other step.
LEMMA OnlyClaimsClaim ==
    ASSUME [Next]_vars, NEW r, NEW a, <<r, a>> \in claimed' \ claimed
    PROVE  Claim(r, a) /\ r \in Rounds /\ a \in Account
<1>1. PICK k \in Rounds, b \in Claimants : Claim(k, b)
  BY DEF Next, Tick, SubmitInterpretation, BackInterpretation, Adjudicate, Challenge,
         ResolveChallenge, Finalize, FinalizeRound, CancelRound, Settle, AddSource,
         ClaimSourceBond, CloseMonocle, CancelClose, FinalizeClose, FlushResidual, vars
<1>2. r = k /\ a = b
  BY <1>1 DEF Claim
<1> QED
  BY <1>1, <1>2, AccountAssumption

\* A winner gets at least the stake back, whatever the pot, the bonus and the
\* order of the claims, unless a challenge was upheld; then the challenger's
\* reward costs at most RewardBps of it.
THEOREM WinnersWhole == Spec => WinnersMadeWhole
<1>1. Inductive /\ Ledgers /\ [Next]_vars => WinnersMadeWhole!1
  BY OnlyClaimsClaim, WinnerPaid
<1> QED
  BY <1>1, LedgersInvariant, PTL DEF Spec, WinnersMadeWhole

-----------------------------------------------------------------------------
(* Reputation                                                              *)

NoWinner == {r \in Rounds : round_status[r] \in {"inconclusive", "unchanged"}}

\* What the counters of an account are compared with.
Wins(a) == {r \in Finals : interpretations[r][meta[r].winner_id].author = a}
Losses(a) == [r \in Rounds |-> Cardinality(Authored(r, a) \ {meta[r].winner_id})]
Parts(a) == [r \in Rounds |-> Cardinality(Authored(r, a))]
EndedBy(a, outcome) == {r \in Finals : Challenged(r, a) /\ round_challenge[r].outcome = outcome}

Tallied(a) ==
    /\ reputation[a].decided_wins = Cardinality(Wins(a))
    /\ reputation[a].decided_losses = SumFunctionOnSet(Losses(a), Finals)
    /\ reputation[a].inconclusive_participations = SumFunctionOnSet(Parts(a), NoWinner)
    /\ reputation[a].challenges_won = Cardinality(EndedBy(a, "upheld"))
    /\ reputation[a].challenges_lost = Cardinality(EndedBy(a, "rejected"))

\* The counters match the outcomes when those of every account do.
LEMMA TalliesMatch ==
    /\ ReputationMatchesOutcomes <=> \A a \in Account : Tallied(a)
    /\ ReputationMatchesOutcomes' <=> \A a \in Account : Tallied(a)'
BY DEF ReputationMatchesOutcomes, Tallied, NoWinner, Wins, Losses, Parts, EndedBy

\* What the counters were computed from in round k stays.
RecordStays(k) ==
    /\ interpretations'[k] = interpretations[k]
    /\ meta'[k].winner_id = meta[k].winner_id
    /\ round_challenge'[k].challenger = round_challenge[k].challenger
    /\ round_challenge'[k].outcome = round_challenge[k].outcome

\* A round that has ended stays final, or without a winner, with its record.
LEMMA EndedRoundsStay ==
    ASSUME Inductive, BlankStakes, [Next]_vars, NEW k \in Finals \cup NoWinner
    PROVE  /\ RecordStays(k)
           /\ k \in Finals => k \in Finals'
           /\ k \in NoWinner => k \in NoWinner'
<1>1. k \in Rounds /\ round_status[k] \in {"finalized", "settled", "inconclusive", "unchanged"}
  BY DEF Finals, NoWinner, FinalStatus
<1>2. CASE RoundKept(k)
  BY <1>1, <1>2 DEF RoundKept, RecordStays, Finals, NoWinner, FinalStatus
<1>3. ASSUME NEW a \in Account, Claim(k, a)
      PROVE  /\ RecordStays(k)
             /\ k \in Finals => k \in Finals'
             /\ k \in NoWinner => k \in NoWinner'
  BY <1>1, <1>3, ClaimOnce, ClaimKeepsTerms DEF RecordStays, Finals, NoWinner
<1>4. CASE RoundOpened(k) \/ RoundJudged(k) \/ RoundEnds(k)
  BY <1>1, <1>4 DEF RoundOpened, RoundJudged, RoundEnds
<1>5. ASSUME NEW c, NEW a, NEW amount, RoundStaked(k, c, a, amount) PROVE FALSE
  BY <1>1, <1>5 DEF RoundStaked
<1>6. ASSUME NEW winner, NEW outcome, RoundWon(k, winner, outcome) PROVE FALSE
  BY <1>1, <1>6 DEF RoundWon, PendingStatus
<1> QED
  BY <1>1, <1>2, <1>3, <1>4, <1>5, <1>6, StepChanges DEF Staking, Winning, RoundMoves

\* Only a round that is won becomes final.
LEMMA BecomesFinal ==
    ASSUME Inductive, BlankStakes, [Next]_vars, ~\E r \in Rounds : ResolveChallenge(r) \/ Finalize(r)
    PROVE  Finals' = Finals
<1>1. ASSUME NEW k \in Rounds, round_status'[k] \in FinalStatus
      PROVE  round_status[k] \in FinalStatus
  <2>1. CASE RoundKept(k)
    BY <1>1, <2>1 DEF RoundKept, FinalStatus
  <2>2. CASE RoundOpened(k) \/ RoundJudged(k) \/ RoundEnds(k)
    BY <1>1, <2>2
    DEF RoundOpened, RoundJudged, RoundEnds, FinalStatus, PendingStatus, RefundStatus
  <2>3. ASSUME NEW c, NEW a, NEW amount, RoundStaked(k, c, a, amount) PROVE FALSE
    BY <1>1, <2>3 DEF RoundStaked, FinalStatus
  <2>4. ASSUME NEW a \in Account, Claim(k, a)
        PROVE  round_status[k] \in FinalStatus
    BY <1>1, <2>4, ClaimOnce
  <2> QED
    BY <2>1, <2>2, <2>3, <2>4, StepMoves DEF Staking, RoundMoves
<1> QED
  BY <1>1, EndedRoundsStay DEF Finals

\* cancel_round: the round ends and its successor opens.
LEMMA CancellationEnds ==
    ASSUME Inductive, NEW r \in Rounds, CancelRound(r)
    PROVE  /\ round_status[r] = "open"
           /\ round_status'[r] = "cancelled"
           /\ RoundOpened(r + 1)
           /\ \A k \in Rounds \ {r, r + 1} : RoundKept(k)
<1>1. /\ round_status[r] = "open" /\ r < MaxRound
      /\ LeaveRound(r, "cancelled", meta[r])
      /\ UNCHANGED <<interpretations, claimed, round_challenge, bucket_round>>
  BY DEF CancelRound, stakeVars, verdictVars, vaultVars
<1>2. meta[r] \in MetaType /\ "cancelled" \in RefundStatus
  BY DEF Inductive, TypeOK, RefundStatus
<1> QED
  BY <1>1, <1>2, LeavingChanges

\* adjudicate: without a winner it credits the participations and ends the round;
\* with one it only publishes the verdict.
LEMMA AdjudicationEnds ==
    ASSUME Inductive, Adjudicate
    PROVE  LET r == current_round IN
           /\ r \in Rounds
           /\ round_status[r] = "open"
           /\ UNCHANGED <<interpretations, round_challenge>>
           /\ \/ /\ round_status'[r] \in {"unchanged", "inconclusive"}
                 /\ RoundOpened(r + 1)
                 /\ \A k \in Rounds \ {r, r + 1} : RoundKept(k)
                 /\ reputation' = CreditParticipations(r)
              \/ /\ round_status' = [round_status EXCEPT ![r] = "decided_pending"]
                 /\ reputation' = reputation
<1> USE DEF Inductive
<1> DEFINE r == current_round
<1>1. r \in Rounds /\ round_status[r] = "open" /\ r < MaxRound /\ meta[r] \in MetaType
  BY DEF TypeOK, Adjudicate, RoundRecords, StakedRounds
<1>2. UNCHANGED <<interpretations, claimed, round_challenge, bucket_round>>
  BY AdjudicationChanges DEF Adjudicate
<1>3. ASSUME NEW s \in {"unchanged", "inconclusive"}, Inconclude(r, s)
      PROVE  /\ round_status'[r] = s
             /\ RoundOpened(r + 1)
             /\ \A k \in Rounds \ {r, r + 1} : RoundKept(k)
             /\ reputation' = CreditParticipations(r)
  <2>1. /\ s \in RefundStatus /\ LeaveRound(r, s, meta[r])
        /\ reputation' = CreditParticipations(r)
    BY <1>3 DEF RefundStatus, Inconclude
  <2> QED
    BY <1>1, <1>2, <2>1, LeavingChanges
<1>4. PICK fetched \in Fetches :
          \/ Inconclude(r, "unchanged")
          \/ Inconclude(r, "inconclusive")
          \/ \E winner \in Ids(r) : Decide(r, winner)
  BY DEF Adjudicate
<1> QED
  BY <1>1, <1>2, <1>3, <1>4 DEF Decide

\* Rounds end without a winner, other than by a cancellation, in adjudicate only.
LEMMA BecomesUndecided ==
    ASSUME Inductive, BlankStakes, [Next]_vars, ~Adjudicate
    PROVE  NoWinner' = NoWinner
<1> USE DEF Inductive
<1>1. ASSUME NEW k \in Rounds, k \notin NoWinner
      PROVE  k \notin NoWinner'
  <2>1. CASE round_status' = round_status
    BY <1>1, <2>1 DEF NoWinner
  <2>2. ASSUME NEW r \in Rounds, CancelRound(r)
        PROVE  k \notin NoWinner'
    <3>1. /\ round_status'[r] = "cancelled"
          /\ RoundOpened(r + 1)
          /\ \A j \in Rounds \ {r, r + 1} : RoundKept(j)
      BY <2>2, CancellationEnds
    <3> QED
      BY <1>1, <3>1 DEF NoWinner, RoundOpened, RoundKept, FinalStatus
  <2>3. CASE FinalizeClose
    BY <1>1, <2>3 DEF FinalizeClose, NoWinner, TypeOK
  <2>4. ASSUME NEW r \in Rounds, Settle(r)
        PROVE  k \notin NoWinner'
    BY <1>1, <2>4 DEF Settle, NoWinner, TypeOK
  <2>5. ASSUME NEW r \in Rounds, NEW a \in Account, NEW c \in Content, NEW bond \in Amounts,
               Challenge(r, a, c, bond)
        PROVE  k \notin NoWinner'
    BY <1>1, <2>5 DEF Challenge, NoWinner, TypeOK
  <2>6. ASSUME NEW r \in Rounds, ResolveChallenge(r) \/ Finalize(r)
        PROVE  k \notin NoWinner'
    <3>1. PICK winner, outcome : RoundWon(r, winner, outcome)
      BY <2>6, WinningChanges
    <3>2. round_status'[r] = "finalized" /\ RoundOpened(r + 1)
          /\ \A j \in Rounds \ {r, r + 1} : RoundKept(j)
      BY <2>6, <3>1, WinningChanges DEF RoundWon
    <3> QED
      BY <1>1, <3>2 DEF NoWinner, RoundOpened, RoundKept, FinalStatus
  <2> QED
    BY <2>1, <2>2, <2>3, <2>4, <2>5, <2>6
    DEF Next, Tick, SubmitInterpretation, BackInterpretation, Claim, AddSource, ClaimSourceBond,
        CloseMonocle, CancelClose, FlushResidual, vars, roundVars
<1> QED
  BY <1>1, EndedRoundsStay DEF NoWinner

\* A set of rounds is finite, and one more round counts one more.
LEMMA RoundsCounted ==
    ASSUME NEW S \in SUBSET Rounds
    PROVE  /\ IsFiniteSet(S)
           /\ Cardinality(S) \in Nat
           /\ \A r \in Rounds \ S : Cardinality(S \cup {r}) = Cardinality(S) + 1
<1>1. IsFiniteSet(S)
  BY FS_Subset, RoundsFinite
<1> QED
  BY <1>1, FS_CardinalityType, FS_AddElement

\* The counts over rounds whose records stay are the same.
LEMMA TalliesStay ==
    ASSUME TypeOK, NEW a \in Account,
           \A k \in Finals \cup NoWinner : RecordStays(k)
    PROVE  /\ SumFunctionOnSet(Losses(a)', Finals) = SumFunctionOnSet(Losses(a), Finals)
           /\ SumFunctionOnSet(Parts(a)', NoWinner) = SumFunctionOnSet(Parts(a), NoWinner)
           /\ \A k \in Rounds : Losses(a)[k] \in Nat /\ Parts(a)[k] \in Nat
           /\ \A k \in Rounds : Losses(a)'[k] \in Nat /\ Parts(a)'[k] \in Nat
<1> DEFINE l == Losses(a)
           m == Losses(a)'
           p == Parts(a)
           q == Parts(a)'
<1>1. \A k \in Rounds : /\ l[k] \in Nat /\ p[k] \in Nat
                        /\ m[k] \in Nat /\ q[k] \in Nat
  BY ContentsCounted DEF Losses, Parts, Authored
<1>2. \A k \in Finals \cup NoWinner : m[k] = l[k] /\ q[k] = p[k]
  BY DEF RecordStays, Losses, Parts, Authored, Finals, NoWinner
<1>3. Finals \subseteq Rounds /\ NoWinner \subseteq Rounds
  BY DEF Finals, NoWinner
<1>4. IsFiniteSet(Finals) /\ IsFiniteSet(NoWinner)
  BY <1>3, RoundsCounted
<1> HIDE DEF l, m, p, q
<1>5. \A k \in Finals : m[k] = l[k] /\ l[k] \in Int
  BY <1>1, <1>2, <1>3
<1>6. \A k \in NoWinner : q[k] = p[k] /\ p[k] \in Int
  BY <1>1, <1>2, <1>3
<1>7. /\ SumFunctionOnSet(m, Finals) = SumFunctionOnSet(l, Finals)
      /\ SumFunctionOnSet(q, NoWinner) = SumFunctionOnSet(p, NoWinner)
  BY <1>4, <1>5, <1>6, SumEqual
<1> QED
  BY <1>1, <1>7 DEF l, m, p, q

\* A step that ends no round and touches no counter.
LEMMA TallyKept ==
    ASSUME Inductive, BlankStakes, [Next]_vars, NEW a \in Account, Tallied(a),
           Finals' = Finals, NoWinner' = NoWinner, reputation' = reputation
    PROVE  Tallied(a)'
<1>1. \A k \in Finals \cup NoWinner : RecordStays(k)
  BY EndedRoundsStay
<1>2. Finals \subseteq Rounds
  BY DEF Finals
<1>3. /\ Wins(a)' = Wins(a)
      /\ EndedBy(a, "upheld")' = EndedBy(a, "upheld")
      /\ EndedBy(a, "rejected")' = EndedBy(a, "rejected")
  BY <1>1 DEF RecordStays, Wins, EndedBy, Challenged
<1>4. /\ SumFunctionOnSet(Losses(a)', Finals) = SumFunctionOnSet(Losses(a), Finals)
      /\ SumFunctionOnSet(Parts(a)', NoWinner) = SumFunctionOnSet(Parts(a), NoWinner)
  BY <1>1, TalliesStay DEF Inductive
<1> QED
  BY <1>3, <1>4 DEF Tallied

\* _bump_reputation, in adjudicate: one participation for every interpretation.
LEMMA ParticipationCounts ==
    ASSUME TypeOK, NEW r \in Rounds, NEW a \in Account, reputation' = CreditParticipations(r)
    PROVE  LET n == Cardinality(Authored(r, a)) IN
           /\ n \in Nat
           /\ reputation'[a].decided_wins = reputation[a].decided_wins
           /\ reputation'[a].decided_losses = reputation[a].decided_losses
           /\ reputation'[a].challenges_won = reputation[a].challenges_won
           /\ reputation'[a].challenges_lost = reputation[a].challenges_lost
           /\ reputation'[a].inconclusive_participations
                  = reputation[a].inconclusive_participations + n
<1> DEFINE n == Cardinality(Authored(r, a))
<1>1. reputation[a] \in ReputationType /\ n \in Nat
  BY ContentsCounted DEF TypeOK, Authored
<1>2. reputation'[a] = [reputation[a] EXCEPT !.inconclusive_participations =
                            reputation[a].inconclusive_participations + n]
  BY DEF CreditParticipations
<1> HIDE DEF n
<1> QED
  BY <1>1, <1>2 DEF ReputationType, n

\* _bump_reputation, in _finalize_round: one win or loss for every
\* interpretation, and one for the challenger.
LEMMA DecisionCounts ==
    ASSUME TypeOK, NEW r \in Rounds, NEW a \in Account, NEW winner, NEW outcome,
           reputation' = CreditDecision(r, winner, outcome)
    PROVE  /\ Cardinality(Authored(r, a) \cap {winner}) \in Nat
           /\ Cardinality(Losing(r, a, winner)) \in Nat
           /\ reputation'[a].decided_wins
                  = reputation[a].decided_wins + Cardinality(Authored(r, a) \cap {winner})
           /\ reputation'[a].decided_losses
                  = reputation[a].decided_losses + Cardinality(Losing(r, a, winner))
           /\ reputation'[a].challenges_won
                  = reputation[a].challenges_won + (IF WonChallenge(r, a, outcome) THEN 1 ELSE 0)
           /\ reputation'[a].challenges_lost
                  = reputation[a].challenges_lost + (IF LostChallenge(r, a, outcome) THEN 1 ELSE 0)
           /\ reputation'[a].inconclusive_participations
                  = reputation[a].inconclusive_participations
<1> DEFINE d == Cardinality(Authored(r, a) \cap {winner})
           n == Cardinality(Losing(r, a, winner))
           u == IF WonChallenge(r, a, outcome) THEN 1 ELSE 0
           v == IF LostChallenge(r, a, outcome) THEN 1 ELSE 0
<1>1. reputation[a] \in ReputationType /\ d \in Nat /\ n \in Nat
  BY ContentsCounted DEF TypeOK, Authored, Losing
<1>2. reputation'[a] =
          [reputation[a] EXCEPT
              !.decided_wins = reputation[a].decided_wins + d,
              !.decided_losses = reputation[a].decided_losses + n,
              !.challenges_won = reputation[a].challenges_won + u,
              !.challenges_lost = reputation[a].challenges_lost + v]
  BY DEF CreditDecision
<1> HIDE DEF d, n, u, v
<1>3. /\ reputation'[a].decided_wins = reputation[a].decided_wins + d
      /\ reputation'[a].decided_losses = reputation[a].decided_losses + n
      /\ reputation'[a].challenges_won = reputation[a].challenges_won + u
      /\ reputation'[a].challenges_lost = reputation[a].challenges_lost + v
      /\ reputation'[a].inconclusive_participations = reputation[a].inconclusive_participations
  BY <1>1, <1>2 DEF ReputationType
<1> QED
  BY <1>1, <1>3 DEF d, n, u, v

\* adjudicate, without a winner: one participation for every interpretation.
LEMMA TallyInconclusive ==
    ASSUME Inductive, BlankStakes, [Next]_vars, NEW a \in Account, Tallied(a),
           NEW r \in Rounds, r \notin NoWinner, Finals' = Finals, NoWinner' = NoWinner \cup {r},
           UNCHANGED interpretations, reputation' = CreditParticipations(r)
    PROVE  Tallied(a)'
<1>1. \A k \in Finals \cup NoWinner : RecordStays(k)
  BY EndedRoundsStay
<1>2. /\ Wins(a)' = Wins(a)
      /\ EndedBy(a, "upheld")' = EndedBy(a, "upheld")
      /\ EndedBy(a, "rejected")' = EndedBy(a, "rejected")
  BY <1>1 DEF RecordStays, Wins, EndedBy, Challenged
<1> DEFINE p == Parts(a)
           q == Parts(a)'
           S == NoWinner
           n == Cardinality(Authored(r, a))
<1>3. /\ SumFunctionOnSet(Losses(a)', Finals) = SumFunctionOnSet(Losses(a), Finals)
      /\ SumFunctionOnSet(q, S) = SumFunctionOnSet(p, S)
      /\ \A k \in Rounds : q[k] \in Nat
  BY <1>1, TalliesStay DEF Inductive
<1>4. q[r] = n
  BY DEF Parts, Authored
<1>5. SumFunctionOnSet(q, S \cup {r}) = n + SumFunctionOnSet(p, S)
  <2>1. IsFiniteSet(S) /\ S \subseteq Rounds /\ r \notin S
    BY RoundsCounted DEF NoWinner
  <2> HIDE DEF p, q, S, n
  <2>2. \A k \in S \cup {r} : q[k] \in Int
    BY <1>3, <2>1
  <2>3. SumFunctionOnSet(q, S \cup {r}) = q[r] + SumFunctionOnSet(q, S)
    BY <2>1, <2>2, SumAdd
  <2> QED
    BY <1>3, <1>4, <2>3
<1>6. /\ n \in Nat /\ reputation[a] \in ReputationType
      /\ reputation'[a].decided_wins = reputation[a].decided_wins
      /\ reputation'[a].decided_losses = reputation[a].decided_losses
      /\ reputation'[a].challenges_won = reputation[a].challenges_won
      /\ reputation'[a].challenges_lost = reputation[a].challenges_lost
      /\ reputation'[a].inconclusive_participations
             = reputation[a].inconclusive_participations + n
  BY ParticipationCounts DEF Inductive, TypeOK
<1>7. reputation[a].inconclusive_participations = SumFunctionOnSet(p, S)
  BY DEF Tallied
<1>8. reputation'[a].inconclusive_participations = SumFunctionOnSet(q, NoWinner')
  <2>1. reputation[a].inconclusive_participations \in Nat
    BY <1>6 DEF ReputationType
  <2> HIDE DEF n, p, q
  <2> QED
    BY <1>5, <1>6, <1>7, <2>1
<1> QED
  BY <1>2, <1>3, <1>6, <1>8 DEF Tallied

\* A final round more counts one more where it belongs.
LEMMA CountedOnce ==
    ASSUME NEW S \in SUBSET Rounds, NEW T, NEW r \in Rounds, r \notin S, NEW p \in BOOLEAN,
           T = S \cup (IF p THEN {r} ELSE {})
    PROVE  Cardinality(T) = Cardinality(S) + (IF p THEN 1 ELSE 0)
<1>1. CASE p
  BY <1>1, RoundsCounted
<1>2. CASE ~p
  <2>1. T = S /\ Cardinality(S) \in Nat
    BY <1>2, RoundsCounted
  <2> QED
    BY <1>2, <2>1
<1> QED
  BY <1>1, <1>2

\* _finalize_round: the winner's author wins, the other authors lose, and the
\* challenger wins or loses the challenge.
LEMMA TallyDecided ==
    ASSUME Inductive, BlankStakes, [Next]_vars, NEW a \in Account, Tallied(a),
           NEW r \in Rounds, NEW winner \in Content, NEW outcome \in Outcomes,
           RoundWon(r, winner, outcome), FinalizeRound(r, winner, outcome),
           Finals' = Finals \cup {r}, NoWinner' = NoWinner
    PROVE  Tallied(a)'
<1> DEFINE wins == interpretations[r][winner].author = a
           won == outcome = "upheld" /\ round_challenge[r].challenger = a
           lost == outcome = "rejected" /\ round_challenge[r].challenger = a
           n == Cardinality(Losing(r, a, winner))
           d == IF wins THEN 1 ELSE 0
           u == IF won THEN 1 ELSE 0
           v == IF lost THEN 1 ELSE 0
<1>1. \A k \in Finals \cup NoWinner : RecordStays(k)
  BY EndedRoundsStay
<1>2. r \notin Finals /\ Finals \subseteq Rounds
  BY DEF RoundWon, Finals, PendingStatus, FinalStatus
<1>3. /\ interpretations'[r] = interpretations[r]
      /\ meta'[r].winner_id = winner
      /\ round_challenge'[r].outcome = outcome
      /\ round_challenge'[r].challenger = round_challenge[r].challenger
      /\ winner \in Ids(r)
  BY DEF RoundWon, FinalizeRound, Inductive, TypeOK, MetaType, ChallengeType
<1>4. Cardinality(Wins(a)') = Cardinality(Wins(a)) + d
  <2>1. Wins(a)' = Wins(a) \cup (IF wins THEN {r} ELSE {})
    BY <1>1, <1>2, <1>3 DEF RecordStays, Wins
  <2>2. Wins(a) \in SUBSET Rounds /\ r \notin Wins(a)
    BY <1>2 DEF Wins
  <2> HIDE DEF wins
  <2>3. wins \in BOOLEAN
    BY DEF wins
  <2> QED
    BY <2>1, <2>2, <2>3, CountedOnce
<1>5. Cardinality(EndedBy(a, "upheld")') = Cardinality(EndedBy(a, "upheld")) + u
  <2>1. EndedBy(a, "upheld")' = EndedBy(a, "upheld") \cup (IF won THEN {r} ELSE {})
    BY <1>1, <1>2, <1>3 DEF RecordStays, EndedBy, Challenged
  <2>2. EndedBy(a, "upheld") \in SUBSET Rounds /\ r \notin EndedBy(a, "upheld")
    BY <1>2 DEF EndedBy
  <2> HIDE DEF won
  <2>3. won \in BOOLEAN
    BY DEF won
  <2> QED
    BY <2>1, <2>2, <2>3, CountedOnce
<1>6. Cardinality(EndedBy(a, "rejected")') = Cardinality(EndedBy(a, "rejected")) + v
  <2>1. EndedBy(a, "rejected")' = EndedBy(a, "rejected") \cup (IF lost THEN {r} ELSE {})
    BY <1>1, <1>2, <1>3 DEF RecordStays, EndedBy, Challenged
  <2>2. EndedBy(a, "rejected") \in SUBSET Rounds /\ r \notin EndedBy(a, "rejected")
    BY <1>2 DEF EndedBy
  <2> HIDE DEF lost
  <2>3. lost \in BOOLEAN
    BY DEF lost
  <2> QED
    BY <2>1, <2>2, <2>3, CountedOnce
<1>7. SumFunctionOnSet(Losses(a)', Finals') = SumFunctionOnSet(Losses(a), Finals) + n
  <2> DEFINE l == Losses(a)
             m == Losses(a)'
             S == Finals
  <2>1. /\ SumFunctionOnSet(m, S) = SumFunctionOnSet(l, S)
        /\ \A k \in Rounds : m[k] \in Nat /\ l[k] \in Nat
    BY <1>1, TalliesStay DEF Inductive
  <2>2. m[r] = n
    BY <1>3 DEF Losses, Authored, Losing
  <2>3. IsFiniteSet(S) /\ S \subseteq Rounds /\ r \notin S
    BY <1>2, RoundsCounted
  <2>4. SumFunctionOnSet(m, S \cup {r}) = SumFunctionOnSet(l, S) + n
    <3> HIDE DEF l, m, S, n
    <3>1. \A k \in S \cup {r} : m[k] \in Int
      BY <2>1, <2>3
    <3>2. SumFunctionOnSet(m, S \cup {r}) = m[r] + SumFunctionOnSet(m, S)
      BY <2>3, <3>1, SumAdd
    <3>3. \A k \in S : l[k] \in Int
      BY <2>1, <2>3
    <3>4. SumFunctionOnSet(l, S) \in Int /\ m[r] \in Int
      BY <2>1, <2>3, <3>3, SumInt
    <3> QED
      BY <2>1, <2>2, <3>2, <3>4
  <2> QED
    BY <2>4
<1>8. SumFunctionOnSet(Parts(a)', NoWinner) = SumFunctionOnSet(Parts(a), NoWinner)
  BY <1>1, TalliesStay DEF Inductive
<1>9. Cardinality(Authored(r, a) \cap {winner}) = d
  <2>1. Authored(r, a) \cap {winner} = IF wins THEN {winner} ELSE {}
    BY DEF Authored
  <2> QED
    BY <2>1, FS_EmptySet, FS_Singleton
<1>10. /\ reputation'[a].decided_wins = reputation[a].decided_wins + d
       /\ reputation'[a].decided_losses = reputation[a].decided_losses + n
       /\ reputation'[a].challenges_won = reputation[a].challenges_won + u
       /\ reputation'[a].challenges_lost = reputation[a].challenges_lost + v
       /\ reputation'[a].inconclusive_participations = reputation[a].inconclusive_participations
  <2>1. reputation' = CreditDecision(r, winner, outcome) /\ TypeOK
    BY DEF FinalizeRound, Inductive
  <2> QED
    BY <1>9, <2>1, DecisionCounts DEF WonChallenge, LostChallenge
<1> HIDE DEF n, d, u, v
<1> QED
  BY <1>4, <1>5, <1>6, <1>7, <1>8, <1>10 DEF Tallied

\* The counters follow every step.
LEMMA TallyStep ==
    ASSUME Inductive, BlankStakes, ReputationMatchesOutcomes, [Next]_vars
    PROVE  ReputationMatchesOutcomes'
<1> USE DEF Inductive
<1> SUFFICES ASSUME NEW a \in Account, Tallied(a)
             PROVE  Tallied(a)'
  BY TalliesMatch
<1>1. ASSUME NEW r \in Rounds, ResolveChallenge(r) \/ Finalize(r)
      PROVE  Tallied(a)'
  <2>1. PICK winner \in Content, outcome \in Outcomes :
            RoundWon(r, winner, outcome) /\ FinalizeRound(r, winner, outcome)
    BY <1>1, WinningChanges
  <2>2. RoundOpened(r + 1) /\ \A k \in Rounds \ {r, r + 1} : RoundKept(k)
    BY <1>1, WinningChanges
  <2>3. \A k \in Rounds \ {r} : round_status'[k] \in FinalStatus => round_status[k] \in FinalStatus
    BY <2>2 DEF RoundOpened, RoundKept, FinalStatus
  <2>4. round_status'[r] = "finalized"
    BY <2>1 DEF RoundWon
  <2>5. Finals \subseteq Finals'
    BY EndedRoundsStay
  <2>6. Finals' = Finals \cup {r}
    BY <2>3, <2>4, <2>5 DEF Finals, FinalStatus
  <2>7. ~Adjudicate
    <3>1. Adjudicate => round_status'[r] # "finalized"
      BY <2>1, AdjudicationChanges
      DEF RoundWon, RoundKept, RoundOpened, RoundJudged, RoundEnds, PendingStatus, FinalStatus,
          RefundStatus
    <3> QED
      BY <2>4, <3>1
  <2>8. NoWinner' = NoWinner
    BY <2>7, BecomesUndecided
  <2> QED
    BY <2>1, <2>6, <2>8, TallyDecided
<1>2. CASE Adjudicate
  <2> DEFINE r == current_round
  <2>1. r \in Rounds /\ round_status[r] = "open" /\ UNCHANGED interpretations
    BY <1>2, AdjudicationEnds
  <2>2. ~\E k \in Rounds : ResolveChallenge(k) \/ Finalize(k)
    <3>1. SUFFICES ASSUME NEW k \in Rounds, ResolveChallenge(k) \/ Finalize(k)
                   PROVE  FALSE
      OBVIOUS
    <3>2. round_status[k] \in PendingStatus
      BY <3>1, WinningChanges DEF RoundWon
    <3>3. k = r
      BY <2>1, <3>2
      DEF PendingStatus, OneRoundInFlight, FinalStatus, RefundStatus, Rounds, TypeOK
    <3> QED
      BY <2>1, <3>2, <3>3 DEF PendingStatus
  <2>3. Finals' = Finals
    BY <2>2, BecomesFinal
  <2>4. CASE /\ round_status'[r] \in {"unchanged", "inconclusive"}
             /\ RoundOpened(r + 1)
             /\ \A k \in Rounds \ {r, r + 1} : RoundKept(k)
             /\ reputation' = CreditParticipations(r)
    <3>1. NoWinner \subseteq NoWinner' /\ r \notin NoWinner
      BY <2>1, EndedRoundsStay DEF NoWinner
    <3>2. \A k \in Rounds \ {r} : k \in NoWinner' => k \in NoWinner
      BY <2>4 DEF RoundOpened, RoundKept, NoWinner, FinalStatus
    <3>3. NoWinner' = NoWinner \cup {r}
      BY <2>1, <2>4, <3>1, <3>2 DEF NoWinner
    <3> QED
      BY <2>1, <2>3, <2>4, <3>1, <3>3, TallyInconclusive
  <2>5. CASE /\ round_status' = [round_status EXCEPT ![r] = "decided_pending"]
             /\ reputation' = reputation
    <3>1. NoWinner' = NoWinner
      BY <2>1, <2>5 DEF NoWinner, TypeOK
    <3> QED
      BY <2>3, <2>5, <3>1, TallyKept
  <2> QED
    BY <1>2, <2>4, <2>5, AdjudicationEnds
<1>3. CASE ~Adjudicate /\ ~\E r \in Rounds : ResolveChallenge(r) \/ Finalize(r)
  <2>1. Finals' = Finals /\ NoWinner' = NoWinner
    BY <1>3, BecomesFinal, BecomesUndecided
  <2>2. reputation' = reputation
    BY <1>3
    DEF Next, Tick, SubmitInterpretation, BackInterpretation, Challenge, CancelRound, Settle,
        Claim, AddSource, ClaimSourceBond, CloseMonocle, CancelClose, FinalizeClose,
        FlushResidual, vars, verdictVars
  <2> QED
    BY <2>1, <2>2, TallyKept
<1> QED
  BY <1>1, <1>2, <1>3

\* No outcome yet, nothing counted.
LEMMA InitTallies == Init => ReputationMatchesOutcomes
<1> SUFFICES ASSUME Init, NEW a \in Account PROVE Tallied(a)
  BY TalliesMatch
<1>1. Finals = {} /\ NoWinner = {}
  BY DEF Init, Finals, NoWinner, FinalStatus
<1>2. Wins(a) = {} /\ EndedBy(a, "upheld") = {} /\ EndedBy(a, "rejected") = {}
  BY <1>1 DEF Wins, EndedBy
<1>3. /\ SumFunctionOnSet(Losses(a), Finals) = 0
      /\ SumFunctionOnSet(Parts(a), NoWinner) = 0
  BY <1>1, SumEmpty
<1>4. reputation[a] = NoReputation
  BY DEF Init
<1> QED
  BY <1>2, <1>3, <1>4, FS_EmptySet DEF Tallied, NoReputation

\* Every local reputation counter is the number of outcomes it stands for:
\* decisions won and lost, rounds without a winner, challenges won and lost.
THEOREM ReputationCounts == Spec => []ReputationMatchesOutcomes
<1>1. Init => ReputationMatchesOutcomes
  BY InitTallies
<1>2. /\ (Inductive /\ Ledgers) /\ ReputationMatchesOutcomes /\ [Next]_vars
      => ReputationMatchesOutcomes'
  BY TallyStep DEF Ledgers
<1> QED
  BY <1>1, <1>2, LedgersInvariant, PTL DEF Spec

-----------------------------------------------------------------------------
(* The round of a client                                                   *)

Calls == INSTANCE RoundCalls

\* What module RoundCalls knows of a round.
PaidFrom(r) == [u \in Account |-> IF <<r, u>> \in claimed THEN 1 ELSE 0]

SeenRound(r) == [status |-> round_status[r], paid |-> PaidFrom(r)]

WindowOver(r) == now > meta[r].challenge_deadline

Expired(r) == now >= round_challenge[r].challenged_at + ChallengeTimeout

\* A call that a client knows of takes effect.
CallRuns(r, op, u) ==
    /\ Calls!Allowed(op, u, SeenRound(r), WindowOver(r), Expired(r))
    /\ SeenRound(r)' = Calls!After(op, u, SeenRound(r))

\* From when a round is decided or has ended, it changes by such a call only;
\* nobody was paid before, a window that is over stays over, and a challenge has
\* its time from when it is made until that is up.
EndsByCalls(r) ==
    IF round_status[r] \in {"none", "open"}
    THEN round_status'[r] \notin {"none", "open"} =>
             /\ SeenRound(r)'.paid = [u \in Account |-> 0]
             /\ round_status'[r] = "decided_pending" => ~WindowOver(r)'
    ELSE /\ WindowOver(r) => WindowOver(r)'
         /\ round_status'[r] = "challenged" =>
                IF round_status[r] = "challenged" THEN Expired(r) => Expired(r)'
                ELSE ~Expired(r)'
         /\ \/ SeenRound(r)' = SeenRound(r)
            \/ \E op \in Calls!Op, u \in Account : CallRuns(r, op, u)

\* The methods are these calls.
AnswersCalls(r) ==
    \A u \in Account :
        /\ Finalize(r) => CallRuns(r, "finalize", u)
        /\ \A c \in Content, bond \in Amounts :
               Challenge(r, u, c, bond) => CallRuns(r, "challenge", u)
        /\ ResolveChallenge(r) => CallRuns(r, "resolve_challenge", u)
        /\ Settle(r) => CallRuns(r, "settle", u)
        /\ Claim(r, u) => CallRuns(r, "claim", u)

\* Time does not run back.
LEMMA ClockRuns ==
    ASSUME Inductive, [Next]_vars
    PROVE  now \in Nat /\ now' \in Nat /\ now <= now'
<1>1. now \in Nat
  BY DEF Inductive, TypeOK
<1>2. now' = now \/ now' = now + 1
  BY DEF Next, Tick, SubmitInterpretation, BackInterpretation, Adjudicate, Challenge,
         ResolveChallenge, Finalize, FinalizeRound, CancelRound, Settle, Claim, AddSource,
         ClaimSourceBond, CloseMonocle, CancelClose, FinalizeClose, FlushResidual, vars
<1> QED
  BY <1>1, <1>2

\* Nobody claims, nobody is paid.
LEMMA PaidKept ==
    ASSUME NEW r \in Rounds, ClaimsKept(r)
    PROVE  PaidFrom(r)' = PaidFrom(r)
<1>1. \A u \in Account : (IF <<r, u>> \in claimed' THEN 1 ELSE 0)
                             = (IF <<r, u>> \in claimed THEN 1 ELSE 0)
  BY DEF ClaimsKept
<1> QED
  BY <1>1 DEF PaidFrom

\* finalize, after the window or once the challenge has expired
LEMMA FinalizeIsCall ==
    ASSUME Inductive, NEW r \in Rounds, NEW u \in Account, Finalize(r)
    PROVE  CallRuns(r, "finalize", u)
<1>1. \/ round_status[r] = "decided_pending" /\ WindowOver(r)
      \/ round_status[r] = "challenged" /\ Expired(r)
  BY DEF Finalize, WindowOver, Expired
<1>2. ClaimsKept(r) /\ round_status'[r] = "finalized"
  BY WinningChanges DEF RoundWon
<1>3. SeenRound(r)' = [SeenRound(r) EXCEPT !.status = "finalized"]
  BY <1>2, PaidKept DEF SeenRound
<1> QED
  BY <1>1, <1>3 DEF CallRuns, Calls!Allowed, Calls!After, SeenRound

\* resolve_challenge, whatever the arbiter answers
LEMMA ResolveIsCall ==
    ASSUME Inductive, NEW r \in Rounds, NEW u \in Account, ResolveChallenge(r)
    PROVE  CallRuns(r, "resolve_challenge", u)
<1>1. round_status[r] = "challenged"
  BY DEF ResolveChallenge
<1>2. ClaimsKept(r) /\ round_status'[r] = "finalized"
  BY WinningChanges DEF RoundWon
<1>3. SeenRound(r)' = [SeenRound(r) EXCEPT !.status = "finalized"]
  BY <1>2, PaidKept DEF SeenRound
<1> QED
  BY <1>1, <1>3 DEF CallRuns, Calls!Allowed, Calls!After, SeenRound

\* challenge, of a verdict whose window is open
LEMMA ChallengeIsCall ==
    ASSUME Inductive, NEW r \in Rounds, NEW u \in Account,
           RoundJudged(r), round_status[r] = "decided_pending"
    PROVE  CallRuns(r, "challenge", u)
<1>1. ~WindowOver(r)
  <2>1. now \in Nat /\ meta[r].challenge_deadline \in Nat /\ now <= meta[r].challenge_deadline
    BY DEF RoundJudged, Inductive, TypeOK, MetaType
  <2> QED
    BY <2>1 DEF WindowOver
<1>2. ClaimsKept(r) /\ round_status'[r] = "challenged"
  BY DEF RoundJudged
<1>3. SeenRound(r)' = [SeenRound(r) EXCEPT !.status = "challenged"]
  BY <1>2, PaidKept DEF SeenRound
<1> QED
  BY <1>1, <1>3 DEF CallRuns, Calls!Allowed, Calls!After, SeenRound

\* settle, whatever makes a round go from finalized to settled
LEMMA SettleIsCall ==
    ASSUME NEW r \in Rounds, NEW u \in Account, ClaimsKept(r),
           round_status[r] = "finalized", round_status'[r] = "settled"
    PROVE  CallRuns(r, "settle", u)
<1>1. SeenRound(r)' = [SeenRound(r) EXCEPT !.status = "settled"]
  BY PaidKept DEF SeenRound
<1> QED
  BY <1>1 DEF CallRuns, Calls!Allowed, Calls!After, SeenRound

\* claim
LEMMA ClaimIsCall ==
    ASSUME Inductive, NEW r \in Rounds, NEW u \in Account, Claim(r, u)
    PROVE  CallRuns(r, "claim", u)
<1>1. /\ round_status[r] \in ClaimableStatus /\ round_status'[r] = round_status[r]
      /\ <<r, u>> \notin claimed /\ claimed' = claimed \cup {<<r, u>>}
  BY ClaimOnce
<1>2. Calls!Allowed("claim", u, SeenRound(r), WindowOver(r), Expired(r))
  BY <1>1 DEF Calls!Allowed, SeenRound, PaidFrom, ClaimableStatus, RefundStatus, Calls!RefundStatus
<1>3. SeenRound(r).paid[u] = 0
  BY <1>1 DEF SeenRound, PaidFrom
<1>4. SeenRound(r)' = [SeenRound(r) EXCEPT !.paid[u] = 1]
  <2>1. PaidFrom(r)' = [PaidFrom(r) EXCEPT ![u] = 1]
    BY <1>1 DEF PaidFrom
  <2> QED
    BY <1>1, <2>1 DEF SeenRound
<1> QED
  BY <1>2, <1>3, <1>4 DEF CallRuns, Calls!After, SeenRound

\* Before a round is claimable nobody has claimed from it.
LEMMA NobodyPaid ==
    ASSUME Inductive, NEW r \in Rounds, ClaimsKept(r), round_status[r] \in {"none", "open"}
    PROVE  SeenRound(r)'.paid = [u \in Account |-> 0]
<1>1. \A u \in Account : <<r, u>> \notin claimed
  BY DEF Inductive, RoundRecords, SettlementRecords, Claimable, ClaimableStatus, RefundStatus
<1> QED
  BY <1>1 DEF SeenRound, PaidFrom, ClaimsKept

\* A round is decided or challenged: what a client knows of it stays, or nobody
\* was paid and its window lies ahead.
LEMMA JudgedByCalls ==
    ASSUME Inductive, NEW r \in Rounds, RoundJudged(r)
    PROVE  EndsByCalls(r)
<1>1. ClaimsKept(r) /\ now' = now /\ now \in Nat
  BY DEF RoundJudged, Inductive, TypeOK
<1>3. CASE round_status[r] = "open"
  <2>1. meta'[r].challenge_deadline = now + ChallengeWindow
    BY <1>3 DEF RoundJudged
  <2>2. ~WindowOver(r)'
    BY <1>1, <2>1, TimeAssumption DEF WindowOver
  <2>3. SeenRound(r)'.paid = [u \in Account |-> 0]
    BY <1>1, <1>3, NobodyPaid
  <2> QED
    BY <1>3, <2>2, <2>3 DEF EndsByCalls
<1>4. CASE round_status[r] = "decided_pending"
  <2>1. /\ round_status'[r] = "challenged"
        /\ meta'[r].challenge_deadline = meta[r].challenge_deadline
    BY <1>4 DEF RoundJudged
  <2>2. WindowOver(r) => WindowOver(r)'
    BY <1>1, <2>1 DEF WindowOver
  <2>3. ~Expired(r)'
    <3>1. round_challenge'[r].challenged_at = now
      BY <1>4 DEF RoundJudged
    <3> QED
      BY <1>1, <3>1, TimeAssumption DEF Expired
  <2>4. CallRuns(r, "challenge", Creator) /\ Creator \in Account /\ "challenge" \in Calls!Op
    BY <1>4, ChallengeIsCall, AccountAssumption DEF Calls!Op
  <2> QED
    BY <1>4, <2>2, <2>3, <2>4 DEF EndsByCalls
<1> QED
  BY <1>3, <1>4 DEF RoundJudged

\* A round keeps its ledger: nothing happens, or it is settled.
LEMMA KeptByCalls ==
    ASSUME Inductive, [Next]_vars, NEW r \in Rounds, RoundKept(r)
    PROVE  EndsByCalls(r)
<1>1. ClaimsKept(r) /\ meta'[r] = meta[r]
  BY DEF RoundKept
<1>2. WindowOver(r) => WindowOver(r)'
  <2>1. meta[r].challenge_deadline \in Nat
    BY DEF Inductive, TypeOK, MetaType
  <2> QED
    BY <1>1, <2>1, ClockRuns DEF WindowOver
<1>3. CASE round_status'[r] = round_status[r]
  <2>1. SeenRound(r)' = SeenRound(r)
    BY <1>1, <1>3, PaidKept DEF SeenRound
  <2>2. Expired(r) => Expired(r)'
    <3>1. /\ round_challenge'[r] = round_challenge[r]
          /\ round_challenge[r].challenged_at \in Nat /\ ChallengeTimeout \in Nat
      BY TimeAssumption DEF RoundKept, Inductive, TypeOK, ChallengeType
    <3> QED
      BY <3>1, ClockRuns DEF Expired
  <2> QED
    BY <1>2, <1>3, <2>1, <2>2 DEF EndsByCalls
<1>4. CASE round_status[r] = "finalized" /\ round_status'[r] = "settled"
  <2>1. CallRuns(r, "settle", Creator) /\ Creator \in Account /\ "settle" \in Calls!Op
    BY <1>1, <1>4, SettleIsCall, AccountAssumption DEF Calls!Op
  <2> QED
    BY <1>2, <1>4, <2>1 DEF EndsByCalls
<1> QED
  BY <1>3, <1>4 DEF RoundKept

\* A round is won: by finalize after its window, or by the answer to a challenge.
LEMMA WonByCalls ==
    ASSUME Inductive, [Next]_vars, NEW r \in Rounds, ResolveChallenge(r) \/ Finalize(r)
    PROVE  EndsByCalls(r)
<1>1. PICK winner, outcome : RoundWon(r, winner, outcome)
  BY WinningChanges
<1>2. /\ ClaimsKept(r) /\ round_status'[r] = "finalized"
      /\ round_status[r] \in {"decided_pending", "challenged"}
  BY <1>1 DEF RoundWon, PendingStatus
<1>3. WindowOver(r) => WindowOver(r)'
  <2>1. meta[r] \in MetaType
    BY DEF Inductive, TypeOK
  <2> DEFINE m == meta[r]
             total == interpretations[r][winner].total_stake
             bonus == Bonus(r)
             payout == ChallengerPayout(outcome, m.challenge_bond, m.stake_pool)
             pot == Pot(m.stake_pool, Bonus(r), m.challenge_bond, payout)
  <2>2. meta'[r] = [m EXCEPT !.pending_winner = winner, !.winner_id = winner,
                             !.winner_total = total, !.bonus = bonus, !.pot = pot,
                             !.challenger_payout = payout]
    BY <1>1 DEF RoundWon
  <2> HIDE DEF total, bonus, payout, pot
  <2>3. /\ meta'[r].challenge_deadline = meta[r].challenge_deadline
        /\ meta[r].challenge_deadline \in Nat
    BY <2>1, <2>2 DEF MetaType
  <2> QED
    BY <2>3, ClockRuns DEF WindowOver
<1>4. \E op \in Calls!Op : CallRuns(r, op, Creator)
  <2>1. Creator \in Account /\ {"finalize", "resolve_challenge"} \subseteq Calls!Op
    BY AccountAssumption DEF Calls!Op
  <2> QED
    BY <2>1, FinalizeIsCall, ResolveIsCall
<1> QED
  BY <1>2, <1>3, <1>4, AccountAssumption DEF EndsByCalls

\* An account claims.
LEMMA ClaimedByCalls ==
    ASSUME Inductive, [Next]_vars, NEW r \in Rounds, NEW a \in Account, Claim(r, a)
    PROVE  EndsByCalls(r)
<1>1. CallRuns(r, "claim", a) /\ "claim" \in Calls!Op
  BY ClaimIsCall DEF Calls!Op
<1>2. round_status[r] \notin {"none", "open", "challenged"} /\ round_status'[r] = round_status[r]
  BY ClaimOnce DEF ClaimableStatus, RefundStatus
<1>3. WindowOver(r) => WindowOver(r)'
  <2> DEFINE taken == meta[r].claimed_winner_stake + WinnerStake(r, a)
             paid == meta[r].paid_winners + WinnerShare(r, a)
  <2>1. meta[r] \in MetaType /\ meta'[r] = AfterClaim(r, a)
    BY DEF Inductive, TypeOK, Claim
  <2>2. \/ AfterClaim(r, a) = meta[r]
        \/ AfterClaim(r, a) = [meta[r] EXCEPT !.claimed_winner_stake = taken,
                                              !.paid_winners = paid]
    BY DEF AfterClaim
  <2> HIDE DEF taken, paid
  <2>3. /\ meta'[r].challenge_deadline = meta[r].challenge_deadline
        /\ meta[r].challenge_deadline \in Nat
    BY <2>1, <2>2 DEF MetaType
  <2> QED
    BY <2>3, ClockRuns DEF WindowOver
<1> QED
  BY <1>1, <1>2, <1>3 DEF EndsByCalls

\* Whatever the step, a round changes as its clients believe.
LEMMA StepByCalls ==
    ASSUME Inductive, BlankStakes, [Next]_vars, NEW r \in Rounds
    PROVE  EndsByCalls(r)
<1>1. ASSUME RoundOpened(r) \/ \E c, a, amount : RoundStaked(r, c, a, amount)
      PROVE  EndsByCalls(r)
  BY <1>1 DEF RoundOpened, RoundStaked, EndsByCalls
<1>2. CASE RoundEnds(r)
  <2>1. round_status[r] = "open" /\ round_status'[r] \in RefundStatus /\ ClaimsKept(r)
    BY <1>2 DEF RoundEnds
  <2>2. SeenRound(r)'.paid = [u \in Account |-> 0]
    BY <2>1, NobodyPaid
  <2> QED
    BY <2>1, <2>2 DEF EndsByCalls, RefundStatus
<1>3. ASSUME NEW k \in Rounds, ResolveChallenge(k) \/ Finalize(k)
      PROVE  EndsByCalls(r)
  <2>1. r = k \/ RoundOpened(r) \/ RoundKept(r)
    BY <1>3, WinningChanges
  <2> QED
    BY <1>1, <1>3, <2>1, WonByCalls, KeptByCalls
<1>4. ASSUME NEW k \in Rounds, NEW c, NEW a, NEW amount, Staking(k, c, a, amount)
      PROVE  EndsByCalls(r)
  <2>1. RoundStaked(r, c, a, amount) \/ RoundKept(r)
    BY <1>4 DEF Staking
  <2> QED
    BY <1>1, <2>1, KeptByCalls
<1>5. CASE RoundMoves(r)
  BY <1>1, <1>2, <1>5, JudgedByCalls, KeptByCalls, ClaimedByCalls DEF RoundMoves
<1> QED
  BY <1>3, <1>4, <1>5, StepMoves

\* A client sees the engine's round: once it is decided or has ended, challenge,
\* resolve_challenge, finalize, settle and claim change it, under the guards and in
\* the way module RoundCalls says and SdkWrite rests on; nothing else does.
THEOREM RoundsEndByCalls ==
    Spec => [][\A r \in Rounds : EndsByCalls(r) /\ AnswersCalls(r)]_vars
<1>1. ASSUME Inductive, NEW r \in Rounds PROVE AnswersCalls(r)
  <2>1. ASSUME NEW u \in Account, Settle(r) PROVE CallRuns(r, "settle", u)
    <3>1. /\ ClaimsKept(r) /\ round_status[r] = "finalized"
          /\ round_status'[r] = "settled"
      BY <1>1, <2>1 DEF Settle, ClaimsKept, TypeOK, Inductive
    <3> QED
      BY <3>1, SettleIsCall
  <2>2. ASSUME NEW u \in Account, NEW c \in Content, NEW bond \in Amounts,
               Challenge(r, u, c, bond)
        PROVE  CallRuns(r, "challenge", u)
    <3>1. RoundJudged(r) /\ round_status[r] = "decided_pending"
      BY <1>1, <2>2, ChallengeChanges DEF Challenge
    <3> QED
      BY <1>1, <3>1, ChallengeIsCall
  <2> QED
    BY <1>1, <2>1, <2>2, FinalizeIsCall, ResolveIsCall, ClaimIsCall DEF AnswersCalls
<1>2. Inductive /\ Ledgers /\ [Next]_vars
      => [\A r \in Rounds : EndsByCalls(r) /\ AnswersCalls(r)]_vars
  BY <1>1, StepByCalls DEF Ledgers
<1> QED
  BY <1>2, LedgersInvariant, PTL DEF Spec

===============================================================================
