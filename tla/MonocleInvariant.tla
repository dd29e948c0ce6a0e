--------------------------- MODULE MonocleInvariant ---------------------------
(***************************************************************************)
(* The inductive invariant of one engine: what a public method may assume  *)
(* when it starts, and leaves true when it returns.                        *)
(***************************************************************************)
EXTENDS MonocleProperties

Undecided(r) == round_status[r] \in {"none", "open"} \cup RefundStatus

\* Stakes are recorded in rounds that were opened, below the bound of the
\* rounds, and every submitted interpretation carries its author's bond.
StakedRounds ==
    \A r \in Rounds :
        /\ Ids(r) # {} => r < MaxRound /\ round_status[r] # "none"
        /\ \A c \in Ids(r) : interpretations[r][c].total_stake > 0

\* A round has a verdict when its status says so, and it names an
\* interpretation of the round.
VerdictRecords ==
    \A r \in Rounds :
        /\ Undecided(r) => meta[r].pending_winner = None
        /\ round_status[r] \in PendingStatus => meta[r].pending_winner \in Ids(r)
        /\ round_status[r] \in FinalStatus => meta[r].pending_winner = meta[r].winner_id

\* A round has a challenge record when its status says so; the bond is in the
\* ledger of the round; the alternative was submitted and is not the verdict.
ChallengeRecords ==
    \A r \in Rounds :
        /\ Undecided(r) \/ round_status[r] = "decided_pending" =>
               round_challenge[r] = NoChallenge /\ meta[r].challenge_bond = 0
        /\ round_status[r] = "challenged" =>
               /\ round_challenge[r].challenger \in Account
               /\ round_challenge[r].outcome = "open"
               /\ round_challenge[r].alternative_id \in Ids(r)
               /\ round_challenge[r].alternative_id # meta[r].pending_winner
               /\ round_challenge[r].original_winner = meta[r].pending_winner

\* Before a round is final its settlement fields are blank, and nobody has
\* claimed from a round that is not claimable.
SettlementRecords ==
    /\ \A r \in Rounds : round_status[r] \notin FinalStatus =>
           /\ meta[r].bonus = 0
           /\ meta[r].paid_winners = 0
           /\ meta[r].claimed_winner_stake = 0
    /\ \A r \in Rounds : round_status[r] = "none" => bucket_round[r] = 0
    /\ \A r \in Rounds, a \in Account : <<r, a>> \in claimed => Claimable(r)

\* The winners of a final round never draw more than the pot: while some of
\* the winning stake is unclaimed, what was paid is at most pro rata.
PotCovers ==
    \A r \in Finals :
        /\ meta[r].winner_total > 0
        /\ meta[r].paid_winners <= meta[r].pot
        /\ meta[r].claimed_winner_stake < meta[r].winner_total =>
               meta[r].paid_winners * meta[r].winner_total
                   <= meta[r].claimed_winner_stake * meta[r].pot

\* What the next adjudication compares itself with belongs to the round behind
\* the live output.
LiveRecords ==
    live.round # 0 =>
        /\ live.judged = Ids(live.round)
        /\ live.evidence_hash = evidence_hash[live.round]

\* The second conjunct of VaultConserved.
NativeTracked == vault_tracked = balance

\* The timers of the current round were set in the past.
TimersPast ==
    /\ meta[current_round].opened_at <= now
    /\ close_requested_at <= now

\* The parts that speak of the rounds and the live output only.
RoundRecords ==
    /\ StakedRounds
    /\ VerdictRecords
    /\ ChallengeRecords
    /\ SettlementRecords
    /\ RoundLedger
    /\ PotCovers
    /\ LiveOutputIsFinal
    /\ LiveRecords
    /\ WinnerJustified
    /\ UnchangedIsStale

Inductive ==
    /\ TypeOK
    /\ OneRoundInFlight
    /\ RoundRecords
    /\ NativeTracked
    /\ ClosedIsQuiescent
    /\ TimersPast
    /\ ClosingDrains

-----------------------------------------------------------------------------
(* The ledgers: what is needed besides Inductive for the sums.             *)

\* Nobody has staked on a content that was not submitted.
BlankStakes ==
    \A r \in Rounds : \A c \in Content \ Ids(r) : interpretations[r][c] = NoInterpretation

\* A refunded round still holds the stake of every account that has not claimed.
RefundsCovered ==
    \A r \in Rounds : round_status[r] \in RefundStatus =>
        bucket_round[r] =
            SumFunction([a \in Account |-> IF <<r, a>> \in claimed THEN 0 ELSE OwnStake(r, a)])

\* The winning stake counted as claimed is that of the accounts that claimed;
\* when it is all of it, the whole pot was paid.
WinnersPaid ==
    \A r \in Finals :
        /\ meta[r].claimed_winner_stake =
               SumFunction([a \in Account |-> IF <<r, a>> \in claimed THEN WinnerStake(r, a) ELSE 0])
        /\ meta[r].claimed_winner_stake >= meta[r].winner_total =>
               meta[r].paid_winners = meta[r].pot

\* The pot of a final round follows from its stakes, bonus and bond, and from
\* how its challenge ended.
PotRecords ==
    \A r \in Finals :
        LET m == meta[r] IN
        /\ m.challenger_payout =
               ChallengerPayout(round_challenge[r].outcome, m.challenge_bond, m.stake_pool)
        /\ m.pot = Pot(m.stake_pool, m.bonus, m.challenge_bond, m.challenger_payout)

Ledgers ==
    /\ VaultConserved
    /\ StakeBooksAgree
    /\ BlankStakes
    /\ SourceBondsCovered
    /\ ForfeitsReachWinners
    /\ RefundsCovered
    /\ WinnersPaid
    /\ PotRecords

=============================================================================
