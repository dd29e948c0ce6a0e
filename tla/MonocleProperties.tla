-------------------------- MODULE MonocleProperties --------------------------
(***************************************************************************)
(* What one engine promises: its custody ledger, its rounds, its live      *)
(* output, its source bonds and its close.                                 *)
(***************************************************************************)
EXTENDS Monocle

AccountOrNone == Account \cup {None}
ContentOrNone == Content \cup {None}

MetaType ==
    [opened_at : Nat, stake_pool : Nat, bonus : Nat, challenge_bond : Nat,
     pending_winner : ContentOrNone, challenge_deadline : Nat,
     winner_id : ContentOrNone, winner_total : Nat, pot : Nat,
     challenger_payout : Nat, paid_winners : Nat, claimed_winner_stake : Nat]

InterpretationType ==
    [author : AccountOrNone, total_stake : Nat, backers : [Account -> Nat]]

ChallengeType ==
    [challenger : AccountOrNone, alternative_id : ContentOrNone,
     original_winner : ContentOrNone, bond : Nat, challenged_at : Nat,
     outcome : {"none", "open", "upheld", "rejected", "unresolved", "expired"}]

LiveType ==
    [id : ContentOrNone, round : Nat, evidence_hash : Snapshot,
     judged : SUBSET Content]

SourceType ==
    [added_by : AccountOrNone, add_bond : Nat,
     bond_status : {"absent", "none", "locked", "refundable", "refunded", "forfeited"},
     misses : Nat, last_fetch_ok : BOOLEAN]

ReputationType ==
    [decided_wins : Nat, decided_losses : Nat, inconclusive_participations : Nat,
     challenges_won : Nat, challenges_lost : Nat]

\* Every variable holds what the contract's storage may hold; in particular no
\* bucket, pot or counter is ever negative (they are u256 in the code).
TypeOK ==
    /\ now \in Nat
    /\ status \in {"active", "closing", "closed"}
    /\ close_requested_at \in Nat
    /\ current_round \in Rounds
    /\ round_status \in [Rounds -> RoundStatus]
    /\ meta \in [Rounds -> MetaType]
    /\ interpretations \in [Rounds -> [Content -> InterpretationType]]
    /\ round_challenge \in [Rounds -> ChallengeType]
    /\ evidence_hash \in [Rounds -> Snapshot]
    /\ claimed \subseteq Rounds \X Account
    /\ live \in LiveType
    /\ source_records \in [Source -> SourceType]
    /\ reputation \in [Account -> ReputationType]
    /\ total_stake_all_time \in Nat
    /\ bucket_round \in [Rounds -> Nat]
    /\ bucket_sources \in Nat
    /\ bucket_carry \in Nat
    /\ bucket_residual \in Nat
    /\ vault_tracked \in Nat
    /\ balance \in Nat

-----------------------------------------------------------------------------
(* Custody                                                                 *)

\* MonocleVault's first two promises: the buckets add up to vault_tracked, and
\* the contract's native balance covers it (it is equal to it, since every
\* unit arrives with a call that credits a bucket).
VaultConserved ==
    /\ vault_tracked = SumFunction(bucket_round) + bucket_sources
                           + bucket_carry + bucket_residual
    /\ vault_tracked = balance

\* The three records of the same stakes agree: backers per account, total_stake
\* per interpretation, stake_pool per round, total_stake_all_time.
StakeBooksAgree ==
    /\ total_stake_all_time = SumFunction([r \in Rounds |-> meta[r].stake_pool])
    /\ \A r \in Rounds :
        /\ meta[r].stake_pool =
               SumFunction([c \in Content |-> interpretations[r][c].total_stake])
        /\ \A c \in Content :
               interpretations[r][c].total_stake = SumFunction(interpretations[r][c].backers)

\* No call moves money that the books do not follow: the custody ledger and the
\* stake records hold together, whatever was staked, forfeited, moved or paid.
BooksAgree == VaultConserved /\ StakeBooksAgree

Claimable(r) == round_status[r] \in ClaimableStatus

Unclaimed(r) == {a \in Account : Participated(r, a) /\ <<r, a>> \notin claimed}

ChallengerUnpaid(r) ==
    IF round_challenge[r].challenger # None /\ <<r, round_challenge[r].challenger>> \notin claimed
    THEN meta[r].challenger_payout ELSE 0

\* The bucket of a round holds exactly what its ledger says: everything that
\* came in until the round is final, and afterwards the rest of the pot and the
\* challenger's unclaimed payout.  (_finalize_round, _owed, claim)
RoundLedger ==
    \A r \in Rounds :
        /\ round_status[r] \in {"open"} \cup PendingStatus =>
               bucket_round[r] = meta[r].stake_pool + meta[r].bonus + meta[r].challenge_bond
        /\ round_status[r] \in FinalStatus =>
               bucket_round[r] = meta[r].pot - meta[r].paid_winners + ChallengerUnpaid(r)

\* No claim that _owed grants can be refused by the vault, whatever was claimed
\* before it and in which order.
EveryClaimPayable ==
    \A r \in Rounds : Claimable(r) =>
        \A a \in Unclaimed(r) :
            /\ Owed(r, a) >= 0
            /\ Owed(r, a) <= bucket_round[r]
            /\ Owed(r, a) <= vault_tracked

\* A claimable round whose participants have all claimed holds nothing: no
\* rounding dust, no orphaned bond.
NothingStrands ==
    \A r \in Rounds : Claimable(r) /\ Unclaimed(r) = {} => bucket_round[r] = 0

\* A winner gets at least the stake back, unless a challenge was upheld; then
\* the challenger's reward costs at most RewardBps of it.
WinnersMadeWhole ==
    [][\A r \in Rounds, a \in Account :
           /\ <<r, a>> \in claimed' \ claimed
           /\ round_status[r] = "settled"
           /\ WinnerStake(r, a) > 0
           => LET got == bucket_round[r] - bucket_round'[r] IN
              IF round_challenge[r].outcome = "upheld"
              THEN got >= (WinnerStake(r, a) * (10000 - RewardBps)) \div 10000
              ELSE got >= WinnerStake(r, a)]_vars

-----------------------------------------------------------------------------
(* Rounds and the live output                                              *)

\* Only the current round may be undecided; every earlier round can be settled
\* or claimed, and none is open after the engine has closed.
OneRoundInFlight ==
    \A r \in Rounds :
        /\ r < current_round => round_status[r] \in FinalStatus \cup RefundStatus
        /\ r > current_round => round_status[r] = "none"
        /\ r = current_round =>
               IF status = "closed" THEN round_status[r] = "cancelled"
               ELSE round_status[r] \in {"open"} \cup PendingStatus

\* A verdict that was published is honoured: its round ends final, never in a
\* refund, even when the engine is being closed.
PendingNeverRefunded ==
    \A r \in Rounds : round_status[r] \in RefundStatus =>
        meta[r].pending_winner = None /\ meta[r].challenge_bond = 0

Finals == {r \in Rounds : round_status[r] \in FinalStatus}

\* What agents read as live is the winner of the latest final round, never a
\* pending verdict.  (get_live_interpretation)
LiveOutputIsFinal ==
    IF live.round = 0
    THEN Finals = {} /\ live.id = None
    ELSE /\ live.round \in Finals
         /\ \A r \in Finals : r <= live.round
         /\ live.id = meta[live.round].winner_id

\* A final winner was submitted in its round, and differs from the verdict that
\* was published only when a challenge was upheld.
WinnerJustified ==
    \A r \in Finals :
        /\ meta[r].winner_id \in Ids(r)
        /\ meta[r].winner_total = interpretations[r][meta[r].winner_id].total_stake
        /\ round_challenge[r].outcome # "open"
        /\ round_challenge[r].challenger # None =>
               meta[r].winner_id =
                   IF round_challenge[r].outcome = "upheld"
                   THEN round_challenge[r].alternative_id
                   ELSE round_challenge[r].original_winner

\* Nobody can stake on a verdict that is known: the stakes of a round stay as
\* they were when it was decided, and once it is final so do its winner and pot.
DecidedRoundsFrozen ==
    [][\A r \in Rounds :
        /\ round_status[r] \notin {"none", "open"} =>
               /\ interpretations'[r] = interpretations[r]
               /\ meta'[r].stake_pool = meta[r].stake_pool
        /\ round_status[r] \in FinalStatus =>
               /\ round_status'[r] \in FinalStatus
               /\ meta'[r].winner_id = meta[r].winner_id
               /\ meta'[r].pot = meta[r].pot
               /\ meta'[r].challenger_payout = meta[r].challenger_payout]_vars

\* "unchanged" is only returned for a round that offers nothing beyond what the
\* last final round before it judged, on the same evidence.
UnchangedIsStale ==
    \A r \in Rounds : round_status[r] = "unchanged" =>
        \E k \in Finals :
            /\ k < r
            /\ \A j \in Finals : j < r => j <= k
            /\ Ids(r) \subseteq Ids(k)
            /\ evidence_hash[r] = evidence_hash[k]

\* The local reputation counters are what the outcomes of the rounds say.
ReputationMatchesOutcomes ==
    LET Over(S, f) == SumFunctionOnSet(f, S)
        NoWinner == {r \in Rounds : round_status[r] \in {"inconclusive", "unchanged"}}
    IN  \A a \in Account :
        /\ reputation[a].decided_wins =
               Cardinality({r \in Finals : interpretations[r][meta[r].winner_id].author = a})
        /\ reputation[a].decided_losses =
               Over(Finals, [r \in Rounds |-> Cardinality(Authored(r, a) \ {meta[r].winner_id})])
        /\ reputation[a].inconclusive_participations =
               Over(NoWinner, [r \in Rounds |-> Cardinality(Authored(r, a))])
        /\ reputation[a].challenges_won =
               Cardinality({r \in Finals : Challenged(r, a) /\ round_challenge[r].outcome = "upheld"})
        /\ reputation[a].challenges_lost =
               Cardinality({r \in Finals : Challenged(r, a) /\ round_challenge[r].outcome = "rejected"})

\* The engine as an agent sees it: what get_round_info, get_finality and
\* get_live_interpretation return.
FeedPhase ==
    [r \in Rounds |->
        CASE round_status[r] = "decided_pending" -> "pending"
          [] round_status[r] = "challenged" -> "contested"
          [] round_status[r] \in FinalStatus -> "final"
          [] round_status[r] \in RefundStatus -> "refunded"
          [] OTHER -> "undecided"]

FeedSince ==
    [r \in Rounds |->
        IF round_challenge[r].challenger # None THEN round_challenge[r].challenged_at
        ELSE IF meta[r].pending_winner # None
             THEN meta[r].challenge_deadline - ChallengeWindow
             ELSE 0]

FeedVerdict == [r \in Rounds |-> meta[r].pending_winner]

FeedRival == [r \in Rounds |-> round_challenge[r].alternative_id]

Feed == INSTANCE LiveFeed WITH
    Window <- ChallengeWindow,
    phase <- FeedPhase,
    verdict <- FeedVerdict,
    rival <- FeedRival,
    since <- FeedSince,
    live <- [round |-> live.round, id |-> live.id]

\* The engine implements the feed: a published verdict can be contested for the
\* whole window, becomes final only after it or after a contest, in the order
\* of the rounds, and is never withdrawn.
FeedSpec == Feed!Spec

-----------------------------------------------------------------------------
(* Source bonds                                                            *)

BondsWith(statuses) ==
    SumFunctionOnSet(Bonds, {s \in Source : source_records[s].bond_status \in statuses})

\* The sources bucket holds exactly the bonds that are still to be returned or
\* forfeited.
SourceBondsCovered == bucket_sources = BondsWith({"locked", "refundable"})

\* Forfeited bonds are never lost: they wait in carry or are part of a pot.
ForfeitsReachWinners ==
    status # "closed" =>
        BondsWith({"forfeited"}) =
            bucket_carry + SumFunction([r \in Rounds |-> meta[r].bonus])

\* A bond is forfeited only in a pass in which another source answered, so a
\* global outage costs nobody a bond, and only while the bond was never earned.
ForfeitJustified ==
    [][\A s \in Source :
           /\ source_records'[s].bond_status = "forfeited"
           /\ source_records[s].bond_status # "forfeited"
           => /\ source_records[s].bond_status = "locked"
              /\ \E t \in Source \ {s} : source_records'[t].last_fetch_ok]_vars

-----------------------------------------------------------------------------
(* Close                                                                   *)

\* After the close nothing is pending and nothing is held back: no bond is
\* locked and no forfeit is waiting for a pot.
ClosedIsQuiescent ==
    status = "closed" =>
        /\ \A r \in Rounds : round_status[r] \notin {"open"} \cup PendingStatus
        /\ bucket_carry = 0
        /\ \A s \in Source : source_records[s].bond_status # "locked"

\* A round opened while the engine is closing stays empty, so at most one
\* verdict can delay the close.  (docs/AUDIT.md, B10)
ClosingDrains ==
    status = "closing" /\ meta[current_round].opened_at > close_requested_at =>
        Ids(current_round) = {}

\* docs/AUDIT.md B10: "No new capital can enter while closing".
NoCapitalWhileClosing ==
    [][status = "closing" => vault_tracked' <= vault_tracked]_vars

-----------------------------------------------------------------------------
(* Liveness                                                                *)

\* A round whose timeout lies within the horizon becomes claimable: by cancel
\* if nobody adjudicates it, by finalize and settle once it is decided, even if
\* it is challenged and no arbiter ever answers.
EveryRoundClaimable ==
    \A r \in Rounds :
        (\/ round_status[r] \in PendingStatus \cup FinalStatus
         \/ /\ round_status[r] = "open"
            /\ r < MaxRound
            /\ meta[r].opened_at + RoundTimeout <= MaxTime)
        ~> round_status[r] \in ClaimableStatus

\* A requested close completes unless the creator withdraws it.
CloseCompletes ==
    status = "closing" ~> status \in {"active", "closed"}

=============================================================================
