------------------------------- MODULE Monocle -------------------------------
(***************************************************************************)
(* One MONOCLE interpretation engine (src/contracts/Monocle.py): its       *)
(* rounds, stakes, challenges, settlement, source bonds, timelocked close  *)
(* and the custody ledger MonocleVault.                                    *)
(*                                                                         *)
(* A public method of the contract is one transaction: it either commits   *)
(* all of its writes or, when it raises UserError, none of them.  So every *)
(* method is one action, its error paths are the states where the action   *)
(* is disabled, and the round statuses "adjudicating" and "resolving",     *)
(* which a method sets and overwrites before it returns, are never seen    *)
(* between transactions.                                                   *)
(*                                                                         *)
(* An interpretation is identified by its round and its content: within a  *)
(* round the code refuses a second interpretation with the same content    *)
(* hash.  The verdict of the adjudicator (a language model behind leader   *)
(* and validators) is a nondeterministic choice among the outcomes the     *)
(* code accepts.                                                           *)
(*                                                                         *)
(* A definition marked "Mutant" is a plausible bug in the definition after *)
(* it; no action uses it.  It shows that a property can fail.              *)
(***************************************************************************)
EXTENDS Integers, FiniteSets, Functions

CONSTANTS
    Account,            \* addresses that call the contract
    Creator,            \* the account that may close it
    None,               \* no account, no interpretation
    Content,            \* contents of interpretations, up to content hash
    Source,             \* normalized source URLs
    InitialSources,     \* the sources given to the constructor
    Page,               \* what a source may serve, up to its fingerprint
    Unreliable,         \* environment: sources a fetch may fail for
    Claimants,          \* environment: accounts that come back for their money
    Amounts,            \* values a payable call may carry
    MinInterpretationBond, MinSourceBond, MinChallengeBond,
    MinSources, MaxSources, MaxInterpretations,
    ChallengeWindow, RoundTimeout, ChallengeTimeout, CloseTimelock,
    RewardBps,          \* CHALLENGE_REWARD_BPS
    MaxMisses,          \* SOURCE_BOND_MAX_MISSES
    MaxRound,           \* bound: round MaxRound is opened but never staked in
    MaxTime,            \* bound of the clock
    MaxPool             \* bound of the stake in one round

ASSUME AccountAssumption ==
    /\ IsFiniteSet(Account)
    /\ Creator \in Account
    /\ Claimants \subseteq Account
    /\ None \notin Account

ASSUME ContentAssumption ==
    /\ IsFiniteSet(Content)
    /\ None \notin Content

ASSUME SourceAssumption ==
    /\ IsFiniteSet(Source)
    /\ InitialSources \subseteq Source
    /\ Unreliable \subseteq Source
    /\ MinSources \in Nat
    /\ MaxSources \in Nat
    /\ MinSources <= Cardinality(InitialSources)
    /\ Cardinality(InitialSources) <= MaxSources
    /\ MaxMisses \in Nat \ {0}

\* The constructor refuses a minimum bond below 1.
ASSUME AmountAssumption ==
    /\ Amounts \subseteq Nat \ {0}
    /\ MinInterpretationBond \in Nat \ {0}
    /\ MinSourceBond \in Nat \ {0}
    /\ MinChallengeBond \in Nat \ {0}
    /\ RewardBps \in 0..10000
    /\ MaxInterpretations \in Nat
    /\ MaxPool \in Nat

\* The constructor refuses a challenge window below a minute.
ASSUME TimeAssumption ==
    /\ ChallengeWindow \in Nat \ {0}
    /\ RoundTimeout \in Nat \ {0}
    /\ ChallengeTimeout \in Nat \ {0}
    /\ CloseTimelock \in Nat \ {0}
    /\ MaxRound \in Nat \ {0}
    /\ MaxTime \in Nat

Rounds == 1..MaxRound

VARIABLES
    now,                    \* _consensus_now()
    status,                 \* "active", "closing", "closed"
    close_requested_at,
    current_round,
    round_status,           \* per round; "none" before it is opened
    meta,                   \* round_meta: per round, its ledger and its timers
    interpretations,        \* per round and content: author, stake, backers
    round_challenge,        \* per round: the challenge record
    evidence_hash,          \* per round: what its adjudication fetched
    claimed,                \* the pairs <<round, account>> that have claimed
    live,                   \* live output, and the evidence and contents behind it
    source_records,         \* per source: who added it, its bond, its misses
    reputation,             \* per account: local counters
    total_stake_all_time,
    bucket_round, bucket_sources, bucket_carry, bucket_residual,
    vault_tracked,
    balance                 \* the contract's native balance

lifecycleVars == <<status, close_requested_at>>
roundVars == <<current_round, round_status, meta>>
stakeVars == <<interpretations, total_stake_all_time>>
verdictVars == <<round_challenge, evidence_hash, live, reputation>>
vaultVars == <<bucket_round, bucket_sources, bucket_carry, bucket_residual,
               vault_tracked, balance>>
vars == <<now, lifecycleVars, roundVars, stakeVars, verdictVars,
          claimed, source_records, vaultVars>>

-----------------------------------------------------------------------------
(* Values                                                                  *)

RefundStatus == {"inconclusive", "cancelled", "unchanged"}
FinalStatus == {"finalized", "settled"}
PendingStatus == {"decided_pending", "challenged"}
ClaimableStatus == {"settled"} \cup RefundStatus
RoundStatus == {"none", "open"} \cup PendingStatus \cup FinalStatus \cup RefundStatus

\* What a fetch pass returned: the page of every source that answered.  The
\* code hashes exactly these (url, fingerprint) pairs.
Snapshot == UNION {[ok -> Page] : ok \in SUBSET Source}

NoSnapshot == [s \in {} |-> None]

BlankMeta(t) ==
    [opened_at |-> t, stake_pool |-> 0, bonus |-> 0, challenge_bond |-> 0,
     pending_winner |-> None, challenge_deadline |-> 0,
     winner_id |-> None, winner_total |-> 0, pot |-> 0, challenger_payout |-> 0,
     paid_winners |-> 0, claimed_winner_stake |-> 0]

NoInterpretation ==
    [author |-> None, total_stake |-> 0, backers |-> [a \in Account |-> 0]]

NoChallenge ==
    [challenger |-> None, alternative_id |-> None, original_winner |-> None,
     bond |-> 0, challenged_at |-> 0, outcome |-> "none"]

NoReputation ==
    [decided_wins |-> 0, decided_losses |-> 0, inconclusive_participations |-> 0,
     challenges_won |-> 0, challenges_lost |-> 0]

Ids(r) == {c \in Content : interpretations[r][c].author # None}

Authored(r, a) == {c \in Content : interpretations[r][c].author = a}

Present == {s \in Source : source_records[s].bond_status # "absent"}

-----------------------------------------------------------------------------
(* MonocleVault: value arrives with a call, moves between buckets, leaves. *)

\* credit(_round_bucket(r), gl.message.value)
CreditRound(r, amount) ==
    /\ bucket_round' = [bucket_round EXCEPT ![r] = @ + amount]
    /\ vault_tracked' = vault_tracked + amount
    /\ balance' = balance + amount
    /\ UNCHANGED <<bucket_sources, bucket_carry, bucket_residual>>

\* What leaves the vault: a debit above the bucket or above the tracked total
\* raises, which reverts the whole call.
Debit(bucket, amount) ==
    /\ amount \in 0..bucket
    /\ amount <= vault_tracked
    /\ vault_tracked' = vault_tracked - amount
    /\ balance' = balance - amount

-----------------------------------------------------------------------------
(* Rounds                                                                  *)

\* Mutant: no successor opens while the engine is closing.
AdvancesWhileActive(r) == current_round = r /\ status = "active"

\* _advance_round opens a successor only for the current round of an engine
\* that is not closed.
Advances(r) == current_round = r /\ status # "closed"

\* Round r takes its final status s and ledger m, and its successor opens.
LeaveRound(r, s, m) ==
    IF Advances(r)
    THEN /\ current_round' = r + 1
         /\ round_status' = [round_status EXCEPT ![r] = s, ![r + 1] = "open"]
         /\ meta' = [meta EXCEPT ![r] = m, ![r + 1] = BlankMeta(now)]
    ELSE /\ current_round' = current_round
         /\ round_status' = [round_status EXCEPT ![r] = s]
         /\ meta' = [meta EXCEPT ![r] = m]

\* Mutant: the status of the round is not looked at.
AcceptingWhateverTheRound == status = "active"

\* Mutant: a closing engine still accepts stakes.
AcceptingWhileClosing == status # "closed" /\ round_status[current_round] = "open"

\* _require_accepting
Accepting == status = "active" /\ round_status[current_round] = "open"

\* submit_interpretation.  The bond is the author's first stake.
SubmitInterpretation(a, c, amount) ==
    LET r == current_round IN
    /\ Accepting
    /\ r < MaxRound
    /\ amount >= MinInterpretationBond
    /\ Cardinality(Ids(r)) < MaxInterpretations
    /\ c \notin Ids(r)
    /\ meta[r].stake_pool + amount <= MaxPool
    /\ interpretations' = [interpretations EXCEPT ![r][c] =
           [author |-> a, total_stake |-> amount,
            backers |-> [b \in Account |-> IF b = a THEN amount ELSE 0]]]
    /\ meta' = [meta EXCEPT ![r].stake_pool = @ + amount]
    /\ total_stake_all_time' = total_stake_all_time + amount
    /\ CreditRound(r, amount)
    /\ UNCHANGED <<now, lifecycleVars, current_round, round_status, verdictVars,
                   claimed, source_records>>

\* Mutant: backing again replaces the earlier stake.
BackedAnew(rec, a, amount) ==
    [author |-> rec.author, total_stake |-> rec.total_stake + amount,
     backers |-> [rec.backers EXCEPT ![a] = amount]]

\* The interpretation after a has backed it, for the first time or again.
Backed(rec, a, amount) ==
    [author |-> rec.author, total_stake |-> rec.total_stake + amount,
     backers |-> [rec.backers EXCEPT ![a] = @ + amount]]

\* back_interpretation
BackInterpretation(a, c, amount) ==
    LET r == current_round IN
    /\ Accepting
    /\ c \in Ids(r)
    /\ meta[r].stake_pool + amount <= MaxPool
    /\ interpretations' = [interpretations EXCEPT ![r][c] = Backed(@, a, amount)]
    /\ meta' = [meta EXCEPT ![r].stake_pool = @ + amount]
    /\ total_stake_all_time' = total_stake_all_time + amount
    /\ CreditRound(r, amount)
    /\ UNCHANGED <<now, lifecycleVars, current_round, round_status, verdictVars,
                   claimed, source_records>>

-----------------------------------------------------------------------------
(* Adjudication                                                            *)

\* What _fetch_sources may return now: every source that is not lost answers.
Fetches ==
    UNION {[Present \ lost -> Page] : lost \in SUBSET (Present \cap Unreliable)}

AtMost(n, bound) == IF n < bound THEN n ELSE bound

\* Mutant: a global outage counts as a miss of every source.
MissedInAnyPass(s, ok) == s \in Present \ ok

\* A source only accrues a miss when some other source answered.
Missed(s, ok) == s \in Present \ ok /\ ok # {}

\* _apply_fetch_report on one record.  The count of misses is only compared
\* with MaxMisses, so it saturates there.
FetchReported(s, ok) ==
    LET rec == source_records[s]
        misses == AtMost(rec.misses + 1, MaxMisses)
        locked == rec.bond_status = "locked"
    IN  CASE s \in ok ->
               [rec EXCEPT !.misses = 0, !.last_fetch_ok = TRUE,
                           !.bond_status = IF locked THEN "refundable" ELSE @]
          [] Missed(s, ok) ->
               [rec EXCEPT !.misses = misses, !.last_fetch_ok = FALSE,
                           !.bond_status = IF locked /\ misses >= MaxMisses
                                           THEN "forfeited" ELSE @]
          [] OTHER -> [rec EXCEPT !.last_fetch_ok = FALSE]

\* The bonds a fetch pass forfeits, and their value.
Forfeits(ok) ==
    {s \in Source : /\ source_records[s].bond_status = "locked"
                    /\ FetchReported(s, ok).bond_status = "forfeited"}

Bonds == [s \in Source |-> source_records[s].add_bond]

\* Mutant: credits the carry without taking the bonds out of the sources bucket.
ForfeitsLeftBehind(ok) ==
    /\ bucket_carry' = bucket_carry + SumFunctionOnSet(Bonds, Forfeits(ok))
    /\ vault_tracked' = vault_tracked + SumFunctionOnSet(Bonds, Forfeits(ok))
    /\ UNCHANGED <<bucket_round, bucket_sources, bucket_residual, balance>>

\* vault.move("sources", "carry", ...) for every forfeited bond; a negative
\* move, or one above the bucket, raises.
MoveForfeits(ok) ==
    LET amount == SumFunctionOnSet(Bonds, Forfeits(ok)) IN
    /\ amount \in 0..bucket_sources
    /\ bucket_sources' = bucket_sources - amount
    /\ bucket_carry' = bucket_carry + amount
    /\ UNCHANGED <<bucket_round, bucket_residual, vault_tracked, balance>>

ApplyFetchReport(ok) ==
    /\ source_records' = [s \in Source |-> FetchReported(s, ok)]
    /\ MoveForfeits(ok)

\* Mutant: one known content is enough.
SomethingJudged(r) == \E c \in Ids(r) : c \in live.judged

\* Everything submitted in r was judged in the round behind the live output.
NothingNew(r) == \A c \in Ids(r) : c \in live.judged

\* leader_fn returns "unchanged" without asking the model.
EvidenceUnchanged(r, fetched) ==
    /\ live.id # None
    /\ NothingNew(r)
    /\ fetched = live.evidence_hash

\* _bump_reputation once for every interpretation of the round.
CreditParticipations(r) ==
    [a \in Account |->
        [reputation[a] EXCEPT !.inconclusive_participations =
                                  @ + Cardinality(Authored(r, a))]]

\* The adjudication ends round r without a winner.
Inconclude(r, outcome) ==
    /\ reputation' = CreditParticipations(r)
    /\ LeaveRound(r, outcome, meta[r])

\* A decided verdict above the confidence threshold names a provisional
\* winner and opens the challenge window; the round stays current.
Decide(r, winner) ==
    /\ now + ChallengeWindow < MaxTime
    /\ meta' = [meta EXCEPT ![r] =
           [@ EXCEPT !.pending_winner = winner,
                     !.challenge_deadline = now + ChallengeWindow]]
    /\ round_status' = [round_status EXCEPT ![r] = "decided_pending"]
    /\ UNCHANGED <<current_round, reputation>>

\* adjudicate.  No answer from any source is "no_evidence"; otherwise the
\* verdict is a winner, or one of the decisions that leave none
\* (invalid_verdict, insufficient_corroboration, low confidence).
Adjudicate ==
    LET r == current_round IN
    /\ status # "closed"
    /\ round_status[r] = "open"
    /\ Ids(r) # {}
    /\ \E fetched \in Fetches :
        /\ ApplyFetchReport(DOMAIN fetched)
        /\ evidence_hash' = [evidence_hash EXCEPT ![r] = fetched]
        /\ \/ /\ DOMAIN fetched # {}
              /\ EvidenceUnchanged(r, fetched)
              /\ Inconclude(r, "unchanged")
           \/ /\ DOMAIN fetched = {} \/ ~EvidenceUnchanged(r, fetched)
              /\ Inconclude(r, "inconclusive")
           \/ /\ DOMAIN fetched # {}
              /\ ~EvidenceUnchanged(r, fetched)
              /\ \E winner \in Ids(r) : Decide(r, winner)
    /\ UNCHANGED <<now, lifecycleVars, stakeVars, round_challenge, live, claimed>>

-----------------------------------------------------------------------------
(* Challenge and finality                                                  *)

\* challenge.  It looks at the round only, never at the engine's status.
Challenge(r, a, alternative, bond) ==
    /\ round_status[r] = "decided_pending"
    /\ now <= meta[r].challenge_deadline
    /\ now + ChallengeTimeout <= MaxTime
    /\ bond >= MinChallengeBond
    /\ alternative \in Ids(r)
    /\ alternative # meta[r].pending_winner
    /\ round_challenge' = [round_challenge EXCEPT ![r] =
           [challenger |-> a, alternative_id |-> alternative,
            original_winner |-> meta[r].pending_winner,
            bond |-> bond, challenged_at |-> now, outcome |-> "open"]]
    /\ meta' = [meta EXCEPT ![r].challenge_bond = bond]
    /\ round_status' = [round_status EXCEPT ![r] = "challenged"]
    /\ CreditRound(r, bond)
    /\ UNCHANGED <<now, lifecycleVars, current_round, stakeVars, evidence_hash,
                   live, reputation, claimed, source_records>>

ChallengeReward(bond, pool) == AtMost((pool * RewardBps) \div 10000, bond)

\* What the challenger may claim once the round is settled.
ChallengerPayout(outcome, bond, pool) ==
    CASE outcome = "upheld" -> bond + ChallengeReward(bond, pool)
      [] outcome \in {"unresolved", "expired"} -> bond
      [] OTHER -> 0

\* Mutant: the bond's sign.
PotBondSubtracted(pool, bonus, bond, payout) == pool + bonus - bond - payout

\* What the winners share.
Pot(pool, bonus, bond, payout) == pool + bonus + bond - payout

WonChallenge(r, a, outcome) == outcome = "upheld" /\ round_challenge[r].challenger = a

LostChallenge(r, a, outcome) == outcome = "rejected" /\ round_challenge[r].challenger = a

\* Mutant: the winner's author is also charged a loss.
LosingIncludesWinner(r, a, winner) == Authored(r, a)

\* The interpretations of a that lost the round.
Losing(r, a, winner) == Authored(r, a) \ {winner}

\* _bump_reputation for every author, and for the challenger.
CreditDecision(r, winner, outcome) ==
    [a \in Account |->
        [reputation[a] EXCEPT
            !.decided_wins = @ + Cardinality(Authored(r, a) \cap {winner}),
            !.decided_losses = @ + Cardinality(Losing(r, a, winner)),
            !.challenges_won = @ + (IF WonChallenge(r, a, outcome) THEN 1 ELSE 0),
            !.challenges_lost = @ + (IF LostChallenge(r, a, outcome) THEN 1 ELSE 0)]]

\* Mutant: the live output is read from the pending winner, stale after an
\* upheld challenge.
LiveFromVerdict(r, winner) ==
    [id |-> meta[r].pending_winner, round |-> r,
     evidence_hash |-> evidence_hash[r], judged |-> Ids(r)]

\* The live output, and what the next adjudication compares itself with.
NewLive(r, winner) ==
    [id |-> winner, round |-> r,
     evidence_hash |-> evidence_hash[r], judged |-> Ids(r)]

\* Mutant: the carry is moved but not counted in the pot.
BonusWithoutCarry(r) == meta[r].bonus

\* The whole carry bucket joins the pot of the round.
Bonus(r) == meta[r].bonus + bucket_carry

\* _finalize_round, with the winner and the outcome of the challenge ("none" when
\* nobody challenged).
FinalizeRound(r, winner, outcome) ==
    LET m == meta[r]
        payout == ChallengerPayout(outcome, m.challenge_bond, m.stake_pool)
    IN  /\ bucket_round' = [bucket_round EXCEPT ![r] = @ + bucket_carry]
        /\ bucket_carry' = 0
        /\ UNCHANGED <<bucket_sources, bucket_residual, vault_tracked, balance>>
        /\ round_challenge' = [round_challenge EXCEPT ![r].outcome = outcome]
        /\ LeaveRound(r, "finalized",
               [m EXCEPT !.pending_winner = winner,
                         !.winner_id = winner,
                         !.winner_total = interpretations[r][winner].total_stake,
                         !.bonus = Bonus(r),
                         !.pot = Pot(m.stake_pool, Bonus(r), m.challenge_bond, payout),
                         !.challenger_payout = payout])
        /\ live' = NewLive(r, winner)
        /\ reputation' = CreditDecision(r, winner, outcome)
        /\ UNCHANGED <<now, lifecycleVars, stakeVars, evidence_hash, claimed,
                       source_records>>

\* Mutant: an unresolved challenge also wins.
WinnerUnlessRejected(r, outcome) ==
    IF outcome # "rejected" THEN round_challenge[r].alternative_id
                            ELSE meta[r].pending_winner

\* Only an upheld challenge replaces the pending winner.
WinnerAfter(r, outcome) ==
    IF outcome = "upheld" THEN round_challenge[r].alternative_id
                          ELSE meta[r].pending_winner

\* resolve_challenge: the arbiter prefers the alternative or the original
\* with enough confidence, or the challenge stays unresolved.
ResolveChallenge(r) ==
    /\ round_status[r] = "challenged"
    /\ \E outcome \in {"upheld", "rejected", "unresolved"} :
           FinalizeRound(r, WinnerAfter(r, outcome), outcome)

\* Mutant: a challenge never expires.
FinalizeUnchallengedOnly(r) ==
    /\ round_status[r] = "decided_pending"
    /\ now > meta[r].challenge_deadline
    /\ FinalizeRound(r, meta[r].pending_winner, "none")

\* finalize: after the window, or once the open challenge has expired.
Finalize(r) ==
    \/ /\ round_status[r] = "decided_pending"
       /\ now > meta[r].challenge_deadline
       /\ FinalizeRound(r, meta[r].pending_winner, "none")
    \/ /\ round_status[r] = "challenged"
       /\ now >= round_challenge[r].challenged_at + ChallengeTimeout
       /\ FinalizeRound(r, meta[r].pending_winner, "expired")

-----------------------------------------------------------------------------
(* Timeouts and settlement                                                 *)

\* cancel_round
CancelRound(r) ==
    /\ round_status[r] = "open"
    /\ now >= meta[r].opened_at + RoundTimeout
    /\ r < MaxRound
    /\ LeaveRound(r, "cancelled", meta[r])
    /\ UNCHANGED <<now, lifecycleVars, stakeVars, verdictVars, claimed,
                   source_records, vaultVars>>

\* settle
Settle(r) ==
    /\ round_status[r] = "finalized"
    /\ round_status' = [round_status EXCEPT ![r] = "settled"]
    /\ UNCHANGED <<now, lifecycleVars, current_round, meta, stakeVars, verdictVars,
                   claimed, source_records, vaultVars>>

OwnStake(r, a) ==
    SumFunction([c \in Content |-> interpretations[r][c].backers[a]])

WinnerStake(r, a) ==
    IF meta[r].winner_id = None THEN 0
    ELSE interpretations[r][meta[r].winner_id].backers[a]

Challenged(r, a) == round_challenge[r].challenger = a

Participated(r, a) ==
    \/ \E c \in Content : interpretations[r][c].backers[a] > 0
    \/ Challenged(r, a)

ProRata(r, a) == (WinnerStake(r, a) * meta[r].pot) \div meta[r].winner_total

\* Mutant: no remainder for the last claimant.
ShareRoundedDown(r, a) == IF WinnerStake(r, a) = 0 THEN 0 ELSE ProRata(r, a)

\* A winner's share: pro rata, rounded down, and the remainder to the last
\* winning claimant.
WinnerShare(r, a) ==
    IF WinnerStake(r, a) = 0 THEN 0
    ELSE IF meta[r].claimed_winner_stake + WinnerStake(r, a) >= meta[r].winner_total
         THEN meta[r].pot - meta[r].paid_winners
         ELSE ProRata(r, a)

\* _owed
Owed(r, a) ==
    CASE round_status[r] \in RefundStatus -> OwnStake(r, a)
      [] round_status[r] = "settled" ->
            WinnerShare(r, a) + (IF Challenged(r, a) THEN meta[r].challenger_payout ELSE 0)
      [] OTHER -> 0

\* Mutant: the share that was paid is not recorded.
StakeRecordedOnly(r, a) ==
    [meta[r] EXCEPT !.claimed_winner_stake = @ + WinnerStake(r, a)]

\* The round's ledger after a claims: only a winner's share changes it.
AfterClaim(r, a) ==
    IF round_status[r] = "settled"
    THEN [meta[r] EXCEPT !.claimed_winner_stake = @ + WinnerStake(r, a),
                         !.paid_winners = @ + WinnerShare(r, a)]
    ELSE meta[r]

\* claim: once per round and account, effects before the transfer.
Claim(r, a) ==
    /\ round_status[r] \in ClaimableStatus
    /\ <<r, a>> \notin claimed
    /\ Participated(r, a)
    /\ claimed' = claimed \cup {<<r, a>>}
    /\ meta' = [meta EXCEPT ![r] = AfterClaim(r, a)]
    /\ Debit(bucket_round[r], Owed(r, a))
    /\ bucket_round' = [bucket_round EXCEPT ![r] = @ - Owed(r, a)]
    /\ UNCHANGED <<now, lifecycleVars, current_round, round_status, stakeVars,
                   verdictVars, source_records, bucket_sources, bucket_carry,
                   bucket_residual>>

-----------------------------------------------------------------------------
(* Sources                                                                 *)

\* add_source
AddSource(a, s, bond) ==
    /\ status = "active"
    /\ s \notin Present
    /\ Cardinality(Present) < MaxSources
    /\ bond >= MinSourceBond
    /\ source_records' = [source_records EXCEPT ![s] =
           [added_by |-> a, add_bond |-> bond, bond_status |-> "locked",
            misses |-> 0, last_fetch_ok |-> FALSE]]
    /\ bucket_sources' = bucket_sources + bond
    /\ vault_tracked' = vault_tracked + bond
    /\ balance' = balance + bond
    /\ UNCHANGED <<now, lifecycleVars, roundVars, stakeVars, verdictVars, claimed,
                   bucket_round, bucket_carry, bucket_residual>>

\* claim_source_bond, by the account that added the source
ClaimSourceBond(a, s) ==
    /\ a = source_records[s].added_by
    /\ source_records[s].bond_status = "refundable"
    /\ source_records' = [source_records EXCEPT ![s].bond_status = "refunded"]
    /\ Debit(bucket_sources, source_records[s].add_bond)
    /\ bucket_sources' = bucket_sources - source_records[s].add_bond
    /\ UNCHANGED <<now, lifecycleVars, roundVars, stakeVars, verdictVars, claimed,
                   bucket_round, bucket_carry, bucket_residual>>

-----------------------------------------------------------------------------
(* Timelocked close                                                        *)

\* close_monocle
CloseMonocle(a) ==
    /\ a = Creator
    /\ status = "active"
    /\ now + CloseTimelock <= MaxTime
    /\ status' = "closing"
    /\ close_requested_at' = now
    /\ UNCHANGED <<now, roundVars, stakeVars, verdictVars, claimed,
                   source_records, vaultVars>>

\* cancel_close
CancelClose(a) ==
    /\ a = Creator
    /\ status = "closing"
    /\ status' = "active"
    /\ close_requested_at' = 0
    /\ UNCHANGED <<now, roundVars, stakeVars, verdictVars, claimed,
                   source_records, vaultVars>>

\* Mutant: the close cancels a round whatever its verdict.
ClosableWhilePending(r) == round_status[r] \in {"open"} \cup PendingStatus

\* A round with a pending verdict holds the close back.
Closable(r) == round_status[r] = "open"

\* Mutant: the close leaves locked bonds as they are.
BondsLeftLocked == source_records

\* Locked bonds become refundable when the engine closes.
BondsReleased ==
    [s \in Source |->
        IF source_records[s].bond_status = "locked"
        THEN [source_records[s] EXCEPT !.bond_status = "refundable"]
        ELSE source_records[s]]

\* finalize_close, by anyone once the timelock has elapsed
FinalizeClose ==
    /\ status = "closing"
    /\ now >= close_requested_at + CloseTimelock
    /\ Closable(current_round)
    /\ round_status' = [round_status EXCEPT ![current_round] = "cancelled"]
    /\ status' = "closed"
    /\ source_records' = BondsReleased
    /\ bucket_carry' = 0
    /\ bucket_residual' = bucket_residual + bucket_carry
    /\ UNCHANGED <<now, close_requested_at, current_round, meta, stakeVars,
                   verdictVars, claimed, bucket_round, bucket_sources,
                   vault_tracked, balance>>

\* flush_residual: to the factory, or to the deployer
FlushResidual ==
    /\ status = "closed"
    /\ bucket_residual # 0
    /\ Debit(bucket_residual, bucket_residual)
    /\ bucket_residual' = 0
    /\ UNCHANGED <<now, lifecycleVars, roundVars, stakeVars, verdictVars, claimed,
                   source_records, bucket_round, bucket_sources, bucket_carry>>

-----------------------------------------------------------------------------
(* The engine                                                              *)

\* The constructor: the initial sources carry no bond and round 1 is open.
Init ==
    /\ now = 0
    /\ status = "active"
    /\ close_requested_at = 0
    /\ current_round = 1
    /\ round_status = [r \in Rounds |-> IF r = 1 THEN "open" ELSE "none"]
    /\ meta = [r \in Rounds |-> BlankMeta(0)]
    /\ interpretations = [r \in Rounds |-> [c \in Content |-> NoInterpretation]]
    /\ round_challenge = [r \in Rounds |-> NoChallenge]
    /\ evidence_hash = [r \in Rounds |-> NoSnapshot]
    /\ claimed = {}
    /\ live = [id |-> None, round |-> 0, evidence_hash |-> NoSnapshot, judged |-> {}]
    /\ source_records = [s \in Source |->
           [added_by |-> None, add_bond |-> 0,
            bond_status |-> IF s \in InitialSources THEN "none" ELSE "absent",
            misses |-> 0, last_fetch_ok |-> FALSE]]
    /\ reputation = [a \in Account |-> NoReputation]
    /\ total_stake_all_time = 0
    /\ bucket_round = [r \in Rounds |-> 0]
    /\ bucket_sources = 0
    /\ bucket_carry = 0
    /\ bucket_residual = 0
    /\ vault_tracked = 0
    /\ balance = 0

Tick ==
    /\ now < MaxTime
    /\ now' = now + 1
    /\ UNCHANGED <<lifecycleVars, roundVars, stakeVars, verdictVars, claimed,
                   source_records, vaultVars>>

Next ==
    \/ Tick
    \/ \E a \in Account, c \in Content, amount \in Amounts :
           SubmitInterpretation(a, c, amount)
    \/ \E a \in Account, c \in Content, amount \in Amounts :
           BackInterpretation(a, c, amount)
    \/ Adjudicate
    \/ \E r \in Rounds, a \in Account, c \in Content, bond \in Amounts :
           Challenge(r, a, c, bond)
    \/ \E r \in Rounds : ResolveChallenge(r)
    \/ \E r \in Rounds : Finalize(r)
    \/ \E r \in Rounds : CancelRound(r)
    \/ \E r \in Rounds : Settle(r)
    \/ \E r \in Rounds, a \in Claimants : Claim(r, a)
    \/ \E a \in Account, s \in Source, bond \in Amounts : AddSource(a, s, bond)
    \/ \E a \in Account, s \in Source : ClaimSourceBond(a, s)
    \/ \E a \in Account : CloseMonocle(a)
    \/ \E a \in Account : CancelClose(a)
    \/ FinalizeClose
    \/ FlushResidual

Spec == Init /\ [][Next]_vars

\* Time passes, and somebody makes each of the calls that anyone may make and
\* that need no verdict: cancel_round, finalize, settle, finalize_close.
\* Nothing is assumed of the creator, the stakers, the adjudicator or the
\* arbiter.
Fairness ==
    /\ WF_vars(Tick)
    /\ WF_vars(FinalizeClose)
    /\ \A r \in Rounds : /\ WF_vars(CancelRound(r))
                        /\ WF_vars(Finalize(r))
                        /\ WF_vars(Settle(r))

FairSpec == Spec /\ Fairness

=============================================================================
