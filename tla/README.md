# MONOCLE in TLA+

A specification of MONOCLE beside its code. MONOCLE is a set of GenLayer contracts in which accounts stake on
competing interpretations of a topic; a language model behind a leader and validators names a winner, anybody
may challenge it during a window, and the losers' stakes go to the winners. Paths below are relative to the
repository (`src/`).

- [1. The system](#1-the-system)
- [2. The modules and the code](#2-the-modules-and-the-code)
- [3. What TLC checks](#3-what-tlc-checks)
- [4. What is proved](#4-what-is-proved)
- [5. Where code and documents disagree](#5-where-code-and-documents-disagree)
- [6. Observations that are not disagreements](#6-observations-that-are-not-disagreements)
- [7. What is not modelled](#7-what-is-not-modelled)
- [8. Plan](#8-plan)

## 1. The system

| Component | State it keeps | Operations | What makes it correct |
| --- | --- | --- | --- |
| **Engine** (`contracts/Monocle.py`) | lifecycle (active, closing, closed), current round, per round: status, ledger, timers, interpretations with backers, challenge, evidence hash; live output; claims; local reputation | submit, back, adjudicate, challenge, resolve_challenge, finalize, cancel_round, settle, claim, close_monocle, cancel_close, finalize_close, flush_residual | rounds end one after another; a published verdict is contestable for the whole window and never withdrawn; the live output is the winner of the latest final round; a decided round's stakes do not change; everybody can eventually get what is theirs |
| **MonocleVault** (same file) | buckets `round:N`, `sources`, `carry`, `residual`, and `vault_tracked` | credit, move, pay | buckets add up to what is tracked and to the native balance; no legal claim is refused; nothing is left behind |
| **Source registry** (same file) | per source: adder, bond and its status, misses | add_source, the fetch report of an adjudication, claim_source_bond, release at the close | a bond is returned or forfeited once; an outage of everything costs nobody; forfeits reach winners |
| **Adjudication** (same file) | nothing of its own: each node's fetch and model answer, the leader's proposal, the votes | leader_fn, validator_fn (adjudicate and resolve_challenge), the thresholds, the deterministic effect | the effect is what the agreeing nodes saw; a winner is corroborated by what they fetched themselves |
| **Scoring** (same file) | none (a pure function) | _score_verdict, _stringify_confidence | a verdict is decided exactly when the claim table bears it out |
| **MonocleFactory** (`contracts/MonocleFactory.py`) | stake, collected and residual fees, append-only registry with metadata | create_monocle, receive_residual, withdraw_fees, set_creation_stake | a creation costs the stake of its moment; fees are backed; the registry says who created what |
| **MonocleReputation** (`contracts/MonocleReputation.py`) | per author counters, recorded rounds | record_round | each round counts once, when final, and as the engine counted it |
| **Input parsing** (in `contracts/Monocle.py`) | none (pure functions) | _parse_schema, _parse_claims, _normalize_url | what is judged is what was submitted; a source is named by what its URL says |
| **SDKs** (`sdk/`) | none that persists | createMonocle; every write: estimate, send, wait until decided or finalized, look at the outcome | what a call reports is what happened, and stands |
| **Market script** (`deploy/002_open_test_market.ts`) | `deployments.json` | finalize with retries, settle, claim; `--finish` after a death | the record is true, nobody is paid twice, the operator is paid in the end (unless a run met a challenged round) |

**How they interact.** Users and agents call the contracts through transactions, each of which commits or reverts
as a whole. Inside `adjudicate` and `resolve_challenge` a non-deterministic block runs in every node of a
committee; the transaction takes effect only when a majority agrees with the leader. The factory deploys engines
and the aggregator, and engines return residuals to the factory, by *messages* that are delivered after the
emitting transaction and in any order. The aggregator *reads* the factory (is this address registered?) and the
engine (how did this round end?). The SDK reads, sends, waits and reads again, while everybody else goes on; a
transaction is accepted before it is final, and an appeal executes it and everything accepted after it again. The
market script is a client that keeps a record of its own and may die between any two calls.

**What is hard.** Time (four timers race each other and the users); permissionless calls in any order and by
anyone (finalize, settle, cancel, resolve, record, flush); rounding in pro-rata payouts with the remainder to the
last claimant; value that changes bucket several times before it leaves (forfeits, carry, bonus, pot, residual);
a close that must neither withdraw a verdict nor wait for ever; verdicts that differ from node to node and
numbers just beside a threshold; child contracts that are registered before they exist; state that is read
before a transaction and used after it; outcomes that an appeal takes back, receipts that do not come while the
transaction goes on, retries of what may have been done. `PROJECT.json` lists the places at their lines with the
properties that guard them.

## 2. The modules and the code

| Module | Models | Extends |
| --- | --- | --- |
| `Monocle` | one engine with its vault, sources and close | |
| `MonocleProperties` | what it promises; the refinement mapping to `LiveFeed` | `Monocle` |
| `LiveFeed` | abstract specification: the engine as a reader sees it | |
| `MonocleInvariant` | the inductive invariant | `MonocleProperties` |
| `SumTheorems` | how sums over finite sets and functions add up | |
| `MonocleProofs` | proofs about the engine; it implements `LiveFeed` | `MonocleInvariant` |
| `MonocleLedgerProofs` | proofs about its ledgers | `MonocleProofs`, `SumTheorems` |
| `Scoring` | from a model's answer to a verdict | |
| `ScoringCheck` | `Scoring` against an independent reference | `Scoring` |
| `Adjudication` | leader, validators and effect in a committee with faulty nodes | `Scoring` |
| `AdjudicationProofs` | proofs about it | `Adjudication` |
| `MonocleFactory` | the factory, its messages, and engines as residual buckets | |
| `FactoryClient` | the SDK's createMonocle beside the factory; properties | `MonocleFactory` |
| `FactoryProofs` | proofs about both | `FactoryClient`, `SumTheorems` |
| `MonocleReputation` | the aggregator beside a running engine; properties | `Monocle` |
| `MonocleReputationProofs` | proofs about it | `MonocleReputation`, `MonocleLedgerProofs` |
| `InputParsing` | from a caller's text to a schema, claims and a URL | |
| `InputCheck` | `InputParsing` against an independent reference | `InputParsing` |
| `ReferenceProofs` | proofs about both references | `ScoringCheck`, `InputCheck`, `SumTheorems` |
| `RoundCalls` | the calls that end a round, as a client knows them | |
| `SdkWrite` | a write through an SDK, and the life of its transaction | `RoundCalls` |
| `MarketScript` | the market script beside other clients; properties | `SdkWrite` |
| `MarketProofs` | proofs about it | `MarketScript` |
| `MC*` | definitions and symmetry for TLC | the module they instantiate |

`PROJECT.json` maps every definition to the lines it stands for. A definition whose comment says "Mutant" is a
plausible bug beside the definition that follows it; no action uses it. Put in place of the right one, it breaks a
property, which shows that the property depends on that code.

**Engine.** A public method is one action. Its guard is the conjunction of the method's early `UserError`s, and a
call that raises is simply not enabled, since it reverts. The helpers a method calls are part of its action:
`LeaveRound` is `_advance_round` with the final status, `FinalizeRound` is `_finalize_round`, `Debit`, `CreditRound` and
`MoveForfeits` are the vault's methods with their own refusals as guards, so that an overdraw would disable the
action (and `EveryClaimPayable` says that it never does). The statuses `adjudicating` and `resolving` exist only inside
a method and never between transactions. Representations: an interpretation is its round and its content (the
code refuses the same content hash twice in a round); a page stands for its fingerprint, a fetch for the map from
answering sources to pages, which is exactly what the evidence hash is taken over; a miss counter stops at
`MaxMisses`, since it is only compared with it. What the model or the arbiter answers is any outcome the code
accepts there.

**Adjudication.** `Propose` and `Vote` run `LeaderFn` and `ValidatorFn` in one node each, on that node's own fetch and
own answer. A faulty node proposes and votes as it likes. `Accept` is the deterministic part below the block, which
stores the confidence (rounding it) and tests it again. Numbers count hundred-thousandths, one digit more than is
stored, so that rounding to even at the threshold is visible. Counting votes and rotating leaders belongs to the
network and is external.

**Factory and client.** Messages in flight are a bag. A deploy whose constructor refuses, or whose address is
taken, leaves nothing. An address is its salt, since nothing else in it varies. The client's steps are separate
actions: read the stake, read the registry's length, send, execute (or revert, or end without execution), look at
the outcome, read the registry.

**Aggregator.** `RecordRound` is composed with every step of the engine; `Credit` is what the code adds for an
outcome, and `recorded_rounds` keeps it.

**Writes.** `Send`, `Receive` and `GiveUp` are `writeAndWait` (`_write` in Python): the call of an account is waiting
until its transaction is `Reached`, and then returned or threw by `Succeeded`. `Unsent` is an estimate or a submission
that throws; that the TypeScript client first falls back to a generic estimate only makes this rarer. `GiveUp` is the end
of the retries: the call throws, its transaction goes on. The chain is what those files say of it and is external:
`Accept` executes a transaction on the latest state; `journal` keeps, per accepted transaction, the state it found, so
that `Appeal` can put it and everything accepted after it back to PENDING; `Finalize` takes the oldest out of reach of
appeals; `Fail` ends one unexecuted. `Final` is the state nothing can undo. The contract is one round of an engine
reduced to the guards and effects of `finalize`, `challenge`, `resolve_challenge`, `settle` and `claim` that decide whether
a call reverts: its status, who was paid, whether the window of its verdict is over (`window_over`) and whether the time
to answer its challenge is (`expired`). Each account has as many places for transactions in flight as the instance gives
it, so that a write may be sent while an earlier one, given up, is still on its way.

**Market script.** One action per stretch of `finishLifecycle` between two awaits: `Read` (getRoundInfo, and saveRecord
when `NextStep` finds nothing left to do), `Write`, `Proceed` (with the record of the finalization), `Throw` (caught
around finalize up to the last attempt), `Crash` at any point, `Start` for the first run and every one with `--finish`.
The wait for the window is left out: its purpose is an earlier success, and a clock that lags voids it anyway. The
other accounts call the same round, challenge its verdict included, in the modes the instance gives them (`Modes`). The
script has no branch for a challenged round (`NextStep` says "save").

**Inputs.** An object is a sequence of members, each a key with the kind of its value; `Clean` says what sanitizing
leaves of a key, so that two keys may become one and one may become none. A claim is an item that says something or
not. A URL is a sequence of marks (`/`, `?`, `#`), blanks (anywhere but in the host, where the code refuses them) and
letters in either case. `InputCheck` submits every such input, and states in terms of the input alone what must come
out.

## 3. What TLC checks

Twelve runs, each of at most a few minutes on two workers. Every property has a mutant in `PROJECT.json` that
breaks it.

| Run | Question | Bounds |
| --- | --- | --- |
| `rounds` | whatever the order of stakes, verdicts, challenges, timeouts and time, is the live output the justified winner of the latest final round, `unchanged` only for stale rounds, a decided round frozen, and the reputation what the outcomes say? Does the aggregator agree with the engine at every moment, and is what it recorded true for ever? | two accounts, two contents, two staked rounds, one source that may fail, unit amounts, two ticks, no close, no claims; two spellings of the registered address and one unregistered address |
| `settlement` | do the books balance, is every claim payable, does the last claim empty the bucket, are winners made whole? | three accounts, amounts 4 and 9 (neither divides the other: shares round), one staked round, one source bond that may be forfeited into the pot, all orders of claims, challenge upheld, rejected, unresolved, expired |
| `sources` | are bonds covered, forfeits justified and passed on to winners, and is a closed engine quiescent? | four sources that may all fail, two of them bonded, two misses forfeit, three staked rounds, close |
| `close` | does a close requested, withdrawn or completed at any point ever withdraw a verdict? Does the engine implement `LiveFeed`? Does every stake become claimable and every requested close complete? | one account, two contents, two staked rounds, timers of one tick, horizon 4 |
| `adjudication` | is the effect what every honest node that agreed found for itself? | three nodes, one faulty, two interpretations, two sources with two pages, six answers around the threshold, one rotation, both methods |
| `scoring` | is a verdict decided exactly when the rows bear it out? Are the claims that are judged the ones submitted, and is a source named by the parts of its URL? | every claim table over three claims and two sources, six rankings, every pair of roll-ups of up to twelve claims (the code's maximum); objects of up to two fields and two claims, with caps of two; URLs with up to two marks, letters or blanks in path, query and fragment |
| `factory` | are fees backed, payments exact, nothing lost, and the registry true while deploys, refunds and residuals are in flight? | two creators with one creation each, stakes 1 and 2 changed at any time, one gift |
| `writes` | does a write that returned stand, and has one that threw left nothing? Is the script's record true, does every run end, is nobody paid twice, and is the operator paid in the end unless a run met a challenged round? | the operator with two transactions in flight, one other client with one, two attempts, two faults (appeals, failed transactions, lost receipts, failed estimates, crashes) in any combination; the round open, decided or cancelled at first; the other client finalizes in the default mode, challenges and settles in the other one, and neither claims nor resolves a challenge, which expires (333 thousand states) |
| `closing_capital`, `factory_index`, `factory_refusal`, `url_spellings` | the disagreements of section 5 (violations are expected) | |

**Why these bounds.** Two staked rounds are the least in which a live output exists while the next round is judged,
challenged or closed; a third, empty round receives the advance. Two accounts and two contents are the least
for a challenge with an alternative and for a loser; three claimants with indivisible amounts are the least in
which a rounded share is followed both by another rounded share and by the remainder. `MaxTime` lets every timer
expire, and expire in the other order. The constants that bound the model and have no counterpart in the code are
`MaxRound`, `MaxTime`, `MaxPool`, `MaxMonocles`, `MaxGifts`, `MaxRotations`, `Places`, `Modes`, `MaxFaults`.
`Modes` keeps to one mode per call of the other client: the mode only decides when it stops waiting, and it has one
place for a transaction, which the next call waits for anyway. It has no mode for `claim` and `resolve_challenge`:
its claim pays only itself, and an answered challenge ends in the status the expired one ends in, only sooner. One appeal needs one fault,
and the least hazard of the script (a receipt lost, then the transaction appealed or the process dead) two; caps of two
on fields and claims are reached and passed by the inputs. `MaxAttempts` is 8 in the code; what happens at the last
attempt and before it happens with two. Guards that contain `MaxTime` (`Decide`,
`Challenge`, `CloseMonocle`) keep a timer from being started that could not expire within the horizon. The theorems of
section 4 hold for every value of all of these.

**Symmetry** exchanges accounts, contents or sources only where no constant or action tells them apart; the runs with
liveness properties use none. **Deadlock** is not checked: a finished engine, a finished adjudication, an exhausted
registry and the horizon are legitimate ends.

**Fairness** of the engine (`FairSpec` in `Monocle`, used by `close`). Weak fairness of time and of the calls that *anyone* may
make and that need no answer from a model: `cancel_round`, `finalize`, `settle`, `finalize_close`. Each has a beneficiary (stakers who want
their money, a creator who wants to close), needs no permission, and stays enabled until it is made, so weak
fairness is enough. Nothing is assumed of stakers, creator, adjudicator or arbiter; in particular an arbiter that
never answers is covered, and `CloseCompletes` allows the creator to change its mind.

**Fairness** of the script (`FairSpec` in `MarketScript`, used by `writes`). Weak fairness of the clock (the window
ends, a challenge expires), of the chain's accepting what the operator sent and of its finalizing, and of the operator's
process, which receives, reads, writes and goes on: `Start` too, that is, the operator runs it again after it died. Nothing is assumed of the other clients, and a run of faults of any order is
allowed up to `MaxFaults`; a chain that failed every transaction for ever would of course pay nobody. `EveryRunEnds`
does not use the fairness of `Start`, which no running script can take.

## 4. What is proved

All theorems are checked by TLAPS for every value of the constants that satisfies the named assumptions of the
modules: any number of accounts, contents, sources, rounds, nodes, creators, and any length of the timers.

**The engine.** `InductiveInvariant` (`MonocleProofs`) proves `Spec => []Inductive`. None of the properties is inductive
alone, because each speaks of one record and the code decides by another:

- `RoundLedger` after a claim needs `PotCovers`: while some winning stake is unclaimed, what was paid is at most pro
  rata (`paid * total <= claimed * pot`). That is also why the last claimant's remainder is never negative, and it
  rests on `FloorShare`, a lemma about rounding down.
- `WinnerJustified` needs `VerdictRecords` and `ChallengeRecords`: which fields of a round are set in which status.
- `UnchangedIsStale` and `LiveOutputIsFinal` need `LiveRecords`: what the next adjudication compares itself with belongs to
  the round behind the live output.
- `PendingNeverRefunded` and `ClosedIsQuiescent` need `OneRoundInFlight`: only the current round can be undecided.
- `ClosingDrains` needs `TimersPast`; the type of `vault_tracked` needs `NativeTracked`.

The proof has one lemma per kind of change to a round (`RoundRefunded`, `RoundDecided`, `ChallengeRecorded`,
`RoundFinalized`, `RoundSettled`, `RoundClaimed`, `RoundClosed`, `StakeArrives`, and `RoundStays` for all other rounds) and one
lemma per method that combines them (`SubmitStep` to `CloseStep`). From the invariant follow `TypesKept`,
`OnlyOneInFlight`, `LedgerKept`, `VerdictsHonoured`, `LiveIsFinal`, `WinnersJustified`, `UnchangedStale`, `CloseIsComplete`,
`ClosingIsDraining`, and the action properties `DecidedFrozen` and `ForfeitsJustified`.

**The ledgers.** Several properties equate a number the code keeps with a sum over accounts, sources or rounds. The
sums of the community modules are folds; `SumTheorems` proves what a sum is when an element is added, removed or
changed, when two are added up, and when one bounds another. It needs induction on finite sets, which the library
states with an operator as parameter; here it comes first-order, from strict inclusion being well-founded on the
subsets of a finite set: a smallest counterexample has a smaller one. `LedgersInvariant` (`MonocleLedgerProofs`) then
proves `Spec => []Ledgers` beside `Inductive`:

- `VaultConserved` and `StakeBooksAgree` (together `BooksAgree`), `SourceBondsCovered` and `ForfeitsReachWinners` are
  inductive beside `Inductive`, once a content nobody submitted is known to have no stake (`BlankStakes`).
- `EveryClaimPayable` and `NothingStrands` are not: they look at a bucket and at the claims that are left. What links
  them is that a refunded round holds the stakes of those who have not claimed (`RefundsCovered`), that the winning
  stake counted as claimed is that of the accounts that claimed, and that the pot is then paid in full (`WinnersPaid`).
  `EveryClaimPayable` also needs `PotCovers`, so that a share rounded down never exceeds what is left.
- `WinnersMadeWhole` needs `PotRecords`: that the pot of a final round is what its stakes, bonus, bond and the outcome of its
  challenge make it, however long ago it was fixed.

The theorems are `BooksBalance`, `BondsCovered`, `ForfeitsKept`, `ClaimsPayable`, `NothingIsStranded`, `WinnersWhole` and
`ReputationCounts`; the last needs no record of its own: a step leaves the credited outcomes alone or adds one.
The proofs say once what a step may do to the rounds (`StepChanges`: stake on one entry, win one round, or move money
on), and each ledger is kept by those three.

**Refinement.** `EngineImplementsFeed` (last section of `MonocleProofs`): `Init` maps to the feed's initial state and every step to a
step of `LiveFeed` or to a stutter.

**Consensus.** `AdjudicationProofs`: the invariant says that every honest vote is what `ValidatorFn` returned on what that
node saw, that an honest leader's proposal is its `LeaderFn`, and that the result is the proposal applied. With
`StringifyIdempotent` (rounding to four places, half to even, twice is rounding once) the second threshold test cannot
differ from the first: `OutcomesSeen`. `WinnersCorroborated` and `RefusalsHaveCause` follow likewise. `GarbageNeverAccepted`
and `ShortCutsSeen` need that at most half of the nodes are faulty (`FewFaulty`), so that somebody honest stands
behind an accepted proposal. `AnswerAssumption` states that confidences have been read as numbers.

**Scoring.** `ReferenceProofs`: `MeritDecides` shows that the gates of `_score_verdict`, in the order of the code and over
downgraded rows, decide exactly when the reference does, which counts the rows of the answer (`RowsCounted`) and
compares exact fractions. That it may compare fractions is `RollupsCompare`: two nets over at most `MaxClaims` claims that
differ, differ by a basis point at least, because `MaxClaims * MaxClaims <= 10000` (twelve claims in the code). This,
that an interpretation has no more claims than that, and that corroboration asks for one source at least, are
`ClaimsAssumption`; without the bound `_score_verdict` would call unequal interpretations equal.

**Inputs.** `ReferenceProofs` again, for objects, URLs and limits of any size. `InputAssumption` says what a parsed JSON
object is (a key occurs once, a list holds texts, objects and other things) and what makes the parts of a URL its
parts. A loop that filters is modelled by `InOrder`, the positions it keeps in increasing order, chosen rather than
computed; that there is such an order, that it is onto and that a selection keeps what was there (`OrderExists`, `Ordered`,
`Selected`) is shown by taking a smallest set that had none (`SmallestFiniteSet` of the library).

- `ClaimsAreAsSubmitted`: the fields that are kept are members that say something, under different names
  (`FieldsAreMembers`, `FieldSays`, `FieldNamesDiffer`); a claim is made of each listed item or of each scalar field
  (`ListedClaimsAre`, `FlatClaimsSay`); choosing a core changes nothing else (`CoreAdded`).
- `UrlsAreNamed`: stripping, cutting at the first mark and dropping the slashes each keep a contiguous part, told by
  its two ends (`BlanksGone`, `CutAtMark`, `SlashesGone`). Which blanks go depends on what is behind them: those at the end
  of path and query are part of the blanks around the URL without a fragment (`BlanksOff`), and stay with one.
  `NormalOf` says what is left of a URL, and `NormalIsFixed` that this, when it does not end in a blank, is its own
  normal form. That it may end in one is section 5.

**Aggregator.** `RecordsStandForEver` (`MonocleReputationProofs`): from the engine's invariant, no step changes what an
ended round credits, so a record made once is right for ever. `TwoLedgersAgree`: a step of the engine that credits an
account makes the same credit due in the aggregator, and recording a round moves what is due to what is recorded, so
that the engine's ledger is the sum of both at every moment, in whatever order rounds are recorded.

**Factory.** `FactoryProofs`: the invariant ties every registered address to its salt (`RegistryBySalt`) and every deploy
in flight and contract in place to its registration. `FactoryTypes`, `FeesAreBacked`, `EnginesWhereRegistered`,
`RegistryStands`. Two more invariants rest on it:

- `CallsStand`: what each step of a call has read and left in the registry. The index read is at most the length
  of the registry from then on, below it once the creation is executed, and the caller has an engine exactly when its
  transaction ran: `OutcomeIsReported`.
- `Books`: one equation per creator (`OwnBook`) and one for all (`CommonBook`), with the messages in flight summed over a bag.
  They hold step by step only with `MoneyRecords`: an address without a contract holds no residual, what was left in an
  engine and what an entry of the registry says it cost are amounts. `BooksInvariant`, `CreatorsPayExactly`.

**Writes.** `MarketProofs`: any number of accounts, of transactions in flight and of faults, any number of attempts.
`ReturnedStands` speaks of the final state, and what decides it happened in an earlier, appealable one. The invariant
therefore reads the journal as a chain of states from the final one to the latest, each a later state of the round than
the one before it (`States`), in each of which one accepted transaction ran with the result it carries. An appeal cuts
the chain, finalization drops its first link; both leave a chain. `WritesStand`, `ThrowsLeaveNothing` and
`RecordStaysTrue` follow, the last with one invariant more: where the script is says what it has got done for good
(`Script`). The theorems need nothing of fairness.

`SdkWrite` has one round with five calls (`RoundCalls`) in place of an engine. `RoundsEndByCalls` (`MonocleLedgerProofs`)
says that it may: in `Monocle`, a round that is decided or has ended, seen as its status and who was paid, changes only
by finalize, challenge, resolve_challenge, settle and claim under the guards and in the way of `RoundCalls`; it
starts with nobody paid and its window ahead, and a window that is over stays over. What it leaves open is whether
the engine refuses a call that `RoundCalls` allows: it refuses a claim of an account that never took part, and the
accounts of `SdkWrite` did.

**Proved, no longer run.** `VerdictsHonoured` (`PendingNeverRefunded`) is a consequence of the refinement that `close`
checks; `FactoryTypes` and `RegistryStands` state `TypeOK` and `RegistryAppendOnly` of the factory.

**Model-checked only.** Liveness, which rests on fairness and so on ENABLED: `EveryRoundClaimable`, `CloseCompletes`,
`EveryRunEnds`, `PaidOrLeftChallenged`. Every safety property of the passing runs is stated by a theorem. The violated
properties of section 5 are runs only.

## 5. Where code and documents disagree

1. **A challenge bond is accepted while closing** (`closing_capital`). `docs/AUDIT.md:202` says "No new capital can enter
   while closing". `challenge` (`contracts/Monocle.py:1614`) looks at the round only, and accepts a bond. Nothing is
   stuck: the round still ends before `finalize_close`, and `ClosingDrains` and `CloseCompletes` hold.
2. **createMonocle may return another account's engine** (`factory_index`). Both SDKs read the registry's length, send
   the transaction and return the entry at that index (`sdk/typescript/src/factory-calls.ts:27`,
   `sdk/python/monocle_sdk/client.py:215`, "Creates a Monocle and returns its address"). When another creation is
   executed in between, both callers are given the first one. The metadata names the creator, so a caller can tell.
3. **A registered address may hold nothing** (`factory_refusal`). `create_monocle` registers the address and keeps the
   stake before the child's constructor has run (`contracts/MonocleFactory.py:169`); the constructor refuses more than
   the factory checks (duplicate sources, a title blank after sanitising, a schema that is no JSON object).
   `docs/AGENT_SDK.md:110` says "Deploys a Monocle with you as creator".
4. **A normalized URL may not be normal** (`url_spellings`). `_normalize_url` strips blanks once (`contracts/Monocle.py:354`),
   before it drops the fragment (362) and the last slashes (373). `https://a/x #f` and `https://a/x /` become
   `https://a/x ` with a blank at the end, which normalizes to `https://a/x`. Line 349 says "Canonical URL for uniqueness
   checks: trimmed, scheme and host lowercased, fragment dropped, trailing slash removed from the path." So two
   spellings can be two sources, and a source stored with the blank is not found under its stored name by
   `claim_source_bond` (1328) or by a citation (732), only under a spelling with the fragment or the slash. `UrlNamed`
   says what the name is in every case, and that it is its own name when it ends in no blank.

## 6. Observations that are not disagreements

- An upheld challenge pays the challenger up to `CHALLENGE_REWARD_BPS` of the pool, but no more than the bond. With
  no losing stake the winners pay it: a winner may get back less than its stake, by at most that share
  (`WinnersMadeWhole` states the bound).
- The fetch report that moves source bonds and the evidence hash are the leader's own. Validators compare verdicts,
  not fetches; `docs/AUDIT.md` B9 accepts this. The engine model therefore lets any fetch accompany any verdict.
- An account that authored several interpretations of a round has `rounds_recorded` counted once for each; the
  engine's own ledger has no such field, so `LedgersAgree` compares the other five.
- The retry loop around finalize treats every exception alike. When somebody else has finalized the round, or an
  earlier try whose receipt was lost has, each further try reverts, and the run dies after the last; the next run reads
  `finalized` and goes on (`PaidOrLeftChallenged`). A run that dies between its claim and its record leaves `claimTx` unset.
- `getLiveInterpretation` reads the latest state, in which a finalization that may still be appealed shows as final; its
  comment asks for a finalized-state client where money depends on it.
- A payable write that gives up waiting throws without the hash of its transaction; sending it again may stake twice.
- The market script looks for `decided_pending`, `finalized` and the claimable statuses (`deploy/002_open_test_market.ts:40-67`).
  A run that reads the round while it is challenged matches none of them: it records `challenged` and ends normally, the
  operator unpaid, and nothing asks for another run, although line 3 promises that it "waits out the challenge window
  and runs finalize -> settle -> claim". A run after the challenge is answered goes on from there. This is the third
  case of `PaidOrLeftChallenged`; without it the property is violated (a challenge, then a run that reads).
- `_parse_claims` takes the members `claims` and `stance` out of the object before it looks for the schema's fields
  (`contracts/Monocle.py:508`), and `_parse_schema` accepts a schema with these names. A field of that name then does not
  count; only a key that is cleaned to it, such as `"claims "`, does. Line 495 states a necessary condition, which holds.
- `_drop_trailing_commas` counts quotation marks from the first character of the model's text, its prose included.
- The code takes the gap between two confidences as floats; a gap of exactly the tolerance may fall on either side.
  The model uses exact numbers and its answers avoid that gap.

## 7. What is not modelled

- Masking of phrases, caps on lengths and nesting, entities and polarity of claims, JSON repair (pure string functions
  with unit tests; they keep no state and decide nothing but text), and the wording of prompts.
- Views but for those `LiveFeed` observes; the adjudication log; the time stamps of reputation records, which nothing
  reads.
- In `SdkWrite` and `MarketScript`: adjudication of the round (so an open round stays open), the engine's refusal of a claim
  by an account that never took part, and the retries of a read inside the TypeScript client, which are one read.
  `RecordTrue` says nothing of a recorded `open`, `decided_pending` or `challenged`, which the round leaves.
- `FactoryClient` has the outcome of a transaction come at once as FINALIZED; the time before is the subject of
  `SdkWrite`.
- `deploy/001_deploy_monocle_system.ts`, which deploys once and writes a record, the part of 002 before `finishLifecycle`,
  a list of writes that is not resumed, and `check_studio_next.ts`; networks and type definitions of the SDKs.
- Amounts are natural numbers: u256 overflow is out of reach of any supply of the native token.

## 8. Plan

The modules were written in the order of section 2, the engine first. Left to do:

- several engines under one factory and one aggregator, with the aggregator's keys across engines.
