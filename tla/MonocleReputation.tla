--------------------------- MODULE MonocleReputation ---------------------------
(***************************************************************************)
(* The reputation aggregator (src/contracts/MonocleReputation.py) beside an *)
(* engine it pulls outcomes from.  record_round may be called by anyone, at *)
(* any time, in any order and again, with any spelling of an address; the   *)
(* engine goes on meanwhile.                                               *)
(*                                                                         *)
(* The time stamps of a record are left out: nothing reads them.            *)
(***************************************************************************)
EXTENDS Monocle

CONSTANTS
    Spelling,           \* of addresses of engines, as callers pass them
    Normalized,         \* per spelling
    Engine              \* the address of the engine, the only registered one

ASSUME SpellingAssumption ==
    \E s \in Spelling : Normalized[s] = Engine

VARIABLES
    records,            \* per author: counters
    recorded_rounds     \* key -> what was applied

recVars == <<records, recorded_rounds>>

allVars == <<vars, recVars>>

Blank == [decided_wins |-> 0, decided_losses |-> 0, inconclusive_participations |-> 0,
          challenges_won |-> 0, challenges_lost |-> 0, rounds_recorded |-> 0]

\* Mutant: a published verdict counts before its challenge window is over.
FinalOrPending(s) == s \in FinalStatus \cup RefundStatus \cup PendingStatus

Final(s) == s \in FinalStatus \cup RefundStatus

\* get_round_outcome of the engine; a round it does not know is not final.
GetRoundOutcome(r) ==
    [status |-> round_status[r],
     final |-> Final(round_status[r]),
     winner_id |-> meta[r].winner_id,
     authors |-> [c \in Ids(r) |-> interpretations[r][c].author],
     challenger |-> round_challenge[r].challenger,
     challenge_outcome |-> round_challenge[r].outcome]

Decided(s) == s \in FinalStatus

Judged(s) == s \in {"inconclusive", "unchanged"}

\* What an outcome credits to account a.  A cancelled round carries no signal.
Credit(outcome, a) ==
    LET own == {c \in DOMAIN outcome.authors : outcome.authors[c] = a}
        won == own \cap {outcome.winner_id}
        challenged == Decided(outcome.status) /\ outcome.challenger = a
        Count(S, holds) == IF holds THEN Cardinality(S) ELSE 0
    IN  [decided_wins |-> Count(won, Decided(outcome.status)),
         decided_losses |-> Count(own \ won, Decided(outcome.status)),
         inconclusive_participations |-> Count(own, Judged(outcome.status)),
         challenges_won |->
             IF challenged /\ outcome.challenge_outcome = "upheld" THEN 1 ELSE 0,
         challenges_lost |->
             IF challenged /\ outcome.challenge_outcome = "rejected" THEN 1 ELSE 0,
         rounds_recorded |->
             Count(own, Decided(outcome.status) \/ Judged(outcome.status))]

\* Mutant: one key per spelling.
KeyAsSpelled(spelled, r) == <<spelled, r>>

Key(spelled, r) == <<Normalized[spelled], r>>

\* record_round: the factory is asked about the address, the engine about the
\* round.
RecordRound(spelled, r) ==
    LET outcome == GetRoundOutcome(r)
        credit == [a \in Account |-> Credit(outcome, a)]
        key == Key(spelled, r)
    IN  /\ key \notin DOMAIN recorded_rounds
        /\ Normalized[spelled] = Engine
        /\ outcome.final
        /\ records' = [a \in Account |->
               [f \in DOMAIN Blank |-> records[a][f] + credit[a][f]]]
        /\ recorded_rounds' =
               [k \in DOMAIN recorded_rounds \cup {key} |->
                   IF k = key THEN credit ELSE recorded_rounds[k]]
        /\ UNCHANGED vars

RepInit ==
    /\ Init
    /\ records = [a \in Account |-> Blank]
    /\ recorded_rounds = [k \in {} |-> [a \in Account |-> Blank]]

RepNext ==
    \/ Next /\ UNCHANGED recVars
    \/ \E spelled \in Spelling, r \in Rounds : RecordRound(spelled, r)

RepSpec == RepInit /\ [][RepNext]_allVars

-----------------------------------------------------------------------------
(* Properties                                                              *)

Ended == {r \in Rounds : round_status[r] \in FinalStatus \cup RefundStatus}

Signals == DOMAIN NoReputation

\* What was recorded of a round is what the engine still answers, whatever is
\* settled, claimed or closed later: no outcome is recorded before it is final.
\* (docs/ARCHITECTURE.md, Reputation decision, 3)
RecordedOutcomeStands ==
    \A r \in Rounds, spelled \in Spelling :
        Key(spelled, r) \in DOMAIN recorded_rounds =>
            /\ Final(round_status[r])
            /\ \A a \in Account :
                   Credit(GetRoundOutcome(r), a) = recorded_rounds[Key(spelled, r)][a]

Unrecorded == {r \in Ended : <<Engine, r>> \notin DOMAIN recorded_rounds}

\* Two ledgers of the same outcomes agree: what the engine counted, in the
\* handlers that ended the rounds, is what the aggregator has applied and what it
\* would still apply for the rounds nobody has recorded yet.  Each round counts
\* once, in whatever order the rounds are recorded and however the address is
\* spelled.  (docs/ARCHITECTURE.md, Reputation decision, 4)
LedgersAgree ==
    \A a \in Account, f \in Signals :
        reputation[a][f] =
            records[a][f]
                + SumFunctionOnSet(
                      [r \in Rounds |-> Credit(GetRoundOutcome(r), a)[f]], Unrecorded)

=============================================================================
