---------------------------- MODULE BrokerTables ----------------------------
(***************************************************************************)
(* The three PostgreSQL tables matching works on, and the statements of    *)
(* internal/store/postgres.go that read and change them.  Every statement  *)
(* runs in a transaction of its own (pool.Exec and pool.QueryRow, no       *)
(* Begin), so one statement is one atomic operator here and nothing holds  *)
(* across two of them.                                                     *)
(*                                                                         *)
(* Match rows are identified by their two users in the order of the        *)
(* columns user_a and user_b: <<x, y>> and <<y, x>> are different rows,    *)
(* which the unique index of migration 004 keeps from existing together.   *)
(***************************************************************************)
EXTENDS Compatibility

CONSTANTS
  User,      \* anonymous ids
  Profile,   \* the matching columns an upload may carry
  NoSignal   \* stands for "no row in agent_signals"

VARIABLES
  users,     \* the anonymous ids that have a row in users
  signals,   \* agent_signals: the row of each user, or NoSignal
  matches    \* the rows <<user_a, user_b>> of matches

tables == <<users, signals, matches>>

SignalRow == [profile : Profile, matched : BOOLEAN, expired : BOOLEAN]

ASSUME TablesAssumption ==
  /\ \A p \in Profile : ValidProfile(p)
  /\ NoSignal \notin SignalRow

TablesTypeOK ==
  /\ users \subseteq User
  /\ signals \in [User -> SignalRow \cup {NoSignal}]
  /\ matches \subseteq User \X User

\* Logins make accounts as well, so some may be there before any signal.
TablesInit ==
  /\ users \in SUBSET User
  /\ signals = [u \in User |-> NoSignal]
  /\ matches = {}

-----------------------------------------------------------------------------
(* agent_signals *)

HasSignal(u) == signals[u] # NoSignal

\* The condition matched = false AND expires_at > NOW(), with the JOIN on users.
available(u) ==
  /\ u \in users
  /\ HasSignal(u)
  /\ ~signals[u].matched
  /\ ~signals[u].expired

GetUnmatchedSignals == {u \in User : available(u)}

\* The rows FindCandidatesForSignal selects for user u with profile p.
CandidatesFor(u, p) ==
  {v \in GetUnmatchedSignals : v # u /\ candidate(p, signals[v].profile)}

\* INSERT ... ON CONFLICT (anonymous_id) DO UPDATE: whatever was there is
\* replaced, unmatched again and with a new expiry.
PutSignal(u, p) ==
  signals' = [signals EXCEPT ![u] =
                [profile |-> p, matched |-> FALSE, expired |-> FALSE]]

\* Mutant: the UPDATE without its WHERE clause.
MarkAllMatched(x, y) ==
  signals' = [u \in User |->
                IF HasSignal(u) THEN [signals[u] EXCEPT !.matched = TRUE]
                ELSE signals[u]]

\* Mutant: an INSERT ... ON CONFLICT DO UPDATE, which leaves a bare row for a
\* user whose signal is gone.
MarkByUpsert(x, y) ==
  signals' = [u \in User |->
                IF u \notin {x, y} THEN signals[u]
                ELSE IF HasSignal(u) THEN [signals[u] EXCEPT !.matched = TRUE]
                ELSE [matched |-> TRUE, expired |-> FALSE]]

\* UPDATE ... WHERE anonymous_id IN (x, y): the rows these users have now.
MarkSignalsMatched(x, y) ==
  signals' = [u \in User |->
                IF u \in {x, y} /\ HasSignal(u)
                  THEN [signals[u] EXCEPT !.matched = TRUE]
                  ELSE signals[u]]

DropSignals(S) ==
  signals' = [u \in User |-> IF u \in S THEN NoSignal ELSE signals[u]]

-----------------------------------------------------------------------------
(* matches *)

\* The unique index on (LEAST(user_a, user_b), GREATEST(user_a, user_b)).
PairTaken(x, y) == <<x, y>> \in matches \/ <<y, x>> \in matches

\* user_a and user_b REFERENCE users, without ON DELETE CASCADE.
Referenced(u) == \E row \in matches : u \in {row[1], row[2]}

\* Mutant: a unique index on (user_a, user_b) as they are written.
MatchCreatedAsWritten(x, y) ==
  /\ <<x, y>> \notin matches
  /\ {x, y} \subseteq users
  /\ matches' = matches \cup {<<x, y>>}

(***************************************************************************)
(* CreateMatchIfNotExists has three outcomes: the row is inserted, the     *)
(* pair exists already (ON CONFLICT DO NOTHING returns no row, which is    *)
(* not an error), or a foreign key is violated, which is an error.         *)
(***************************************************************************)
MatchCreated(x, y) ==
  /\ ~PairTaken(x, y)
  /\ {x, y} \subseteq users
  /\ matches' = matches \cup {<<x, y>>}

MatchExists(x, y) == PairTaken(x, y)

MatchRefused(x, y) == ~PairTaken(x, y) /\ ~ ({x, y} \subseteq users)

=============================================================================
