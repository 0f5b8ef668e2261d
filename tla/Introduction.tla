---------------------------- MODULE Introduction ----------------------------
(***************************************************************************)
(* How matched users are told of each other.                               *)
(*                                                                         *)
(* A match row, once created, may start a goroutine (introduceAsync of     *)
(* matching/job.go, with 30 seconds to run); the scheduler goroutine       *)
(* retries every match not yet marked (RetryMissingIntros).  Both run      *)
(* Introduce of telegram/introducer.go: read the two Telegram ids, send a  *)
(* message to each user, mark the match introduced.  They do not know of   *)
(* each other; deadlines, failures and crashes cut them anywhere.          *)
(*                                                                         *)
(* Module Matching says which matches are created and by whom; here a      *)
(* match is just created, by MatchSingle or by the sweep, which runs in    *)
(* the scheduler goroutine as well and marks the signals before it calls   *)
(* introduceAsync.  Users with a match cannot be deleted (matches          *)
(* REFERENCES users), so the members of a match are constant, and what an  *)
(* account has been before its first match makes no difference.            *)
(***************************************************************************)
EXTENDS Naturals

CONSTANTS
  User,
  Match,       \* the ids of match rows
  Members,     \* user_a ("A") and user_b ("B") of each match
  Scheduler,   \* the scheduler goroutine
  Idle,        \* stands for "runs no Introduce"
  NoMatch,     \* stands for "the sweep has no match to call introduceAsync for"
  MaxFaults,   \* bound: failing store and Telegram calls
  MaxCrashes   \* bound: crashes (or shutdowns) of the broker

VARIABLES
  bot,         \* this process has a bot token: Job.introducer is not nil
  telegramID,  \* users.telegram_id, as far as Telegram is concerned
  matches,     \* the match rows
  marking,     \* the match the sweep has created and marks the signals of
  introduced,  \* those with introduced = true
  intros,      \* the Introduce each goroutine is running
  missing,     \* the matches RetryMissingIntros has loaded and not yet handled
  told,        \* history: messages that reached each member of each match
  lost,        \* history: members a message to whom has not arrived
  faults, crashes   \* how much of each bound is used

boundVars == <<faults, crashes>>
vars == <<bot, telegramID, matches, marking, introduced, intros, missing, told, lost,
          faults, crashes>>

Side == {"A", "B"}

\* telegram_id holds what UpsertSignal and EnsureUser write, a hash no message
\* can be sent to, or the id EnsureUserFromTelegram writes.  The column may
\* also hold ''; no statement of the broker writes that.
TelegramID == {"", "hash", "chat"}

\* A goroutine with an Introduce for a match of its own, or the scheduler.
Task == Match \cup {Scheduler}

\* pc is the next call: reading the ids, the message to A or to B, marking.
Intro == [pc : {"read", "mark"} \cup Side, match : Match,
          live : BOOLEAN,              \* the deadline of ctx has not passed
          to : [Side -> TelegramID]]   \* the ids, once they are read

ASSUME IntroductionAssumption ==
  /\ Members \in [Match -> [Side -> User]]
  /\ Scheduler \notin Match
  /\ Idle \notin Intro
  /\ NoMatch \notin Match
  /\ MaxFaults \in Nat /\ MaxCrashes \in Nat

TypeOK ==
  /\ bot \in BOOLEAN
  /\ telegramID \in [User -> TelegramID]
  /\ matches \subseteq Match
  /\ marking \in Match \cup {NoMatch}
  /\ introduced \subseteq Match
  /\ intros \in [Task -> Intro \cup {Idle}]
  /\ missing \subseteq Match
  /\ told \in [Match -> [Side -> Nat]]
  /\ lost \subseteq Match \X Side
  /\ faults \in 0..MaxFaults
  /\ crashes \in 0..MaxCrashes

Init ==
  /\ bot \in BOOLEAN
  /\ telegramID \in [User -> {"hash", "chat"}]
  /\ matches = {} /\ marking = NoMatch /\ introduced = {}
  /\ intros = [t \in Task |-> Idle]
  /\ missing = {}
  /\ told = [m \in Match |-> [s \in Side |-> 0]]
  /\ lost = {}
  /\ faults = 0 /\ crashes = 0

Begin(m) == [pc |-> "read", match |-> m, live |-> TRUE, to |-> [s \in Side |-> ""]]

Start(t, m) == intros' = [intros EXCEPT ![t] = Begin(m)]

Finish(t) == intros' = [intros EXCEPT ![t] = Idle]

Fault == faults < MaxFaults /\ faults' = faults + 1

-----------------------------------------------------------------------------
(* Matches. *)

\* Without a bot, introduceAsync does nothing.
introduceAsync(m) == IF bot THEN Start(m, m) ELSE UNCHANGED intros

\* MatchSingle inserts the row and calls introduceAsync.  Where the answer of
\* an INSERT is lost, or the process dies first, it is never called.
CreateMatch(m) ==
  /\ m \notin matches
  /\ matches' = matches \cup {m}
  /\ introduceAsync(m) \/ UNCHANGED intros
  /\ UNCHANGED <<bot, telegramID, marking, introduced, missing, told, lost, boundVars>>

\* What the scheduler goroutine does is done before it serves the next tick.
SchedulerIdle == intros[Scheduler] = Idle /\ missing = {} /\ marking = NoMatch

SweepCreates(m) ==
  /\ SchedulerIdle
  /\ m \notin matches
  /\ matches' = matches \cup {m}
  /\ marking' = m
  /\ UNCHANGED <<bot, telegramID, introduced, intros, missing, told, lost, boundVars>>

\* A match whose signals the sweep fails to mark is not introduced.
SweepMarks ==
  /\ marking # NoMatch
  /\ introduceAsync(marking) \/ UNCHANGED intros
  /\ marking' = NoMatch
  /\ UNCHANGED <<bot, telegramID, matches, introduced, missing, told, lost, boundVars>>

\* The 30 seconds of introduceAsync's context are over.
Expires(m) ==
  /\ intros[m] # Idle
  /\ intros[m].live
  /\ intros' = [intros EXCEPT ![m].live = FALSE]
  /\ UNCHANGED <<bot, telegramID, matches, marking, introduced, missing, told, lost, boundVars>>

\* A login through Telegram: ON CONFLICT (telegram_id_hash) DO UPDATE.
Login(u) ==
  /\ telegramID[u] # "chat"
  /\ telegramID' = [telegramID EXCEPT ![u] = "chat"]
  /\ UNCHANGED <<bot, matches, marking, introduced, intros, missing, told, lost, boundVars>>

-----------------------------------------------------------------------------
(* Introduce, in goroutine t. *)

At(t, label) == intros[t] # Idle /\ intros[t].pc = label

\* GetMatchUsersTelegram; without both ids there is nothing to do.
ReadTelegramIDs(t) ==
  /\ At(t, "read")
  /\ intros[t].live
  /\ LET to == [s \in Side |-> telegramID[Members[intros[t].match][s]]] IN
       IF \E s \in Side : to[s] = ""
         THEN Finish(t)
         ELSE intros' = [intros EXCEPT ![t].pc = "A", ![t].to = to]
  /\ UNCHANGED <<bot, telegramID, matches, marking, introduced, missing, told, lost, boundVars>>

\* A call fails because the deadline has passed, or of itself.
CallFails(t) ==
  \/ ~intros[t].live /\ UNCHANGED faults
  \/ intros[t].live /\ Fault

\* "get match users: ..." is returned and logged.
ReadFails(t) ==
  /\ At(t, "read")
  /\ CallFails(t)
  /\ Finish(t)
  /\ UNCHANGED <<bot, telegramID, matches, marking, introduced, missing, told, lost, crashes>>

\* Mutant: the message to user B is left out.
afterOneMessage(label) == "mark"

after(label) == IF label = "A" THEN "B" ELSE "mark"

\* The message arrives.  Whether SendMessage then returns an error or not
\* makes no difference: Introduce only logs it.
Delivered(t, s) ==
  /\ At(t, s)
  /\ intros[t].live
  /\ intros[t].to[s] = "chat"
  /\ told' = [told EXCEPT ![intros[t].match][s] = @ + 1]
  /\ intros' = [intros EXCEPT ![t].pc = after(s)]
  /\ UNCHANGED <<bot, telegramID, matches, marking, introduced, missing, lost, boundVars>>

\* The message does not arrive: there is no such chat, or the call fails.
\* Introduce goes on all the same.
Undelivered(t, s) ==
  /\ At(t, s)
  /\ \/ intros[t].live /\ intros[t].to[s] # "chat" /\ UNCHANGED faults
     \/ CallFails(t)
  /\ lost' = lost \cup {<<intros[t].match, s>>}
  /\ intros' = [intros EXCEPT ![t].pc = after(s)]
  /\ UNCHANGED <<bot, telegramID, matches, marking, introduced, missing, told, crashes>>

\* Mutant: the UPDATE without its WHERE clause.
MarkEveryMatch(t) ==
  /\ At(t, "mark")
  /\ intros[t].live
  /\ introduced' = matches
  /\ Finish(t)
  /\ UNCHANGED <<bot, telegramID, matches, marking, missing, told, lost, boundVars>>

MarkMatchIntroduced(t) ==
  /\ At(t, "mark")
  /\ intros[t].live
  /\ introduced' = introduced \cup {intros[t].match}
  /\ Finish(t)
  /\ UNCHANGED <<bot, telegramID, matches, marking, missing, told, lost, boundVars>>

\* "mark match introduced: ..."; the statement may have been committed.
MarkFails(t) ==
  /\ At(t, "mark")
  /\ CallFails(t)
  /\ \/ UNCHANGED introduced
     \/ intros[t].live /\ introduced' = introduced \cup {intros[t].match}
  /\ Finish(t)
  /\ UNCHANGED <<bot, telegramID, matches, marking, missing, told, lost, crashes>>

Introduce(t) ==
  \/ ReadTelegramIDs(t) \/ ReadFails(t)
  \/ \E s \in Side : Delivered(t, s) \/ Undelivered(t, s)
  \/ MarkMatchIntroduced(t) \/ MarkFails(t)

-----------------------------------------------------------------------------
(* RetryMissingIntros, in the scheduler goroutine. *)

HasTelegramIDs(m) == \A s \in Side : telegramID[Members[m][s]] # ""

\* Mutant: the query without m.introduced = false.
GetMatchesWithIDs == {m \in matches : HasTelegramIDs(m)}

\* Mutant: only users who have logged in through Telegram are looked for.
GetMatchesOfLoggedIn ==
  {m \in matches \ introduced : \A s \in Side : telegramID[Members[m][s]] = "chat"}

GetMatchesMissingIntro == {m \in matches \ introduced : HasTelegramIDs(m)}

\* A query that fails ends the retry of this tick: nothing changes.
RetryStarts ==
  /\ bot
  /\ SchedulerIdle
  /\ GetMatchesMissingIntro # {}
  /\ missing' = GetMatchesMissingIntro
  /\ UNCHANGED <<bot, telegramID, matches, marking, introduced, intros, told, lost, boundVars>>

\* One after the other, by the list as it was loaded.
RetryNext(m) ==
  /\ intros[Scheduler] = Idle
  /\ m \in missing
  /\ missing' = missing \ {m}
  /\ Start(Scheduler, m)
  /\ UNCHANGED <<bot, telegramID, matches, marking, introduced, told, lost, boundVars>>

RetryMissingIntros == RetryStarts \/ (\E m \in Match : RetryNext(m)) \/ Introduce(Scheduler)

-----------------------------------------------------------------------------
\* The process dies or shuts down, which cancels the scheduler's context and
\* waits for no goroutine; the next one may be configured without a bot.
Crash ==
  /\ crashes < MaxCrashes
  /\ crashes' = crashes + 1
  /\ intros' = [t \in Task |-> Idle]
  /\ marking' = NoMatch /\ missing' = {}
  /\ bot' \in BOOLEAN
  /\ UNCHANGED <<telegramID, matches, introduced, told, lost, faults>>

Next ==
  \/ \E m \in Match : CreateMatch(m) \/ SweepCreates(m) \/ Expires(m) \/ Introduce(m)
  \/ \E u \in User : Login(u)
  \/ SweepMarks
  \/ RetryMissingIntros
  \/ Crash

Spec == Init /\ [][Next]_vars

\* The cleanup ticker keeps ticking, and neither the sweep nor a call of the
\* retry (15 seconds for a message) holds the scheduler up for ever; nothing is
\* assumed about the goroutines.
FairSpec == Spec /\ WF_vars(SweepMarks \/ RetryMissingIntros)

-----------------------------------------------------------------------------
(* What must hold, whatever the interleaving. *)

(***************************************************************************)
(* No user is told of a match more often than failures explain: one        *)
(* message from the goroutine, one from a retry racing with it, and one    *)
(* more for each failing call or crash that kept a retry from marking the  *)
(* match.  However many ticks pass, the retry ends.                        *)
(***************************************************************************)
RepeatsAreAccountedFor ==
  \A m \in Match, s \in Side : told[m][s] <= 2 + faults + crashes

(***************************************************************************)
(* A match is marked introduced, which takes it out of the retry for ever, *)
(* only when for each of its two users a message has arrived or one has    *)
(* been tried: whoever marks it, and whatever the others are doing.        *)
(***************************************************************************)
Tried(m, s) == told[m][s] > 0 \/ <<m, s>> \in lost

MarkedOnlyAfterTrying ==
  \A m \in introduced : \A s \in Side : Tried(m, s)

(***************************************************************************)
(* Every match is introduced in the end, also one whose goroutine was      *)
(* never started, ran out of time or died with its process, once the       *)
(* broker keeps running with a bot.                                        *)
(***************************************************************************)
EveryMatchIsIntroduced ==
  <>[]bot => \A m \in Match : m \in matches ~> m \in introduced

-----------------------------------------------------------------------------
(* Why it holds. *)

\* Nothing happens for a match before its row is there.
NothingBeforeTheMatch ==
  /\ introduced \subseteq matches
  /\ missing \subseteq matches
  /\ marking # NoMatch => marking \in matches
  /\ \A m \in Match \ matches :
       /\ intros[m] = Idle
       /\ \A s \in Side : told[m][s] = 0
  /\ \A t \in Task : intros[t] # Idle => intros[t].match \in matches

\* A goroutine of introduceAsync works on its own match; the scheduler has
\* taken the match it works on from its list, and has no deadline.
TasksHaveMatches ==
  /\ \A m \in Match : intros[m] # Idle => intros[m].match = m
  /\ intros[Scheduler] # Idle =>
       intros[Scheduler].match \notin missing /\ intros[Scheduler].live

\* Introduce has tried what it has gone past.
PastMessagesWereTried ==
  \A t \in Task :
    /\ At(t, "B") => Tried(intros[t].match, "A")
    /\ At(t, "mark") => \A s \in Side : Tried(intros[t].match, s)

\* t has the message to member s of m still to send.
Pending(t, m, s) ==
  /\ intros[t] # Idle
  /\ intros[t].match = m
  /\ intros[t].pc \in {"read", "A", s}

\* The scheduler has a message to that member still to send, now or at a later
\* tick if nothing fails.
RetryPending(m, s) ==
  \/ Pending(Scheduler, m, s)
  \/ m \in missing
  \/ m \notin introduced /\ ~ (intros[Scheduler] # Idle /\ intros[Scheduler].match = m)

One(b) == IF b THEN 1 ELSE 0

\* The messages sent and those that would still be sent without failures, by
\* the goroutine the sweep is about to start or has started and by the retry.
Weight(m, s) ==
  told[m][s] + One(marking = m) + One(Pending(m, m, s)) + One(RetryPending(m, s))

RepeatsAndPending ==
  \A m \in matches, s \in Side : Weight(m, s) <= 2 + faults + crashes

(***************************************************************************)
(* The inductive invariant: each message the two kinds of goroutine have   *)
(* still to send is paid for in advance.                                   *)
(***************************************************************************)
IInv ==
  /\ TypeOK
  /\ NothingBeforeTheMatch /\ TasksHaveMatches
  /\ PastMessagesWereTried /\ MarkedOnlyAfterTrying
  /\ RepeatsAndPending

-----------------------------------------------------------------------------
(* What the repository says of introductions and the code does not do. *)

(***************************************************************************)
(* "It updates the match record to mark the introduction as delivered"     *)
(* (telegram/introducer.go:27), and "skipping introduction -- missing      *)
(* Telegram IDs" (introducer.go:35): of a match marked introduced, both    *)
(* users have been told, also if one of them logs in only later.           *)
(***************************************************************************)
IntroducedMeansDelivered ==
  \A m \in introduced : \A s \in Side : told[m][s] > 0

=============================================================================
