------------------------------- MODULE Broker -------------------------------
(***************************************************************************)
(* Matching and introductions together, as cmd/broker/main.go runs them.   *)
(*                                                                         *)
(* The matches of module Matching are the matches of module Introduction,  *)
(* and introduceAsync, a count there, starts the goroutine here.  One      *)
(* goroutine, runScheduler, serves the match ticker (the sweep) and the    *)
(* cleanup ticker (CleanExpired, then RetryMissingIntros), one tick after  *)
(* the other.  A crash ends everything that runs, in both modules.         *)
(***************************************************************************)
EXTENDS Matching

CONSTANTS
  Scheduler, Idle,  \* as in Introduction
  MaxIntroFaults    \* bound: failing calls of Introduce

VARIABLES
  bot, telegramID, introduced, intros, missing, told, lost,  \* as in Introduction
  introFaults   \* how much of the bound is used

introVars == <<bot, telegramID, introduced, intros, missing, told, lost, introFaults>>
brokerVars == <<vars, introVars>>

\* A row of matches: user_a and user_b.
Row == User \X User

RowMembers == [row \in Row |-> [A |-> row[1], B |-> row[2]]]

Introductions == INSTANCE Introduction WITH
  Match <- Row,
  Members <- RowMembers,
  marking <- created,
  NoMatch <- NoPair,
  faults <- introFaults,
  MaxFaults <- MaxIntroFaults

ASSUME BrokerAssumption == Introductions!IntroductionAssumption

\* Those without an account have no Telegram id either.
BrokerInit ==
  /\ Init
  /\ Introductions!Init
  /\ \A u \in User \ users : telegramID[u] = "hash"

-----------------------------------------------------------------------------
(* Steps of Matching. *)

\* introduceAsync: the goroutine starts, if this process has a bot.
Launched == {row \in Row : launches'[row] > launches[row]}

StartIntroductions ==
  intros' = [t \in Introductions!Task |->
               IF bot /\ t \in Launched THEN Introductions!Begin(t) ELSE intros[t]]

OfMatching ==
  /\ StartIntroductions
  /\ UNCHANGED <<bot, introduced, missing, told, lost, introFaults>>

BrokerUploads ==
  /\ \E r \in Request : Upload(r) \/ MatchSingle(r)
  /\ OfMatching
  /\ UNCHANGED telegramID

\* The retry of the last cleanup tick, if there was one, has come to its end.
RetryIdle == intros[Scheduler] = Idle /\ missing = {}

SchedulerSweeps ==
  /\ RetryIdle
  /\ Sweep
  /\ OfMatching
  /\ UNCHANGED telegramID

SchedulerCleans ==
  /\ RetryIdle
  /\ CleanExpired
  /\ UNCHANGED introVars

\* The telegram_id of an account goes with it; the next account of this
\* anonymous id starts with the hash again.
UserLeaves(u) ==
  \/ /\ DeleteSignal(u) \/ Expire(u)
     /\ UNCHANGED introVars
  \/ /\ DeleteUser(u)
     /\ telegramID' = [telegramID EXCEPT ![u] = "hash"]
     /\ UNCHANGED <<bot, introduced, intros, missing, told, lost, introFaults>>

-----------------------------------------------------------------------------
(* Steps of Introduction. *)

OfIntroduction ==
  UNCHANGED <<signals, requests, todo, launches, offered, uploads, removals, faults>>

\* EnsureUserFromTelegram: the row is inserted, or updated.
UserLogsIn(u) ==
  /\ Introductions!Login(u)
  /\ users' = users \cup {u}
  /\ OfIntroduction

Introducing(row) ==
  /\ Introductions!Expires(row) \/ Introductions!Introduce(row)
  /\ UNCHANGED users
  /\ OfIntroduction

SchedulerRetries ==
  /\ SweepIdle
  /\ Introductions!RetryMissingIntros
  /\ UNCHANGED users
  /\ OfIntroduction

-----------------------------------------------------------------------------
BrokerCrash == Crash /\ Introductions!Crash

BrokerNext ==
  \/ BrokerUploads
  \/ SchedulerSweeps \/ SchedulerCleans \/ SchedulerRetries
  \/ \E row \in Row : Introducing(row)
  \/ \E u \in User : UserLeaves(u) \/ UserLogsIn(u)
  \/ BrokerCrash

BrokerSpec == BrokerInit /\ [][BrokerNext]_brokerVars

\* Both tickers keep ticking.  The select of runScheduler takes any of the
\* ticks that wait, at random, so none waits for ever while the other is
\* served again and again; a sweep and a retry come to an end (15 seconds for
\* a message).  Nothing is assumed of handlers and goroutines.
BrokerFairSpec ==
  /\ BrokerSpec
  /\ SF_brokerVars(SchedulerSweeps)
  /\ SF_brokerVars(SchedulerRetries)

-----------------------------------------------------------------------------
(* What the two parts owe each other and the users. *)

Pairs == {pair \in SUBSET User : \E x, y \in pair : x # y /\ pair = {x, y}}

\* The broker has the two signals to match, or has matched them.
OwesIntroduction(pair) ==
  \E x, y \in pair : pair = {x, y} /\ (Eligible(x, y) \/ PairTaken(x, y))

PairIntroduced(pair) == \E row \in introduced : pair = {row[1], row[2]}

(***************************************************************************)
(* Two compatible signals end in an introduction, from the upload to the   *)
(* mark on the match row, whoever finds the pair, whatever a crash, a      *)
(* cancelled context or a deadline cuts short on the way and however busy  *)
(* the one scheduler goroutine is with its other ticker, once the broker   *)
(* keeps running with a bot; unless the signals change before they are     *)
(* matched.  It is model-checked only, on two uploads and without failing  *)
(* calls of the store or of Telegram: that the sweep marks a signal newer  *)
(* than the one it has read takes a third upload, and is not among the     *)
(* cases of that run.                                                      *)
(***************************************************************************)
PairsMeet ==
  <>[]bot =>
    \A pair \in Pairs :
      OwesIntroduction(pair) ~> PairIntroduced(pair) \/ ~OwesIntroduction(pair)

\* The messages to x about y, by whichever of the two possible rows.
TellsOf(x, y) == told[<<x, y>>]["A"] + told[<<y, x>>]["B"]

(***************************************************************************)
(* Each part keeps its inductive invariant beside the other: what          *)
(* Introduction assumes of the matches, and Matching of the scheduler and  *)
(* the accounts, is what the other one does, types included.               *)
(***************************************************************************)
BrokerInvariant == IInv /\ Introductions!IInv

(***************************************************************************)
(* Nobody is told of the same person more often than failures explain,     *)
(* although the pair may be found by several uploads and the sweep at the  *)
(* same time and its introduction run in two goroutines.                   *)
(***************************************************************************)
NobodyIsFlooded ==
  \A x, y \in User : x # y => TellsOf(x, y) <= 2 + introFaults + crashes

(***************************************************************************)
(* What Introduction takes for granted: a match row stays, with both its   *)
(* accounts, and with the Telegram ids they have, while uploads, logins,   *)
(* deletions and crashes go on around it.                                  *)
(***************************************************************************)
MembersStay ==
  [][\A row \in matches :
       /\ row \in matches'
       /\ \A u \in {row[1], row[2]} :
            u \in users' /\ (telegramID[u] = "chat" => telegramID'[u] = "chat")]_brokerVars

(***************************************************************************)
(* A message about y reaches x only if each of them has asked for the      *)
(* other: both have stored signals that accept each other, and both still  *)
(* have their accounts, whatever has been uploaded, removed, deleted or    *)
(* retried since one of the paths read the signals, and although Introduce *)
(* looks at nothing but the match row.                                     *)
(***************************************************************************)
ToldOnlyOfPartners ==
  \A x, y \in User : TellsOf(x, y) > 0 =>
    x # y /\ OfferedMutual(x, y) /\ {x, y} \subseteq users

-----------------------------------------------------------------------------
(* The broker as a whole keeps the promises of MeetingLedger. *)

\* A pair is introduced once its row is marked; Matching counts it from the
\* call of introduceAsync on (PairStatus).
Marks == [row \in Row |-> IF row \in introduced THEN 1 ELSE 0]

MeetingStatus == StatusIn(Marks, matches)

\* <<x, y>>: a message to x about y, user_a of the row <<x, y>> or user_b of
\* the row <<y, x>>.
TriedContacts ==
  {c \in Row : Introductions!Tried(c, "A") \/ Introductions!Tried(<<c[2], c[1]>>, "B")}

HeardContacts == [c \in Row |-> TellsOf(c[1], c[2])]

Meetings == INSTANCE MeetingLedger WITH
  accounts <- users,
  status <- MeetingStatus,
  tried <- TriedContacts,
  heard <- HeardContacts,
  mishaps <- introFaults + crashes

(***************************************************************************)
(* Uploads, sweeps, goroutines and retries together implement the ledger   *)
(* of meetings: whichever of the two possible rows a pair gets and whoever *)
(* introduces it, a pair goes from strangers to matched to introduced, the *)
(* last only after messages to both, nobody hears of a stranger, and no    *)
(* message comes more often than the mishaps so far allow.                 *)
(***************************************************************************)
ImplementsMeetings == Meetings!Spec

=============================================================================
