---------------------------- MODULE OAuthPending ----------------------------
(***************************************************************************)
(* Logins through Telegram mediated by the broker, for a client that       *)
(* cannot receive the redirect itself (handler/auth_telegram.go): start    *)
(* files a pending login under a random state, the browser brings the      *)
(* callback, the client polls, a goroutine forgets old logins.             *)
(*                                                                         *)
(* The map is guarded by a mutex, but a callback only holds it to look the *)
(* login up and, after calls to Telegram and the store, to write its       *)
(* result, through the pointer it has kept.  The browser may bring the     *)
(* same callback again, or another one, while the first is under way.      *)
(***************************************************************************)
EXTENDS Naturals

CONSTANTS
  Flow,          \* the states start hands out, one for each login
  Person,        \* Telegram identities
  Callback,      \* slots for callbacks in progress
  NoCallback,    \* stands for a free slot
  MaxCallbacks,  \* bound: callbacks in a behaviour
  MaxCrashes     \* bound: crashes (or shutdowns) of the broker

VARIABLES
  started,    \* the logins start has been called for
  pending,    \* the keys of AuthHandler.pending
  result,     \* status and result of each pendingOAuth, written together
  age,        \* time since createdAt
  callbacks,  \* the callbacks in progress
  granted,    \* the codes Telegram has issued: who has authorised which login
  used,       \* the codes that have been exchanged
  accounts,   \* persons EnsureUserFromTelegram has made an account for
  verified,   \* those with age_verified = true
  answer,     \* history: the last answer but "pending" the client has received
  delivered,  \* history: how often poll has handed out a result
  arrived, crashes   \* how much of each bound is used

login  == <<started, pending, result, age>>
users  == <<accounts, verified>>
client == <<answer, delivered>>
bounds == <<arrived, crashes>>
vars == <<started, pending, result, age, callbacks, granted, used, accounts, verified,
          answer, delivered, arrived, crashes>>

\* A person stands for status "complete" with a session for that person.
Result == {"pending", "error"} \cup Person

\* Up to 5 minutes, up to 10 minutes, more.
Age == 0..2

CallbackRequest ==
  [pc : {"exchange", "ensure", "verify", "complete", "error"},
   flow : Flow, person : Person]

ASSUME OAuthAssumption ==
  /\ Person \cap {"none", "expired", "pending", "error"} = {}
  /\ NoCallback \notin CallbackRequest
  /\ MaxCallbacks \in Nat /\ MaxCrashes \in Nat

TypeOK ==
  /\ started \subseteq Flow /\ pending \subseteq Flow
  /\ result \in [Flow -> Result]
  /\ age \in [Flow -> Age]
  /\ callbacks \in [Callback -> CallbackRequest \cup {NoCallback}]
  /\ granted \subseteq Flow \X Person /\ used \subseteq Flow \X Person
  /\ accounts \subseteq Person /\ verified \subseteq Person
  /\ answer \in [Flow -> {"none", "expired", "error"} \cup Person]
  /\ delivered \in [Flow -> Nat]
  /\ arrived \in 0..MaxCallbacks
  /\ crashes \in 0..MaxCrashes

Init ==
  /\ started = {} /\ pending = {}
  /\ result = [f \in Flow |-> "pending"]
  /\ age = [f \in Flow |-> 0]
  /\ callbacks = [c \in Callback |-> NoCallback]
  /\ granted = {} /\ used = {}
  /\ accounts = {} /\ verified = {}
  /\ answer = [f \in Flow |-> "none"]
  /\ delivered = [f \in Flow |-> 0]
  /\ arrived = 0 /\ crashes = 0

At(c, label) == callbacks[c] # NoCallback /\ callbacks[c].pc = label

Goto(c, label) == callbacks' = [callbacks EXCEPT ![c].pc = label]

Return(c) == callbacks' = [callbacks EXCEPT ![c] = NoCallback]

Code(c) == <<callbacks[c].flow, callbacks[c].person>>

-----------------------------------------------------------------------------
\* POST /auth/telegram/start: a state nobody has used, a verifier of its own.
HandleTelegramStart(f) ==
  /\ f \notin started
  /\ started' = started \cup {f}
  /\ pending' = pending \cup {f}
  /\ result' = [result EXCEPT ![f] = "pending"]
  /\ age' = [age EXCEPT ![f] = 0]
  /\ UNCHANGED <<callbacks, granted, used, users, client, bounds>>

\* A person opens the authorization URL and agrees: Telegram issues a code.
Authorize(f, p) ==
  /\ f \in started
  /\ <<f, p>> \notin granted
  /\ granted' = granted \cup {<<f, p>>}
  /\ UNCHANGED <<login, callbacks, used, users, client, bounds>>

-----------------------------------------------------------------------------
(* GET /auth/telegram/callback. *)

Receive(c, request) ==
  /\ callbacks[c] = NoCallback
  /\ arrived < MaxCallbacks
  /\ arrived' = arrived + 1
  /\ callbacks' = [callbacks EXCEPT ![c] = request]

\* The browser brings a code, for the first time or again.  An unknown or
\* expired state is refused, and nothing changes.
ReceiveCode(c, f, p) ==
  /\ <<f, p>> \in granted
  /\ f \in pending /\ age[f] = 0
  /\ Receive(c, [pc |-> "exchange", flow |-> f, person |-> p])
  /\ UNCHANGED <<login, granted, used, users, client, crashes>>

\* The browser brings an error for a known state, of whatever age (and of
\* whomever: no code comes with it).
ReceiveError(c, f, p) ==
  /\ f \in pending
  /\ Receive(c, [pc |-> "error", flow |-> f, person |-> p])
  /\ UNCHANGED <<login, granted, used, users, client, crashes>>

\* Telegram accepts each code once.
ExchangeCode(c) ==
  /\ At(c, "exchange")
  /\ Code(c) \notin used
  /\ used' = used \cup {Code(c)}
  /\ Goto(c, "ensure")
  /\ UNCHANGED <<login, granted, users, client, bounds>>

\* Mutant: the error of exchangeCode is not looked at.
ExchangeErrorIgnored(c) ==
  /\ At(c, "exchange")
  /\ used' \in {used, used \cup {Code(c)}}
  /\ Goto(c, "ensure")
  /\ UNCHANGED <<login, granted, users, client, bounds>>

\* No answer, a refusal, or an id_token that fails one of the checks.
ExchangeFails(c) ==
  /\ At(c, "exchange")
  /\ used' \in {used, used \cup {Code(c)}}
  /\ Goto(c, "error")
  /\ UNCHANGED <<login, granted, users, client, bounds>>

EnsureUserFromTelegram(c) ==
  /\ At(c, "ensure")
  /\ accounts' = accounts \cup {callbacks[c].person}
  /\ Goto(c, "verify")
  /\ UNCHANGED <<login, granted, used, verified, client, bounds>>

\* Mutant: the return after a failed EnsureUserFromTelegram is missing.
EnsureUserGoesOn(c) ==
  /\ At(c, "ensure")
  /\ accounts' \in {accounts, accounts \cup {callbacks[c].person}}
  /\ Goto(c, "verify")
  /\ UNCHANGED <<login, granted, used, verified, client, bounds>>

\* The statement fails, perhaps after it was committed, or no token is issued.
EnsureUserFails(c) ==
  /\ At(c, "ensure")
  /\ accounts' \in {accounts, accounts \cup {callbacks[c].person}}
  /\ Goto(c, "error")
  /\ UNCHANGED <<login, granted, used, verified, client, bounds>>

\* A failure of MarkAgeVerified is ignored.
MarkAgeVerified(c) ==
  /\ At(c, "verify")
  /\ verified' \in {verified, verified \cup {callbacks[c].person}}
  /\ Goto(c, "complete")
  /\ UNCHANGED <<login, granted, used, accounts, client, bounds>>

\* Mutant: the result is filed in the map again under its state.
CompleteFiles(c) ==
  /\ At(c, "complete")
  /\ result' = [result EXCEPT ![callbacks[c].flow] = callbacks[c].person]
  /\ pending' = pending \cup {callbacks[c].flow}
  /\ Return(c)
  /\ UNCHANGED <<started, age, granted, used, users, client, bounds>>

\* "Store result for polling", in the login looked up at the start, which the
\* map may not hold any more.
Complete(c) ==
  /\ At(c, "complete")
  /\ result' = [result EXCEPT ![callbacks[c].flow] = callbacks[c].person]
  /\ Return(c)
  /\ UNCHANGED <<started, pending, age, granted, used, users, client, bounds>>

\* Every error path writes its error there, whatever was there before.
Fail(c) ==
  /\ At(c, "error")
  /\ result' = [result EXCEPT ![callbacks[c].flow] = "error"]
  /\ Return(c)
  /\ UNCHANGED <<started, pending, age, granted, used, users, client, bounds>>

HandleTelegramCallback(c) ==
  \/ \E f \in Flow, p \in Person : ReceiveCode(c, f, p) \/ ReceiveError(c, f, p)
  \/ ExchangeCode(c) \/ ExchangeFails(c)
  \/ EnsureUserFromTelegram(c) \/ EnsureUserFails(c)
  \/ MarkAgeVerified(c) \/ Complete(c) \/ Fail(c)

-----------------------------------------------------------------------------
(* GET /auth/telegram/poll.  The answer "pending" changes nothing. *)

\* The answer may be lost on its way.
Answers(f, a) == answer' \in {answer, [answer EXCEPT ![f] = a]}

PollUnknown(f) ==
  /\ f \in started \ pending
  /\ Answers(f, "expired")
  /\ UNCHANGED <<login, callbacks, granted, used, users, delivered, bounds>>

PollExpired(f) ==
  /\ f \in pending
  /\ age[f] > 0
  /\ pending' = pending \ {f}
  /\ Answers(f, "expired")
  /\ UNCHANGED <<started, result, age, callbacks, granted, used, users, delivered, bounds>>

\* Mutant: an error is not removed from the map.
PollSession(f) ==
  /\ f \in pending
  /\ age[f] = 0
  /\ result[f] # "pending"
  /\ pending' = IF result[f] = "error" THEN pending ELSE pending \ {f}
  /\ Answers(f, result[f])
  /\ delivered' = [delivered EXCEPT ![f] = @ + 1]
  /\ UNCHANGED <<started, result, age, callbacks, granted, used, users, bounds>>

PollResult(f) ==
  /\ f \in pending
  /\ age[f] = 0
  /\ result[f] # "pending"
  /\ pending' = pending \ {f}
  /\ Answers(f, result[f])
  /\ delivered' = [delivered EXCEPT ![f] = @ + 1]
  /\ UNCHANGED <<started, result, age, callbacks, granted, used, users, bounds>>

HandleTelegramPoll(f) == PollUnknown(f) \/ PollExpired(f) \/ PollResult(f)

-----------------------------------------------------------------------------
TimePasses(f) ==
  /\ f \in started
  /\ age[f] < 2
  /\ age' = [age EXCEPT ![f] = @ + 1]
  /\ UNCHANGED <<started, pending, result, callbacks, granted, used, users, client, bounds>>

\* Mutant: a finished login is left for its client to fetch.
CleanupUnfinished ==
  /\ \E f \in pending : age[f] = 2 /\ result[f] = "pending"
  /\ pending' = {f \in pending : age[f] < 2 \/ result[f] # "pending"}
  /\ UNCHANGED <<started, result, age, callbacks, granted, used, users, client, bounds>>

\* The tick of StartCleanup, under the lock.
Cleanup ==
  /\ \E f \in pending : age[f] = 2
  /\ pending' = {f \in pending : age[f] < 2}
  /\ UNCHANGED <<started, result, age, callbacks, granted, used, users, client, bounds>>

\* The map lives in memory.
Crash ==
  /\ crashes < MaxCrashes
  /\ crashes' = crashes + 1
  /\ pending' = {}
  /\ callbacks' = [c \in Callback |-> NoCallback]
  /\ UNCHANGED <<started, result, age, granted, used, users, client, arrived>>

Next ==
  \/ \E f \in Flow : HandleTelegramStart(f) \/ HandleTelegramPoll(f) \/ TimePasses(f)
  \/ \E f \in Flow, p \in Person : Authorize(f, p)
  \/ \E c \in Callback : HandleTelegramCallback(c)
  \/ Cleanup
  \/ Crash

Spec == Init /\ [][Next]_vars

\* Time passes and the ticker of StartCleanup ticks; clients, browsers and
\* Telegram may stop at any point.
FairSpec == Spec /\ WF_vars(Cleanup) /\ \A f \in Flow : WF_vars(TimePasses(f))

-----------------------------------------------------------------------------
(* What must hold, whatever comes together. *)

(***************************************************************************)
(* The one-time read: for one login, poll hands out one result at most,    *)
(* and none once the login was reported expired, whichever callbacks write *)
(* to it later and however often clients poll.                             *)
(***************************************************************************)
OneResult ==
  \A f \in Flow : delivered[f] <= 1 /\ (answer[f] = "none" \/ f \notin pending)

(***************************************************************************)
(* A client is handed a session only for a person who has authorised this  *)
(* very login, by a code exchanged for it, and has been given an account.    *)
(***************************************************************************)
Backed(f, p) == <<f, p>> \in granted \cap used /\ p \in accounts

SessionsAreBacked ==
  \A f \in Flow, p \in Person : answer[f] = p => Backed(f, p)

(***************************************************************************)
(* What a client has been told does not change: after a session, an error  *)
(* or "expired" it only ever hears "expired".                              *)
(***************************************************************************)
AnswersAreFinal ==
  [][\A f \in Flow : answer[f] # "none" => answer'[f] \in {answer[f], "expired"}]_vars

(***************************************************************************)
(* Every pending login leaves the map in the end, also one nobody polls    *)
(* for, and whatever state its callbacks have left it in.                  *)
(***************************************************************************)
PendingIsForgotten == \A f \in Flow : f \in pending ~> f \notin pending

-----------------------------------------------------------------------------
(* Why it holds. *)

\* A login in the map is new to its client.
PendingIsUnanswered ==
  /\ pending \subseteq started
  /\ \A f \in pending : delivered[f] = 0 /\ answer[f] = "none"
  /\ \A f \in Flow \ started :
       delivered[f] = 0 /\ answer[f] = "none" /\ result[f] = "pending"

\* Each call of a callback has been preceded by the ones before it.
CallbacksAreBacked ==
  \A c \in Callback :
    /\ \A label \in {"exchange", "ensure", "verify", "complete"} :
         At(c, label) => Code(c) \in granted
    /\ \A label \in {"ensure", "verify", "complete"} : At(c, label) => Code(c) \in used
    /\ \A label \in {"verify", "complete"} :
         At(c, label) => callbacks[c].person \in accounts
    /\ callbacks[c] # NoCallback => callbacks[c].flow \in started

ResultsAreBacked ==
  \A f \in Flow, p \in Person : result[f] = p => Backed(f, p)

(***************************************************************************)
(* The inductive invariant: a result is backed before it is written, and   *)
(* a login leaves the map with its first answer.                           *)
(***************************************************************************)
IInv ==
  /\ TypeOK
  /\ PendingIsUnanswered
  /\ CallbacksAreBacked /\ ResultsAreBacked /\ SessionsAreBacked
  /\ OneResult

-----------------------------------------------------------------------------
(* A pending login is a mailbox with one message. *)

Mailbox == INSTANCE LoginMailbox WITH
  open <- pending, agreed <- granted, redeemed <- used

(***************************************************************************)
(* The map of pending logins, which callbacks write to through pointers    *)
(* they keep, is for its clients a mailbox with one message: a login that  *)
(* was answered, reported expired or forgotten never comes back, whatever  *)
(* callback ends later, a session names a person who authorised this very  *)
(* login, and accounts and age marks come only by such authorisations.     *)
(***************************************************************************)
ImplementsMailbox == Mailbox!Spec

=============================================================================
