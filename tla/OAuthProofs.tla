----------------------------- MODULE OAuthProofs -----------------------------
(***************************************************************************)
(* Safety of OAuthPending, for any logins, persons and callbacks.          *)
(***************************************************************************)
EXTENDS OAuthPending, TLAPS

LEMMA InitInvariant == Init => IInv
<1> SUFFICES ASSUME Init PROVE IInv
  OBVIOUS
<1>1. TypeOK
  BY OAuthAssumption DEF Init, TypeOK, Result, Age
<1>2. PendingIsUnanswered /\ OneResult
  BY DEF Init, PendingIsUnanswered, OneResult
<1>3. CallbacksAreBacked
  BY DEF Init, CallbacksAreBacked, At
<1>4. ResultsAreBacked /\ SessionsAreBacked
  BY OAuthAssumption DEF Init, ResultsAreBacked, SessionsAreBacked
<1> QED BY <1>1, <1>2, <1>3, <1>4 DEF IInv

-----------------------------------------------------------------------------
(* Type correctness. *)

\* A callback goes on, returns, or arrives.
LEMMA CallbacksType ==
  ASSUME TypeOK, NEW c \in Callback
  PROVE  /\ \A request \in CallbackRequest : Receive(c, request) =>
              callbacks' \in [Callback -> CallbackRequest \cup {NoCallback}]
         /\ Return(c) => callbacks' \in [Callback -> CallbackRequest \cup {NoCallback}]
         /\ \A label \in {"exchange", "ensure", "verify", "complete", "error"} :
              callbacks[c] # NoCallback /\ Goto(c, label) =>
                callbacks' \in [Callback -> CallbackRequest \cup {NoCallback}]
<1>1. ASSUME NEW label \in {"exchange", "ensure", "verify", "complete", "error"},
             callbacks[c] # NoCallback, Goto(c, label)
      PROVE  callbacks' \in [Callback -> CallbackRequest \cup {NoCallback}]
  <2>1. callbacks[c] \in CallbackRequest
    BY <1>1 DEF TypeOK
  <2>2. [callbacks[c] EXCEPT !.pc = label] \in CallbackRequest
    BY <2>1 DEF CallbackRequest
  <2> QED BY <1>1, <2>2 DEF TypeOK, Goto
<1> QED BY <1>1 DEF TypeOK, Receive, Return

LEMMA CallbackType ==
  ASSUME TypeOK, NEW c \in Callback, HandleTelegramCallback(c) PROVE TypeOK'
<1> USE OAuthAssumption DEF TypeOK
<1>0. ASSUME NEW label, At(c, label)
      PROVE  callbacks[c] # NoCallback /\ callbacks[c].flow \in Flow /\ callbacks[c].person \in Person
  BY <1>0 DEF At, CallbackRequest
<1>1. ASSUME NEW f \in Flow, NEW p \in Person, ReceiveCode(c, f, p) \/ ReceiveError(c, f, p)
      PROVE  TypeOK'
  <2>1. /\ [pc |-> "exchange", flow |-> f, person |-> p] \in CallbackRequest
        /\ [pc |-> "error", flow |-> f, person |-> p] \in CallbackRequest
    BY DEF CallbackRequest
  <2>2. callbacks' \in [Callback -> CallbackRequest \cup {NoCallback}]
    BY <1>1, <2>1, CallbacksType DEF ReceiveCode, ReceiveError
  <2>3. arrived' \in 0..MaxCallbacks
    BY <1>1 DEF ReceiveCode, ReceiveError, Receive
  <2> QED BY <1>1, <2>2, <2>3 DEF ReceiveCode, ReceiveError, login, users, client
<1>2. CASE ExchangeCode(c) \/ ExchangeFails(c)
  <2>1. callbacks' \in [Callback -> CallbackRequest \cup {NoCallback}]
    BY <1>0, <1>2, CallbacksType DEF ExchangeCode, ExchangeFails
  <2>2. used' \subseteq Flow \X Person
    BY <1>0, <1>2 DEF ExchangeCode, ExchangeFails, Code
  <2> QED BY <1>2, <2>1, <2>2 DEF ExchangeCode, ExchangeFails, login, users, client, bounds
<1>3. CASE EnsureUserFromTelegram(c) \/ EnsureUserFails(c) \/ MarkAgeVerified(c)
  <2>1. callbacks' \in [Callback -> CallbackRequest \cup {NoCallback}]
    BY <1>0, <1>3, CallbacksType DEF EnsureUserFromTelegram, EnsureUserFails, MarkAgeVerified
  <2>2. accounts' \subseteq Person /\ verified' \subseteq Person
    BY <1>0, <1>3 DEF EnsureUserFromTelegram, EnsureUserFails, MarkAgeVerified
  <2> QED BY <1>3, <2>1, <2>2
          DEF EnsureUserFromTelegram, EnsureUserFails, MarkAgeVerified, login, client, bounds
<1>4. CASE Complete(c) \/ Fail(c)
  <2>1. callbacks' \in [Callback -> CallbackRequest \cup {NoCallback}]
    BY <1>0, <1>4, CallbacksType DEF Complete, Fail
  <2>2. result' \in [Flow -> Result]
    BY <1>0, <1>4 DEF Complete, Fail, Result
  <2> QED BY <1>4, <2>1, <2>2 DEF Complete, Fail, users, client, bounds
<1> QED BY <1>1, <1>2, <1>3, <1>4 DEF HandleTelegramCallback

LEMMA NextType ==
  ASSUME TypeOK, [Next]_vars PROVE TypeOK'
<1> USE OAuthAssumption DEF TypeOK
<1>1. ASSUME NEW f \in Flow, HandleTelegramStart(f) PROVE TypeOK'
  BY <1>1 DEF HandleTelegramStart, Result, Age, users, client, bounds
<1>2. ASSUME NEW f \in Flow, HandleTelegramPoll(f) PROVE TypeOK'
  <2>1. CASE PollUnknown(f) \/ PollExpired(f)
    <3>1. answer' \in [Flow -> {"none", "expired", "error"} \cup Person]
      BY <2>1 DEF PollUnknown, PollExpired, Answers
    <3> QED BY <2>1, <3>1 DEF PollUnknown, PollExpired, login, users, bounds
  <2>2. CASE PollResult(f)
    <3>1. result[f] \in {"error"} \cup Person
      BY <2>2 DEF PollResult, Result
    <3>2. answer' \in [Flow -> {"none", "expired", "error"} \cup Person]
      BY <2>2, <3>1 DEF PollResult, Answers
    <3>3. delivered' \in [Flow -> Nat] /\ pending' \subseteq Flow
      BY <2>2 DEF PollResult
    <3> QED BY <2>2, <3>2, <3>3 DEF PollResult, users, bounds
  <2> QED BY <1>2, <2>1, <2>2 DEF HandleTelegramPoll
<1>3. ASSUME NEW f \in Flow, TimePasses(f) PROVE TypeOK'
  BY <1>3 DEF TimePasses, Age, users, client, bounds
<1>4. ASSUME NEW f \in Flow, NEW p \in Person, Authorize(f, p) PROVE TypeOK'
  BY <1>4 DEF Authorize, login, users, client, bounds
<1>5. ASSUME NEW c \in Callback, HandleTelegramCallback(c) PROVE TypeOK'
  BY <1>5, CallbackType
<1>6. CASE Cleanup
  BY <1>6 DEF Cleanup, users, client, bounds
<1>7. CASE Crash
  BY <1>7 DEF Crash, users, client
<1>8. CASE UNCHANGED vars
  BY <1>8 DEF vars
<1> QED BY <1>1, <1>2, <1>3, <1>4, <1>5, <1>6, <1>7, <1>8 DEF Next

-----------------------------------------------------------------------------
(* What one step may do. *)

\* Nothing is forgotten but the map and the callbacks.
LEMMA HistoryGrows ==
  ASSUME [Next]_vars
  PROVE  /\ started \subseteq started' /\ granted \subseteq granted'
         /\ used \subseteq used' /\ accounts \subseteq accounts'
BY DEF Next, vars, HandleTelegramStart, HandleTelegramPoll, PollUnknown, PollExpired, PollResult,
       TimePasses, Authorize, HandleTelegramCallback, ReceiveCode, ReceiveError, ExchangeCode,
       ExchangeFails, EnsureUserFromTelegram, EnsureUserFails, MarkAgeVerified, Complete, Fail,
       Cleanup, Crash, login, users

\* What a client has been told changes with an answer to a poll, and a login
\* that was in the map leaves it with its answer.
LEMMA LoginStep ==
  ASSUME TypeOK, [Next]_vars, NEW f \in Flow
  PROVE  \/ /\ answer'[f] = answer[f] /\ delivered'[f] = delivered[f]
            /\ f \in pending' => f \in pending \/ (f \notin started /\ f \in started')
         \/ /\ f \in started \ pending /\ f \notin pending'
            /\ answer'[f] \in {answer[f], "expired"} /\ delivered'[f] = delivered[f]
         \/ /\ f \in pending /\ f \notin pending'
            /\ \/ answer'[f] \in {answer[f], "expired"}
               \/ answer'[f] = result[f] /\ result[f] # "pending"
            /\ delivered'[f] \in {delivered[f], delivered[f] + 1}
<1>1. ASSUME NEW g \in Flow, HandleTelegramStart(g)
      PROVE  /\ answer' = answer /\ delivered' = delivered
             /\ f \in pending' => f \in pending \/ (f \notin started /\ f \in started')
  <2>1. started' = started \cup {g} /\ pending' = pending \cup {g} /\ g \notin started
    BY <1>1 DEF HandleTelegramStart
  <2>2. answer' = answer /\ delivered' = delivered
    BY <1>1 DEF HandleTelegramStart, client
  <2> QED BY <2>1, <2>2
<1>9. ASSUME NEW g \in Flow, TimePasses(g)
      PROVE  answer' = answer /\ delivered' = delivered /\ pending' = pending
  BY <1>9 DEF TimePasses, client
<1>2. ASSUME NEW g \in Flow, HandleTelegramPoll(g), f # g
      PROVE  answer'[f] = answer[f] /\ delivered'[f] = delivered[f] /\ (f \in pending' => f \in pending)
  BY <1>2 DEF TypeOK, HandleTelegramPoll, PollUnknown, PollExpired, PollResult, Answers, login
<1>3. ASSUME PollUnknown(f)
      PROVE  /\ f \in started \ pending /\ f \notin pending'
             /\ answer'[f] \in {answer[f], "expired"} /\ delivered'[f] = delivered[f]
  BY <1>3 DEF TypeOK, PollUnknown, Answers, login
<1>4. ASSUME PollExpired(f)
      PROVE  /\ f \in pending /\ f \notin pending'
             /\ answer'[f] \in {answer[f], "expired"} /\ delivered'[f] = delivered[f]
  BY <1>4 DEF TypeOK, PollExpired, Answers
<1>5. ASSUME PollResult(f)
      PROVE  /\ f \in pending /\ f \notin pending' /\ result[f] # "pending"
             /\ answer'[f] \in {answer[f], result[f]} /\ delivered'[f] = delivered[f] + 1
  BY <1>5 DEF TypeOK, PollResult, Answers
<1>6. ASSUME NEW c \in Callback, HandleTelegramCallback(c)
      PROVE  answer' = answer /\ delivered' = delivered /\ pending' = pending
  BY <1>6 DEF TypeOK, HandleTelegramCallback, ReceiveCode, ReceiveError, ExchangeCode, ExchangeFails,
              EnsureUserFromTelegram, EnsureUserFails, MarkAgeVerified, Complete, Fail, login, client
<1>7. ASSUME NEW g \in Flow, NEW p \in Person, Authorize(g, p)
      PROVE  answer' = answer /\ delivered' = delivered /\ pending' = pending
  BY <1>7 DEF TypeOK, Authorize, login, client
<1>8. ASSUME Cleanup \/ Crash \/ UNCHANGED vars
      PROVE  answer' = answer /\ delivered' = delivered /\ pending' \subseteq pending
  BY <1>8 DEF Cleanup, Crash, vars, client
<1>10. ASSUME HandleTelegramPoll(f)
       PROVE  PollUnknown(f) \/ PollExpired(f) \/ PollResult(f)
  BY <1>10 DEF HandleTelegramPoll
<1> QED BY <1>1, <1>2, <1>3, <1>4, <1>5, <1>6, <1>7, <1>8, <1>9, <1>10 DEF Next

\* A result is written by a callback that has come to its end.
LEMMA ResultStep ==
  ASSUME TypeOK, CallbacksAreBacked, [Next]_vars, NEW f \in Flow
  PROVE  \/ result'[f] = result[f]
         \/ result'[f] = "pending"
         \/ result'[f] = "error" /\ f \in started
         \/ \E c \in Callback :
              At(c, "complete") /\ callbacks[c].flow = f /\ result'[f] = callbacks[c].person
<1>1. ASSUME NEW g \in Flow, HandleTelegramStart(g)
      PROVE  result'[f] \in {result[f], "pending"}
  BY <1>1 DEF TypeOK, HandleTelegramStart
<1>2. ASSUME NEW c \in Callback, Complete(c), callbacks[c].flow = f
      PROVE  At(c, "complete") /\ result'[f] = callbacks[c].person
  BY <1>2 DEF TypeOK, Complete
<1>3. ASSUME NEW c \in Callback, Fail(c), callbacks[c].flow = f
      PROVE  result'[f] = "error" /\ f \in started
  BY <1>3 DEF TypeOK, Fail, At, CallbacksAreBacked
<1>4. ASSUME NEW c \in Callback, Fail(c) \/ Complete(c), callbacks[c].flow # f
      PROVE  result'[f] = result[f]
  BY <1>4 DEF TypeOK, Fail, Complete
<1>5. ASSUME NEW c \in Callback, HandleTelegramCallback(c), ~Complete(c), ~Fail(c)
      PROVE  result' = result
  BY <1>5 DEF TypeOK, HandleTelegramCallback, ReceiveCode, ReceiveError, ExchangeCode, ExchangeFails,
              EnsureUserFromTelegram, EnsureUserFails, MarkAgeVerified, login
<1>6. ASSUME NEW g \in Flow, HandleTelegramPoll(g) \/ TimePasses(g) \/ \E p \in Person : Authorize(g, p)
      PROVE  result' = result
  BY <1>6 DEF TypeOK, HandleTelegramPoll, PollUnknown, PollExpired, PollResult, TimePasses, Authorize, login
<1>7. CASE Cleanup \/ Crash \/ UNCHANGED vars
  BY <1>7 DEF TypeOK, Cleanup, Crash, vars
<1> QED BY <1>1, <1>2, <1>3, <1>4, <1>5, <1>6, <1>7 DEF Next

\* A callback is the one that was there, a new one for a login in the map, or
\* has moved on by the call it had to make.
LEMMA CallbackStep ==
  ASSUME TypeOK, [Next]_vars, NEW c \in Callback, callbacks'[c] # NoCallback
  PROVE  \/ callbacks'[c] = callbacks[c]
         \/ \E f \in pending, p \in Person :
              \/ callbacks'[c] = [pc |-> "exchange", flow |-> f, person |-> p] /\ <<f, p>> \in granted
              \/ callbacks'[c] = [pc |-> "error", flow |-> f, person |-> p]
         \/ /\ callbacks[c] # NoCallback
            /\ callbacks'[c].flow = callbacks[c].flow /\ callbacks'[c].person = callbacks[c].person
            /\ \/ callbacks'[c].pc = "error"
               \/ callbacks'[c].pc = "ensure" /\ callbacks[c].pc = "exchange" /\ Code(c) \in used'
               \/ /\ callbacks'[c].pc = "verify" /\ callbacks[c].pc = "ensure"
                  /\ callbacks[c].person \in accounts'
               \/ callbacks'[c].pc = "complete" /\ callbacks[c].pc = "verify"
<1>0. ASSUME NEW d \in Callback, HandleTelegramCallback(d), c # d
      PROVE  callbacks'[c] = callbacks[c]
  BY <1>0 DEF TypeOK, HandleTelegramCallback, ReceiveCode, ReceiveError, Receive, ExchangeCode,
              ExchangeFails, EnsureUserFromTelegram, EnsureUserFails, MarkAgeVerified, Complete,
              Fail, Goto, Return
<1>1. ASSUME NEW f \in Flow, NEW p \in Person, ReceiveCode(c, f, p)
      PROVE  /\ f \in pending /\ <<f, p>> \in granted
             /\ callbacks'[c] = [pc |-> "exchange", flow |-> f, person |-> p]
  BY <1>1 DEF TypeOK, ReceiveCode, Receive
<1>2. ASSUME NEW f \in Flow, NEW p \in Person, ReceiveError(c, f, p)
      PROVE  f \in pending /\ callbacks'[c] = [pc |-> "error", flow |-> f, person |-> p]
  BY <1>2 DEF TypeOK, ReceiveError, Receive
<1>3. ASSUME NEW label, callbacks[c] # NoCallback, Goto(c, label)
      PROVE  /\ callbacks'[c].pc = label
             /\ callbacks'[c].flow = callbacks[c].flow /\ callbacks'[c].person = callbacks[c].person
  <2>1. callbacks[c] \in CallbackRequest
    BY <1>3 DEF TypeOK
  <2>2. callbacks'[c] = [callbacks[c] EXCEPT !.pc = label]
    BY <1>3 DEF Goto, TypeOK
  <2> QED BY <2>1, <2>2 DEF CallbackRequest
<1>4. CASE ExchangeCode(c)
  BY <1>3, <1>4 DEF TypeOK, ExchangeCode, At
<1>5. CASE ExchangeFails(c) \/ EnsureUserFails(c)
  BY <1>3, <1>5 DEF TypeOK, ExchangeFails, EnsureUserFails, At
<1>6. CASE EnsureUserFromTelegram(c)
  BY <1>3, <1>6 DEF TypeOK, EnsureUserFromTelegram, At
<1>7. CASE MarkAgeVerified(c)
  BY <1>3, <1>7 DEF TypeOK, MarkAgeVerified, At
<1>8. CASE Complete(c) \/ Fail(c)
  BY <1>8 DEF TypeOK, Complete, Fail, Return
<1>9. ASSUME NEW f \in Flow, HandleTelegramStart(f) \/ HandleTelegramPoll(f) \/ TimePasses(f)
             \/ \E p \in Person : Authorize(f, p)
      PROVE  callbacks' = callbacks
  BY <1>9 DEF TypeOK, HandleTelegramStart, HandleTelegramPoll, PollUnknown, PollExpired, PollResult,
              TimePasses, Authorize
<1>10. CASE Cleanup \/ Crash \/ UNCHANGED vars
  BY <1>10 DEF TypeOK, Cleanup, Crash, vars
<1>11. ASSUME HandleTelegramCallback(c)
       PROVE  \/ \E f \in Flow, p \in Person : ReceiveCode(c, f, p) \/ ReceiveError(c, f, p)
              \/ ExchangeCode(c) \/ ExchangeFails(c)
              \/ EnsureUserFromTelegram(c) \/ EnsureUserFails(c)
              \/ MarkAgeVerified(c) \/ Complete(c) \/ Fail(c)
  BY <1>11 DEF HandleTelegramCallback
<1>12. CASE HandleTelegramCallback(c)
  BY <1>1, <1>2, <1>4, <1>5, <1>6, <1>7, <1>8, <1>11, <1>12
<1> QED BY <1>0, <1>9, <1>10, <1>12 DEF Next

-----------------------------------------------------------------------------
(* The parts of the inductive invariant. *)

LEMMA NextUnanswered ==
  ASSUME TypeOK, PendingIsUnanswered, CallbacksAreBacked, [Next]_vars
  PROVE  PendingIsUnanswered'
<1>1. ASSUME NEW f \in pending'
      PROVE  f \in Flow /\ f \in started' /\ delivered'[f] = 0 /\ answer'[f] = "none"
  <2>1. f \in Flow
    BY NextType, <1>1 DEF TypeOK
  <2> QED BY <1>1, <2>1, LoginStep, HistoryGrows DEF PendingIsUnanswered
<1>2. ASSUME NEW f \in Flow \ started'
      PROVE  delivered'[f] = 0 /\ answer'[f] = "none" /\ result'[f] = "pending"
  <2>1. f \notin started /\ f \notin pending
    BY <1>2, HistoryGrows DEF PendingIsUnanswered
  <2>2. delivered'[f] = 0 /\ answer'[f] = "none"
    BY <1>2, <2>1, LoginStep DEF PendingIsUnanswered
  <2>3. ~ \E c \in Callback : At(c, "complete") /\ callbacks[c].flow = f
    BY <2>1 DEF CallbacksAreBacked, At
  <2>4. result'[f] = "pending"
    BY <1>2, <2>1, <2>3, ResultStep DEF PendingIsUnanswered
  <2> QED BY <2>2, <2>4
<1> QED BY <1>1, <1>2 DEF PendingIsUnanswered

LEMMA NextOneResult ==
  ASSUME TypeOK, PendingIsUnanswered, OneResult, CallbacksAreBacked, [Next]_vars
  PROVE  OneResult'
<1> SUFFICES ASSUME NEW f \in Flow
             PROVE  delivered'[f] <= 1 /\ (answer'[f] = "none" \/ f \notin pending')
  BY DEF OneResult
<1>1. delivered[f] \in Nat /\ delivered[f] <= 1 /\ (f \in pending => delivered[f] = 0)
  BY DEF TypeOK, OneResult, PendingIsUnanswered
<1>2. delivered'[f] <= 1
  BY <1>1, LoginStep
<1>3. answer'[f] = "none" \/ f \notin pending'
  BY NextUnanswered DEF PendingIsUnanswered
<1> QED BY <1>2, <1>3

LEMMA NextCallbacks ==
  ASSUME TypeOK, PendingIsUnanswered, CallbacksAreBacked, [Next]_vars
  PROVE  CallbacksAreBacked'
<1> SUFFICES ASSUME NEW c \in Callback, callbacks'[c] # NoCallback
             PROVE  /\ callbacks'[c].pc \in {"exchange", "ensure", "verify", "complete"} =>
                         Code(c)' \in granted'
                    /\ callbacks'[c].pc \in {"ensure", "verify", "complete"} => Code(c)' \in used'
                    /\ callbacks'[c].pc \in {"verify", "complete"} =>
                         callbacks'[c].person \in accounts'
                    /\ callbacks'[c].flow \in started'
  BY DEF CallbacksAreBacked, At
<1> DEFINE Backing(d) ==
      /\ callbacks[d].pc \in {"exchange", "ensure", "verify", "complete"} => Code(d) \in granted
      /\ callbacks[d].pc \in {"ensure", "verify", "complete"} => Code(d) \in used
      /\ callbacks[d].pc \in {"verify", "complete"} => callbacks[d].person \in accounts
      /\ callbacks[d].flow \in started
<1>1. callbacks[c] # NoCallback => Backing(c)
  BY DEF CallbacksAreBacked, At
<1>2. CASE callbacks'[c] = callbacks[c]
  BY <1>1, <1>2, HistoryGrows DEF Code
<1>3. ASSUME NEW f \in pending, NEW p \in Person,
             \/ callbacks'[c] = [pc |-> "exchange", flow |-> f, person |-> p] /\ <<f, p>> \in granted
             \/ callbacks'[c] = [pc |-> "error", flow |-> f, person |-> p]
      PROVE  Backing(c)'
  BY <1>3, HistoryGrows DEF Code, PendingIsUnanswered
<1>4. ASSUME callbacks[c] # NoCallback,
             callbacks'[c].flow = callbacks[c].flow, callbacks'[c].person = callbacks[c].person,
             \/ callbacks'[c].pc = "error"
             \/ callbacks'[c].pc = "ensure" /\ callbacks[c].pc = "exchange" /\ Code(c) \in used'
             \/ /\ callbacks'[c].pc = "verify" /\ callbacks[c].pc = "ensure"
                /\ callbacks[c].person \in accounts'
             \/ callbacks'[c].pc = "complete" /\ callbacks[c].pc = "verify"
      PROVE  Backing(c)'
  BY <1>1, <1>4, HistoryGrows DEF Code
<1> QED BY <1>2, <1>3, <1>4, CallbackStep

LEMMA NextResults ==
  ASSUME TypeOK, CallbacksAreBacked, ResultsAreBacked, [Next]_vars
  PROVE  ResultsAreBacked'
<1> SUFFICES ASSUME NEW f \in Flow, NEW p \in Person, result'[f] = p
             PROVE  <<f, p>> \in granted' \cap used' /\ p \in accounts'
  BY DEF ResultsAreBacked, Backed
<1>1. p # "pending" /\ p # "error"
  BY OAuthAssumption
<1>2. CASE result'[f] = result[f]
  BY <1>2, HistoryGrows DEF ResultsAreBacked, Backed
<1>3. ASSUME NEW c \in Callback, At(c, "complete"), callbacks[c].flow = f, callbacks[c].person = p
      PROVE  <<f, p>> \in granted \cap used /\ p \in accounts
  BY <1>3 DEF CallbacksAreBacked, Code
<1> QED BY <1>1, <1>2, <1>3, ResultStep, HistoryGrows

LEMMA NextSessions ==
  ASSUME TypeOK, ResultsAreBacked, SessionsAreBacked, [Next]_vars
  PROVE  SessionsAreBacked'
<1> SUFFICES ASSUME NEW f \in Flow, NEW p \in Person, answer'[f] = p
             PROVE  <<f, p>> \in granted' \cap used' /\ p \in accounts'
  BY DEF SessionsAreBacked, Backed
<1>1. p # "expired"
  BY OAuthAssumption
<1>2. answer[f] = p \/ result[f] = p
  BY <1>1, LoginStep
<1> QED BY <1>2, HistoryGrows DEF SessionsAreBacked, ResultsAreBacked, Backed

-----------------------------------------------------------------------------
(* The theorems. *)

(***************************************************************************)
(* The inductive invariant holds for any logins, persons and callbacks,    *)
(* and any number of callbacks in progress at once.                        *)
(***************************************************************************)
THEOREM Inductive == Spec => []IInv
<1>1. IInv /\ [Next]_vars => IInv'
  BY NextType, NextUnanswered, NextOneResult, NextCallbacks, NextResults, NextSessions DEF IInv
<1> QED BY InitInvariant, <1>1, PTL DEF Spec

(***************************************************************************)
(* Poll hands out one result for a login at most: the entry leaves the map *)
(* in the same critical section that reads it.                             *)
(***************************************************************************)
THEOREM ReadOnce == Spec => []OneResult
<1>1. IInv => OneResult
  BY DEF IInv
<1> QED BY Inductive, <1>1, PTL

(***************************************************************************)
(* A session handed out is for a person who authorised that login and was *)
(* given an account, however callbacks overlap and overwrite each other.   *)
(***************************************************************************)
THEOREM SessionsAuthorised == Spec => []SessionsAreBacked
<1>1. IInv => SessionsAreBacked
  BY DEF IInv
<1> QED BY Inductive, <1>1, PTL

(***************************************************************************)
(* After its first answer a client hears nothing but "expired": callbacks  *)
(* that still write to the login, and cleanups and crashes, do not reach   *)
(* it any more.                                                            *)
(***************************************************************************)
THEOREM FinalAnswers == Spec => AnswersAreFinal
<1>1. IInv /\ [Next]_vars =>
        [\A f \in Flow : answer[f] # "none" => answer'[f] \in {answer[f], "expired"}]_vars
  BY LoginStep DEF IInv, PendingIsUnanswered
<1> QED BY Inductive, <1>1, PTL DEF Spec, AnswersAreFinal

-----------------------------------------------------------------------------
(* A pending login is a mailbox with one message. *)

LEMMA MailboxInit == Init => Mailbox!Init
  BY DEF Init, Mailbox!Init

\* A callback redeems its code, registers and verifies its person, and leaves
\* every mailbox as it is.
LEMMA CallbackMails ==
  ASSUME IInv, NEW c \in Callback, HandleTelegramCallback(c)
  PROVE  [Mailbox!Next]_Mailbox!mailboxVars
<1> DEFINE f == callbacks[c].flow
           p == callbacks[c].person
<1>1. ASSUME NEW label, At(c, label)
      PROVE  /\ f \in Flow /\ p \in Person
             /\ label \in {"exchange", "ensure", "verify"} => <<f, p>> \in granted
             /\ label = "ensure" => <<f, p>> \in used
             /\ label = "verify" => p \in accounts
  BY <1>1 DEF IInv, TypeOK, CallbackRequest, CallbacksAreBacked, Code, At
<1>2. ASSUME At(c, "exchange"), used' \in {used, used \cup {Code(c)}},
             UNCHANGED <<started, pending, granted, accounts, verified, answer>>
      PROVE  [Mailbox!Next]_Mailbox!mailboxVars
  <2>1. used' = used \/ Mailbox!Redeem(f, p)
    BY <1>1, <1>2 DEF Code, Mailbox!Redeem
  <2> QED BY <1>1, <1>2, <2>1 DEF Mailbox!Next, Mailbox!mailboxVars
<1>3. ASSUME At(c, "ensure"), accounts' \in {accounts, accounts \cup {p}},
             UNCHANGED <<started, pending, granted, used, verified, answer>>
      PROVE  [Mailbox!Next]_Mailbox!mailboxVars
  <2>1. accounts' = accounts \/ Mailbox!Register(p)
    BY <1>1, <1>3 DEF Mailbox!Register
  <2> QED BY <1>1, <1>3, <2>1 DEF Mailbox!Next, Mailbox!mailboxVars
<1>4. ASSUME At(c, "verify"), verified' \in {verified, verified \cup {p}},
             UNCHANGED <<started, pending, granted, used, accounts, answer>>
      PROVE  [Mailbox!Next]_Mailbox!mailboxVars
  <2>1. verified' = verified \/ Mailbox!Verify(p)
    BY <1>1, <1>4 DEF Mailbox!Verify
  <2> QED BY <1>1, <1>4, <2>1 DEF Mailbox!Next, Mailbox!mailboxVars
<1>5. ASSUME \/ \E g \in Flow, q \in Person : ReceiveCode(c, g, q) \/ ReceiveError(c, g, q)
             \/ Complete(c) \/ Fail(c)
      PROVE  UNCHANGED Mailbox!mailboxVars
  BY <1>5 DEF ReceiveCode, ReceiveError, Complete, Fail, login, users, client,
              Mailbox!mailboxVars
<1>6. CASE ExchangeCode(c) \/ ExchangeFails(c)
  BY <1>2, <1>6 DEF ExchangeCode, ExchangeFails, login, users, client
<1>7. CASE EnsureUserFromTelegram(c) \/ EnsureUserFails(c)
  BY <1>3, <1>7 DEF EnsureUserFromTelegram, EnsureUserFails, login, client
<1>8. CASE MarkAgeVerified(c)
  BY <1>4, <1>8 DEF MarkAgeVerified, login, client
<1> QED BY <1>5, <1>6, <1>7, <1>8 DEF HandleTelegramCallback

\* A poll empties the mailbox, or finds it gone.
LEMMA PollMails ==
  ASSUME IInv, NEW f \in Flow, HandleTelegramPoll(f)
  PROVE  [Mailbox!Next]_Mailbox!mailboxVars
<1>1. CASE PollUnknown(f)
  <2>1. answer' = answer \/ Mailbox!Gone(f)
    BY <1>1 DEF PollUnknown, Answers, login, users, Mailbox!Gone
  <2> QED BY <1>1, <2>1 DEF PollUnknown, login, users, Mailbox!Next, Mailbox!mailboxVars
<1>2. CASE PollExpired(f)
  <2>1. Mailbox!Empty(f)
    BY <1>2 DEF PollExpired, Answers, users, Mailbox!Empty, Mailbox!Messages
  <2> QED BY <2>1 DEF Mailbox!Next
<1>3. CASE PollResult(f)
  <2>1. result[f] \in Mailbox!Messages(f)
    BY <1>3 DEF PollResult, IInv, TypeOK, Result, ResultsAreBacked, Backed, Mailbox!Messages
  <2>2. Mailbox!Empty(f)
    BY <1>3, <2>1 DEF PollResult, Answers, users, Mailbox!Empty
  <2> QED BY <2>2 DEF Mailbox!Next
<1> QED BY <1>1, <1>2, <1>3 DEF HandleTelegramPoll

LEMMA MailboxStep ==
  ASSUME IInv, [Next]_vars
  PROVE  [Mailbox!Next]_Mailbox!mailboxVars
<1>1. ASSUME NEW f \in Flow, HandleTelegramStart(f) PROVE Mailbox!Start(f)
  BY <1>1 DEF HandleTelegramStart, users, client, Mailbox!Start
<1>2. ASSUME NEW f \in Flow, NEW p \in Person, Authorize(f, p) PROVE Mailbox!Agree(f, p)
  BY <1>2 DEF Authorize, login, users, client, Mailbox!Agree
<1>3. CASE Cleanup \/ Crash
  <2>1. pending' \subseteq pending
    BY <1>3 DEF Cleanup, Crash
  <2>2. Mailbox!Forget
    BY <1>3, <2>1 DEF Cleanup, Crash, users, client, Mailbox!Forget
  <2> QED BY <2>2 DEF Mailbox!Next
<1>4. ASSUME UNCHANGED vars \/ \E f \in Flow : TimePasses(f)
      PROVE  UNCHANGED Mailbox!mailboxVars
  BY <1>4 DEF vars, TimePasses, users, client, Mailbox!mailboxVars
<1> QED BY <1>1, <1>2, <1>3, <1>4, CallbackMails, PollMails DEF Next, Mailbox!Next

(***************************************************************************)
(* The pending map of AuthHandler is a set of mailboxes with one message   *)
(* each, for any number of logins, persons and callbacks: whichever        *)
(* callbacks still write to a login, it never comes back once it was       *)
(* answered or forgotten, and sessions, accounts and age marks all go back *)
(* to an authorisation that was redeemed.                                  *)
(***************************************************************************)
THEOREM MailboxImplemented == Spec => ImplementsMailbox
<1>1. IInv /\ [Next]_vars => [Mailbox!Next]_Mailbox!mailboxVars
  BY MailboxStep
<1> QED BY <1>1, MailboxInit, Inductive, PTL DEF Spec, ImplementsMailbox, Mailbox!Spec

=============================================================================
