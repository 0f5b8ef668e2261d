---------------------------- MODULE BrokerProofs ----------------------------
(***************************************************************************)
(* Safety of matching and introductions together, for any users, requests, *)
(* profiles and bounds: each step is one of Matching and one of            *)
(* Introduction, whose invariants are proved in their own modules.         *)
(***************************************************************************)
EXTENDS Broker, MatchingProofs

Proved == INSTANCE IntroductionProofs WITH
  Match <- Row,
  Members <- RowMembers,
  marking <- created,
  NoMatch <- NoPair,
  faults <- introFaults,
  MaxFaults <- MaxIntroFaults

-----------------------------------------------------------------------------
(* Proved and Introductions are instances of the same definitions. *)

LEMMA SameAssumption == Proved!IntroductionAssumption
  BY BrokerAssumption
     DEF Introductions!IntroductionAssumption, Proved!IntroductionAssumption,
         Introductions!Side, Proved!Side, Introductions!Intro, Proved!Intro,
         Introductions!TelegramID, Proved!TelegramID

LEMMA SameInit == Introductions!Init <=> Proved!Init
  BY DEF Introductions!Init, Proved!Init, Introductions!Side, Proved!Side,
         Introductions!Task, Proved!Task

LEMMA SameInvariant ==
  /\ Introductions!IInv <=> Proved!IInv
  /\ Introductions!IInv' <=> Proved!IInv'
  BY DEF Introductions!IInv, Proved!IInv, Introductions!TypeOK, Proved!TypeOK,
         Introductions!NothingBeforeTheMatch, Proved!NothingBeforeTheMatch,
         Introductions!TasksHaveMatches, Proved!TasksHaveMatches,
         Introductions!PastMessagesWereTried, Proved!PastMessagesWereTried,
         Introductions!MarkedOnlyAfterTrying, Proved!MarkedOnlyAfterTrying,
         Introductions!RepeatsAndPending, Proved!RepeatsAndPending,
         Introductions!Tried, Proved!Tried, Introductions!At, Proved!At,
         Introductions!Side, Proved!Side, Introductions!Task, Proved!Task,
         Introductions!Intro, Proved!Intro, Introductions!TelegramID,
         Proved!TelegramID, Introductions!Weight, Proved!Weight,
         Introductions!One, Proved!One, Introductions!Pending, Proved!Pending,
         Introductions!RetryPending, Proved!RetryPending

LEMMA SameStep ==
  [Introductions!Next]_Introductions!vars <=> [Proved!Next]_Proved!vars
  BY DEF Introductions!Next, Proved!Next, Introductions!vars, Proved!vars,
         Introductions!boundVars, Proved!boundVars, Introductions!CreateMatch,
         Proved!CreateMatch, Introductions!SweepCreates, Proved!SweepCreates,
         Introductions!SweepMarks, Proved!SweepMarks, Introductions!Expires,
         Proved!Expires, Introductions!Introduce, Proved!Introduce,
         Introductions!Login, Proved!Login, Introductions!RetryMissingIntros,
         Proved!RetryMissingIntros, Introductions!RetryStarts,
         Proved!RetryStarts, Introductions!RetryNext, Proved!RetryNext,
         Introductions!Crash, Proved!Crash, Introductions!ReadTelegramIDs,
         Proved!ReadTelegramIDs, Introductions!ReadFails, Proved!ReadFails,
         Introductions!Delivered, Proved!Delivered, Introductions!Undelivered,
         Proved!Undelivered, Introductions!MarkMatchIntroduced,
         Proved!MarkMatchIntroduced, Introductions!MarkFails,
         Proved!MarkFails, Introductions!CallFails, Proved!CallFails,
         Introductions!Fault, Proved!Fault, Introductions!after, Proved!after,
         Introductions!At, Proved!At, Introductions!Start, Proved!Start,
         Introductions!Finish, Proved!Finish, Introductions!Begin,
         Proved!Begin, Introductions!introduceAsync, Proved!introduceAsync,
         Introductions!SchedulerIdle, Proved!SchedulerIdle,
         Introductions!Side, Proved!Side, Introductions!Task, Proved!Task,
         Introductions!GetMatchesMissingIntro, Proved!GetMatchesMissingIntro,
         Introductions!HasTelegramIDs, Proved!HasTelegramIDs

LEMMA IntroductionsKept ==
  ASSUME Introductions!IInv, [Introductions!Next]_Introductions!vars
  PROVE  Introductions!IInv'
  BY SameAssumption, SameInvariant, SameStep, Proved!StepInvariant

-----------------------------------------------------------------------------
(* Steps of Matching are steps of Introduction. *)

LEMMA NothingLaunched ==
  ASSUME Introductions!TypeOK, StartIntroductions, launches' = launches, TypeOK
  PROVE  intros' = intros
<1>1. Launched = {}
  BY DEF Launched, Row, TypeOK
<1> QED BY <1>1 DEF StartIntroductions, Introductions!TypeOK

LEMMA OneLaunched ==
  ASSUME TypeOK, Introductions!TypeOK, StartIntroductions,
         NEW x \in User, NEW y \in User, Introduces(x, y)
  PROVE  Introductions!introduceAsync(<<x, y>>)
<1>1. Launched = {<<x, y>>}
  BY DEF Launched, Row, TypeOK, Introduces
<1>2. <<x, y>> \in Introductions!Task
  BY DEF Introductions!Task, Row
<1>3. CASE bot
  BY <1>1, <1>2, <1>3 DEF StartIntroductions, Introductions!TypeOK,
     Introductions!introduceAsync, Introductions!Start
<1>4. CASE ~bot
  BY <1>4 DEF StartIntroductions, Introductions!TypeOK, Introductions!introduceAsync
<1> QED BY <1>3, <1>4

LEMMA MatchingStep ==
  ASSUME IInv, Introductions!IInv, Next, OfMatching, UNCHANGED <<telegramID, crashes>>,
         \/ created' \in {created, NoPair}
         \/ created = NoPair /\ RetryIdle
  PROVE  [Introductions!Next]_Introductions!vars
<1>0. TypeOK /\ Introductions!TypeOK /\ StartIntroductions
  BY DEF IInv, Introductions!IInv, OfMatching
<1>1. UNCHANGED <<bot, telegramID, introduced, missing, told, lost, introFaults, crashes>>
  BY DEF OfMatching
<1>2. CASE UNCHANGED <<matches, launches>> /\ created' \in {created, NoPair}
  <2>1. intros' = intros
    BY <1>0, <1>2, NothingLaunched
  <2>2. CASE created' = created
    BY <1>1, <1>2, <2>1, <2>2 DEF Introductions!vars
  <2>3. CASE created' = NoPair /\ created # NoPair
    BY <1>1, <1>2, <2>1, <2>3 DEF Introductions!Next, Introductions!SweepMarks,
       Introductions!boundVars
  <2> QED BY <1>2, <2>2, <2>3
<1>3. ASSUME NEW x \in User, NEW y \in User, NewMatch(x, y), created' = created,
             Introduces(x, y) \/ launches' = launches
      PROVE  Introductions!CreateMatch(<<x, y>>)
  <2>1. Introductions!introduceAsync(<<x, y>>) \/ intros' = intros
    BY <1>0, <1>3, NothingLaunched, OneLaunched
  <2> QED BY <1>1, <1>3, <2>1 DEF Introductions!CreateMatch, Introductions!boundVars,
          NewMatch, PairTaken
<1>4. ASSUME NEW x \in User, NEW y \in User, NewMatch(x, y), launches' = launches,
             created' = <<x, y>>
      PROVE  Introductions!SweepCreates(<<x, y>>)
  <2>1. intros' = intros
    BY <1>0, <1>4, NothingLaunched
  <2>2. created' # NoPair
    BY <1>4, MatchingAssumption
  <2>3. created' # created
    BY <1>4, <2>2 DEF IInv, CreatedNotIntroduced, NewMatch, PairTaken
  <2>4. Introductions!SchedulerIdle
    BY <2>2, <2>3 DEF RetryIdle, Introductions!SchedulerIdle
  <2> QED BY <1>1, <1>4, <2>1, <2>4 DEF Introductions!SweepCreates,
          Introductions!boundVars, NewMatch, PairTaken
<1>5. ASSUME NEW x \in User, NEW y \in User, created = <<x, y>>, created' = NoPair,
             Introduces(x, y), UNCHANGED <<users, matches>>
      PROVE  Introductions!SweepMarks
  <2>1. created # NoPair
    BY <1>5, MatchingAssumption
  <2>2. Introductions!introduceAsync(created)
    BY <1>0, <1>5, OneLaunched
  <2> QED BY <1>1, <1>5, <2>1, <2>2 DEF Introductions!SweepMarks, Introductions!boundVars
<1>6. \A x, y \in User : <<x, y>> \in Row
  BY DEF Row
<1>7. LedgerStep
  BY <1>0, MatchWriters
<1> QED BY <1>2, <1>3, <1>4, <1>5, <1>6, <1>7 DEF LedgerStep, Introductions!Next

\* An upload leaves the match the sweep is marking alone; the sweep replaces
\* it only by way of NoPair.
LEMMA SweepSteps ==
  /\ \A r \in Request : Upload(r) \/ MatchSingle(r) => UNCHANGED <<created, crashes>>
  /\ Sweep => /\ crashes' = crashes
              /\ created' \in {created, NoPair} \/ created = NoPair
<1>1. ASSUME NEW r \in Request, Upload(r) PROVE UNCHANGED <<created, crashes>>
  BY <1>1 DEF Upload, ReceiveUpload, UpsertSignal, UpsertRefused, UpsertFails,
     HandlerReturns, sweepVars, boundVars
<1>2. ASSUME NEW r \in Request, MatchSingle(r) PROVE UNCHANGED <<created, crashes>>
  BY <1>2 DEF MatchSingle, FindCandidates, FindFails, SingleCreates, SingleSkips,
     SingleFails, SingleAbandons, sweepVars, boundVars
<1>3. ASSUME Sweep
      PROVE  /\ crashes' = crashes
             /\ created' \in {created, NoPair} \/ created = NoPair
  BY <1>3 DEF Sweep, SweepStarts, SweepCreates, SweepSkips, SweepCreateFails,
     SweepMarks, SweepMarkFails, boundVars
<1> QED BY <1>1, <1>2, <1>3

-----------------------------------------------------------------------------
(* Steps of Introduction leave Matching alone. *)

LEMMA IntroductionStep ==
  ASSUME \/ \E row \in Row : Introductions!Expires(row) \/ Introductions!Introduce(row)
         \/ Introductions!RetryMissingIntros
         \/ \E u \in User : Introductions!Login(u)
  PROVE  Introductions!Next /\ UNCHANGED <<matches, created, crashes>>
<1>1. ASSUME NEW t, Introductions!Introduce(t)
      PROVE  UNCHANGED <<matches, created, crashes>>
  BY <1>1 DEF Introductions!Introduce, Introductions!ReadTelegramIDs,
       Introductions!ReadFails, Introductions!Delivered,
       Introductions!Undelivered, Introductions!MarkMatchIntroduced,
       Introductions!MarkFails, Introductions!boundVars
<1> QED BY <1>1 DEF Introductions!Next, Introductions!Expires, Introductions!Login,
        Introductions!RetryMissingIntros, Introductions!RetryStarts,
        Introductions!RetryNext, Introductions!boundVars

\* Nothing but its type is said of telegramID.
LEMMA TelegramIDFree ==
  ASSUME Introductions!IInv, telegramID' \in [User -> Introductions!TelegramID],
         UNCHANGED <<matches, created, crashes>>,
         UNCHANGED <<bot, introduced, intros, missing, told, lost, introFaults>>
  PROVE  Introductions!IInv'
<1> USE DEF Introductions!IInv
<1>1. Introductions!TypeOK'
  BY DEF Introductions!TypeOK
<1>2. Introductions!NothingBeforeTheMatch' /\ Introductions!TasksHaveMatches'
  BY DEF Introductions!NothingBeforeTheMatch, Introductions!TasksHaveMatches
<1>3. Introductions!PastMessagesWereTried' /\ Introductions!MarkedOnlyAfterTrying'
  BY DEF Introductions!PastMessagesWereTried, Introductions!MarkedOnlyAfterTrying,
     Introductions!Tried, Introductions!At
<1>4. Introductions!RepeatsAndPending'
  BY DEF Introductions!RepeatsAndPending, Introductions!Weight, Introductions!One,
     Introductions!Pending, Introductions!RetryPending
<1> QED BY <1>1, <1>2, <1>3, <1>4

LEMMA MoreUsers ==
  ASSUME IInv, NEW u \in User, users' = users \cup {u},
         UNCHANGED <<signals, matches, requests, todo, created, launches, offered,
                     uploads, removals, faults, crashes>>
  PROVE  IInv'
<1> USE DEF IInv
<1>1. TypeOK'
  BY DEF TypeOK, TablesTypeOK
<1>2. ProfilesWereOffered' /\ PendingPairsAreMutual' /\ EveryMatchWasMutual'
  BY DEF ProfilesWereOffered, PendingPairsAreMutual, EveryMatchWasMutual, HasSignal, At,
     OfferedMutual
<1>3. RowsReferenceUsers' /\ OneRowPerPair' /\ MatchedHasPartner'
  BY DEF RowsReferenceUsers, OneRowPerPair, MatchedHasPartner, HasSignal, PairTaken
<1>4. CreatedNotIntroduced' /\ OneIntroductionPerPair'
  BY DEF CreatedNotIntroduced, OneIntroductionPerPair, PairTaken
<1> QED BY <1>1, <1>2, <1>3, <1>4

-----------------------------------------------------------------------------
(* The theorems. *)

LEMMA BrokerStep ==
  ASSUME BrokerInvariant, [BrokerNext]_brokerVars
  PROVE  BrokerInvariant'
<1> USE DEF BrokerInvariant
<1>1. CASE BrokerUploads
  <2>1. Next /\ OfMatching /\ UNCHANGED <<telegramID, created, crashes>>
    BY <1>1, SweepSteps DEF BrokerUploads, Next
  <2> QED BY <2>1, MatchingStep, IntroductionsKept, StepIInv
<1>2. CASE SchedulerSweeps
  <2>1. /\ Next /\ OfMatching /\ RetryIdle /\ UNCHANGED <<telegramID, crashes>>
        /\ created' \in {created, NoPair} \/ created = NoPair
    BY <1>2, SweepSteps DEF SchedulerSweeps, Next
  <2> QED BY <2>1, MatchingStep, IntroductionsKept, StepIInv
<1>3. CASE SchedulerCleans
  <2>1. Next /\ UNCHANGED Introductions!vars
    BY <1>3 DEF SchedulerCleans, Next, CleanExpired, introVars, sweepVars, boundVars,
       Introductions!vars
  <2> QED BY <2>1, IntroductionsKept, StepIInv
<1>4. CASE SchedulerRetries
  <2>1. Introductions!Next /\ UNCHANGED vars
    BY <1>4, IntroductionStep DEF SchedulerRetries, OfIntroduction, vars
  <2> QED BY <2>1, IntroductionsKept, StepIInv
<1>5. ASSUME NEW row \in Row, Introducing(row) PROVE BrokerInvariant'
  <2>1. Introductions!Next /\ UNCHANGED vars
    BY <1>5, IntroductionStep DEF Introducing, OfIntroduction, vars
  <2> QED BY <2>1, IntroductionsKept, StepIInv
<1>6. ASSUME NEW u \in User, UserLeaves(u) PROVE BrokerInvariant'
  <2>1. CASE (DeleteSignal(u) \/ Expire(u)) /\ UNCHANGED introVars
    <3>1. Next /\ UNCHANGED Introductions!vars
      BY <2>1 DEF Next, DeleteSignal, Expire, introVars, sweepVars, Introductions!vars
    <3> QED BY <3>1, IntroductionsKept, StepIInv
  <2>2. CASE /\ DeleteUser(u)
             /\ telegramID' = [telegramID EXCEPT ![u] = "hash"]
             /\ UNCHANGED <<bot, introduced, intros, missing, told, lost, introFaults>>
    <3>1. Next /\ UNCHANGED <<matches, created, crashes>>
      BY <2>2 DEF Next, DeleteUser, sweepVars
    <3>2. telegramID' \in [User -> Introductions!TelegramID]
      BY <2>2 DEF Introductions!IInv, Introductions!TypeOK, Introductions!TelegramID
    <3> QED BY <2>2, <3>1, <3>2, TelegramIDFree, StepIInv
  <2> QED BY <1>6, <2>1, <2>2 DEF UserLeaves
<1>7. ASSUME NEW u \in User, UserLogsIn(u) PROVE BrokerInvariant'
  <2>1. Introductions!Next /\ UNCHANGED <<matches, created, crashes>>
    BY <1>7, IntroductionStep DEF UserLogsIn
  <2>2. IInv'
    BY <1>7, <2>1, MoreUsers DEF UserLogsIn, OfIntroduction
  <2> QED BY <2>1, <2>2, IntroductionsKept
<1>8. CASE BrokerCrash
  <2>1. Next /\ Introductions!Next
    BY <1>8 DEF BrokerCrash, Next, Introductions!Next
  <2> QED BY <2>1, IntroductionsKept, StepIInv
<1>9. CASE UNCHANGED brokerVars
  <2>1. UNCHANGED vars /\ UNCHANGED Introductions!vars
    BY <1>9 DEF brokerVars, vars, introVars, Introductions!vars
  <2> QED BY <2>1, IntroductionsKept, StepIInv
<1> QED BY <1>1, <1>2, <1>3, <1>4, <1>5, <1>6, <1>7, <1>8, <1>9 DEF BrokerNext

(***************************************************************************)
(* Composed, as cmd/broker/main.go runs them, matching and introductions   *)
(* each keep the invariant proved for them alone: what each assumes of its *)
(* surroundings is what the other does.                                    *)
(***************************************************************************)
THEOREM BrokerInductive == BrokerSpec => []BrokerInvariant
<1>1. BrokerInit => BrokerInvariant
  BY InitIInv, SameAssumption, SameInit, SameInvariant, Proved!InitInvariant
     DEF BrokerInit, BrokerInvariant
<1>2. BrokerInvariant /\ [BrokerNext]_brokerVars => BrokerInvariant'
  BY BrokerStep
<1> QED BY <1>1, <1>2, PTL DEF BrokerSpec

\* The bound on repeats, for one state.
LEMMA Flood == BrokerInvariant => NobodyIsFlooded
<1> SUFFICES ASSUME BrokerInvariant, NEW x \in User, NEW y \in User, x # y
             PROVE  TellsOf(x, y) <= 2 + introFaults + crashes
  BY DEF NobodyIsFlooded
<1> DEFINE mine == <<x, y>>
           theirs == <<y, x>>
<1>1. mine \in Row /\ theirs \in Row
  BY DEF Row
<1>2. /\ told[mine]["A"] \in Nat /\ told[theirs]["B"] \in Nat
      /\ introFaults \in Nat /\ crashes \in Nat
  BY <1>1, BrokerAssumption, MatchingAssumption
     DEF BrokerInvariant, Introductions!IInv, Introductions!TypeOK, Introductions!Side,
         Introductions!IntroductionAssumption
<1>3. mine \notin matches \/ theirs \notin matches
  BY DEF BrokerInvariant, IInv, OneRowPerPair
<1>4. ASSUME NEW row \in Row, row \notin matches
      PROVE  told[row]["A"] = 0 /\ told[row]["B"] = 0
  BY <1>4 DEF BrokerInvariant, Introductions!IInv, Introductions!NothingBeforeTheMatch,
     Introductions!Side
<1>5. ASSUME NEW row \in Row, NEW s \in Introductions!Side, row \in matches
      PROVE  told[row][s] <= 2 + introFaults + crashes
  <2>1. Introductions!Weight(row, s) <= 2 + introFaults + crashes
    BY <1>5 DEF BrokerInvariant, Introductions!IInv, Introductions!RepeatsAndPending
  <2>2. told[row][s] \in Nat
    BY <1>5 DEF BrokerInvariant, Introductions!IInv, Introductions!TypeOK
  <2>3. introFaults \in Nat /\ crashes \in Nat
    BY <1>2
  <2> QED BY <2>1, <2>2, <2>3 DEF Introductions!Weight, Introductions!One
<1>6. /\ mine \in matches => told[mine]["A"] <= 2 + introFaults + crashes
      /\ theirs \in matches => told[theirs]["B"] <= 2 + introFaults + crashes
  BY <1>1, <1>5 DEF Introductions!Side
<1> HIDE DEF mine, theirs
<1>7. told[mine]["A"] + told[theirs]["B"] <= 2 + introFaults + crashes
  BY <1>1, <1>2, <1>3, <1>4, <1>6
<1> QED BY <1>7 DEF TellsOf, mine, theirs

LEMMA FloodAfter == BrokerInvariant' => NobodyIsFlooded'
  BY Flood, PTL

(***************************************************************************)
(* Nobody is told of the same person more often than failures explain,     *)
(* by both rows the pair might have and both kinds of goroutine together.  *)
(***************************************************************************)
THEOREM NeverFlooded == BrokerSpec => []NobodyIsFlooded
  BY Flood, BrokerInductive, PTL

(***************************************************************************)
(* Nobody is told of somebody who did not ask for them, or who has left.   *)
(* The way from a message back to the two signals is by the match row      *)
(* (NothingBeforeTheMatch), which was inserted for a pair whose signals    *)
(* had been read (EveryMatchWasMutual) and keeps the accounts              *)
(* (RowsReferenceUsers).                                                   *)
(***************************************************************************)
THEOREM PartnersOnly == BrokerSpec => []ToldOnlyOfPartners
<1>1. BrokerInvariant => ToldOnlyOfPartners
  <2> SUFFICES ASSUME BrokerInvariant, NEW x \in User, NEW y \in User, TellsOf(x, y) > 0
               PROVE  x # y /\ OfferedMutual(x, y) /\ {x, y} \subseteq users
    BY DEF ToldOnlyOfPartners
  <2>1. <<x, y>> \in matches \/ <<y, x>> \in matches
    <3> SUFFICES ASSUME <<x, y>> \notin matches, <<y, x>> \notin matches PROVE FALSE
      OBVIOUS
    <3>1. told[<<x, y>>]["A"] = 0 /\ told[<<y, x>>]["B"] = 0
      BY DEF BrokerInvariant, Introductions!IInv, Introductions!NothingBeforeTheMatch,
         Introductions!Side, Row
    <3> QED BY <3>1 DEF TellsOf
  <2>2. \A row \in matches : /\ row[1] # row[2] /\ OfferedMutual(row[1], row[2])
                            /\ {row[1], row[2]} \subseteq users
    BY DEF BrokerInvariant, IInv, EveryMatchWasMutual, RowsReferenceUsers
  <2>3. CASE <<x, y>> \in matches
    BY <2>2, <2>3
  <2>4. CASE <<y, x>> \in matches
    <3>1. x # y /\ OfferedMutual(y, x) /\ {x, y} \subseteq users
      BY <2>2, <2>4
    <3> QED BY <3>1, OfferedMutualSymmetric
  <2> QED BY <2>1, <2>3, <2>4
<1> QED BY <1>1, BrokerInductive, PTL

(***************************************************************************)
(* A match row stays, and with it its accounts and their Telegram ids:     *)
(* what Introduction takes for granted holds in the broker.                *)
(***************************************************************************)
THEOREM MembersKept == BrokerSpec => MembersStay
<1> DEFINE Kept == \A row \in matches :
                     /\ row \in matches'
                     /\ \A u \in {row[1], row[2]} :
                          u \in users' /\ (telegramID[u] = "chat" => telegramID'[u] = "chat")
<1>1. ASSUME BrokerInvariant, BrokerNext PROVE Kept
  <2>1. ASSUME NEW row \in matches, NEW u \in {row[1], row[2]}
        PROVE  u \in users /\ u \in User
    BY <1>1 DEF BrokerInvariant, IInv, RowsReferenceUsers, TypeOK, TablesTypeOK
  <2>2. ASSUME Next PROVE matches \subseteq matches'
    BY <1>1, <2>2, MatchWriters DEF BrokerInvariant, IInv, LedgerStep, NewMatch
  <2>3. ASSUME Next, NEW row \in matches, NEW u \in {row[1], row[2]}
        PROVE  u \in users'
    BY <2>1, <2>3, UsersStep DEF Deleted, Referenced
  <2>4. ASSUME Next, telegramID' = telegramID PROVE Kept
    BY <2>2, <2>3, <2>4
  <2>5. CASE BrokerUploads \/ SchedulerSweeps \/ SchedulerCleans
    BY <2>4, <2>5 DEF BrokerUploads, SchedulerSweeps, SchedulerCleans, introVars, Next
  <2>6. ASSUME NEW u \in User, UserLeaves(u) PROVE Kept
    <3>1. CASE (DeleteSignal(u) \/ Expire(u)) /\ UNCHANGED introVars
      BY <2>4, <3>1 DEF Next, introVars
    <3>2. CASE DeleteUser(u) /\ telegramID' = [telegramID EXCEPT ![u] = "hash"]
      <4>1. Next /\ ~Referenced(u)
        BY <3>2 DEF Next, DeleteUser
      <4>2. ASSUME NEW row \in matches, NEW v \in {row[1], row[2]}
            PROVE  telegramID'[v] = telegramID[v]
        BY <1>1, <2>1, <3>2, <4>1, <4>2 DEF Referenced, BrokerInvariant, Introductions!IInv,
           Introductions!TypeOK
      <4> QED BY <2>2, <2>3, <4>1, <4>2
    <3> QED BY <2>6, <3>1, <3>2 DEF UserLeaves
  <2>7. ASSUME NEW u \in User, UserLogsIn(u) PROVE Kept
    <3>1. /\ matches' = matches /\ users \subseteq users'
          /\ telegramID' = [telegramID EXCEPT ![u] = "chat"]
      BY <2>7, IntroductionStep DEF UserLogsIn, Introductions!Login
    <3>2. telegramID \in [User -> Introductions!TelegramID]
      BY <1>1 DEF BrokerInvariant, Introductions!IInv, Introductions!TypeOK
    <3> QED BY <2>1, <3>1, <3>2
  <2>8. ASSUME UNCHANGED <<matches, users, telegramID>> PROVE Kept
    BY <2>1, <2>8
  <2>9. ASSUME NEW row \in Row, Introducing(row) PROVE Kept
    <3>1. telegramID' = telegramID
      BY <2>9 DEF Introducing, Introductions!Expires, Introductions!Introduce, Introductions!ReadTelegramIDs,
       Introductions!ReadFails, Introductions!Delivered,
       Introductions!Undelivered, Introductions!MarkMatchIntroduced,
       Introductions!MarkFails, Introductions!boundVars
    <3> QED BY <2>8, <2>9, <3>1, IntroductionStep DEF Introducing
  <2>10. CASE SchedulerRetries
    <3>1. telegramID' = telegramID
      BY <2>10 DEF SchedulerRetries, Introductions!RetryMissingIntros,
         Introductions!RetryStarts, Introductions!RetryNext, Introductions!Introduce, Introductions!ReadTelegramIDs,
         Introductions!ReadFails, Introductions!Delivered,
         Introductions!Undelivered, Introductions!MarkMatchIntroduced,
         Introductions!MarkFails, Introductions!boundVars
    <3> QED BY <2>8, <2>10, <3>1, IntroductionStep DEF SchedulerRetries
  <2>11. CASE BrokerCrash
    BY <2>4, <2>11 DEF BrokerCrash, Next, Introductions!Crash
  <2> QED BY <1>1, <2>5, <2>6, <2>7, <2>9, <2>10, <2>11 DEF BrokerNext
<1>2. ASSUME BrokerInvariant, [BrokerNext]_brokerVars PROVE [Kept]_brokerVars
  BY <1>1, <1>2
<1> QED BY <1>2, BrokerInductive, PTL DEF BrokerSpec, MembersStay

-----------------------------------------------------------------------------
(* The broker implements the ledger of meetings. *)

\* What an Introduce for row m may do to the messages and the marks.
MayFail == introFaults' \in {introFaults, introFaults + 1}

Sends(m, s) ==
  /\ told' = [told EXCEPT ![m][s] = @ + 1]
  /\ UNCHANGED <<lost, introduced, introFaults>>

Loses(m, s) ==
  /\ lost' = lost \cup {<<m, s>>}
  /\ MayFail
  /\ UNCHANGED <<told, introduced>>

MarksRow(m) ==
  /\ Introductions!Tried(m, "A") /\ Introductions!Tried(m, "B")
  /\ introduced' = introduced \cup {m}
  /\ MayFail
  /\ UNCHANGED <<told, lost>>

Delivery ==
  \/ UNCHANGED <<told, lost, introduced>> /\ MayFail
  \/ \E m \in matches, s \in {"A", "B"} : Sends(m, s) \/ Loses(m, s)
  \/ \E m \in matches : MarksRow(m)

LEMMA DeliveryStep ==
  ASSUME Introductions!IInv, NEW t \in Introductions!Task, Introductions!Introduce(t)
  PROVE  Delivery
<1> DEFINE m == intros[t].match
<1>1. m \in matches
  BY DEF Introductions!IInv, Introductions!NothingBeforeTheMatch, Introductions!Introduce,
     Introductions!ReadTelegramIDs, Introductions!ReadFails, Introductions!Delivered,
     Introductions!Undelivered, Introductions!MarkMatchIntroduced, Introductions!MarkFails,
     Introductions!At
<1>2. Introductions!At(t, "mark") => Introductions!Tried(m, "A") /\ Introductions!Tried(m, "B")
  BY DEF Introductions!IInv, Introductions!PastMessagesWereTried, Introductions!Side
<1> HIDE DEF m
<1>3. Introductions!CallFails(t) => MayFail
  BY DEF Introductions!CallFails, Introductions!Fault, MayFail
<1>4. CASE Introductions!ReadTelegramIDs(t)
  BY <1>4 DEF Introductions!ReadTelegramIDs, Introductions!boundVars, Delivery, MayFail
<1>5. CASE Introductions!ReadFails(t)
  BY <1>3, <1>5 DEF Introductions!ReadFails, Delivery
<1>6. ASSUME NEW s \in Introductions!Side, Introductions!Delivered(t, s)
      PROVE  Sends(m, s)
  BY <1>6 DEF Introductions!Delivered, Introductions!boundVars, Sends, m
<1>7. ASSUME NEW s \in Introductions!Side, Introductions!Undelivered(t, s)
      PROVE  Loses(m, s)
  BY <1>3, <1>7 DEF Introductions!Undelivered, Loses, MayFail, m
<1>8. CASE Introductions!MarkMatchIntroduced(t)
  <2>1. MarksRow(m)
    BY <1>2, <1>8 DEF Introductions!MarkMatchIntroduced, Introductions!boundVars, MarksRow,
       MayFail, m
  <2> QED BY <1>1, <2>1 DEF Delivery
<1>9. CASE Introductions!MarkFails(t)
  <2>1. MarksRow(m) \/ (UNCHANGED <<told, lost, introduced>> /\ MayFail)
    BY <1>2, <1>3, <1>9 DEF Introductions!MarkFails, MarksRow, m
  <2> QED BY <1>1, <2>1 DEF Delivery
<1> QED BY <1>1, <1>4, <1>5, <1>6, <1>7, <1>8, <1>9
        DEF Introductions!Introduce, Introductions!Side, Delivery

\* The mapped variables, before and after a step.
LEMMA MeetingStatusOf ==
  ASSUME NEW x \in User, NEW y \in User
  PROVE  /\ MeetingStatus[{x, y}] =
              IF <<x, y>> \in introduced \/ <<y, x>> \in introduced THEN "introduced"
              ELSE IF PairTaken(x, y) THEN "matched" ELSE "strangers"
         /\ MeetingStatus'[{x, y}] =
              IF <<x, y>> \in introduced' \/ <<y, x>> \in introduced' THEN "introduced"
              ELSE IF PairTaken(x, y)' THEN "matched" ELSE "strangers"
<1>1. <<x, y>> \in Row /\ <<y, x>> \in Row
  BY DEF Row
<1>2. /\ Marks[<<x, y>>] > 0 <=> <<x, y>> \in introduced
      /\ Marks[<<y, x>>] > 0 <=> <<y, x>> \in introduced
      /\ Marks'[<<x, y>>] > 0 <=> <<x, y>> \in introduced'
      /\ Marks'[<<y, x>>] > 0 <=> <<y, x>> \in introduced'
  BY <1>1 DEF Marks
<1>3. MeetingStatus = StatusIn(Marks, matches) /\ MeetingStatus' = StatusIn(Marks', matches')
  BY DEF MeetingStatus
<1> QED BY <1>2, <1>3, StatusOfPair DEF PairTaken

LEMMA MeetingStatusUpdate ==
  ASSUME NEW x \in User, NEW y \in User,
         NEW outcome \in {"introduced", "matched", "strangers"},
         MeetingStatus'[{x, y}] = outcome,
         \A row \in Row : {row[1], row[2]} # {x, y} =>
           /\ row \in introduced' <=> row \in introduced
           /\ row \in matches' <=> row \in matches
  PROVE  MeetingStatus' = [MeetingStatus EXCEPT ![{x, y}] = outcome]
<1>1. ButFor(x, y, Marks, matches, Marks', matches')
  BY DEF ButFor, Marks, Row
<1>2. MeetingStatus = StatusIn(Marks, matches) /\ MeetingStatus' = StatusIn(Marks', matches')
  BY DEF MeetingStatus
<1> QED BY <1>1, <1>2, StatusUpdate

\* What the invariant says of a row: its two members differ, the pair has no
\* other row, and its messages are counted.
LEMMA RowFacts ==
  ASSUME BrokerInvariant, NEW m \in matches
  PROVE  /\ m \in Row /\ m = <<m[1], m[2]>> /\ m[1] \in User /\ m[2] \in User
         /\ m[1] # m[2] /\ m[1] \in users /\ m[2] \in users
         /\ <<m[2], m[1]>> \in Row \ matches
<1>1. m \in Row /\ m[1] # m[2] /\ m[1] \in users /\ m[2] \in users
  BY DEF BrokerInvariant, IInv, TypeOK, TablesTypeOK, Row, EveryMatchWasMutual,
     RowsReferenceUsers
<1>2. m = <<m[1], m[2]>> /\ m[1] \in User /\ m[2] \in User
  BY <1>1 DEF Row
<1>3. <<m[2], m[1]>> \in Row /\ <<m[2], m[1]>> \notin matches
  BY <1>1, <1>2 DEF BrokerInvariant, IInv, OneRowPerPair, Row
<1> QED BY <1>1, <1>2, <1>3

\* The message of row m to its member s is one to x about y.
Mirror(row) == <<row[2], row[1]>>

ContactOf(m, s) == IF s = "A" THEN m ELSE Mirror(m)

LEMMA HeardOf ==
  ASSUME NEW c \in Row
  PROVE  /\ HeardContacts[c] = told[c]["A"] + told[Mirror(c)]["B"]
         /\ HeardContacts'[c] = told'[c]["A"] + told'[Mirror(c)]["B"]
<1>1. c = <<c[1], c[2]>>
  BY DEF Row
<1> QED BY <1>1 DEF HeardContacts, TellsOf, Mirror

LEMMA TriedOf ==
  ASSUME NEW c \in Row
  PROVE  /\ c \in TriedContacts <=>
              \/ told[c]["A"] > 0 \/ <<c, "A">> \in lost
              \/ told[Mirror(c)]["B"] > 0 \/ <<Mirror(c), "B">> \in lost
         /\ c \in TriedContacts' <=>
              \/ told'[c]["A"] > 0 \/ <<c, "A">> \in lost'
              \/ told'[Mirror(c)]["B"] > 0 \/ <<Mirror(c), "B">> \in lost'
  BY DEF TriedContacts, Introductions!Tried, Mirror

\* A message that arrives is one its recipient may still hear.
LEMMA SendsHears ==
  ASSUME BrokerInvariant, BrokerInvariant', NEW m \in matches, NEW s \in {"A", "B"},
         Sends(m, s), UNCHANGED <<users, matches, crashes>>
  PROVE  Meetings!Hear(ContactOf(m, s))
<1> DEFINE c == ContactOf(m, s)
<1>1. m \in Row /\ m = <<m[1], m[2]>> /\ m[1] # m[2] /\ m[1] \in User /\ m[2] \in User
  BY RowFacts
<1>2. c \in Row /\ c[1] \in User /\ c[2] \in User /\ c[1] # c[2]
  BY <1>1 DEF ContactOf, Mirror, Row
<1>3. Meetings!Matched(c)
  <2>1. MeetingStatus[{m[1], m[2]}] # "strangers"
    BY <1>1, MeetingStatusOf DEF PairTaken
  <2>2. {c[1], c[2]} = {m[1], m[2]}
    BY DEF ContactOf, Mirror
  <2> QED BY <2>1, <2>2 DEF Meetings!Matched
<1>4. /\ told \in [Row -> [{"A", "B"} -> Nat]] /\ introFaults \in Nat /\ crashes \in Nat
  BY BrokerAssumption, MatchingAssumption
     DEF BrokerInvariant, Introductions!IInv, Introductions!TypeOK, Introductions!Side,
         Introductions!IntroductionAssumption
<1>5. ASSUME NEW d \in Row
      PROVE  /\ Mirror(d) \in Row
             /\ d = c <=> (s = "A" /\ m = d) \/ (s = "B" /\ m = Mirror(d))
             /\ told[d]["A"] \in Nat /\ told[Mirror(d)]["B"] \in Nat
             /\ told'[d]["A"] = IF s = "A" /\ m = d THEN told[d]["A"] + 1 ELSE told[d]["A"]
             /\ told'[Mirror(d)]["B"] =
                  IF s = "B" /\ m = Mirror(d) THEN told[Mirror(d)]["B"] + 1 ELSE told[Mirror(d)]["B"]
  <2>1. Mirror(d) \in Row /\ d = <<d[1], d[2]>>
    BY DEF Mirror, Row
  <2>2. told' = [told EXCEPT ![m] = [told[m] EXCEPT ![s] = @ + 1]]
    BY DEF Sends
  <2>3. d = c <=> (s = "A" /\ m = d) \/ (s = "B" /\ m = Mirror(d))
    BY <1>1, <2>1 DEF ContactOf, Mirror
  <2> HIDE DEF c
  <2>4. /\ told'[d]["A"] = IF s = "A" /\ m = d THEN told[d]["A"] + 1 ELSE told[d]["A"]
        /\ told'[Mirror(d)]["B"] = IF s = "B" /\ m = Mirror(d) THEN told[Mirror(d)]["B"] + 1 ELSE told[Mirror(d)]["B"]
    BY <1>1, <1>4, <2>1, <2>2
  <2>5. told[d]["A"] \in Nat /\ told[Mirror(d)]["B"] \in Nat
    BY <1>4, <2>1
  <2> QED BY <2>1, <2>3, <2>4, <2>5
<1> HIDE DEF c
<1>6. ASSUME NEW d \in Row
       PROVE  /\ HeardContacts[d] \in Nat
              /\ HeardContacts'[d] = IF d = c THEN HeardContacts[d] + 1 ELSE HeardContacts[d]
  BY <1>1, <1>2, <1>5, HeardOf
<1>7. HeardContacts[c] < 2 + (introFaults + crashes)
  <2>1. TellsOf(c[1], c[2])' <= 2 + introFaults + crashes
    <3>1. NobodyIsFlooded'
      BY FloodAfter
    <3> QED BY <1>2, <3>1 DEF NobodyIsFlooded, Sends
  <2>2. HeardContacts'[c] = TellsOf(c[1], c[2])'
    BY <1>2 DEF HeardContacts
  <2> QED BY <1>2, <1>4, <1>6, <2>1, <2>2
<1>8. HeardContacts' = [HeardContacts EXCEPT ![c] = @ + 1]
  BY <1>2, <1>6 DEF HeardContacts
<1>9. TriedContacts' = TriedContacts \cup {c}
  <2>1. ASSUME NEW d \in Row PROVE d \in TriedContacts' <=> d \in TriedContacts \/ d = c
    <3>1. lost' = lost
      BY DEF Sends
    <3>2. /\ told'[d]["A"] > 0 <=> told[d]["A"] > 0 \/ (s = "A" /\ m = d)
          /\ told'[Mirror(d)]["B"] > 0 <=>
               told[Mirror(d)]["B"] > 0 \/ (s = "B" /\ m = Mirror(d))
      BY <1>5
    <3>3. d = c <=> (s = "A" /\ m = d) \/ (s = "B" /\ m = Mirror(d))
      BY <1>5
    <3> QED BY <3>1, <3>2, <3>3, TriedOf
  <2> QED BY <1>2, <2>1 DEF TriedContacts
<1>10. MeetingStatus' = MeetingStatus
  BY DEF MeetingStatus, Marks, Sends
<1>11. UNCHANGED <<users, introFaults, crashes>>
  BY DEF Sends
<1> QED BY <1>3, <1>7, <1>8, <1>9, <1>10, <1>11 DEF Meetings!Hear, c

LEMMA MishapCount ==
  ASSUME BrokerInvariant, MayFail, crashes' = crashes
  PROVE  introFaults' + crashes' \in {introFaults + crashes, introFaults + crashes + 1}
<1>1. introFaults \in Nat /\ crashes \in Nat
  BY BrokerAssumption, MatchingAssumption
     DEF BrokerInvariant, Introductions!IInv, Introductions!TypeOK,
         Introductions!IntroductionAssumption
<1>2. CASE introFaults' = introFaults
  BY <1>2
<1>3. CASE introFaults' = introFaults + 1
  <2>1. introFaults' + crashes' = introFaults + crashes + 1
    BY <1>1, <1>3
  <2> QED BY <2>1
<1> QED BY <1>2, <1>3 DEF MayFail

LEMMA LosesMisses ==
  ASSUME BrokerInvariant, NEW m \in matches, NEW s \in {"A", "B"}, Loses(m, s),
         UNCHANGED <<users, matches, crashes>>
  PROVE  Meetings!Miss(ContactOf(m, s))
<1> DEFINE c == ContactOf(m, s)
<1>1. m \in Row /\ m = <<m[1], m[2]>> /\ m[1] # m[2] /\ m[1] \in User /\ m[2] \in User
  BY RowFacts
<1>2. c \in Row
  BY <1>1 DEF ContactOf, Mirror, Row
<1>3. Meetings!Matched(c)
  <2>1. MeetingStatus[{m[1], m[2]}] # "strangers"
    BY <1>1, MeetingStatusOf DEF PairTaken
  <2>2. {c[1], c[2]} = {m[1], m[2]}
    BY DEF ContactOf, Mirror
  <2> QED BY <2>1, <2>2 DEF Meetings!Matched
<1>4. TriedContacts' = TriedContacts \cup {c}
  <2>1. ASSUME NEW d \in Row PROVE d \in TriedContacts' <=> d \in TriedContacts \/ d = c
    <3>1. d = <<d[1], d[2]>>
      BY DEF Row
    <3>2. d = c <=> (s = "A" /\ m = d) \/ (s = "B" /\ m = Mirror(d))
      BY <1>1, <3>1 DEF ContactOf, Mirror
    <3>3. told' = told /\ lost' = lost \cup {<<m, s>>}
      BY DEF Loses
    <3> HIDE DEF c
    <3>4. /\ <<d, "A">> \in lost' <=> <<d, "A">> \in lost \/ (s = "A" /\ m = d)
          /\ <<Mirror(d), "B">> \in lost' <=>
               <<Mirror(d), "B">> \in lost \/ (s = "B" /\ m = Mirror(d))
      BY <3>3
    <3> QED BY <3>2, <3>3, <3>4, TriedOf
  <2> QED BY <1>2, <2>1 DEF TriedContacts
<1>5. MeetingStatus' = MeetingStatus /\ HeardContacts' = HeardContacts
  BY DEF MeetingStatus, Marks, HeardContacts, TellsOf, Loses
<1>6. (introFaults + crashes)' \in {introFaults + crashes, introFaults + crashes + 1}
  BY MishapCount DEF Loses
<1> QED BY <1>3, <1>4, <1>5, <1>6 DEF Meetings!Miss, Meetings!MayFail, c

\* Marking a row that is marked already changes nothing.
LEMMA MarkIntroduces ==
  ASSUME BrokerInvariant, NEW m \in matches, MarksRow(m), m \notin introduced,
         UNCHANGED <<users, matches, crashes>>
  PROVE  Meetings!Introduce(m[1], m[2])
<1>1. /\ m \in Row /\ m = <<m[1], m[2]>> /\ m[1] \in User /\ m[2] \in User
      /\ Mirror(m) \in Row \ matches
  BY RowFacts DEF Mirror
<1>2. {<<m[1], m[2]>>, <<m[2], m[1]>>} \subseteq TriedContacts
  <2>1. Mirror(m) = <<m[2], m[1]>> /\ Mirror(Mirror(m)) = m
    BY <1>1 DEF Mirror
  <2> QED BY <1>1, <2>1, TriedOf DEF MarksRow, Introductions!Tried
<1>3. MeetingStatus[{m[1], m[2]}] = "matched"
  <2>1. Mirror(m) \notin introduced
    BY <1>1 DEF BrokerInvariant, Introductions!IInv, Introductions!NothingBeforeTheMatch
  <2> QED BY <1>1, <2>1, MeetingStatusOf DEF PairTaken, Mirror
<1>4. MeetingStatus' = [MeetingStatus EXCEPT ![{m[1], m[2]}] = "introduced"]
  <2>1. m \in introduced'
    BY DEF MarksRow
  <2>2. MeetingStatus'[{m[1], m[2]}] = "introduced"
    BY <1>1, <2>1, MeetingStatusOf
  <2>3. \A row \in Row : {row[1], row[2]} # {m[1], m[2]} =>
          /\ row \in introduced' <=> row \in introduced
          /\ row \in matches' <=> row \in matches
    BY DEF MarksRow
  <2> QED BY <1>1, <2>2, <2>3, MeetingStatusUpdate
<1>5. HeardContacts' = HeardContacts /\ TriedContacts' = TriedContacts
  BY DEF HeardContacts, TellsOf, TriedContacts, Introductions!Tried, MarksRow
<1>6. (introFaults + crashes)' \in {introFaults + crashes, introFaults + crashes + 1}
  BY MishapCount DEF MarksRow
<1> QED BY <1>2, <1>3, <1>4, <1>5, <1>6
        DEF Meetings!Introduce, Meetings!MayFail, Meetings!Ledger!Introduce

\* A mishap, or nothing at all.
LEMMA QuietStep ==
  ASSUME BrokerInvariant, UNCHANGED <<users, matches, introduced, told, lost>>,
         introFaults' + crashes' \in {introFaults + crashes, introFaults + crashes + 1}
  PROVE  Meetings!Mishap \/ UNCHANGED Meetings!meetingVars
<1>1. UNCHANGED <<users, MeetingStatus, TriedContacts, HeardContacts>>
  BY DEF MeetingStatus, Marks, TriedContacts, Introductions!Tried, HeardContacts, TellsOf
<1> QED BY <1>1 DEF Meetings!Mishap, Meetings!meetingVars

LEMMA DeliveryMeets ==
  ASSUME BrokerInvariant, BrokerInvariant', Delivery, UNCHANGED <<users, matches, crashes>>
  PROVE  [Meetings!Next]_Meetings!meetingVars
<1>1. ASSUME MayFail
      PROVE  introFaults' + crashes' \in {introFaults + crashes, introFaults + crashes + 1}
  BY <1>1, MishapCount
<1>2. CASE UNCHANGED <<told, lost, introduced>> /\ MayFail
  BY <1>1, <1>2, QuietStep DEF Meetings!Next
<1>3. ASSUME NEW m \in matches, NEW s \in {"A", "B"}, Sends(m, s) \/ Loses(m, s)
      PROVE  Meetings!Next
  <2>1. ContactOf(m, s) \in Meetings!Contact
    BY RowFacts DEF ContactOf, Mirror, Row, Meetings!Contact
  <2> QED BY <1>3, <2>1, SendsHears, LosesMisses DEF Meetings!Next
<1>4. ASSUME NEW m \in matches, MarksRow(m) PROVE [Meetings!Next]_Meetings!meetingVars
  <2>1. CASE m \in introduced
    <3>1. introduced' = introduced
      BY <1>4, <2>1 DEF MarksRow
    <3> QED BY <1>1, <1>4, <3>1, QuietStep DEF MarksRow, Meetings!Next
  <2>2. CASE m \notin introduced
    BY <1>4, <2>2, MarkIntroduces, RowFacts DEF Meetings!Next
  <2> QED BY <2>1, <2>2
<1> QED BY <1>2, <1>3, <1>4 DEF Delivery
\* An upload, a sweep or a removal: accounts and matches only.
LEMMA MatchingMeets ==
  ASSUME BrokerInvariant, Next, UNCHANGED <<introduced, told, lost, introFaults, crashes>>
  PROVE  [Meetings!Next]_Meetings!meetingVars
<1>1. UNCHANGED <<TriedContacts, HeardContacts, introFaults, crashes>>
  BY DEF TriedContacts, Introductions!Tried, HeardContacts, TellsOf
<1>2. IInv /\ introduced \subseteq matches
  BY DEF BrokerInvariant, Introductions!IInv, Introductions!NothingBeforeTheMatch,
     Introductions!TypeOK
<1>3. ASSUME matches' = matches PROVE [Meetings!Next]_Meetings!meetingVars
  <2>1. MeetingStatus' = MeetingStatus
    BY <1>3 DEF MeetingStatus, Marks
  <2>2. ASSUME NEW u \in User, users' = users \cup {u} PROVE Meetings!Ledger!Open(u)
    BY <2>1, <2>2 DEF Meetings!Ledger!Open
  <2>3. ASSUME NEW u \in User, Deleted(u) PROVE Meetings!Ledger!Close(u)
    <3>1. ASSUME NEW pair \in Meetings!Ledger!Pair, u \in pair
          PROVE  MeetingStatus[pair] = "strangers"
      <4>1. PICK a \in User, b \in User : pair = {a, b}
        BY DEF Meetings!Ledger!Pair
      <4>2. <<a, b>> \notin matches /\ <<b, a>> \notin matches
        BY <2>3, <3>1, <4>1 DEF Deleted, Referenced
      <4> QED BY <1>2, <4>1, <4>2, MeetingStatusOf DEF PairTaken
    <3> QED BY <2>1, <2>3, <3>1 DEF Meetings!Ledger!Close, Deleted
  <2> QED BY <1>1, <1>2, <2>1, <2>2, <2>3, UsersWriters
          DEF Meetings!Next, Meetings!Arrange, Meetings!meetingVars
<1>4. ASSUME NEW x \in User, NEW y \in User, NewMatch(x, y)
      PROVE  Meetings!Ledger!Match(x, y, "matched")
  <2>1. x # y /\ {x, y} \subseteq users /\ ~PairTaken(x, y)
    BY <1>2, <1>4, NewMatchDistinct DEF NewMatch, IInv
  <2>2. /\ <<x, y>> \notin introduced /\ <<y, x>> \notin introduced
        /\ introduced' = introduced
    BY <1>2, <2>1 DEF PairTaken
  <2>3. MeetingStatus[{x, y}] = "strangers"
    BY <2>1, <2>2, MeetingStatusOf
  <2>4. MeetingStatus'[{x, y}] = "matched"
    BY <1>4, <2>2, MeetingStatusOf DEF NewMatch, PairTaken
  <2>5. \A row \in Row : {row[1], row[2]} # {x, y} =>
          /\ row \in introduced' <=> row \in introduced
          /\ row \in matches' <=> row \in matches
    BY <1>4 DEF NewMatch
  <2>6. MeetingStatus' = [MeetingStatus EXCEPT ![{x, y}] = "matched"]
    BY <2>4, <2>5, MeetingStatusUpdate
  <2> QED BY <1>4, <2>1, <2>3, <2>6 DEF Meetings!Ledger!Match, NewMatch
<1>5. LedgerStep
  BY <1>2, MatchWriters DEF IInv
<1> QED BY <1>1, <1>3, <1>4, <1>5 DEF LedgerStep, Meetings!Next, Meetings!Arrange

LEMMA MeetingSteps ==
  ASSUME BrokerInvariant, BrokerInvariant', [BrokerNext]_brokerVars
  PROVE  [Meetings!Next]_Meetings!meetingVars
<1>0. introFaults \in Nat /\ crashes \in Nat
  BY BrokerAssumption, MatchingAssumption
     DEF BrokerInvariant, Introductions!IInv, Introductions!TypeOK,
         Introductions!IntroductionAssumption
<1>1. CASE BrokerUploads \/ SchedulerSweeps \/ SchedulerCleans
  <2>1. Next /\ UNCHANGED <<introduced, told, lost, introFaults, crashes>>
    BY <1>1, SweepSteps DEF BrokerUploads, SchedulerSweeps, SchedulerCleans, OfMatching,
       introVars, CleanExpired, boundVars, Next
  <2> QED BY <2>1, MatchingMeets
<1>2. ASSUME NEW u \in User, UserLeaves(u) PROVE [Meetings!Next]_Meetings!meetingVars
  <2>1. Next /\ UNCHANGED <<introduced, told, lost, introFaults, crashes>>
    BY <1>2 DEF UserLeaves, introVars, DeleteSignal, DeleteUser, Expire, Next
  <2> QED BY <2>1, MatchingMeets
<1>3. ASSUME NEW u \in User, UserLogsIn(u) PROVE Meetings!Ledger!Open(u) /\ Meetings!Next
  <2>1. UNCHANGED <<matches, introduced, told, lost, introFaults, crashes>>
    BY <1>3 DEF UserLogsIn, Introductions!Login, Introductions!boundVars
  <2>2. UNCHANGED <<MeetingStatus, TriedContacts, HeardContacts>>
    BY <2>1 DEF MeetingStatus, Marks, TriedContacts, Introductions!Tried, HeardContacts,
       TellsOf
  <2>3. Meetings!Ledger!Open(u)
    BY <1>3, <2>2 DEF UserLogsIn, Meetings!Ledger!Open
  <2> QED BY <2>1, <2>2, <2>3 DEF Meetings!Next, Meetings!Arrange
<1>4. ASSUME NEW t \in Introductions!Task, Introductions!Introduce(t),
             UNCHANGED <<users, matches, crashes>>
      PROVE  [Meetings!Next]_Meetings!meetingVars
  BY <1>4, DeliveryStep, DeliveryMeets DEF BrokerInvariant
<1>5. ASSUME UNCHANGED <<users, matches, introduced, told, lost, introFaults, crashes>>
      PROVE  UNCHANGED Meetings!meetingVars
  BY <1>5 DEF MeetingStatus, Marks, TriedContacts, Introductions!Tried, HeardContacts,
     TellsOf, Meetings!meetingVars
<1>6. ASSUME NEW row \in Row, Introducing(row) PROVE [Meetings!Next]_Meetings!meetingVars
  <2>1. UNCHANGED <<users, matches, crashes>> /\ row \in Introductions!Task
    BY <1>6, IntroductionStep DEF Introducing, Introductions!Task
  <2>2. CASE Introductions!Expires(row)
    BY <1>5, <2>1, <2>2 DEF Introductions!Expires, Introductions!boundVars
  <2> QED BY <1>4, <1>6, <2>1, <2>2 DEF Introducing
<1>7. CASE SchedulerRetries
  <2>1. UNCHANGED <<users, matches, crashes>> /\ Scheduler \in Introductions!Task
    BY <1>7, IntroductionStep DEF SchedulerRetries, Introductions!Task
  <2>2. ASSUME Introductions!RetryStarts \/ \E m \in Row : Introductions!RetryNext(m)
        PROVE  UNCHANGED <<introduced, told, lost, introFaults>>
    BY <2>2 DEF Introductions!RetryStarts, Introductions!RetryNext, Introductions!boundVars
  <2> QED BY <1>4, <1>5, <1>7, <2>1, <2>2
          DEF SchedulerRetries, Introductions!RetryMissingIntros
<1>8. CASE BrokerCrash
  <2>1. introFaults' + crashes' = introFaults + crashes + 1
    BY <1>0, <1>8 DEF BrokerCrash, Crash, Introductions!Crash
  <2>2. UNCHANGED <<users, matches, introduced, told, lost>>
    BY <1>8 DEF BrokerCrash, Crash, tables, Introductions!Crash
  <2> QED BY <2>1, <2>2, QuietStep DEF Meetings!Next
<1>9. CASE UNCHANGED brokerVars
  BY <1>5, <1>9 DEF brokerVars, vars, introVars
<1> QED BY <1>1, <1>2, <1>3, <1>6, <1>7, <1>8, <1>9 DEF BrokerNext

LEMMA MeetingInit == BrokerInit => Meetings!Init
<1> SUFFICES ASSUME BrokerInit PROVE Meetings!Init
  OBVIOUS
<1>1. /\ matches = {} /\ users \in SUBSET User /\ crashes = 0 /\ introFaults = 0
      /\ introduced = {} /\ lost = {}
      /\ told = [m \in Row |-> [s \in Introductions!Side |-> 0]]
  BY DEF BrokerInit, Init, TablesInit, Introductions!Init
<1>2. MeetingStatus = [pair \in UserPair |-> "strangers"]
  <2>1. ASSUME NEW pair \in UserPair PROVE MeetingStatus[pair] = "strangers"
    <3>1. PICK a \in User, b \in User : pair = {a, b}
      BY DEF UserPair
    <3> QED BY <1>1, <3>1, MeetingStatusOf DEF PairTaken
  <2>2. MeetingStatus \in [UserPair -> {"introduced", "matched", "strangers"}]
    BY StatusFunction DEF MeetingStatus
  <2> QED BY <2>1, <2>2
<1>3. ASSUME NEW c \in Row
      PROVE  /\ told[c]["A"] = 0 /\ told[Mirror(c)]["B"] = 0 /\ ~(c \in TriedContacts)
             /\ HeardContacts[c] = 0
  <2>1. Mirror(c) \in Row
    BY DEF Mirror, Row
  <2>2. told[c]["A"] = 0 /\ told[Mirror(c)]["B"] = 0
    BY <1>1, <2>1 DEF Introductions!Side
  <2>3. HeardContacts[c] = 0
    BY <2>2, HeardOf
  <2>4. c \notin TriedContacts
    <3>1. <<c, "A">> \notin lost /\ <<Mirror(c), "B">> \notin lost
      BY <1>1
    <3>2. ~(told[c]["A"] > 0) /\ ~(told[Mirror(c)]["B"] > 0)
      BY <2>2
    <3> QED BY <3>1, <3>2, TriedOf
  <2> QED BY <2>2, <2>3, <2>4
<1>4. TriedContacts = {} /\ HeardContacts = [c \in Row |-> 0]
  BY <1>3 DEF TriedContacts, HeardContacts
<1> QED BY <1>1, <1>2, <1>4
        DEF Meetings!Init, Meetings!Ledger!Init, Meetings!Ledger!Pair, UserPair,
            Meetings!Contact, Row

(***************************************************************************)
(* The broker, with its uploads, sweeps, goroutines, retries and crashes,  *)
(* implements the ledger of meetings, for any users and bounds: nobody     *)
(* hears of a stranger, nobody hears of the same person more often than    *)
(* twice and once for every mishap, a pair counts as introduced only after *)
(* a message to each of the two, and no account of a match is deleted.     *)
(***************************************************************************)
THEOREM BrokerMeetings == BrokerSpec => ImplementsMeetings
<1>1. /\ BrokerInvariant /\ [BrokerNext]_brokerVars => BrokerInvariant'
      /\ BrokerInvariant /\ BrokerInvariant' /\ [BrokerNext]_brokerVars
           => [Meetings!Next]_Meetings!meetingVars
  BY BrokerStep, MeetingSteps
<1> QED BY <1>1, MeetingInit, BrokerInductive, PTL
        DEF BrokerSpec, ImplementsMeetings, Meetings!Spec

-----------------------------------------------------------------------------
(* What was proved of the parts, of the broker that runs both. *)

(***************************************************************************)
(* The promises of matching and of introductions, each proved for that     *)
(* part alone, hold while both run: a pair's introduction is started once, *)
(* its match had two mutual signals behind it, a signal is taken out of    *)
(* matching only with a match to show for it, and a row is marked only     *)
(* after a message to each side was tried.                                 *)
(***************************************************************************)
THEOREM PromisesKept ==
  BrokerSpec => [](/\ OneIntroductionPerPair
                   /\ EveryMatchWasMutual
                   /\ MatchedHasPartner
                   /\ Introductions!MarkedOnlyAfterTrying)
<1>1. BrokerInvariant => /\ OneIntroductionPerPair
                         /\ EveryMatchWasMutual
                         /\ MatchedHasPartner
                         /\ Introductions!MarkedOnlyAfterTrying
  BY DEF BrokerInvariant, IInv, Introductions!IInv
<1> QED BY <1>1, BrokerInductive, PTL

\* A login may open an account, as an upload does; nothing else of an
\* introduction touches a table that matching reads.
LEMMA BrokerLedgerStep ==
  ASSUME BrokerInvariant, [BrokerNext]_brokerVars
  PROVE  [Ledger!Next]_<<users, PairStatus>>
<1>1. ASSUME Next PROVE [Ledger!Next]_<<users, PairStatus>>
  BY <1>1, LedgerSteps DEF BrokerInvariant
<1>2. ASSUME UNCHANGED <<matches, launches>> PROVE PairStatus' = PairStatus
  BY <1>2 DEF PairStatus
<1>3. CASE BrokerUploads \/ SchedulerSweeps \/ SchedulerCleans \/ BrokerCrash
  BY <1>1, <1>3 DEF BrokerUploads, SchedulerSweeps, SchedulerCleans, BrokerCrash, Next
<1>4. ASSUME NEW u \in User, UserLeaves(u) PROVE Next
  BY <1>4 DEF UserLeaves, Next
<1>5. ASSUME NEW u \in User, UserLogsIn(u) PROVE Ledger!Open(u)
  <2>1. UNCHANGED <<matches, launches>>
    BY <1>5, IntroductionStep DEF UserLogsIn, OfIntroduction
  <2> QED BY <1>2, <1>5, <2>1 DEF UserLogsIn, Ledger!Open
<1>6. CASE SchedulerRetries \/ \E row \in Row : Introducing(row)
  <2>1. UNCHANGED <<users, matches, launches>>
    BY <1>6, IntroductionStep DEF SchedulerRetries, Introducing, OfIntroduction
  <2> QED BY <1>2, <2>1
<1>7. CASE UNCHANGED brokerVars
  BY <1>2, <1>7 DEF brokerVars, vars
<1> QED BY <1>1, <1>3, <1>4, <1>5, <1>6, <1>7 DEF BrokerNext, Ledger!Next

(***************************************************************************)
(* The broker implements the ledger of pairs too: with logins, goroutines  *)
(* and retries around it, a pair is still matched once, its introduction   *)
(* started at most once and only after that, and no account of a match is  *)
(* deleted.                                                                *)
(***************************************************************************)
THEOREM BrokerLedger == BrokerSpec => ImplementsLedger
<1>1. BrokerInvariant /\ [BrokerNext]_brokerVars => [Ledger!Next]_<<users, PairStatus>>
  BY BrokerLedgerStep
<1>2. BrokerInit => Ledger!Init
  BY LedgerInit DEF BrokerInit
<1> QED BY <1>1, <1>2, BrokerInductive, PTL DEF BrokerSpec, ImplementsLedger, Ledger!Spec

=============================================================================
