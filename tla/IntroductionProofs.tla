------------------------- MODULE IntroductionProofs -------------------------
(***************************************************************************)
(* Safety of Introduction, for any matches and users and any bounds.       *)
(***************************************************************************)
EXTENDS Introduction, TLAPS

LEMMA InitInvariant == Init => IInv
<1> SUFFICES ASSUME Init PROVE IInv
  OBVIOUS
<1>1. TypeOK
  <2>1. told \in [Match -> [Side -> Nat]] /\ telegramID \in [User -> TelegramID]
    BY DEF Init, TelegramID
  <2>2. intros \in [Task -> Intro \cup {Idle}]
    BY DEF Init
  <2>3. faults \in 0..MaxFaults /\ crashes \in 0..MaxCrashes
    BY IntroductionAssumption DEF Init
  <2> QED BY <2>1, <2>2, <2>3 DEF Init, TypeOK
<1>2. NothingBeforeTheMatch /\ TasksHaveMatches /\ PastMessagesWereTried
  BY DEF Init, NothingBeforeTheMatch, TasksHaveMatches, PastMessagesWereTried, At, Task
<1>3. MarkedOnlyAfterTrying /\ RepeatsAndPending
  BY DEF Init, MarkedOnlyAfterTrying, RepeatsAndPending
<1> QED BY <1>1, <1>2, <1>3 DEF IInv

-----------------------------------------------------------------------------
(* Type correctness. *)

\* The values intros may take are those of Begin, Idle and those a running
\* Introduce gets by going on or by running out of time.
LEMMA IntrosType ==
  ASSUME TypeOK, NEW t \in Task
  PROVE  /\ \A m \in Match :
              [intros EXCEPT ![t] = Begin(m)] \in [Task -> Intro \cup {Idle}]
         /\ [intros EXCEPT ![t] = Idle] \in [Task -> Intro \cup {Idle}]
         /\ intros[t] # Idle =>
              /\ [intros EXCEPT ![t].live = FALSE] \in [Task -> Intro \cup {Idle}]
              /\ \A label \in {"read", "mark"} \cup Side, to \in [Side -> TelegramID] :
                   /\ [intros EXCEPT ![t].pc = label] \in [Task -> Intro \cup {Idle}]
                   /\ [intros EXCEPT ![t].pc = label, ![t].to = to]
                        \in [Task -> Intro \cup {Idle}]
<1>1. \A m \in Match : Begin(m) \in Intro
  BY DEF Begin, Intro, TelegramID
<1>2. ASSUME intros[t] # Idle PROVE intros[t] \in Intro
  BY <1>2 DEF TypeOK
<1>3. ASSUME intros[t] # Idle
      PROVE  /\ [intros[t] EXCEPT !.live = FALSE] \in Intro
             /\ \A label \in {"read", "mark"} \cup Side, to \in [Side -> TelegramID] :
                  /\ [intros[t] EXCEPT !.pc = label] \in Intro
                  /\ [intros[t] EXCEPT !.pc = label, !.to = to] \in Intro
  BY <1>2, <1>3 DEF Intro
<1> QED BY <1>1, <1>3 DEF TypeOK

LEMMA IntroduceType ==
  ASSUME TypeOK, NEW t \in Task, Introduce(t) PROVE TypeOK'
<1> USE IntroductionAssumption DEF TypeOK
<1>1. ASSUME NEW label, At(t, label)
      PROVE  intros[t] # Idle /\ intros[t] \in Intro /\ intros[t].match \in Match
  BY <1>1 DEF At, Intro
<1>2. CASE ReadTelegramIDs(t)
  <2> DEFINE to == [s \in Side |-> telegramID[Members[intros[t].match][s]]]
  <2>1. to \in [Side -> TelegramID]
    <3>1. intros[t].match \in Match
      BY <1>1, <1>2 DEF ReadTelegramIDs
    <3>2. \A s \in Side : Members[intros[t].match][s] \in User
      BY <3>1
    <3> QED BY <3>2
  <2>2. intros[t] # Idle
    BY <1>2 DEF ReadTelegramIDs, At
  <2> HIDE DEF to
  <2>3. intros' = [intros EXCEPT ![t] = Idle] \/ intros' = [intros EXCEPT ![t].pc = "A", ![t].to = to]
    BY <1>2 DEF ReadTelegramIDs, Finish, to
  <2>4. intros' \in [Task -> Intro \cup {Idle}]
    <3>1. CASE intros' = [intros EXCEPT ![t] = Idle]
      BY <3>1, IntrosType
    <3>2. CASE intros' = [intros EXCEPT ![t].pc = "A", ![t].to = to]
      <4>1. "A" \in {"read", "mark"} \cup Side
        BY DEF Side
      <4>2. [intros EXCEPT ![t].pc = "A", ![t].to = to] \in [Task -> Intro \cup {Idle}]
        BY <2>1, <2>2, <4>1, IntrosType
      <4> QED BY <3>2, <4>2
    <3> QED BY <2>3, <3>1, <3>2
  <2> QED BY <1>2, <2>4 DEF ReadTelegramIDs, boundVars
<1>3. CASE ReadFails(t)
  <2>1. faults' \in 0..MaxFaults
    BY <1>3 DEF ReadFails, CallFails, Fault
  <2>2. intros' \in [Task -> Intro \cup {Idle}]
    BY <1>3, IntrosType DEF ReadFails, Finish
  <2> QED BY <1>3, <2>1, <2>2 DEF ReadFails
<1>4. ASSUME NEW s \in Side, Delivered(t, s) PROVE TypeOK'
  <2>1. intros' \in [Task -> Intro \cup {Idle}]
    BY <1>1, <1>4, IntrosType, after(s) \in {"read", "mark"} \cup Side DEF Delivered, after, Side, Intro, TelegramID
  <2>2. told' \in [Match -> [Side -> Nat]]
    BY <1>1, <1>4 DEF Delivered
  <2> QED BY <1>4, <2>1, <2>2 DEF Delivered, boundVars
<1>5. ASSUME NEW s \in Side, Undelivered(t, s) PROVE TypeOK'
  <2>1. intros' \in [Task -> Intro \cup {Idle}]
    BY <1>1, <1>5, IntrosType, after(s) \in {"read", "mark"} \cup Side DEF Undelivered, after, Side, Intro, TelegramID
  <2>2. lost' \subseteq Match \X Side
    BY <1>1, <1>5 DEF Undelivered
  <2> QED BY <1>5, <2>1, <2>2 DEF Undelivered, CallFails, Fault
<1>6. CASE MarkMatchIntroduced(t)
  <2>1. introduced' \subseteq Match
    BY <1>1, <1>6 DEF MarkMatchIntroduced
  <2> QED BY <1>6, <2>1, IntrosType DEF MarkMatchIntroduced, Finish, boundVars
<1>7. CASE MarkFails(t)
  <2>1. introduced' \subseteq Match
    BY <1>1, <1>7 DEF MarkFails
  <2>2. faults' \in 0..MaxFaults
    BY <1>7 DEF MarkFails, CallFails, Fault
  <2>3. intros' \in [Task -> Intro \cup {Idle}]
    BY <1>7, IntrosType DEF MarkFails, Finish
  <2> QED BY <1>7, <2>1, <2>2, <2>3 DEF MarkFails
<1> QED BY <1>2, <1>3, <1>4, <1>5, <1>6, <1>7 DEF Introduce

LEMMA NextType ==
  ASSUME TypeOK, [Next]_vars PROVE TypeOK'
<1> USE IntroductionAssumption DEF TypeOK
<1>1. ASSUME NEW m \in Match, CreateMatch(m) PROVE TypeOK'
  <2>1. intros' \in [Task -> Intro \cup {Idle}]
    <3>1. [intros EXCEPT ![m] = Begin(m)] \in [Task -> Intro \cup {Idle}]
      BY IntrosType DEF Task
    <3> QED BY <1>1, <3>1 DEF CreateMatch, introduceAsync, Start
  <2> QED BY <1>1, <2>1 DEF CreateMatch, boundVars
<1>2. ASSUME NEW m \in Match, Expires(m) PROVE TypeOK'
  BY <1>2, IntrosType DEF Expires, boundVars, Task
<1>3. ASSUME NEW t \in Task, Introduce(t) PROVE TypeOK'
  BY <1>3, IntroduceType
<1>4. ASSUME NEW u \in User, Login(u) PROVE TypeOK'
  BY <1>4 DEF Login, boundVars, TelegramID
<1>5. CASE RetryStarts
  BY <1>5 DEF RetryStarts, GetMatchesMissingIntro, boundVars
<1>6. ASSUME NEW m \in Match, RetryNext(m) PROVE TypeOK'
  <2>1. intros' \in [Task -> Intro \cup {Idle}]
    BY <1>6, IntrosType DEF RetryNext, Start, Task
  <2> QED BY <1>6, <2>1 DEF RetryNext, boundVars
<1>7. CASE Crash
  BY <1>7 DEF Crash
<1>8. CASE UNCHANGED vars
  BY <1>8 DEF vars, boundVars
<1>9. ASSUME NEW m \in Match, SweepCreates(m) PROVE TypeOK'
  BY <1>9 DEF SweepCreates, boundVars
<1>10. CASE SweepMarks
  <2>1. intros' \in [Task -> Intro \cup {Idle}]
    <3>1. marking \in Match
      BY <1>10 DEF SweepMarks
    <3>2. [intros EXCEPT ![marking] = Begin(marking)] \in [Task -> Intro \cup {Idle}]
      BY <3>1, IntrosType DEF Task
    <3> QED BY <1>10, <3>2 DEF SweepMarks, introduceAsync, Start
  <2> QED BY <1>10, <2>1 DEF SweepMarks, boundVars
<1> QED
  BY <1>1, <1>2, <1>3, <1>4, <1>5, <1>6, <1>7, <1>8, <1>9, <1>10
     DEF Next, RetryMissingIntros, Task

-----------------------------------------------------------------------------
(* What one step of an Introduce does. *)

\* Tried(m, s) after the step.
TriedAfter(m, s) == told'[m][s] > 0 \/ <<m, s>> \in lost'

\* It goes on by one call, or ends; it works on the same match.
GoesOn(t) ==
  /\ intros[t] # Idle
  /\ \A v \in Task \ {t} : intros'[v] = intros[v]
  /\ intros'[t] # Idle =>
       /\ intros'[t].match = intros[t].match
       /\ intros'[t].live = intros[t].live
       /\ \/ intros[t].pc = "read" /\ intros'[t].pc = "A"
          \/ intros[t].pc = "A" /\ intros'[t].pc = "B"
               /\ TriedAfter(intros[t].match, "A")
          \/ intros[t].pc = "B" /\ intros'[t].pc = "mark"
               /\ TriedAfter(intros[t].match, "B")

\* What has been tried stays tried, and the match is only marked at the end.
LEMMA IntroduceStep ==
  ASSUME TypeOK, NEW t \in Task, Introduce(t)
  PROVE  /\ GoesOn(t)
         /\ intros[t].match \in Match
         /\ \A m \in Match, s \in Side : Tried(m, s) => TriedAfter(m, s)
         /\ introduced' # introduced =>
              intros[t].pc = "mark" /\ introduced' = introduced \cup {intros[t].match}
         /\ UNCHANGED <<matches, marking, missing>>
<1>1. intros[t] # Idle /\ intros[t] \in Intro /\ intros[t].match \in Match
  BY DEF TypeOK, Introduce, ReadTelegramIDs, ReadFails, Delivered, Undelivered,
         MarkMatchIntroduced, MarkFails, At, Intro
<1> DEFINE Kept == \A m \in Match, s \in Side : Tried(m, s) => TriedAfter(m, s)
<1>2. CASE ReadTelegramIDs(t)
  <2> DEFINE to == [s \in Side |-> telegramID[Members[intros[t].match][s]]]
  <2>1. \/ intros' = [intros EXCEPT ![t] = Idle]
        \/ intros' = [intros EXCEPT ![t].pc = "A", ![t].to = to]
    BY <1>2 DEF ReadTelegramIDs, Finish
  <2>2. intros[t].pc = "read"
    BY <1>2 DEF ReadTelegramIDs, At
  <2> HIDE DEF to
  <2>3. GoesOn(t)
    BY <1>1, <2>1, <2>2 DEF TypeOK, GoesOn, Intro
  <2>4. Kept /\ introduced' = introduced /\ UNCHANGED <<matches, marking, missing>>
    BY <1>2 DEF ReadTelegramIDs, Tried, TriedAfter
  <2> QED BY <1>1, <2>3, <2>4
<1>3. CASE ReadFails(t)
  BY <1>1, <1>3 DEF TypeOK, ReadFails, At, GoesOn, Finish, Tried, TriedAfter
<1>4. ASSUME NEW s \in Side, Delivered(t, s)
      PROVE  GoesOn(t) /\ Kept /\ introduced' = introduced /\ UNCHANGED <<matches, marking, missing>>
  <2>1. told' = [told EXCEPT ![intros[t].match][s] = @ + 1] /\ lost' = lost
    BY <1>4 DEF Delivered
  <2>2. told[intros[t].match] \in [Side -> Nat]
    BY <1>1 DEF TypeOK
  <2>3. TriedAfter(intros[t].match, s)
    BY <1>1, <2>1, <2>2 DEF TypeOK, TriedAfter
  <2>4. Kept
    BY <1>1, <2>1, <2>2 DEF TypeOK, Tried, TriedAfter
  <2>5. intros[t].pc = s /\ intros' = [intros EXCEPT ![t].pc = after(s)]
    BY <1>4 DEF Delivered, At
  <2>6. GoesOn(t)
    BY <1>1, <2>3, <2>5 DEF TypeOK, GoesOn, after, Side, Intro
  <2> QED BY <1>4, <2>4, <2>6 DEF Delivered
<1>5. ASSUME NEW s \in Side, Undelivered(t, s)
      PROVE  GoesOn(t) /\ Kept /\ introduced' = introduced /\ UNCHANGED <<matches, marking, missing>>
  <2>1. told' = told /\ lost' = lost \cup {<<intros[t].match, s>>}
    BY <1>5 DEF Undelivered
  <2>2. intros[t].pc = s /\ intros' = [intros EXCEPT ![t].pc = after(s)]
    BY <1>5 DEF Undelivered, At
  <2>3. intros'[t].match = intros[t].match
    BY <1>1, <2>2 DEF TypeOK, Intro
  <2>4. Kept /\ TriedAfter(intros[t].match, s)
    BY <2>1, <2>3 DEF Tried, TriedAfter
  <2>5. GoesOn(t)
    BY <1>1, <2>2, <2>4 DEF TypeOK, GoesOn, after, Side, Intro
  <2> QED BY <1>5, <2>4, <2>5 DEF Undelivered
<1>6. CASE MarkMatchIntroduced(t)
  BY <1>1, <1>6 DEF TypeOK, MarkMatchIntroduced, At, GoesOn, Finish, Tried, TriedAfter
<1>7. CASE MarkFails(t)
  BY <1>1, <1>7 DEF TypeOK, MarkFails, At, GoesOn, Finish, Tried, TriedAfter
<1> QED BY <1>1, <1>2, <1>3, <1>4, <1>5, <1>6, <1>7 DEF Introduce
-----------------------------------------------------------------------------
(* What the other steps do to the goroutines. *)

LEMMA BeginStep ==
  ASSUME TypeOK, NEW t \in Task, NEW m \in Match, Start(t, m)
  PROVE  /\ intros'[t] # Idle /\ intros'[t].match = m /\ intros'[t].pc = "read"
         /\ intros'[t].live
         /\ \A v \in Task \ {t} : intros'[v] = intros[v]
<1>1. Begin(m) \in Intro
  BY DEF Begin, Intro, TelegramID
<1>2. Begin(m).match = m /\ Begin(m).pc = "read" /\ Begin(m).live
  BY DEF Begin
<1> QED BY <1>1, <1>2, IntroductionAssumption DEF TypeOK, Start

\* Running out of time changes neither the match nor the next call.
LEMMA ExpiresStep ==
  ASSUME TypeOK, NEW m \in Match, Expires(m)
  PROVE  /\ \A t \in Task :
              /\ intros'[t] = Idle <=> intros[t] = Idle
              /\ intros[t] # Idle => intros'[t].match = intros[t].match
                                      /\ intros'[t].pc = intros[t].pc
         /\ intros'[Scheduler] = intros[Scheduler]
<1>1. intros[m] \in Intro /\ intros' = [intros EXCEPT ![m].live = FALSE]
  BY DEF TypeOK, Expires, Task
<1>2. [intros[m] EXCEPT !.live = FALSE] \in Intro
  BY <1>1 DEF Intro
<1>3. intros'[m] = [intros[m] EXCEPT !.live = FALSE]
  BY <1>1 DEF TypeOK, Task
<1>4. intros'[m] # Idle /\ intros[m] # Idle
  BY <1>2, <1>3, IntroductionAssumption DEF Expires
<1>5. intros'[m].match = intros[m].match /\ intros'[m].pc = intros[m].pc
  BY <1>1, <1>3 DEF Intro
<1>6. \A t \in Task \ {m} : intros'[t] = intros[t]
  BY <1>1 DEF TypeOK
<1> QED BY <1>4, <1>5, <1>6, IntroductionAssumption DEF Task

-----------------------------------------------------------------------------
(* The parts of the invariant. *)

LEMMA NothingBeforeTheMatchStep ==
  ASSUME IInv, [Next]_vars PROVE NothingBeforeTheMatch'
<1> USE DEF IInv, NothingBeforeTheMatch
<1>0. Scheduler \in Task /\ Match \subseteq Task /\ Scheduler \notin Match
  BY IntroductionAssumption DEF Task
<1>1. ASSUME NEW m \in Match, CreateMatch(m) PROVE NothingBeforeTheMatch'
  <2>1. CASE Start(m, m)
    BY <1>0, <1>1, <2>1, BeginStep DEF CreateMatch
  <2>2. CASE UNCHANGED intros
    BY <1>1, <2>2 DEF CreateMatch
  <2> QED BY <1>1, <2>1, <2>2 DEF CreateMatch, introduceAsync
<1>2. ASSUME NEW m \in Match, Expires(m) PROVE NothingBeforeTheMatch'
  <2>1. UNCHANGED <<matches, marking, introduced, missing, told>>
    BY <1>2 DEF Expires
  <2> QED BY <1>0, <1>2, <2>1, ExpiresStep
<1>3. ASSUME NEW t \in Task, Introduce(t) PROVE NothingBeforeTheMatch'
  <2>1. intros[t].match \in matches /\ GoesOn(t) /\ UNCHANGED <<matches, marking, missing>>
    BY <1>3, IntroduceStep DEF GoesOn
  <2>2. introduced' \subseteq matches'
    BY <1>3, <2>1, IntroduceStep
  <2>3. \A m \in Match \ matches : told'[m] = told[m]
    BY <1>3, <2>1 DEF Introduce, ReadTelegramIDs, ReadFails, Delivered, Undelivered,
         MarkMatchIntroduced, MarkFails, TypeOK
  <2>4. \A m \in Match \ matches : intros'[m] = Idle
    BY <1>0, <1>3, <2>1 DEF GoesOn
  <2>5. \A v \in Task : intros'[v] # Idle => intros'[v].match \in matches
    BY <2>1 DEF GoesOn
  <2> QED BY <2>1, <2>2, <2>3, <2>4, <2>5
<1>4. ASSUME NEW u \in User, Login(u) PROVE NothingBeforeTheMatch'
  BY <1>4 DEF Login
<1>5. CASE RetryStarts
  BY <1>5 DEF RetryStarts, GetMatchesMissingIntro
<1>6. ASSUME NEW m \in Match, RetryNext(m) PROVE NothingBeforeTheMatch'
  <2>1. Start(Scheduler, m) /\ m \in missing
        /\ UNCHANGED <<matches, marking, introduced, told>> /\ missing' \subseteq missing
    BY <1>6 DEF RetryNext
  <2> QED BY <1>0, <2>1, BeginStep
<1>7. CASE Crash
  BY <1>0, <1>7 DEF Crash
<1>8. CASE UNCHANGED vars
  BY <1>8 DEF vars
<1>9. ASSUME NEW m \in Match, SweepCreates(m) PROVE NothingBeforeTheMatch'
  BY <1>9 DEF SweepCreates
<1>10. CASE SweepMarks
  <2>1. marking \in Match /\ marking # NoMatch
    BY <1>10 DEF SweepMarks, TypeOK
  <2>2. CASE Start(marking, marking)
    BY <1>0, <1>10, <2>1, <2>2, BeginStep DEF SweepMarks
  <2>3. CASE UNCHANGED intros
    BY <1>10, <2>1, <2>3 DEF SweepMarks
  <2> QED BY <1>10, <2>2, <2>3 DEF SweepMarks, introduceAsync
<1> QED
  BY <1>0, <1>1, <1>2, <1>3, <1>4, <1>5, <1>6, <1>7, <1>8, <1>9, <1>10
     DEF Next, RetryMissingIntros

LEMMA TasksHaveMatchesStep ==
  ASSUME IInv, [Next]_vars PROVE TasksHaveMatches'
<1> USE DEF IInv, TasksHaveMatches
<1>0. Scheduler \in Task /\ Match \subseteq Task /\ Scheduler \notin Match
  BY IntroductionAssumption DEF Task
<1>1. ASSUME NEW m \in Match, CreateMatch(m) PROVE TasksHaveMatches'
  <2>1. CASE Start(m, m)
    BY <1>0, <1>1, <2>1, BeginStep DEF CreateMatch
  <2>2. CASE UNCHANGED intros
    BY <1>1, <2>2 DEF CreateMatch
  <2> QED BY <1>1, <2>1, <2>2 DEF CreateMatch, introduceAsync
<1>2. ASSUME NEW m \in Match, Expires(m) PROVE TasksHaveMatches'
  BY <1>0, <1>2, ExpiresStep DEF Expires
<1>3. ASSUME NEW t \in Task, Introduce(t) PROVE TasksHaveMatches'
  BY <1>0, <1>3, IntroduceStep DEF GoesOn
<1>4. ASSUME NEW u \in User, Login(u) PROVE TasksHaveMatches'
  BY <1>4 DEF Login
<1>5. CASE RetryStarts
  BY <1>5 DEF RetryStarts, SchedulerIdle
<1>6. ASSUME NEW m \in Match, RetryNext(m) PROVE TasksHaveMatches'
  BY <1>0, <1>6, BeginStep DEF RetryNext
<1>7. CASE Crash
  BY <1>0, <1>7 DEF Crash
<1>8. CASE UNCHANGED vars
  BY <1>8 DEF vars
<1>9. ASSUME NEW m \in Match, SweepCreates(m) PROVE TasksHaveMatches'
  BY <1>9 DEF SweepCreates
<1>10. CASE SweepMarks
  <2>1. marking \in Match /\ marking # NoMatch
    BY <1>10 DEF SweepMarks, TypeOK
  <2>2. CASE Start(marking, marking)
    BY <1>0, <1>10, <2>1, <2>2, BeginStep DEF SweepMarks
  <2>3. CASE UNCHANGED intros
    BY <1>10, <2>1, <2>3 DEF SweepMarks
  <2> QED BY <1>10, <2>2, <2>3 DEF SweepMarks, introduceAsync
<1> QED
  BY <1>0, <1>1, <1>2, <1>3, <1>4, <1>5, <1>6, <1>7, <1>8, <1>9, <1>10
     DEF Next, RetryMissingIntros

\* A step that sends nothing forgets nothing.
LEMMA TriedKept ==
  ASSUME UNCHANGED <<told, lost>>
  PROVE  \A m \in Match, s \in Side : TriedAfter(m, s) <=> Tried(m, s)
BY DEF Tried, TriedAfter

LEMMA PastMessagesWereTriedStep ==
  ASSUME IInv, [Next]_vars PROVE PastMessagesWereTried'
<1> USE DEF IInv, PastMessagesWereTried, At
<1>0. Scheduler \in Task /\ Match \subseteq Task /\ Scheduler \notin Match
  BY IntroductionAssumption DEF Task
<1>a. \A t \in Task : intros[t] # Idle => intros[t].match \in Match
  BY DEF TypeOK, Intro
<1>b. "A" \in Side /\ "B" \in Side /\ \A s \in Side : s = "A" \/ s = "B"
  BY DEF Side
\* Steps that start an Introduce, end it, or leave it where it is.
<1> DEFINE Stays(t) ==
      \/ intros'[t] = Idle
      \/ intros'[t] # Idle /\ intros'[t].pc = "read"
      \/ /\ intros[t] # Idle /\ intros'[t].pc = intros[t].pc
         /\ intros'[t].match = intros[t].match
<1>c. ASSUME UNCHANGED <<told, lost>>, \A t \in Task : Stays(t)
      PROVE  PastMessagesWereTried'
  <2>1. \A m \in Match, s \in Side : TriedAfter(m, s) <=> Tried(m, s)
    BY <1>c, TriedKept
  <2>2. SUFFICES ASSUME NEW t \in Task, intros'[t] # Idle, intros'[t].pc # "read"
                 PROVE  /\ intros'[t].pc = "B" => TriedAfter(intros'[t].match, "A")
                        /\ intros'[t].pc = "mark" =>
                             \A s \in Side : TriedAfter(intros'[t].match, s)
    BY DEF Tried, TriedAfter
  <2>3. intros[t] # Idle /\ intros'[t].pc = intros[t].pc /\ intros'[t].match = intros[t].match
    BY <1>c, <2>2
  <2>4. /\ intros[t].pc = "B" => TriedAfter(intros[t].match, "A")
        /\ intros[t].pc = "mark" => \A s \in Side : TriedAfter(intros[t].match, s)
    <3>1. intros[t].match \in Match
      BY <1>a, <2>3
    <3> QED BY <1>b, <2>1, <2>3, <3>1 DEF Tried, TriedAfter
  <2> QED BY <2>3, <2>4 DEF Tried, TriedAfter
<1>1. ASSUME NEW m \in Match, CreateMatch(m) PROVE PastMessagesWereTried'
  <2>1. \A t \in Task : Stays(t)
    <3>1. CASE Start(m, m)
      BY <1>0, <3>1, BeginStep
    <3>2. CASE UNCHANGED intros
      BY <3>2
    <3> QED BY <1>1, <3>1, <3>2 DEF CreateMatch, introduceAsync
  <2>2. UNCHANGED <<told, lost>>
    BY <1>1 DEF CreateMatch
  <2> QED BY <1>c, <2>1, <2>2
<1>2. ASSUME NEW m \in Match, Expires(m) PROVE PastMessagesWereTried'
  <2>1. \A t \in Task : Stays(t)
    BY <1>2, ExpiresStep
  <2>2. UNCHANGED <<told, lost>>
    BY <1>2 DEF Expires
  <2> QED BY <1>c, <2>1, <2>2
<1>3. ASSUME NEW t \in Task, Introduce(t) PROVE PastMessagesWereTried'
  <2>1. GoesOn(t) /\ intros[t].match \in Match
        /\ \A m \in Match, s \in Side : Tried(m, s) => TriedAfter(m, s)
    BY <1>3, IntroduceStep
  <2>2. SUFFICES ASSUME NEW v \in Task, intros'[v] # Idle
                 PROVE  /\ intros'[v].pc = "B" => TriedAfter(intros'[v].match, "A")
                        /\ intros'[v].pc = "mark" =>
                             \A s \in Side : TriedAfter(intros'[v].match, s)
    BY DEF Tried, TriedAfter
  <2>3. CASE v # t
    <3>1. intros'[v] = intros[v] /\ intros[v] # Idle /\ intros[v].match \in Match
      BY <1>a, <2>1, <2>2, <2>3 DEF GoesOn
    <3>2. /\ intros[v].pc = "B" => TriedAfter(intros[v].match, "A")
          /\ intros[v].pc = "mark" => \A s \in Side : TriedAfter(intros[v].match, s)
      BY <1>b, <2>1, <3>1
    <3> QED BY <3>1, <3>2 DEF Tried, TriedAfter
  <2>4. CASE v = t
    <3>1. intros[t] # Idle /\ intros'[t].match = intros[t].match
      BY <2>1, <2>2, <2>4 DEF GoesOn
    <3>2. /\ intros'[t].pc = "B" => TriedAfter(intros[t].match, "A")
          /\ intros'[t].pc = "mark" =>
                TriedAfter(intros[t].match, "A") /\ TriedAfter(intros[t].match, "B")
      BY <1>b, <2>1, <2>2, <2>4, <3>1 DEF GoesOn
    <3> QED BY <1>b, <2>4, <3>1, <3>2 DEF Tried, TriedAfter
  <2> QED BY <2>3, <2>4
<1>4. ASSUME NEW u \in User, Login(u) PROVE PastMessagesWereTried'
  BY <1>4 DEF Login, Tried, TriedAfter
<1>5. CASE RetryStarts
  BY <1>5 DEF RetryStarts, Tried, TriedAfter
<1>6. ASSUME NEW m \in Match, RetryNext(m) PROVE PastMessagesWereTried'
  <2>1. Start(Scheduler, m) /\ UNCHANGED <<told, lost>>
    BY <1>6 DEF RetryNext
  <2>2. \A t \in Task : Stays(t)
    BY <1>0, <2>1, BeginStep
  <2> QED BY <1>c, <2>1, <2>2
<1>7. CASE Crash
  BY <1>7 DEF Crash
<1>8. CASE UNCHANGED vars
  BY <1>8 DEF vars, Tried, TriedAfter
<1>9. ASSUME NEW m \in Match, SweepCreates(m) PROVE PastMessagesWereTried'
  <2>1. UNCHANGED <<told, lost>> /\ \A t \in Task : Stays(t)
    BY <1>9 DEF SweepCreates
  <2> QED BY <1>c, <2>1
<1>10. CASE SweepMarks
  <2>1. \A t \in Task : Stays(t)
    <3>1. marking \in Match
      BY <1>10 DEF SweepMarks, TypeOK
    <3>2. CASE Start(marking, marking)
      BY <1>0, <3>1, <3>2, BeginStep
    <3>3. CASE UNCHANGED intros
      BY <3>3
    <3> QED BY <1>10, <3>2, <3>3 DEF SweepMarks, introduceAsync
  <2>2. UNCHANGED <<told, lost>>
    BY <1>10 DEF SweepMarks
  <2> QED BY <1>c, <2>1, <2>2
<1> QED
  BY <1>0, <1>1, <1>2, <1>3, <1>4, <1>5, <1>6, <1>7, <1>8, <1>9, <1>10
     DEF Next, RetryMissingIntros

LEMMA MarkedOnlyAfterTryingStep ==
  ASSUME IInv, [Next]_vars PROVE MarkedOnlyAfterTrying'
<1> USE DEF IInv, MarkedOnlyAfterTrying
<1>1. ASSUME NEW t \in Task, Introduce(t) PROVE MarkedOnlyAfterTrying'
  <2>1. \A m \in Match, s \in Side : Tried(m, s) => TriedAfter(m, s)
    BY <1>1, IntroduceStep
  <2>2. introduced \subseteq Match
    BY DEF TypeOK
  <2>3. CASE introduced' = introduced
    BY <2>1, <2>2, <2>3 DEF Tried, TriedAfter
  <2>4. CASE introduced' # introduced
    <3>1. At(t, "mark") /\ intros[t].match \in Match
          /\ introduced' = introduced \cup {intros[t].match}
      BY <1>1, <2>4, IntroduceStep DEF GoesOn, At
    <3>2. \A s \in Side : Tried(intros[t].match, s)
      BY <3>1 DEF PastMessagesWereTried
    <3> QED BY <2>1, <2>2, <3>1, <3>2 DEF Tried, TriedAfter
  <2> QED BY <2>3, <2>4
<1>2. CASE UNCHANGED <<told, lost, introduced>>
  BY <1>2 DEF Tried, TriedAfter
<1>3. (\E t \in Task : Introduce(t)) \/ UNCHANGED <<told, lost, introduced>>
  BY DEF Next, RetryMissingIntros, Task, CreateMatch, SweepCreates, SweepMarks, Expires,
         Login, RetryStarts, RetryNext, Crash, vars
<1> QED BY <1>1, <1>2, <1>3

-----------------------------------------------------------------------------
(* Repeated messages. *)

\* What the task t of an Introduce step adds for member s of m: never more than
\* the failures it has counted.
LEMMA IntroduceWeight ==
  ASSUME IInv, NEW t \in Task, Introduce(t),
         NEW m \in matches, NEW s \in Side
  PROVE  Weight(m, s)' <= Weight(m, s) + (faults' - faults)
<1> USE DEF IInv
<1>0. Scheduler \in Task /\ Match \subseteq Task /\ Scheduler \notin Match /\ m \in Match
  BY IntroductionAssumption DEF Task, TypeOK
<1>1. /\ GoesOn(t) /\ intros[t].match \in Match /\ missing' = missing
      /\ introduced \subseteq introduced'
      /\ introduced' \subseteq introduced \cup {intros[t].match}
      /\ intros[t] \in Intro /\ marking' = marking
  BY IntroduceStep DEF GoesOn, TypeOK
<1>m. marking' = marking
  BY <1>1
<1>2. faults \in Nat /\ faults' \in Nat /\ faults <= faults'
  <2>1. faults' = faults \/ faults' = faults + 1
    BY DEF Introduce, ReadTelegramIDs, ReadFails, Delivered, Undelivered,
           MarkMatchIntroduced, MarkFails, CallFails, Fault, boundVars
  <2>2. faults \in Nat
    BY IntroductionAssumption DEF TypeOK
  <2> QED BY <2>1, <2>2
<1>3. told[m][s] \in Nat
  BY <1>0 DEF TypeOK
\* A message is only ever sent by an Introduce that had it still to send.
<1>4. \/ told'[m][s] = told[m][s]
      \/ /\ told'[m][s] = told[m][s] + 1
         /\ Pending(t, m, s) /\ ~Pending(t, m, s)'
  <2>1. ASSUME NEW x \in Side, Delivered(t, x), told'[m][s] # told[m][s]
        PROVE  /\ told'[m][s] = told[m][s] + 1
               /\ Pending(t, m, s) /\ ~Pending(t, m, s)'
    <3>1. told' = [told EXCEPT ![intros[t].match][x] = @ + 1]
      BY <2>1 DEF Delivered
    <3>2. intros[t].match = m /\ x = s
      BY <1>0, <1>1, <2>1, <3>1 DEF TypeOK
    <3>3. told'[m][s] = told[m][s] + 1
      BY <1>0, <3>1, <3>2 DEF TypeOK
    <3>4. intros[t] # Idle /\ intros[t].pc = s /\ intros'[t].pc = after(s)
      BY <1>1, <2>1, <3>2 DEF Delivered, At, TypeOK, Intro
    <3> QED BY <3>2, <3>3, <3>4 DEF Pending, after, Side
  <2>2. (\E x \in Side : Delivered(t, x)) \/ told' = told
    BY DEF Introduce, ReadTelegramIDs, ReadFails, Undelivered, MarkMatchIntroduced, MarkFails
  <2> QED BY <2>1, <2>2
<1>5. Pending(t, m, s)' => Pending(t, m, s)
  BY <1>1 DEF GoesOn, Pending, Side
<1>6. CASE t # Scheduler
  <2>1. t \in Match /\ intros[t].match = t /\ intros'[Scheduler] = intros[Scheduler]
    BY <1>0, <1>1, <1>6 DEF Task, TasksHaveMatches, GoesOn
  <2>2. RetryPending(m, s)' => RetryPending(m, s)
    BY <1>1, <2>1 DEF RetryPending, Pending
  <2>3. CASE t = m
    BY <1>m, <1>2, <1>3, <1>4, <1>5, <2>2, <2>3 DEF Weight, One
  <2>4. CASE t # m
    <3>1. Pending(m, m, s)' = Pending(m, m, s) /\ ~Pending(t, m, s)
      BY <1>0, <1>1, <2>1, <2>4 DEF Pending, GoesOn
    <3> QED BY <1>m, <1>2, <1>3, <1>4, <2>2, <3>1 DEF Weight, One
  <2> QED BY <2>3, <2>4
<1>7. CASE t = Scheduler
  <2>1. intros'[m] = intros[m]
    BY <1>0, <1>1, <1>7 DEF GoesOn
  <2>2. Pending(m, m, s)' = Pending(m, m, s)
    BY <2>1 DEF Pending
  <2>3. CASE intros[t].match # m
    <3>1. RetryPending(m, s)' => RetryPending(m, s)
      BY <1>1, <1>7, <2>3 DEF RetryPending, Pending, GoesOn
    <3>2. ~Pending(t, m, s)
      BY <2>3 DEF Pending
    <3> QED BY <1>m, <1>2, <1>3, <1>4, <2>2, <3>1, <3>2 DEF Weight, One
  <2>4. CASE intros[t].match = m
    <3>1. intros[t].live /\ m \notin missing /\ m \notin missing' /\ intros[t] # Idle
      BY <1>1, <1>7, <2>4 DEF TasksHaveMatches, GoesOn
    <3>2. RetryPending(m, s) <=> Pending(t, m, s)
      BY <1>7, <2>4, <3>1 DEF RetryPending
    <3>3. CASE intros'[t] # Idle
      <4>1. RetryPending(m, s)' <=> Pending(t, m, s)'
        BY <1>1, <1>7, <2>4, <3>1, <3>3 DEF RetryPending, GoesOn
      <4> QED BY <1>m, <1>2, <1>3, <1>4, <1>5, <2>2, <3>2, <4>1 DEF Weight, One
    <3>4. CASE intros'[t] = Idle
      <4>1. \/ ReadTelegramIDs(t) \/ ReadFails(t)
            \/ MarkMatchIntroduced(t) \/ MarkFails(t)
        <5>1. ASSUME NEW x \in Side, Delivered(t, x) \/ Undelivered(t, x) PROVE intros'[t] # Idle
          <6>1. intros' = [intros EXCEPT ![t].pc = after(x)]
            BY <5>1 DEF Delivered, Undelivered
          <6>2. [intros[t] EXCEPT !.pc = after(x)] \in Intro
            BY <1>1 DEF Intro, after, Side
          <6> QED BY <6>1, <6>2, IntroductionAssumption DEF TypeOK
        <5> QED BY <3>4, <5>1 DEF Introduce
      <4>2. told'[m][s] = told[m][s]
        BY <4>1 DEF ReadTelegramIDs, ReadFails, MarkMatchIntroduced, MarkFails
      <4>3. CASE Pending(t, m, s)
        BY <1>m, <1>2, <1>3, <2>2, <3>2, <4>2, <4>3 DEF Weight, One
      <4>4. CASE MarkMatchIntroduced(t)
        <5>1. ~RetryPending(m, s)'
          BY <1>7, <2>4, <3>1, <3>4, <4>4 DEF RetryPending, Pending, MarkMatchIntroduced
        <5> QED BY <1>m, <1>2, <1>3, <2>2, <4>2, <5>1 DEF Weight, One
      <4>5. CASE MarkFails(t)
        <5>1. faults' = faults + 1
          BY <3>1, <4>5 DEF MarkFails, CallFails, Fault
        <5> QED BY <1>m, <1>2, <1>3, <2>2, <4>2, <5>1 DEF Weight, One
      <4>6. CASE ReadTelegramIDs(t) \/ ReadFails(t)
        <5>1. Pending(t, m, s)
          BY <2>4, <4>6 DEF ReadTelegramIDs, ReadFails, At, Pending
        <5> QED BY <4>3, <5>1
      <4> QED BY <4>1, <4>4, <4>5, <4>6
    <3> QED BY <3>3, <3>4
  <2> QED BY <2>3, <2>4
<1> QED BY <1>6, <1>7

LEMMA RepeatsAndPendingStep ==
  ASSUME IInv, [Next]_vars PROVE RepeatsAndPending'
<1> USE DEF IInv
<1>0. Scheduler \in Task /\ Match \subseteq Task /\ Scheduler \notin Match
  BY IntroductionAssumption DEF Task
<1>a. faults \in Nat /\ crashes \in Nat /\ matches \subseteq Match
  BY IntroductionAssumption DEF TypeOK
<1>b. \A m \in Match, s \in Side : told[m][s] \in Nat
  BY DEF TypeOK
<1> DEFINE Bound == 2 + faults + crashes
<1>c. ASSUME NEW m \in matches, NEW s \in Side
      PROVE  Weight(m, s) <= Bound
  BY <1>c DEF RepeatsAndPending
\* Steps that send nothing and leave nobody with more to send.
<1>d. ASSUME UNCHANGED <<told, faults, crashes, matches, marking>>,
             \A m \in matches, s \in Side :
               /\ Pending(m, m, s)' => Pending(m, m, s)
               /\ RetryPending(m, s)' => RetryPending(m, s)
      PROVE  RepeatsAndPending'
  <2>1. ASSUME NEW m \in matches, NEW s \in Side
        PROVE  Weight(m, s)' <= Weight(m, s)
    BY <1>a, <1>b, <1>d DEF Weight, One
  <2>2. ASSUME NEW m \in matches, NEW s \in Side
        PROVE  Weight(m, s)' <= 2 + faults' + crashes'
    <3>1. Weight(m, s)' \in Nat /\ Weight(m, s) \in Nat
      BY <1>a, <1>b, <1>d DEF Weight, One
    <3> QED BY <1>a, <1>c, <1>d, <2>1, <3>1
  <2> QED BY <1>d, <2>2 DEF RepeatsAndPending
<1>1. ASSUME NEW n \in Match, CreateMatch(n) PROVE RepeatsAndPending'
  <2>1. /\ matches' = matches \cup {n} /\ n \notin matches
        /\ UNCHANGED <<told, introduced, marking, missing, faults, crashes>>
    BY <1>1 DEF CreateMatch, boundVars
  <2>2. \A t \in Task \ {n} : intros'[t] = intros[t]
    <3>1. CASE Start(n, n)
      BY <1>0, <3>1, BeginStep
    <3> QED BY <1>1, <3>1 DEF CreateMatch, introduceAsync
  <2>3. ASSUME NEW m \in matches, NEW s \in Side
        PROVE  Weight(m, s)' = Weight(m, s)
    <3>1. intros'[m] = intros[m] /\ intros'[Scheduler] = intros[Scheduler]
      BY <1>0, <1>a, <2>1, <2>2
    <3> QED BY <2>1, <3>1 DEF Weight, Pending, RetryPending
  <2>4. ASSUME NEW s \in Side PROVE Weight(n, s)' <= 2
    <3>1. told'[n][s] = 0
      BY <2>1 DEF NothingBeforeTheMatch
    <3>2. marking' # n
      BY <2>1, IntroductionAssumption DEF NothingBeforeTheMatch, TypeOK
    <3> QED BY <3>1, <3>2 DEF Weight, One
  <2>5. ASSUME NEW m \in matches', NEW s \in Side
        PROVE  Weight(m, s)' <= 2 + faults' + crashes'
    <3>1. CASE m = n
      <4>1. Weight(n, s)' \in Nat
        BY <1>b, <2>1 DEF Weight, One
      <4> QED BY <1>a, <2>1, <2>4, <3>1, <4>1
    <3>2. CASE m # n
      BY <1>c, <2>1, <2>3, <3>2
    <3> QED BY <3>1, <3>2
  <2> QED BY <2>5 DEF RepeatsAndPending
<1>2. ASSUME NEW n \in Match, Expires(n) PROVE RepeatsAndPending'
  <2>1. UNCHANGED <<told, faults, crashes, matches, marking, introduced, missing>>
    BY <1>2 DEF Expires, boundVars
  <2>2. ASSUME NEW m \in matches, NEW s \in Side
        PROVE  Pending(m, m, s)' = Pending(m, m, s) /\ RetryPending(m, s)' = RetryPending(m, s)
    BY <1>0, <1>2, <1>a, <2>1, ExpiresStep DEF Pending, RetryPending
  <2> QED BY <1>d, <2>1, <2>2
<1>3. ASSUME NEW t \in Task, Introduce(t) PROVE RepeatsAndPending'
  <2>1. matches' = matches
    BY <1>3, IntroduceStep
  <2>2. crashes' = crashes /\ faults' \in Nat
    <3>1. faults' = faults \/ faults' = faults + 1
      BY <1>3 DEF Introduce, ReadTelegramIDs, ReadFails, Delivered, Undelivered,
         MarkMatchIntroduced, MarkFails, CallFails, Fault, boundVars
    <3>2. crashes' = crashes
      BY <1>3 DEF Introduce, ReadTelegramIDs, ReadFails, Delivered, Undelivered,
         MarkMatchIntroduced, MarkFails, boundVars
    <3> QED BY <1>a, <3>1, <3>2
  <2>3. ASSUME NEW m \in matches, NEW s \in Side
        PROVE  Weight(m, s)' <= 2 + faults' + crashes'
    <3>1. Weight(m, s)' <= Weight(m, s) + (faults' - faults)
      BY <1>3, IntroduceWeight
    <3>2. Weight(m, s) \in Nat /\ Weight(m, s)' \in Nat
      <4>1. TypeOK'
        BY <1>3, IntroduceType
      <4>2. told'[m][s] \in Nat
        BY <1>a, <4>1 DEF TypeOK
      <4> QED BY <1>a, <1>b, <4>2 DEF Weight, One
    <3>3. Weight(m, s) <= Bound
      BY <1>c
    <3> QED BY <1>a, <2>2, <3>1, <3>2, <3>3
  <2> QED BY <2>1, <2>3 DEF RepeatsAndPending
<1>4. ASSUME NEW u \in User, Login(u) PROVE RepeatsAndPending'
  BY <1>4, <1>d DEF Login, boundVars, Pending, RetryPending
<1>5. CASE RetryStarts
  <2>1. UNCHANGED <<told, faults, crashes, matches, marking, introduced, intros>>
        /\ intros[Scheduler] = Idle /\ missing' \cap introduced = {}
    BY <1>5 DEF RetryStarts, SchedulerIdle, GetMatchesMissingIntro, boundVars
  <2>2. ASSUME NEW m \in matches, NEW s \in Side
        PROVE  Pending(m, m, s)' = Pending(m, m, s) /\ (RetryPending(m, s)' => RetryPending(m, s))
    BY <2>1 DEF Pending, RetryPending
  <2> QED BY <1>d, <2>1, <2>2
<1>6. ASSUME NEW n \in Match, RetryNext(n) PROVE RepeatsAndPending'
  <2>1. /\ UNCHANGED <<told, faults, crashes, matches, marking, introduced>>
        /\ intros[Scheduler] = Idle /\ n \in missing /\ missing' = missing \ {n}
        /\ Start(Scheduler, n)
    BY <1>6 DEF RetryNext, boundVars
  <2>2. intros'[Scheduler] # Idle /\ intros'[Scheduler].match = n
        /\ \A m \in Match : intros'[m] = intros[m]
    BY <1>0, <2>1, BeginStep
  <2>3. ASSUME NEW m \in matches, NEW s \in Side
        PROVE  Pending(m, m, s)' = Pending(m, m, s) /\ (RetryPending(m, s)' => RetryPending(m, s))
    BY <1>a, <2>1, <2>2 DEF Pending, RetryPending
  <2> QED BY <1>d, <2>1, <2>3
<1>7. CASE Crash
  <2>1. UNCHANGED <<told, faults, matches>> /\ crashes' = crashes + 1
        /\ \A m \in Match : intros'[m] = Idle /\ marking' # m
    BY <1>0, <1>7, IntroductionAssumption DEF Crash
  <2>2. ASSUME NEW m \in matches, NEW s \in Side
        PROVE  Weight(m, s)' <= 2 + faults' + crashes'
    <3>1. marking' # m /\ ~Pending(m, m, s)'
      BY <1>a, <2>1 DEF Pending
    <3>2. told[m][s] \in Nat /\ told[m][s] <= 2 + faults + crashes
      BY <1>a, <1>b, <1>c DEF Weight, One
    <3> QED BY <1>a, <2>1, <3>1, <3>2 DEF Weight, One
  <2> QED BY <2>1, <2>2 DEF RepeatsAndPending
<1>8. CASE UNCHANGED vars
  BY <1>8, <1>d DEF vars, boundVars, Pending, RetryPending
<1>9. ASSUME NEW n \in Match, SweepCreates(n) PROVE RepeatsAndPending'
  <2>1. /\ matches' = matches \cup {n} /\ n \notin matches
        /\ UNCHANGED <<told, introduced, intros, missing, faults, crashes>>
        /\ marking' = n
    BY <1>9 DEF SweepCreates, boundVars
  <2>2. ASSUME NEW m \in matches, NEW s \in Side
        PROVE  Weight(m, s)' <= Weight(m, s)
    <3>1. marking' # m /\ Pending(m, m, s)' = Pending(m, m, s)
      BY <2>1 DEF Pending
    <3>2. RetryPending(m, s)' = RetryPending(m, s) /\ told'[m][s] \in Nat
      BY <1>a, <1>b, <2>1 DEF RetryPending, Pending
    <3> QED BY <2>1, <3>1, <3>2 DEF Weight, One
  <2>3. ASSUME NEW s \in Side PROVE Weight(n, s)' <= 2
    <3>1. told'[n][s] = 0 /\ ~Pending(n, n, s)'
      BY <2>1 DEF NothingBeforeTheMatch, Pending
    <3> QED BY <3>1 DEF Weight, One
  <2>4. ASSUME NEW m \in matches', NEW s \in Side
        PROVE  Weight(m, s)' <= 2 + faults' + crashes'
    <3>1. Weight(m, s)' \in Nat
      BY <1>a, <1>b, <2>1 DEF Weight, One
    <3>2. CASE m = n
      BY <1>a, <2>1, <2>3, <3>1, <3>2
    <3>3. CASE m # n
      <4>1. m \in matches /\ Weight(m, s) \in Nat
        BY <1>a, <1>b, <2>1, <3>3 DEF Weight, One
      <4>2. Weight(m, s) <= 2 + faults + crashes
        BY <1>c, <4>1
      <4> QED BY <1>a, <2>1, <2>2, <3>1, <4>1, <4>2
    <3> QED BY <3>2, <3>3
  <2> QED BY <2>4 DEF RepeatsAndPending
<1>10. CASE SweepMarks
  <2>1. /\ UNCHANGED <<told, faults, crashes, matches, introduced, missing>>
        /\ marking \in Match /\ marking' = NoMatch
        /\ Start(marking, marking) \/ UNCHANGED intros
    BY <1>10 DEF SweepMarks, introduceAsync, boundVars, TypeOK
  <2>2. \A m \in Match \ {marking} : intros'[m] = intros[m]
    BY <1>0, <2>1, BeginStep
  <2>3. intros'[Scheduler] = intros[Scheduler]
    BY <1>0, <2>1, BeginStep
  <2>4. ASSUME NEW m \in matches, NEW s \in Side
        PROVE  Weight(m, s)' <= 2 + faults' + crashes'
    <3>1. RetryPending(m, s)' = RetryPending(m, s) /\ told'[m][s] = told[m][s]
      BY <2>1, <2>3 DEF RetryPending, Pending
    <3>2. marking' # m
      BY <1>a, <2>1, IntroductionAssumption
    <3>3. CASE m = marking
      BY <1>a, <1>b, <1>c, <2>1, <3>1, <3>2, <3>3 DEF Weight, One
    <3>4. CASE m # marking
      <4>1. Pending(m, m, s)' = Pending(m, m, s)
        BY <1>a, <2>2, <3>4 DEF Pending
      <4> QED BY <1>a, <1>b, <1>c, <2>1, <3>1, <3>2, <3>4, <4>1 DEF Weight, One
    <3> QED BY <3>3, <3>4
  <2> QED BY <2>1, <2>4 DEF RepeatsAndPending
<1> QED
  BY <1>0, <1>1, <1>2, <1>3, <1>4, <1>5, <1>6, <1>7, <1>8, <1>9, <1>10
     DEF Next, RetryMissingIntros

-----------------------------------------------------------------------------
(* The theorems. *)

LEMMA StepInvariant == ASSUME IInv, [Next]_vars PROVE IInv'
  BY NextType, NothingBeforeTheMatchStep, TasksHaveMatchesStep, PastMessagesWereTriedStep,
     MarkedOnlyAfterTryingStep, RepeatsAndPendingStep DEF IInv

(***************************************************************************)
(* IInv is an invariant: in particular the types, and that an Introduce    *)
(* never goes past a message it has not tried.                             *)
(***************************************************************************)
THEOREM Inductive == Spec => []IInv
  BY InitInvariant, StepInvariant, PTL DEF Spec

(***************************************************************************)
(* A match is marked introduced, and leaves the retry, only after a        *)
(* message to each of its users has arrived or has been tried.             *)
(***************************************************************************)
THEOREM MarkedAfterTrying == Spec => []MarkedOnlyAfterTrying
<1>1. IInv => MarkedOnlyAfterTrying
  BY DEF IInv
<1> QED BY Inductive, <1>1, PTL

(***************************************************************************)
(* However long the broker runs and however many matches it retries, a     *)
(* user is told of a match at most twice, plus once for every failing call *)
(* and every crash.                                                        *)
(***************************************************************************)
THEOREM RepeatsBounded == Spec => []RepeatsAreAccountedFor
<1>1. IInv => RepeatsAreAccountedFor
  <2> SUFFICES ASSUME IInv, NEW m \in Match, NEW s \in Side
               PROVE  told[m][s] <= 2 + faults + crashes
    BY DEF RepeatsAreAccountedFor
  <2>1. told[m][s] \in Nat /\ faults \in Nat /\ crashes \in Nat
    BY IntroductionAssumption DEF IInv, TypeOK
  <2>2. CASE m \in matches
    <3>1. Weight(m, s) <= 2 + faults + crashes
      BY <2>2 DEF IInv, RepeatsAndPending
    <3> QED BY <2>1, <3>1 DEF Weight, One
  <2>3. CASE m \notin matches
    BY <2>1, <2>3 DEF IInv, NothingBeforeTheMatch
  <2> QED BY <2>2, <2>3
<1> QED BY Inductive, <1>1, PTL

=============================================================================
