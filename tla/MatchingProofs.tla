--------------------------- MODULE MatchingProofs ---------------------------
(***************************************************************************)
(* Proofs about Matching, for any number of users, requests and profiles   *)
(* and any value of the bounds.                                            *)
(***************************************************************************)
EXTENDS Matching, CompatibilityProofs

-----------------------------------------------------------------------------
(* Type correctness. *)

LEMMA InitType == Init => TypeOK
  BY MatchingAssumption DEF Init, TablesInit, TypeOK, TablesTypeOK

\* What storing a signal and marking or dropping rows leaves in agent_signals.
LEMMA SignalsType ==
  ASSUME TablesTypeOK
  PROVE  /\ \A u \in User, p \in Profile :
              PutSignal(u, p) => signals' \in [User -> SignalRow \cup {NoSignal}]
         /\ \A x, y \in User :
              MarkSignalsMatched(x, y) => signals' \in [User -> SignalRow \cup {NoSignal}]
         /\ \A S \in SUBSET User :
              DropSignals(S) => signals' \in [User -> SignalRow \cup {NoSignal}]
<1>1. ASSUME NEW u \in User, NEW p \in Profile, PutSignal(u, p)
      PROVE  signals' \in [User -> SignalRow \cup {NoSignal}]
  BY <1>1 DEF TablesTypeOK, PutSignal, SignalRow
<1>2. ASSUME NEW x \in User, NEW y \in User, MarkSignalsMatched(x, y)
      PROVE  signals' \in [User -> SignalRow \cup {NoSignal}]
  <2>1. ASSUME NEW u \in User, HasSignal(u)
        PROVE  [signals[u] EXCEPT !.matched = TRUE] \in SignalRow
    BY <2>1 DEF TablesTypeOK, HasSignal, SignalRow
  <2> QED BY <1>2, <2>1 DEF TablesTypeOK, MarkSignalsMatched
<1>3. ASSUME NEW S \in SUBSET User, DropSignals(S)
      PROVE  signals' \in [User -> SignalRow \cup {NoSignal}]
  BY <1>3 DEF TablesTypeOK, DropSignals
<1> QED BY <1>1, <1>2, <1>3

LEMMA UploadType ==
  ASSUME TypeOK, NEW r \in Request, Upload(r) PROVE TypeOK'
<1> USE MatchingAssumption DEF TypeOK, TablesTypeOK, UploadRequest, At
<1>1. ASSUME NEW u \in User, NEW p \in Profile, ReceiveUpload(r, u, p) PROVE TypeOK'
  BY <1>1 DEF ReceiveUpload, sweepVars
<1>2. CASE UpsertSignal(r)
  <2>1. signals' \in [User -> SignalRow \cup {NoSignal}]
    BY <1>2, SignalsType DEF UpsertSignal
  <2> QED BY <1>2, <2>1 DEF UpsertSignal, sweepVars, boundVars
<1>3. CASE UpsertRefused(r)
  BY <1>3 DEF UpsertRefused, Finish, tables, sweepVars, boundVars
<1>4. CASE UpsertFails(r)
  <2>1. signals' \in [User -> SignalRow \cup {NoSignal}]
    BY <1>4, SignalsType DEF UpsertFails
  <2> QED BY <1>4, <2>1 DEF UpsertFails, Finish, StoreFault, sweepVars
<1>5. CASE HandlerReturns(r)
  <2>1. requests[r] \in UploadRequest
    BY <1>5 DEF HandlerReturns
  <2>2. [requests[r] EXCEPT !.live = FALSE] \in UploadRequest
    BY <2>1
  <2>3. requests' \in [Request -> UploadRequest \cup {NoRequest}]
    BY <1>5, <2>2 DEF HandlerReturns
  <2> HIDE DEF UploadRequest
  <2> QED BY <1>5, <2>3 DEF HandlerReturns, tables, sweepVars, boundVars
<1> QED BY <1>1, <1>2, <1>3, <1>4, <1>5 DEF Upload

LEMMA NextCandidateType ==
  ASSUME TypeOK, NEW r \in Request, At(r, "create"),
         NEW v \in User, NEW live \in BOOLEAN, NextCandidate(r, v, live)
  PROVE  requests' \in [Request -> UploadRequest \cup {NoRequest}]
  BY DEF TypeOK, UploadRequest, At, NextCandidate, Finish

LEMMA MatchSingleType ==
  ASSUME TypeOK, NEW r \in Request, MatchSingle(r) PROVE TypeOK'
<1> USE MatchingAssumption DEF TypeOK, TablesTypeOK
<1>1. CASE FindCandidates(r)
  <2>1. requests' \in [Request -> UploadRequest \cup {NoRequest}]
    <3>1. requests[r] \in UploadRequest
      BY <1>1 DEF FindCandidates, At
    <3>2. ASSUME NEW found \in SUBSET User
          PROVE  [requests[r] EXCEPT !.pc = "create", !.cands = found] \in UploadRequest
      BY <3>1 DEF UploadRequest
    <3>3. PICK skipped \in SUBSET MaybeLocked(r) :
            LET found == CandidatesFor(requests[r].user, requests[r].profile) \ skipped IN
            IF found = {}
              THEN Finish(r)
              ELSE requests' = [requests EXCEPT ![r].pc = "create", ![r].cands = found]
      BY <1>1 DEF FindCandidates
    <3> DEFINE found == CandidatesFor(requests[r].user, requests[r].profile) \ skipped
    <3>4. found \in SUBSET User
      BY DEF CandidatesFor, GetUnmatchedSignals
    <3>5. [requests[r] EXCEPT !.pc = "create", !.cands = found] \in UploadRequest
      BY <3>2, <3>4
    <3>6. IF found = {}
            THEN Finish(r)
            ELSE requests' = [requests EXCEPT ![r] =
                    [requests[r] EXCEPT !.pc = "create", !.cands = found]]
      BY <3>3
    <3> HIDE DEF found
    <3> QED BY <3>5, <3>6 DEF Finish
  <2> QED BY <1>1, <2>1 DEF FindCandidates, tables, sweepVars, boundVars
<1>2. CASE FindFails(r)
  BY <1>2 DEF FindFails, Finish, StoreFault, tables, sweepVars
<1>3. ASSUME NEW v \in User, SingleCreates(r, v) PROVE TypeOK'
  <2>1. requests' \in [Request -> UploadRequest \cup {NoRequest}]
    BY <1>3, NextCandidateType DEF SingleCreates
  <2>2. requests[r].user \in User
    BY <1>3 DEF SingleCreates, At, UploadRequest
  <2> QED BY <1>3, <2>1, <2>2 DEF SingleCreates, MatchCreated, introduceAsync, sweepVars, boundVars
<1>4. ASSUME NEW v \in User, SingleSkips(r, v) PROVE TypeOK'
  <2>1. requests' \in [Request -> UploadRequest \cup {NoRequest}]
    BY <1>4, NextCandidateType DEF SingleSkips
  <2> QED BY <1>4, <2>1 DEF SingleSkips, tables, sweepVars, boundVars
<1>5. ASSUME NEW v \in User, SingleFails(r, v) PROVE TypeOK'
  <2>1. requests' \in [Request -> UploadRequest \cup {NoRequest}]
    BY <1>5, NextCandidateType DEF SingleFails
  <2>2. requests[r].user \in User
    BY <1>5 DEF SingleFails, At, UploadRequest
  <2>3. matches' \subseteq User \X User
    BY <1>5, <2>2 DEF SingleFails, MatchCreated
  <2>4. faults' \in 0..MaxFaults
    <3>1. CASE UNCHANGED faults
      BY <3>1
    <3>2. CASE StoreFault
      BY <3>2 DEF StoreFault
    <3> QED BY <1>5, <3>1, <3>2 DEF SingleFails
  <2> QED BY <1>5, <2>1, <2>3, <2>4 DEF SingleFails, sweepVars
<1>6. CASE SingleAbandons(r)
  BY <1>6 DEF SingleAbandons, Finish, tables, sweepVars, boundVars
<1> QED BY <1>1, <1>2, <1>3, <1>4, <1>5, <1>6 DEF MatchSingle

LEMMA SweepType == ASSUME TypeOK, Sweep PROVE TypeOK'
<1> USE MatchingAssumption DEF TypeOK, TablesTypeOK
<1>1. CASE SweepStarts
  BY <1>1 DEF SweepStarts, findCompatiblePairs, GetUnmatchedSignals, tables, boundVars
<1>2. ASSUME NEW x \in User, NEW y \in User, SweepCreates(x, y) PROVE TypeOK'
  BY <1>2 DEF SweepCreates, MatchCreated, boundVars
<1>3. ASSUME NEW x \in User, NEW y \in User, SweepSkips(x, y) PROVE TypeOK'
  BY <1>3 DEF SweepSkips, tables, boundVars
<1>4. ASSUME NEW x \in User, NEW y \in User, SweepCreateFails(x, y) PROVE TypeOK'
  BY <1>4 DEF SweepCreateFails, MatchCreated, StoreFault
<1>5. CASE SweepMarks
  <2>1. created[1] \in User /\ created[2] \in User /\ created = <<created[1], created[2]>>
    BY <1>5 DEF SweepMarks
  <2>2. signals' \in [User -> SignalRow \cup {NoSignal}]
    BY <1>5, <2>1, SignalsType DEF SweepMarks
  <2> QED BY <1>5, <2>1, <2>2 DEF SweepMarks, introduceAsync, boundVars
<1>6. CASE SweepMarkFails
  <2>1. created[1] \in User /\ created[2] \in User
    BY <1>6 DEF SweepMarkFails
  <2>2. signals' \in [User -> SignalRow \cup {NoSignal}]
    BY <1>6, <2>1, SignalsType DEF SweepMarkFails
  <2> QED BY <1>6, <2>2 DEF SweepMarkFails, StoreFault
<1> QED BY <1>1, <1>2, <1>3, <1>4, <1>5, <1>6 DEF Sweep

\* DELETE /signal, DELETE /account, expiry, the cleanup tick and crashes.
RemovalStep ==
  \/ \E u \in User : DeleteSignal(u) \/ DeleteUser(u) \/ Expire(u)
  \/ CleanExpired
  \/ Crash

LEMMA RemovalType == ASSUME TypeOK, RemovalStep PROVE TypeOK'
<1> USE MatchingAssumption DEF TypeOK, TablesTypeOK, Removal
<1>1. ASSUME NEW u \in User, DeleteSignal(u) PROVE TypeOK'
  <2>1. signals' \in [User -> SignalRow \cup {NoSignal}]
    BY <1>1, SignalsType DEF DeleteSignal
  <2> QED BY <1>1, <2>1 DEF DeleteSignal, sweepVars
<1>2. ASSUME NEW u \in User, DeleteUser(u) PROVE TypeOK'
  <2>1. signals' \in [User -> SignalRow \cup {NoSignal}]
    BY <1>2, SignalsType DEF DeleteUser
  <2> QED BY <1>2, <2>1 DEF DeleteUser, sweepVars
<1>3. ASSUME NEW u \in User, Expire(u) PROVE TypeOK'
  <2>1. signals' \in [User -> SignalRow \cup {NoSignal}]
    <3>1. signals[u] \in SignalRow
      BY <1>3 DEF Expire, HasSignal
    <3>2. [signals[u] EXCEPT !.expired = TRUE] \in SignalRow
      BY <3>1 DEF SignalRow
    <3> QED BY <1>3, <3>2 DEF Expire
  <2> QED BY <1>3, <2>1 DEF Expire, sweepVars
<1>4. CASE CleanExpired
  <2>1. signals' \in [User -> SignalRow \cup {NoSignal}]
    BY <1>4, SignalsType DEF CleanExpired
  <2> QED BY <1>4, <2>1 DEF CleanExpired, sweepVars, boundVars
<1>5. CASE Crash
  BY <1>5 DEF Crash, tables
<1> QED BY <1>1, <1>2, <1>3, <1>4, <1>5 DEF RemovalStep

LEMMA NextCases ==
  Next <=> \/ \E r \in Request : Upload(r) \/ MatchSingle(r)
           \/ Sweep
           \/ RemovalStep
  BY DEF Next, RemovalStep

(***************************************************************************)
(* The tables, the uploads in progress, the sweep and the history always   *)
(* have their types: no interleaving of the handlers, the MatchSingle      *)
(* goroutines and the sweep of matching/job.go leaves a half-written row,  *)
(* request or pair behind, and no bound is overrun.                        *)
(***************************************************************************)
THEOREM TypeCorrect == Spec => []TypeOK
<1>1. TypeOK /\ [Next]_vars => TypeOK'
  <2>1. CASE UNCHANGED vars
    BY <2>1 DEF vars, TypeOK, TablesTypeOK
  <2> QED BY <2>1, NextCases, UploadType, MatchSingleType, SweepType, RemovalType
<1> QED BY InitType, <1>1, PTL DEF Spec


-----------------------------------------------------------------------------
(* What one step may do to each table and to the history. *)

\* Only seven actions write agent_signals.
LEMMA SignalWriters ==
  ASSUME Next, signals' # signals
  PROVE  \/ \E r \in Request : UpsertSignal(r) \/ UpsertFails(r)
         \/ SweepMarks \/ SweepMarkFails
         \/ \E u \in User : DeleteSignal(u) \/ DeleteUser(u) \/ Expire(u)
         \/ CleanExpired
<1>1. ASSUME NEW r \in Request, Upload(r)
      PROVE  UpsertSignal(r) \/ UpsertFails(r)
  BY <1>1 DEF Upload, ReceiveUpload, UpsertRefused, HandlerReturns, tables
<1>2. ASSUME NEW r \in Request, MatchSingle(r) PROVE FALSE
  BY <1>2 DEF MatchSingle, FindCandidates, FindFails, SingleCreates, SingleSkips,
     SingleFails, SingleAbandons, tables
<1>3. ASSUME Sweep PROVE SweepMarks \/ SweepMarkFails
  BY <1>3 DEF Sweep, SweepStarts, SweepCreates, SweepSkips, SweepCreateFails, tables
<1>4. ~Crash
  BY DEF Crash, tables
<1> QED BY <1>1, <1>2, <1>3, <1>4 DEF Next

\* The row of v is the one that was there, perhaps marked by the sweep.
KeptRow(v) ==
  /\ HasSignal(v)
  /\ signals'[v].profile = signals[v].profile
  /\ \/ signals'[v].matched = signals[v].matched
     \/ created # NoPair /\ v \in {created[1], created[2]}

\* The row of v is one an upload has just written.
UploadedRow(v) ==
  /\ v \in users /\ users' = users
  /\ <<v, signals'[v].profile>> \in offered'
  /\ signals'[v].matched = FALSE

LEMMA SignalsStep ==
  ASSUME TypeOK, Next, NEW v \in User, signals'[v] # NoSignal
  PROVE  KeptRow(v) \/ UploadedRow(v)
<1> USE DEF TypeOK, TablesTypeOK, HasSignal
<1>1. ASSUME signals'[v] = signals[v] PROVE KeptRow(v)
  BY <1>1 DEF KeptRow
<1>2. ASSUME NEW u \in User, NEW p \in Profile, PutSignal(u, p), u \in users,
             users' = users, offered' = offered \cup {<<u, p>>}
      PROVE  signals'[v] = signals[v] \/ UploadedRow(v)
  BY <1>2 DEF PutSignal, UploadedRow
<1>3. ASSUME NEW r \in Request, At(r, "upsert")
      PROVE  requests[r].user \in User /\ requests[r].profile \in Profile
  BY <1>3 DEF At, UploadRequest
<1>4. ASSUME NEW r \in Request, UpsertSignal(r) \/ UpsertFails(r)
      PROVE  signals'[v] = signals[v] \/ UploadedRow(v)
  BY <1>2, <1>3, <1>4 DEF UpsertSignal, UpsertFails
<1>5. ASSUME created # NoPair, MarkSignalsMatched(created[1], created[2])
      PROVE  KeptRow(v)
  <2>1. CASE v \in {created[1], created[2]} /\ HasSignal(v)
    <3>1. signals'[v] = [signals[v] EXCEPT !.matched = TRUE]
      BY <1>5, <2>1 DEF MarkSignalsMatched
    <3>2. signals[v] \in SignalRow
      BY <2>1
    <3> QED BY <1>5, <2>1, <3>1, <3>2 DEF KeptRow, SignalRow
  <2>2. CASE ~ (v \in {created[1], created[2]} /\ HasSignal(v))
    <3>1. signals'[v] = signals[v]
      BY <1>5, <2>2 DEF MarkSignalsMatched
    <3> QED BY <3>1, <1>1
  <2> QED BY <2>1, <2>2
<1>6. CASE SweepMarks \/ SweepMarkFails
  BY <1>1, <1>5, <1>6 DEF SweepMarks, SweepMarkFails
<1>7. ASSUME NEW u \in User, DeleteSignal(u) \/ DeleteUser(u) PROVE signals'[v] = signals[v]
  BY <1>7 DEF DeleteSignal, DeleteUser, DropSignals
<1>8. ASSUME NEW u \in User, Expire(u) PROVE KeptRow(v)
  <2>1. CASE u = v
    <3>1. signals[v] \in SignalRow
      BY <1>8, <2>1 DEF Expire
    <3>2. signals'[v] = [signals[v] EXCEPT !.expired = TRUE]
      BY <1>8, <2>1 DEF Expire
    <3> QED BY <1>8, <2>1, <3>1, <3>2 DEF Expire, KeptRow, SignalRow
  <2>2. CASE u # v
    BY <1>1, <1>8, <2>2 DEF Expire
  <2> QED BY <2>1, <2>2
<1>9. CASE CleanExpired
  BY <1>1, <1>9 DEF CleanExpired, DropSignals
<1> QED BY <1>1, <1>4, <1>6, <1>7, <1>8, <1>9, SignalWriters

\* users only grows, except when an account without matches is deleted, and
\* its signal goes with it.
Deleted(u) ==
  /\ users' = users \ {u}
  /\ ~Referenced(u)
  /\ matches' = matches
  /\ signals'[u] = NoSignal

LEMMA UsersStep ==
  ASSUME Next
  PROVE  users \subseteq users' \/ \E u \in User : Deleted(u)
<1>1. ASSUME NEW u \in User, DeleteUser(u) PROVE Deleted(u)
  BY <1>1 DEF DeleteUser, DropSignals, Deleted
<1>2. ASSUME NEW r \in Request, Upload(r) PROVE users \subseteq users'
  BY <1>2 DEF Upload, ReceiveUpload, UpsertSignal, UpsertRefused, UpsertFails,
     HandlerReturns, tables
<1>3. ASSUME NEW r \in Request, MatchSingle(r) PROVE users \subseteq users'
  BY <1>3 DEF MatchSingle, FindCandidates, FindFails, SingleCreates, SingleSkips,
     SingleFails, SingleAbandons, tables
<1>4. ASSUME Sweep PROVE users \subseteq users'
  BY <1>4 DEF Sweep, SweepStarts, SweepCreates, SweepSkips, SweepCreateFails,
     SweepMarks, SweepMarkFails, tables
<1>5. ASSUME NEW u \in User, DeleteSignal(u) \/ Expire(u) PROVE users \subseteq users'
  BY <1>5 DEF DeleteSignal, Expire
<1>6. CASE CleanExpired \/ Crash
  BY <1>6 DEF CleanExpired, Crash, tables
<1> QED BY <1>1, <1>2, <1>3, <1>4, <1>5, <1>6 DEF Next

\* A pair about to be handled by a goroutine or by the sweep.
Pending(x, y) ==
  \/ \E r \in Request : At(r, "create") /\ requests[r].user = x /\ y \in requests[r].cands
  \/ {x, y} \in todo

NewMatch(x, y) ==
  /\ Pending(x, y)
  /\ ~PairTaken(x, y)
  /\ {x, y} \subseteq users /\ users' = users
  /\ matches' = matches \cup {<<x, y>>}

\* A step that changes matches or launches: a match is made and introduced at
\* once by a goroutine; made by the sweep; made without being introduced; or
\* the match the sweep has made is introduced.
Introduces(x, y) ==
  launches' = [launches EXCEPT ![<<x, y>>] = @ + 1]

LedgerStep ==
  \/ UNCHANGED <<matches, launches>> /\ created' \in {created, NoPair}
  \/ \E x, y \in User : NewMatch(x, y) /\ Introduces(x, y) /\ created' = created
  \/ \E x, y \in User : NewMatch(x, y) /\ launches' = launches /\ created' = created
  \/ \E x, y \in User : NewMatch(x, y) /\ launches' = launches /\ created' = <<x, y>>
  \/ \E x, y \in User :
       /\ created = <<x, y>> /\ created' = NoPair /\ Introduces(x, y)
       /\ UNCHANGED <<users, matches>>

LEMMA MatchWriters == ASSUME TypeOK, Next PROVE LedgerStep
<1>1. ASSUME NEW r \in Request, Upload(r) PROVE LedgerStep
  BY <1>1 DEF Upload, ReceiveUpload, UpsertSignal, UpsertRefused, UpsertFails,
     HandlerReturns, tables, sweepVars, LedgerStep
<1>2. ASSUME NEW r \in Request, At(r, "create") PROVE requests[r].user \in User
  BY <1>2 DEF TypeOK, At, UploadRequest
<1>3. ASSUME NEW r \in Request, FindCandidates(r) \/ FindFails(r) \/ SingleAbandons(r)
      PROVE  LedgerStep
  BY <1>3 DEF FindCandidates, FindFails, SingleAbandons, tables, sweepVars, LedgerStep
<1>4. ASSUME NEW r \in Request, NEW v \in User, SingleCreates(r, v) PROVE LedgerStep
  BY <1>2, <1>4 DEF SingleCreates, MatchCreated, introduceAsync, sweepVars, LedgerStep,
     NewMatch, Pending, Introduces
<1>5. ASSUME NEW r \in Request, NEW v \in User, SingleSkips(r, v) PROVE LedgerStep
  BY <1>5 DEF SingleSkips, tables, sweepVars, LedgerStep
<1>6. ASSUME NEW r \in Request, NEW v \in User, SingleFails(r, v) PROVE LedgerStep
  BY <1>2, <1>6 DEF SingleFails, MatchCreated, sweepVars, LedgerStep, NewMatch, Pending
<1>7. ASSUME NEW x \in User, NEW y \in User, SweepCreates(x, y) PROVE LedgerStep
  BY <1>7 DEF SweepCreates, MatchCreated, LedgerStep, NewMatch, Pending
<1>8. ASSUME NEW x \in User, NEW y \in User, SweepSkips(x, y) PROVE LedgerStep
  BY <1>8 DEF SweepSkips, tables, LedgerStep
<1>9. ASSUME NEW x \in User, NEW y \in User, SweepCreateFails(x, y) PROVE LedgerStep
  BY <1>9 DEF SweepCreateFails, MatchCreated, LedgerStep, NewMatch, Pending
<1>10. CASE SweepMarks
  <2>1. PICK x \in User, y \in User : created = <<x, y>>
    BY <1>10 DEF SweepMarks, TypeOK
  <2>2. created[1] = x /\ created[2] = y
    BY <2>1
  <2>3. Introduces(x, y) /\ created' = NoPair /\ UNCHANGED <<users, matches>>
    BY <1>10, <2>2 DEF SweepMarks, introduceAsync, Introduces
  <2> QED BY <2>1, <2>3 DEF LedgerStep
<1>11. CASE SweepStarts \/ SweepMarkFails
  BY <1>11 DEF SweepStarts, SweepMarkFails, tables, LedgerStep
<1>12. ASSUME NEW u \in User, DeleteSignal(u) \/ DeleteUser(u) \/ Expire(u) PROVE LedgerStep
  BY <1>12 DEF DeleteSignal, DeleteUser, Expire, sweepVars, LedgerStep
<1>13. CASE CleanExpired \/ Crash
  BY <1>13 DEF CleanExpired, Crash, tables, sweepVars, LedgerStep
<1> QED BY <1>1, <1>3, <1>4, <1>5, <1>6, <1>7, <1>8, <1>9, <1>10, <1>11, <1>12, <1>13
        DEF Next, MatchSingle, Sweep

-----------------------------------------------------------------------------
(* Who is matched: both paths act on rows they read earlier. *)

Provenance == ProfilesWereOffered /\ PendingPairsAreMutual /\ EveryMatchWasMutual

LEMMA OfferedGrows ==
  ASSUME Next
  PROVE  offered \subseteq offered'
<1>1. ASSUME NEW r \in Request, Upload(r) PROVE offered \subseteq offered'
  BY <1>1 DEF Upload, ReceiveUpload, UpsertSignal, UpsertRefused, UpsertFails, HandlerReturns
<1>2. ASSUME NEW r \in Request, MatchSingle(r) PROVE offered \subseteq offered'
  BY <1>2 DEF MatchSingle, FindCandidates, FindFails, SingleCreates, SingleSkips,
     SingleFails, SingleAbandons
<1>3. ASSUME Sweep PROVE offered \subseteq offered'
  BY <1>3 DEF Sweep, SweepStarts, SweepCreates, SweepSkips, SweepCreateFails,
     SweepMarks, SweepMarkFails
<1>4. ASSUME RemovalStep PROVE offered \subseteq offered'
  BY <1>4 DEF RemovalStep, DeleteSignal, DeleteUser, Expire, CleanExpired, Crash
<1> QED BY <1>1, <1>2, <1>3, <1>4, NextCases

LEMMA OfferedMutualKept ==
  ASSUME NEW x, NEW y, offered \subseteq offered', OfferedMutual(x, y)
  PROVE  OfferedMutual(x, y)'
  BY DEF OfferedMutual

LEMMA ProfilesAreRecords == Profile \subseteq ProfileRecord
  BY TablesAssumption DEF ValidProfile

LEMMA OfferedMutualSymmetric ==
  ASSUME NEW x, NEW y, OfferedMutual(x, y)
  PROVE  OfferedMutual(y, x)
  BY MutualSymmetric, ProfilesAreRecords DEF OfferedMutual

\* How a request in progress goes on: it ends; it has just been received; or it
\* keeps its user and profile and drops candidates, stores its signal, or gets
\* the candidates the query selects.
GoesOn(s) ==
  /\ requests[s] # NoRequest
  /\ requests'[s].user = requests[s].user
  /\ requests'[s].profile = requests[s].profile
  /\ \/ /\ requests'[s].pc = requests[s].pc
        /\ requests'[s].cands \subseteq requests[s].cands
     \/ /\ requests[s].pc = "upsert"
        /\ <<requests[s].user, requests[s].profile>> \in offered'
        /\ requests'[s].cands \subseteq requests[s].cands
     \/ /\ requests[s].pc = "find"
        /\ requests'[s].cands \subseteq
             CandidatesFor(requests[s].user, requests[s].profile)

RequestStep(s) ==
  \/ requests'[s] = NoRequest
  \/ requests'[s].pc = "upsert" /\ requests'[s].cands = {}
  \/ GoesOn(s)

LEMMA RequestsStep ==
  ASSUME TypeOK, Next, NEW s \in Request
  PROVE  RequestStep(s)
<1>1. ASSUME requests'[s] = requests[s] PROVE RequestStep(s)
  BY <1>1 DEF RequestStep, GoesOn
<1>2. ASSUME NEW r \in Request, At(r, "upsert") \/ At(r, "find") \/ At(r, "create")
      PROVE  requests[r] # NoRequest /\ requests[r] \in UploadRequest
  BY <1>2 DEF TypeOK, At
<1>3. ASSUME NEW r \in Request, Finish(r) PROVE RequestStep(s)
  BY <1>3 DEF TypeOK, Finish, RequestStep, GoesOn
<1>4. ASSUME NEW r \in Request, NEW u \in User, NEW p \in Profile, ReceiveUpload(r, u, p)
      PROVE  RequestStep(s)
  BY <1>1, <1>4 DEF TypeOK, ReceiveUpload, RequestStep
<1>5. ASSUME NEW r \in Request, UpsertSignal(r) PROVE RequestStep(s)
  <2>1. CASE r = s
    <3>1. requests[s] # NoRequest /\ requests[s] \in UploadRequest
      BY <1>2, <1>5, <2>1 DEF UpsertSignal
    <3>2. requests'[s] = [requests[s] EXCEPT !.pc = "find"]
      BY <1>5, <2>1 DEF UpsertSignal, TypeOK
    <3>3. <<requests[s].user, requests[s].profile>> \in offered' /\ requests[s].pc = "upsert"
      BY <1>5, <2>1 DEF UpsertSignal, At
    <3> QED BY <3>1, <3>2, <3>3 DEF RequestStep, GoesOn, UploadRequest
  <2>2. CASE r # s
    BY <1>1, <1>5, <2>2 DEF UpsertSignal, TypeOK
  <2> QED BY <2>1, <2>2
<1>6. ASSUME NEW r \in Request, HandlerReturns(r) PROVE RequestStep(s)
  <2>1. CASE r = s
    <3>1. requests[s] # NoRequest /\ requests[s] \in UploadRequest
      BY <1>2, <1>6, <2>1 DEF HandlerReturns
    <3>2. requests'[s] = [requests[s] EXCEPT !.live = FALSE]
      BY <1>6, <2>1 DEF HandlerReturns, TypeOK
    <3> QED BY <3>1, <3>2 DEF RequestStep, GoesOn, UploadRequest
  <2>2. CASE r # s
    BY <1>1, <1>6, <2>2 DEF HandlerReturns, TypeOK
  <2> QED BY <2>1, <2>2
<1>7. ASSUME NEW r \in Request, FindCandidates(r) PROVE RequestStep(s)
  <2>1. PICK skipped \in SUBSET MaybeLocked(r) :
          LET found == CandidatesFor(requests[r].user, requests[r].profile) \ skipped IN
          IF found = {}
            THEN Finish(r)
            ELSE requests' = [requests EXCEPT ![r].pc = "create", ![r].cands = found]
    BY <1>7 DEF FindCandidates
  <2> DEFINE found == CandidatesFor(requests[r].user, requests[r].profile) \ skipped
  <2>2. found \subseteq CandidatesFor(requests[r].user, requests[r].profile)
    OBVIOUS
  <2>3. IF found = {}
          THEN Finish(r)
          ELSE requests' = [requests EXCEPT ![r] =
                  [requests[r] EXCEPT !.pc = "create", !.cands = found]]
    BY <2>1
  <2> HIDE DEF found
  <2>4. CASE found # {} /\ r = s
    <3>1. requests[s] # NoRequest /\ requests[s] \in UploadRequest /\ requests[s].pc = "find"
      BY <1>2, <1>7, <2>4 DEF FindCandidates, At
    <3>2. requests'[s] = [requests[s] EXCEPT !.pc = "create", !.cands = found]
      BY <2>3, <2>4 DEF TypeOK
    <3> QED BY <2>2, <2>4, <3>1, <3>2 DEF RequestStep, GoesOn, UploadRequest
  <2>5. CASE found # {} /\ r # s
    BY <1>1, <2>3, <2>5 DEF TypeOK
  <2>6. CASE found = {}
    BY <1>3, <2>3, <2>6
  <2> QED BY <2>4, <2>5, <2>6
<1>8. ASSUME NEW r \in Request, NEW v \in User, NEW live \in BOOLEAN,
             At(r, "create"), NextCandidate(r, v, live)
      PROVE  RequestStep(s)
  <2>1. CASE Finish(r)
    BY <1>3, <2>1
  <2>2. CASE requests' = [requests EXCEPT ![r].cands = @ \ {v}, ![r].live = live]
    <3>1. CASE r = s
      <4>1. requests[s] # NoRequest /\ requests[s] \in UploadRequest
        BY <1>2, <1>8, <3>1
      <4>2. requests'[s] = [requests[s] EXCEPT !.cands = @ \ {v}, !.live = live]
        BY <2>2, <3>1 DEF TypeOK
      <4> QED BY <4>1, <4>2 DEF RequestStep, GoesOn, UploadRequest
    <3>2. CASE r # s
      BY <1>1, <2>2, <3>2 DEF TypeOK
    <3> QED BY <3>1, <3>2
  <2> QED BY <1>8, <2>1, <2>2 DEF NextCandidate
<1>9. ASSUME NEW r \in Request, Upload(r) PROVE RequestStep(s)
  BY <1>3, <1>4, <1>5, <1>6, <1>9 DEF Upload, UpsertRefused, UpsertFails
<1>10. ASSUME NEW r \in Request, MatchSingle(r) PROVE RequestStep(s)
  BY <1>3, <1>7, <1>8, <1>10 DEF MatchSingle, FindFails, SingleCreates, SingleSkips,
     SingleFails, SingleAbandons
<1>11. CASE Sweep
  BY <1>1, <1>11 DEF Sweep, SweepStarts, SweepCreates, SweepSkips, SweepCreateFails,
     SweepMarks, SweepMarkFails
<1>12. CASE RemovalStep
  <2>1. CASE Crash
    BY <2>1 DEF Crash, RequestStep
  <2> QED BY <1>1, <1>12, <2>1 DEF RemovalStep, DeleteSignal, DeleteUser, Expire, CleanExpired
<1> QED BY <1>9, <1>10, <1>11, <1>12, NextCases

\* The candidates the query selects for a stored profile accept it.
LEMMA CandidatesAreMutual ==
  ASSUME TypeOK, ProfilesWereOffered, NEW u \in User, NEW p \in Profile,
         <<u, p>> \in offered, NEW v \in CandidatesFor(u, p)
  PROVE  v # u /\ OfferedMutual(u, v)
<1>1. v \in User /\ v # u /\ HasSignal(v) /\ candidate(p, signals[v].profile)
  BY DEF CandidatesFor, GetUnmatchedSignals, available
<1>2. signals[v].profile \in Profile /\ <<v, signals[v].profile>> \in offered
  BY <1>1 DEF TypeOK, TablesTypeOK, HasSignal, SignalRow, ProfilesWereOffered
<1>3. Mutual(p, signals[v].profile)
  BY <1>1, <1>2, CandidateExact, ProfilesAreRecords
<1> QED BY <1>1, <1>2, <1>3 DEF OfferedMutual

\* The pairs the sweep loads accept each other.
LEMMA LoadedPairsAreMutual ==
  ASSUME TypeOK, ProfilesWereOffered, NEW x \in User, NEW y \in User,
         {x, y} \in findCompatiblePairs
  PROVE  x # y /\ OfferedMutual(x, y)
<1>1. PICK a \in {x, y}, b \in {x, y} :
        /\ a # b
        /\ compatible(signals[a].profile, signals[b].profile)
  BY DEF findCompatiblePairs
<1>2. {x, y} \subseteq GetUnmatchedSignals
  BY DEF findCompatiblePairs
<1>3. a \in User /\ b \in User /\ HasSignal(a) /\ HasSignal(b)
  BY <1>2 DEF GetUnmatchedSignals, available
<1>4. /\ signals[a].profile \in Profile /\ <<a, signals[a].profile>> \in offered
      /\ signals[b].profile \in Profile /\ <<b, signals[b].profile>> \in offered
  BY <1>3 DEF TypeOK, TablesTypeOK, HasSignal, SignalRow, ProfilesWereOffered
<1>5. Mutual(signals[a].profile, signals[b].profile)
  BY <1>1, <1>4, CompatibleExact, ProfilesAreRecords
<1>6. OfferedMutual(a, b)
  BY <1>4, <1>5 DEF OfferedMutual
<1> QED BY <1>1, <1>6, OfferedMutualSymmetric

LEMMA ProvenanceStep ==
  ASSUME TypeOK, TypeOK', Provenance, Next
  PROVE  Provenance'
<1> USE DEF Provenance
<1>1. ASSUME NEW u \in User, signals'[u] # NoSignal
      PROVE  <<u, signals'[u].profile>> \in offered'
  <2>1. CASE KeptRow(u)
    BY <2>1, OfferedGrows DEF KeptRow, ProfilesWereOffered
  <2>2. CASE UploadedRow(u)
    BY <2>2 DEF UploadedRow
  <2> QED BY <1>1, <2>1, <2>2, SignalsStep
<1>2. ASSUME NEW r \in Request, At(r, "find")' \/ At(r, "create")'
      PROVE  <<requests'[r].user, requests'[r].profile>> \in offered'
  <2>1. GoesOn(r)
    BY <1>2, RequestsStep DEF RequestStep, At
  <2>2. <<requests[r].user, requests[r].profile>> \in offered'
    BY <1>2, <2>1, OfferedGrows DEF GoesOn, ProfilesWereOffered, At
  <2> QED BY <2>1, <2>2 DEF GoesOn
<1>3. ASSUME NEW r \in Request, requests'[r] # NoRequest, NEW v \in requests'[r].cands
      PROVE  v # requests'[r].user /\ OfferedMutual(requests[r].user, v)'
  <2>1. GoesOn(r)
    BY <1>3, RequestsStep DEF RequestStep
  <2>2. v # requests[r].user /\ OfferedMutual(requests[r].user, v)
    <3>1. CASE v \in requests[r].cands
      BY <2>1, <3>1 DEF GoesOn, PendingPairsAreMutual
    <3>2. CASE At(r, "find") /\ v \in CandidatesFor(requests[r].user, requests[r].profile)
      <4>1. /\ requests[r].user \in User /\ requests[r].profile \in Profile
            /\ <<requests[r].user, requests[r].profile>> \in offered
        BY <3>2 DEF TypeOK, At, UploadRequest, ProfilesWereOffered
      <4> QED BY <3>2, <4>1, CandidatesAreMutual
    <3> QED BY <1>3, <2>1, <3>1, <3>2 DEF GoesOn, At
  <2> QED BY <2>1, <2>2, OfferedGrows DEF GoesOn, OfferedMutual
<1>4. ASSUME NEW x \in User, NEW y \in User, {x, y} \in todo'
      PROVE  x # y /\ OfferedMutual(x, y)'
  <2>1. todo' \subseteq todo \/ todo' = findCompatiblePairs
    <3>1. ASSUME NEW r \in Request, Upload(r) PROVE todo' = todo
      BY <3>1 DEF Upload, ReceiveUpload, UpsertSignal, UpsertRefused, UpsertFails,
         HandlerReturns, sweepVars
    <3>2. ASSUME NEW r \in Request, MatchSingle(r) PROVE todo' = todo
      BY <3>2 DEF MatchSingle, FindCandidates, FindFails, SingleCreates, SingleSkips,
         SingleFails, SingleAbandons, sweepVars
    <3>3. CASE Sweep
      BY <3>3 DEF Sweep, SweepStarts, SweepCreates, SweepSkips, SweepCreateFails,
         SweepMarks, SweepMarkFails
    <3>4. CASE RemovalStep
      BY <3>4 DEF RemovalStep, DeleteSignal, DeleteUser, Expire, CleanExpired, Crash, sweepVars
    <3> QED BY <3>1, <3>2, <3>3, <3>4, NextCases
  <2>2. x # y /\ OfferedMutual(x, y)
    BY <1>4, <2>1, LoadedPairsAreMutual DEF PendingPairsAreMutual
  <2> QED BY <2>2, OfferedGrows, OfferedMutualKept
<1>5. ASSUME NEW row \in matches'
      PROVE  row[1] # row[2] /\ OfferedMutual(row[1], row[2])'
  <2>1. ASSUME NEW x \in User, NEW y \in User, Pending(x, y)
        PROVE  x # y /\ OfferedMutual(x, y)
    BY <2>1 DEF Pending, At, PendingPairsAreMutual
  <2>2. row[1] # row[2] /\ OfferedMutual(row[1], row[2])
    <3>1. CASE row \in matches
      BY <3>1 DEF EveryMatchWasMutual
    <3>2. ASSUME NEW x \in User, NEW y \in User, NewMatch(x, y), row \notin matches
          PROVE  row[1] # row[2] /\ OfferedMutual(row[1], row[2])
      <4>1. row[1] = x /\ row[2] = y
        BY <1>5, <3>2 DEF NewMatch
      <4> QED BY <2>1, <3>2, <4>1 DEF NewMatch
    <3> QED BY <1>5, <3>1, <3>2, MatchWriters DEF LedgerStep
  <2> QED BY <2>2, OfferedGrows, OfferedMutualKept
<1>6. ProfilesWereOffered'
  BY <1>1, <1>2 DEF ProfilesWereOffered, HasSignal, At
<1>7. PendingPairsAreMutual'
  BY <1>3, <1>4 DEF PendingPairsAreMutual
<1>8. EveryMatchWasMutual'
  BY <1>5 DEF EveryMatchWasMutual
<1> QED BY <1>6, <1>7, <1>8

-----------------------------------------------------------------------------
(* Foreign keys, and at most one row and one introduction for each pair. *)

LEMMA RowsReferenceUsersStep ==
  ASSUME TypeOK, RowsReferenceUsers, Next
  PROVE  RowsReferenceUsers'
<1>1. ASSUME NEW u \in User, signals'[u] # NoSignal PROVE u \in users'
  <2>1. CASE KeptRow(u)
    BY <1>1, <2>1, UsersStep DEF KeptRow, RowsReferenceUsers, Deleted
  <2>2. CASE UploadedRow(u)
    BY <2>2 DEF UploadedRow
  <2> QED BY <1>1, <2>1, <2>2, SignalsStep
<1>2. ASSUME NEW row \in matches' PROVE {row[1], row[2]} \subseteq users'
  <2>1. ASSUME NEW x \in User, NEW y \in User, NewMatch(x, y)
        PROVE  {row[1], row[2]} \subseteq users'
    BY <1>2, <2>1 DEF NewMatch, RowsReferenceUsers
  <2>2. CASE matches' = matches
    BY <1>2, <2>2, UsersStep DEF RowsReferenceUsers, Deleted, Referenced
  <2> QED BY <2>1, <2>2, MatchWriters DEF LedgerStep
<1> QED BY <1>1, <1>2 DEF RowsReferenceUsers, HasSignal

\* Pending pairs are of two users.
LEMMA NewMatchDistinct ==
  ASSUME PendingPairsAreMutual, NEW x \in User, NEW y \in User, NewMatch(x, y)
  PROVE  x # y
  BY DEF NewMatch, Pending, At, PendingPairsAreMutual

LEMMA OneRowPerPairStep ==
  ASSUME TypeOK, OneRowPerPair, PendingPairsAreMutual, Next
  PROVE  OneRowPerPair'
<1>1. ASSUME NEW x \in User, NEW y \in User, NewMatch(x, y) PROVE OneRowPerPair'
  BY <1>1, NewMatchDistinct DEF NewMatch, PairTaken, OneRowPerPair
<1>2. CASE matches' = matches
  BY <1>2 DEF OneRowPerPair
<1> QED BY <1>1, <1>2, MatchWriters DEF LedgerStep

LEMMA IntroductionsStep ==
  ASSUME TypeOK, PendingPairsAreMutual, EveryMatchWasMutual,
         CreatedNotIntroduced, OneIntroductionPerPair, Next
  PROVE  CreatedNotIntroduced' /\ OneIntroductionPerPair'
<1> USE DEF TypeOK, TablesTypeOK
<1>1. CASE UNCHANGED <<matches, launches>> /\ created' \in {created, NoPair}
  BY <1>1 DEF CreatedNotIntroduced, OneIntroductionPerPair, PairTaken
<1>2. ASSUME NEW x \in User, NEW y \in User, NewMatch(x, y)
      PROVE  /\ x # y
             /\ launches[<<x, y>>] = 0 /\ launches[<<y, x>>] = 0
             /\ created # NoPair => created # <<x, y>> /\ created # <<y, x>>
  <2>1. x # y
    BY <1>2, NewMatchDistinct
  <2>2. launches[<<x, y>>] + launches[<<y, x>>] <= 0
    BY <1>2 DEF NewMatch, OneIntroductionPerPair
  <2>3. launches[<<x, y>>] \in Nat /\ launches[<<y, x>>] \in Nat
    OBVIOUS
  <2>4. created # NoPair => created # <<x, y>> /\ created # <<y, x>>
    BY <1>2 DEF NewMatch, PairTaken, CreatedNotIntroduced
  <2> QED BY <2>1, <2>2, <2>3, <2>4
<1>3. ASSUME NEW x \in User, NEW y \in User, matches \subseteq matches',
             x # y, PairTaken(x, y)', Introduces(x, y),
             launches[<<x, y>>] = 0, launches[<<y, x>>] = 0
      PROVE  OneIntroductionPerPair'
  <2> SUFFICES ASSUME NEW a \in User, NEW b \in User
               PROVE  launches'[<<a, b>>] + launches'[<<b, a>>]
                        <= IF PairTaken(a, b)' THEN 1 ELSE 0
    BY DEF OneIntroductionPerPair
  <2>1. CASE <<a, b>> = <<x, y>> \/ <<a, b>> = <<y, x>>
    <3>1. PairTaken(a, b)'
      BY <1>3, <2>1 DEF PairTaken
    <3>2. launches'[<<x, y>>] = 1 /\ launches'[<<y, x>>] = 0
      BY <1>3 DEF Introduces
    <3> QED BY <2>1, <3>1, <3>2
  <2>2. CASE ~ (<<a, b>> = <<x, y>> \/ <<a, b>> = <<y, x>>)
    <3>1. launches'[<<a, b>>] = launches[<<a, b>>] /\ launches'[<<b, a>>] = launches[<<b, a>>]
      BY <1>3, <2>2 DEF Introduces
    <3>2. launches[<<a, b>>] + launches[<<b, a>>] <= IF PairTaken(a, b) THEN 1 ELSE 0
      BY DEF OneIntroductionPerPair
    <3>3. PairTaken(a, b) => PairTaken(a, b)'
      BY <1>3 DEF PairTaken
    <3>4. launches[<<a, b>>] \in Nat /\ launches[<<b, a>>] \in Nat
      OBVIOUS
    <3> QED BY <3>1, <3>2, <3>3, <3>4
  <2> QED BY <2>1, <2>2
<1>4. ASSUME launches' = launches, matches \subseteq matches' PROVE OneIntroductionPerPair'
  <2> SUFFICES ASSUME NEW a \in User, NEW b \in User
               PROVE  launches[<<a, b>>] + launches[<<b, a>>]
                        <= IF PairTaken(a, b)' THEN 1 ELSE 0
    BY <1>4 DEF OneIntroductionPerPair
  <2>1. launches[<<a, b>>] + launches[<<b, a>>] <= IF PairTaken(a, b) THEN 1 ELSE 0
    BY DEF OneIntroductionPerPair
  <2>2. PairTaken(a, b) => PairTaken(a, b)'
    BY <1>4 DEF PairTaken
  <2>3. launches[<<a, b>>] \in Nat /\ launches[<<b, a>>] \in Nat
    OBVIOUS
  <2> QED BY <2>1, <2>2, <2>3
<1>5. ASSUME NEW x \in User, NEW y \in User, NewMatch(x, y), Introduces(x, y), created' = created
      PROVE  CreatedNotIntroduced' /\ OneIntroductionPerPair'
  <2>1. matches \subseteq matches' /\ PairTaken(x, y)'
    BY <1>5 DEF NewMatch, PairTaken
  <2>2. OneIntroductionPerPair'
    BY <1>2, <1>3, <1>5, <2>1
  <2>3. ASSUME created # NoPair
        PROVE  /\ created \in matches'
               /\ launches'[created] = 0
               /\ launches'[<<created[2], created[1]>>] = 0
    <3>1. created \in User \X User /\ created # <<x, y>> /\ created # <<y, x>>
      BY <1>2, <1>5, <2>3
    <3>2. PICK c \in User, d \in User : created = <<c, d>>
      BY <3>1
    <3>3. <<d, c>> # <<x, y>>
      BY <3>1, <3>2
    <3> QED BY <1>5, <2>1, <2>3, <3>1, <3>2, <3>3 DEF Introduces, CreatedNotIntroduced
  <2> QED BY <1>5, <2>2, <2>3 DEF CreatedNotIntroduced
<1>6. ASSUME NEW x \in User, NEW y \in User, NewMatch(x, y), launches' = launches,
             created' = created \/ created' = <<x, y>>
      PROVE  CreatedNotIntroduced' /\ OneIntroductionPerPair'
  <2>1. matches \subseteq matches' /\ <<x, y>> \in matches'
    BY <1>6 DEF NewMatch
  <2>2. CreatedNotIntroduced'
    BY <1>2, <1>6, <2>1 DEF CreatedNotIntroduced
  <2> QED BY <1>4, <1>6, <2>1, <2>2
<1>7. ASSUME NEW x \in User, NEW y \in User, created = <<x, y>>, created' = NoPair,
             Introduces(x, y), matches' = matches
      PROVE  CreatedNotIntroduced' /\ OneIntroductionPerPair'
  <2>1. created # NoPair
    BY <1>7, MatchingAssumption
  <2>2. created[1] = x /\ created[2] = y
    BY <1>7
  <2>3. <<x, y>> \in matches /\ launches[<<x, y>>] = 0 /\ launches[<<y, x>>] = 0
    BY <1>7, <2>1, <2>2 DEF CreatedNotIntroduced
  <2>4. x # y
    BY <2>2, <2>3, <1>7 DEF EveryMatchWasMutual
  <2>5. PairTaken(x, y)'
    BY <1>7, <2>3 DEF PairTaken
  <2> QED BY <1>3, <1>7, <2>3, <2>4, <2>5 DEF CreatedNotIntroduced
<1> QED BY <1>1, <1>5, <1>6, <1>7, MatchWriters DEF LedgerStep

LEMMA MatchedHasPartnerStep ==
  ASSUME TypeOK, EveryMatchWasMutual, RowsReferenceUsers, CreatedNotIntroduced,
         MatchedHasPartner, Next
  PROVE  MatchedHasPartner'
<1> SUFFICES ASSUME NEW u \in User, signals'[u] # NoSignal, signals'[u].matched
             PROVE  \E v \in users' \ {u} : PairTaken(u, v)'
  BY DEF MatchedHasPartner, HasSignal
<1>1. \E v \in users \ {u} : PairTaken(u, v)
  <2>1. KeptRow(u)
    BY SignalsStep DEF UploadedRow
  <2>2. CASE signals[u].matched
    BY <2>1, <2>2 DEF KeptRow, MatchedHasPartner
  <2>3. CASE created # NoPair /\ u \in {created[1], created[2]}
    <3>1. created \in matches /\ created \in User \X User
      BY <2>3 DEF CreatedNotIntroduced, TypeOK
    <3>2. created[1] # created[2] /\ {created[1], created[2]} \subseteq users
      BY <3>1 DEF EveryMatchWasMutual, RowsReferenceUsers
    <3>3. created = <<created[1], created[2]>>
      BY <3>1
    <3>4. PairTaken(created[1], created[2]) /\ PairTaken(created[2], created[1])
      BY <3>1, <3>3 DEF PairTaken
    <3> QED BY <2>3, <3>2, <3>4
  <2> QED BY <2>1, <2>2, <2>3 DEF KeptRow
<1>2. PICK v \in users \ {u} : PairTaken(u, v)
  BY <1>1
<1>3. PairTaken(u, v)'
  BY <1>2, MatchWriters DEF LedgerStep, NewMatch, PairTaken
<1>4. Referenced(v)
  BY <1>2 DEF PairTaken, Referenced
<1>5. v \in users'
  <2>1. ASSUME NEW w \in User, Deleted(w) PROVE v \in users'
    BY <1>2, <1>4, <2>1 DEF Deleted
  <2> QED BY <1>2, <2>1, UsersStep
<1> QED BY <1>2, <1>3, <1>5

LEMMA InitIInv == Init => IInv
<1> SUFFICES ASSUME Init PROVE IInv
  OBVIOUS
<1>1. TypeOK
  BY InitType
<1>2. ProfilesWereOffered /\ PendingPairsAreMutual /\ EveryMatchWasMutual
  BY DEF Init, TablesInit, ProfilesWereOffered, PendingPairsAreMutual, EveryMatchWasMutual,
     HasSignal, At
<1>3. RowsReferenceUsers /\ OneRowPerPair /\ CreatedNotIntroduced /\ MatchedHasPartner
  BY DEF Init, TablesInit, RowsReferenceUsers, OneRowPerPair, CreatedNotIntroduced,
     MatchedHasPartner, HasSignal
<1>4. OneIntroductionPerPair
  <2> SUFFICES ASSUME NEW x \in User, NEW y \in User
               PROVE  launches[<<x, y>>] + launches[<<y, x>>]
                        <= IF PairTaken(x, y) THEN 1 ELSE 0
    BY DEF OneIntroductionPerPair
  <2>1. launches[<<x, y>>] = 0 /\ launches[<<y, x>>] = 0
    BY DEF Init
  <2> QED BY <2>1
<1> QED BY <1>1, <1>2, <1>3, <1>4 DEF IInv

LEMMA StepIInv == IInv /\ [Next]_vars => IInv'
<1> SUFFICES ASSUME IInv, [Next]_vars PROVE IInv'
  OBVIOUS
<1>1. CASE Next
  <2>1. TypeOK'
    BY <1>1, NextCases, UploadType, MatchSingleType, SweepType, RemovalType DEF IInv
  <2>2. ProfilesWereOffered' /\ PendingPairsAreMutual' /\ EveryMatchWasMutual'
    BY <1>1, <2>1, ProvenanceStep DEF IInv, Provenance
  <2>3. RowsReferenceUsers' /\ OneRowPerPair'
    BY <1>1, RowsReferenceUsersStep, OneRowPerPairStep DEF IInv
  <2>4. CreatedNotIntroduced' /\ OneIntroductionPerPair'
    BY <1>1, IntroductionsStep DEF IInv
  <2>5. MatchedHasPartner'
    BY <1>1, MatchedHasPartnerStep DEF IInv
  <2> QED BY <2>1, <2>2, <2>3, <2>4, <2>5 DEF IInv
<1>2. CASE UNCHANGED vars
  <2>1. TypeOK'
    BY <1>2 DEF IInv, vars, TypeOK, TablesTypeOK
  <2>2. ProfilesWereOffered' /\ PendingPairsAreMutual' /\ EveryMatchWasMutual'
    BY <1>2 DEF IInv, vars, ProfilesWereOffered, PendingPairsAreMutual,
       EveryMatchWasMutual, HasSignal, At, OfferedMutual
  <2>3. RowsReferenceUsers' /\ OneRowPerPair' /\ MatchedHasPartner'
    BY <1>2 DEF IInv, vars, RowsReferenceUsers, OneRowPerPair, MatchedHasPartner,
       HasSignal, PairTaken
  <2>4. CreatedNotIntroduced' /\ OneIntroductionPerPair'
    BY <1>2 DEF IInv, vars, CreatedNotIntroduced, OneIntroductionPerPair, PairTaken
  <2> QED BY <2>1, <2>2, <2>3, <2>4 DEF IInv
<1> QED BY <1>1, <1>2

(***************************************************************************)
(* Whatever the handlers, the MatchSingle goroutines, the sweep, the users *)
(* and crashes do, IInv holds: it is inductive, so none of the orders in   *)
(* which the statements of store/postgres.go may run breaks it.            *)
(***************************************************************************)
THEOREM Inductive == Spec => []IInv
  BY InitIInv, StepIInv, PTL DEF Spec

(***************************************************************************)
(* introduceAsync (matching/job.go) is called at most once for a pair of   *)
(* users, and only when the pair has a match row: the unique index and the *)
(* created flag are enough, without any lock held between two statements.  *)
(***************************************************************************)
THEOREM IntroducedOnce == Spec => []OneIntroductionPerPair
<1>1. IInv => OneIntroductionPerPair
  BY DEF IInv
<1> QED BY <1>1, Inductive, PTL

(***************************************************************************)
(* MarkSignalsMatched never hides a user who has nobody: a signal with     *)
(* matched = true belongs to a user with a match, and the partner's row in *)
(* users is still there.                                                   *)
(***************************************************************************)
THEOREM MatchedPartners == Spec => []MatchedHasPartner
<1>1. IInv => MatchedHasPartner
  BY DEF IInv
<1> QED BY <1>1, Inductive, PTL

(***************************************************************************)
(* Nobody is matched with themselves or with somebody they did not ask     *)
(* for, by either path of matching/job.go and whatever happens between the *)
(* query and the INSERT.                                                   *)
(***************************************************************************)
THEOREM MatchesAreMutual == Spec => []EveryMatchWasMutual
<1>1. IInv => EveryMatchWasMutual
  BY DEF IInv
<1> QED BY <1>1, Inductive, PTL

-----------------------------------------------------------------------------
(* What each path finds among the signals that are available. *)

\* An available signal has a profile of the right type.
LEMMA AvailableProfile ==
  ASSUME TypeOK, NEW u \in User, available(u)
  PROVE  signals[u].profile \in ProfileRecord
<1>1. signals[u] \in SignalRow
  BY DEF TypeOK, TablesTypeOK, available, HasSignal
<1> QED BY <1>1, ProfilesAreRecords DEF SignalRow

(***************************************************************************)
(* In every reachable state the statement of FindCandidatesForSignal       *)
(* selects, for any profile that may be uploaded, exactly the available    *)
(* rows of other users that are mutually acceptable and canonically        *)
(* spelled.                                                                *)
(***************************************************************************)
THEOREM RealtimeExact == Spec => []RealtimeFindsMutual
<1>1. ASSUME TypeOK PROVE RealtimeFindsMutual
  <2>1. ASSUME NEW x \in User, NEW y \in User, NEW p \in Profile, available(y)
        PROVE  candidate(p, signals[y].profile) <=>
                 Mutual(p, signals[y].profile) /\ Canonical(signals[y].profile)
    BY <1>1, <2>1, AvailableProfile, ProfilesAreRecords, CandidateExact
  <2> QED BY <2>1 DEF RealtimeFindsMutual, CandidatesFor, GetUnmatchedSignals
<1> QED BY <1>1, TypeCorrect, PTL

(***************************************************************************)
(* In every reachable state findCompatiblePairs pairs exactly the          *)
(* available signals that are mutually acceptable, however their cells are *)
(* spelled, and whose distance the H3 library can compute.                 *)
(***************************************************************************)
THEOREM SweepExact == Spec => []SweepFindsMutual
<1>1. ASSUME TypeOK, NEW x \in User, NEW y \in User
      PROVE  {x, y} \in findCompatiblePairs <=>
               /\ available(x) /\ available(y) /\ x # y
               /\ Mutual(signals[x].profile, signals[y].profile)
               /\ Ends(signals[x].profile, signals[y].profile) \in Measurable
  <2> DEFINE Accept(a, b) == compatible(signals[a].profile, signals[b].profile)
  <2>1. {x, y} \in findCompatiblePairs <=>
          /\ available(x) /\ available(y)
          /\ \E a, b \in {x, y} : a # b /\ {x, y} = {a, b} /\ Accept(a, b)
    BY DEF findCompatiblePairs, GetUnmatchedSignals
  <2>2. (\E a, b \in {x, y} : a # b /\ {x, y} = {a, b} /\ Accept(a, b)) <=>
          /\ x # y
          /\ Accept(x, y) \/ Accept(y, x)
    OBVIOUS
  <2>3. ASSUME available(x), available(y)
        PROVE  /\ Accept(x, y) <=>
                    /\ Mutual(signals[x].profile, signals[y].profile)
                    /\ Ends(signals[x].profile, signals[y].profile) \in Measurable
               /\ Accept(y, x) <=> Accept(x, y)
    <3>1. signals[x].profile \in ProfileRecord /\ signals[y].profile \in ProfileRecord
      BY <1>1, <2>3, AvailableProfile
    <3> QED BY <3>1, CompatibleExact, MutualSymmetric
  <2> QED BY <2>1, <2>2, <2>3
<1>2. TypeOK => SweepFindsMutual
  BY <1>1 DEF SweepFindsMutual
<1> QED BY <1>2, TypeCorrect, PTL

-----------------------------------------------------------------------------
(* Matching implements the ledger. *)

LEMMA StatusOfPair ==
  ASSUME NEW launched, NEW rows, NEW x \in User, NEW y \in User
  PROVE  StatusIn(launched, rows)[{x, y}] =
           IF launched[<<x, y>>] > 0 \/ launched[<<y, x>>] > 0 THEN "introduced"
           ELSE IF <<x, y>> \in rows \/ <<y, x>> \in rows THEN "matched"
           ELSE "strangers"
<1> DEFINE pair == {x, y}
<1>1. ASSUME NEW a \in pair, NEW b \in pair, pair = {a, b}
      PROVE  (a = x /\ b = y) \/ (a = y /\ b = x)
  BY <1>1
<1>2. (\E a, b \in pair : pair = {a, b} /\ launched[<<a, b>>] > 0)
        <=> launched[<<x, y>>] > 0 \/ launched[<<y, x>>] > 0
  <2>1. x \in pair /\ y \in pair /\ pair = {x, y} /\ pair = {y, x}
    OBVIOUS
  <2> QED BY <1>1, <2>1
<1>3. (\E a, b \in pair : pair = {a, b} /\ <<a, b>> \in rows)
        <=> <<x, y>> \in rows \/ <<y, x>> \in rows
  <2>1. x \in pair /\ y \in pair /\ pair = {x, y} /\ pair = {y, x}
    OBVIOUS
  <2> QED BY <1>1, <2>1
<1>4. pair \in UserPair
  BY DEF UserPair
<1> HIDE DEF pair
<1>5. StatusIn(launched, rows)[pair] =
        IF \E a, b \in pair : pair = {a, b} /\ launched[<<a, b>>] > 0 THEN "introduced"
        ELSE IF \E a, b \in pair : pair = {a, b} /\ <<a, b>> \in rows THEN "matched"
        ELSE "strangers"
  BY <1>4 DEF StatusIn
<1> QED BY <1>2, <1>3, <1>5 DEF pair

LEMMA StatusFunction ==
  ASSUME NEW launched, NEW rows
  PROVE  StatusIn(launched, rows)
           \in [UserPair -> {"introduced", "matched", "strangers"}]
  BY DEF StatusIn

\* Launches and rows are those of before but for the pair of x and y.
ButFor(x, y, launched, rows, launchedNow, rowsNow) ==
  \A a, b \in User : {a, b} # {x, y} =>
    /\ launchedNow[<<a, b>>] = launched[<<a, b>>]
    /\ <<a, b>> \in rowsNow <=> <<a, b>> \in rows

\* What changes the launches and the row of one pair changes its status only.
LEMMA StatusUpdate ==
  ASSUME NEW launched, NEW launchedNow, NEW rows, NEW rowsNow,
         NEW x \in User, NEW y \in User,
         NEW outcome \in {"introduced", "matched", "strangers"},
         StatusIn(launchedNow, rowsNow)[{x, y}] = outcome,
         ButFor(x, y, launched, rows, launchedNow, rowsNow)
  PROVE  StatusIn(launchedNow, rowsNow) =
           [StatusIn(launched, rows) EXCEPT ![{x, y}] = outcome]
<1> DEFINE statuses == {"introduced", "matched", "strangers"}
           before == StatusIn(launched, rows)
           now == StatusIn(launchedNow, rowsNow)
<1>1. before \in [UserPair -> statuses] /\ now \in [UserPair -> statuses]
  BY StatusFunction
<1>2. ASSUME NEW pair \in UserPair
      PROVE  now[pair] = IF pair = {x, y} THEN outcome ELSE before[pair]
  <2>1. PICK a \in User, b \in User : pair = {a, b}
    BY DEF UserPair
  <2>2. CASE pair # {x, y}
    <3>1. /\ launchedNow[<<a, b>>] = launched[<<a, b>>]
          /\ launchedNow[<<b, a>>] = launched[<<b, a>>]
          /\ <<a, b>> \in rowsNow <=> <<a, b>> \in rows
          /\ <<b, a>> \in rowsNow <=> <<b, a>> \in rows
      <4>1. {a, b} # {x, y} /\ {b, a} # {x, y}
        BY <2>1, <2>2
      <4> QED BY <4>1 DEF ButFor
    <3>2. now[{a, b}] = before[{a, b}]
      BY <3>1, StatusOfPair
    <3> QED BY <2>1, <2>2, <3>2
  <2> QED BY <2>2
<1> HIDE DEF statuses, before, now
<1>3. now = [before EXCEPT ![{x, y}] = outcome]
  BY <1>1, <1>2
<1> QED BY <1>3 DEF before, now

LEMMA UsersWriters ==
  ASSUME Next
  PROVE  \/ users' = users
         \/ \E u \in User : users' = users \cup {u}
         \/ \E u \in User : Deleted(u)
<1>1. ASSUME NEW r \in Request, Upload(r)
      PROVE  users' = users \/ \E u \in User : users' = users \cup {u}
  BY <1>1 DEF Upload, ReceiveUpload, UpsertSignal, UpsertRefused, UpsertFails,
     HandlerReturns, tables
<1>2. ASSUME NEW r \in Request, MatchSingle(r) PROVE users' = users
  BY <1>2 DEF MatchSingle, FindCandidates, FindFails, SingleCreates, SingleSkips,
     SingleFails, SingleAbandons, tables
<1>3. ASSUME Sweep PROVE users' = users
  BY <1>3 DEF Sweep, SweepStarts, SweepCreates, SweepSkips, SweepCreateFails,
     SweepMarks, SweepMarkFails, tables
<1>4. ASSUME NEW u \in User, DeleteUser(u) PROVE Deleted(u)
  BY <1>4 DEF DeleteUser, DropSignals, Deleted
<1>5. ASSUME NEW u \in User, DeleteSignal(u) \/ Expire(u) PROVE users' = users
  BY <1>5 DEF DeleteSignal, Expire
<1>6. CASE CleanExpired \/ Crash
  BY <1>6 DEF CleanExpired, Crash, tables
<1> QED BY <1>1, <1>2, <1>3, <1>4, <1>5, <1>6 DEF Next

LEMMA LedgerInit == Init => Ledger!Init
<1> SUFFICES ASSUME Init PROVE Ledger!Init
  OBVIOUS
<1>1. ASSUME NEW pair \in UserPair PROVE PairStatus[pair] = "strangers"
  <2>1. PICK a \in User, b \in User : pair = {a, b}
    BY DEF UserPair
  <2>2. launches[<<a, b>>] = 0 /\ launches[<<b, a>>] = 0 /\ matches = {}
    BY DEF Init, TablesInit
  <2> QED BY <2>1, <2>2, StatusOfPair DEF PairStatus
<1>2. PairStatus \in [UserPair -> {"introduced", "matched", "strangers"}]
  BY StatusFunction DEF PairStatus
<1>3. PairStatus = [pair \in UserPair |-> "strangers"]
  BY <1>1, <1>2
<1>4. users \in SUBSET User
  BY DEF Init, TablesInit
<1> QED BY <1>3, <1>4 DEF Ledger!Init, Ledger!Pair, UserPair

LEMMA LedgerSteps ==
  ASSUME IInv, Next
  PROVE  [Ledger!Next]_<<users, PairStatus>>
<1> USE DEF IInv
<1>0. ASSUME NEW a \in User, NEW b \in User
      PROVE  launches[<<a, b>>] \in Nat
  BY DEF TypeOK
<1>1. ASSUME UNCHANGED <<matches, launches>>
      PROVE  [Ledger!Next]_<<users, PairStatus>>
  <2>1. PairStatus' = PairStatus
    BY <1>1 DEF PairStatus
  <2>2. ASSUME NEW u \in User, users' = users \cup {u} PROVE Ledger!Open(u)
    BY <2>1, <2>2 DEF Ledger!Open
  <2>3. ASSUME NEW u \in User, Deleted(u) PROVE Ledger!Close(u)
    <3>1. ASSUME NEW pair \in Ledger!Pair, u \in pair PROVE PairStatus[pair] = "strangers"
      <4>1. PICK a \in User, b \in User : pair = {a, b}
        BY DEF Ledger!Pair
      <4>2. <<a, b>> \notin matches /\ <<b, a>> \notin matches
        BY <2>3, <3>1, <4>1 DEF Deleted, Referenced
      <4>3. launches[<<a, b>>] + launches[<<b, a>>] <= 0
        BY <4>2 DEF OneIntroductionPerPair, PairTaken
      <4>4. ~(launches[<<a, b>>] > 0) /\ ~(launches[<<b, a>>] > 0)
        BY <1>0, <4>3
      <4> QED BY <4>1, <4>2, <4>4, StatusOfPair DEF PairStatus
    <3> QED BY <2>1, <2>3, <3>1 DEF Ledger!Close, Deleted
  <2> QED BY <2>1, <2>2, <2>3, UsersWriters DEF Ledger!Next
<1>2. ASSUME NEW x \in User, NEW y \in User, NewMatch(x, y)
      PROVE  /\ x # y /\ {x, y} \subseteq users
             /\ launches[<<x, y>>] = 0 /\ launches[<<y, x>>] = 0
             /\ PairStatus[{x, y}] = "strangers"
  <2>1. x # y /\ {x, y} \subseteq users /\ ~PairTaken(x, y)
    BY <1>2, NewMatchDistinct DEF NewMatch
  <2>2. launches[<<x, y>>] + launches[<<y, x>>] <= 0
    BY <2>1 DEF OneIntroductionPerPair
  <2>3. launches[<<x, y>>] = 0 /\ launches[<<y, x>>] = 0
    BY <1>0, <2>2
  <2> QED BY <2>1, <2>3, StatusOfPair DEF PairStatus, PairTaken
<1>3. ASSUME NEW x \in User, NEW y \in User, NewMatch(x, y), Introduces(x, y)
      PROVE  Ledger!Match(x, y, "introduced")
  <2>1. launches'[<<x, y>>] > 0
    <3>1. launches[<<x, y>>] = 0
      BY <1>2, <1>3
    <3> QED BY <1>3, <3>1 DEF TypeOK, Introduces
  <2>2. PairStatus'[{x, y}] = "introduced"
    BY <2>1, StatusOfPair DEF PairStatus
  <2>3. ButFor(x, y, launches, matches, launches', matches')
    BY <1>3 DEF ButFor, TypeOK, NewMatch, Introduces
  <2>4. PairStatus' = [PairStatus EXCEPT ![{x, y}] = "introduced"]
    BY <2>2, <2>3, StatusUpdate DEF PairStatus
  <2> QED BY <1>2, <1>3, <2>4 DEF Ledger!Match, NewMatch
<1>4. ASSUME NEW x \in User, NEW y \in User, NewMatch(x, y), launches' = launches
      PROVE  Ledger!Match(x, y, "matched")
  <2>1. launches'[<<x, y>>] = 0 /\ launches'[<<y, x>>] = 0 /\ <<x, y>> \in matches'
    BY <1>2, <1>4 DEF NewMatch
  <2>2. PairStatus'[{x, y}] = "matched"
    BY <2>1, StatusOfPair DEF PairStatus
  <2>3. ButFor(x, y, launches, matches, launches', matches')
    BY <1>4 DEF ButFor, NewMatch
  <2>4. PairStatus' = [PairStatus EXCEPT ![{x, y}] = "matched"]
    BY <2>2, <2>3, StatusUpdate DEF PairStatus
  <2> QED BY <1>2, <1>4, <2>4 DEF Ledger!Match, NewMatch
<1>5. ASSUME NEW x \in User, NEW y \in User, created = <<x, y>>, Introduces(x, y),
             UNCHANGED <<users, matches>>
      PROVE  [Ledger!Next]_<<users, PairStatus>>
  <2>1. created # NoPair /\ created[1] = x /\ created[2] = y
    BY <1>5, MatchingAssumption
  <2>2. <<x, y>> \in matches /\ launches[<<x, y>>] = 0 /\ launches[<<y, x>>] = 0
    BY <1>5, <2>1 DEF CreatedNotIntroduced
  <2>3. PairStatus[{x, y}] = "matched"
    BY <2>2, StatusOfPair DEF PairStatus
  <2>4. launches'[<<x, y>>] > 0
    BY <1>5, <2>2 DEF TypeOK, Introduces
  <2>5. PairStatus'[{x, y}] = "introduced"
    BY <2>4, StatusOfPair DEF PairStatus
  <2>6. ButFor(x, y, launches, matches, launches', matches')
    BY <1>5 DEF ButFor, TypeOK, Introduces
  <2>7. PairStatus' = [PairStatus EXCEPT ![{x, y}] = "introduced"]
    BY <2>5, <2>6, StatusUpdate DEF PairStatus
  <2>8. Ledger!Introduce({x, y})
    BY <1>5, <2>3, <2>7 DEF Ledger!Introduce
  <2> QED BY <2>8 DEF Ledger!Next, Ledger!Pair
<1>6. LedgerStep
  BY MatchWriters
<1> QED BY <1>1, <1>3, <1>4, <1>5, <1>6 DEF LedgerStep, Ledger!Next

(***************************************************************************)
(* Matching implements the ledger, for any users, requests and bounds: a   *)
(* pair of users is matched once and introduced at most once, only after   *)
(* that and for ever, and no account of a match is ever deleted.           *)
(***************************************************************************)
THEOREM Implementation == Spec => ImplementsLedger
<1>1. IInv /\ [Next]_vars => [Ledger!Next]_<<users, PairStatus>>
  <2>1. CASE UNCHANGED vars
    BY <2>1 DEF vars, PairStatus
  <2> QED BY <2>1, LedgerSteps
<1> QED BY <1>1, LedgerInit, Inductive, PTL DEF Spec, ImplementsLedger, Ledger!Spec

=============================================================================
