------------------------------ MODULE Matching ------------------------------
(***************************************************************************)
(* How pairs of availability signals become matches.                       *)
(*                                                                         *)
(* Two paths create matches concurrently.  PUT /signal stores a signal and *)
(* starts a goroutine that runs MatchSingle for it (handler/signal.go,     *)
(* matching/job.go); the scheduler goroutine runs the sweep Job.Run        *)
(* (matching/job.go, cmd/broker/main.go).  Users also remove signals and   *)
(* accounts, signals expire, store calls fail, and the process crashes.    *)
(* The only coordination is what single SQL statements give.               *)
(*                                                                         *)
(* A store call that fails may still have committed: the answer is lost,   *)
(* not the effect.  Every failing step has both outcomes.                  *)
(***************************************************************************)
EXTENDS BrokerTables

CONSTANTS
  Request,      \* slots for PUT /signal requests in progress
  NoRequest,    \* stands for a free slot
  NoPair,       \* stands for "the sweep has no match waiting to be marked"
  MaxUploads,   \* bound: PUT /signal requests in a behaviour
  MaxRemovals,  \* bound: removals and expiries of signals or accounts
  MaxFaults,    \* bound: failing store calls in a behaviour
  MaxCrashes    \* bound: crashes (or shutdowns) in a behaviour

VARIABLES
  requests,  \* the uploads in progress, each with its MatchSingle goroutine
  todo,      \* the pairs the running sweep has loaded and not yet handled
  created,   \* the match the sweep has just created and not yet marked
  launches,  \* history: introduceAsync calls for each match row
  offered,   \* history: the profiles each user has stored
  uploads, removals, faults, crashes   \* how much of each bound is used

sweepVars  == <<todo, created>>
boundVars  == <<uploads, removals, faults, crashes>>
vars == <<users, signals, matches, requests, todo, created, launches,
          offered, uploads, removals, faults, crashes>>

UploadRequest ==
  [pc : {"upsert", "find", "create"}, user : User, profile : Profile,
   live : BOOLEAN,         \* r.Context() is not cancelled
   cands : SUBSET User]    \* candidates MatchSingle has still to handle

ASSUME MatchingAssumption ==
  /\ NoRequest \notin UploadRequest
  /\ NoPair \notin User \X User
  /\ MaxUploads \in Nat /\ MaxRemovals \in Nat
  /\ MaxFaults \in Nat /\ MaxCrashes \in Nat

TypeOK ==
  /\ TablesTypeOK
  /\ requests \in [Request -> UploadRequest \cup {NoRequest}]
  /\ todo \subseteq SUBSET User
  /\ created \in (User \X User) \cup {NoPair}
  /\ launches \in [User \X User -> Nat]
  /\ offered \subseteq User \X Profile
  /\ uploads \in 0..MaxUploads
  /\ removals \in 0..MaxRemovals
  /\ faults \in 0..MaxFaults
  /\ crashes \in 0..MaxCrashes

Init ==
  /\ TablesInit
  /\ requests = [r \in Request |-> NoRequest]
  /\ todo = {}
  /\ created = NoPair
  /\ launches = [row \in User \X User |-> 0]
  /\ offered = {}
  /\ uploads = 0 /\ removals = 0 /\ faults = 0 /\ crashes = 0

At(r, label) == requests[r] # NoRequest /\ requests[r].pc = label

Finish(r) == requests' = [requests EXCEPT ![r] = NoRequest]

introduceAsync(x, y) == launches' = [launches EXCEPT ![<<x, y>>] = @ + 1]

StoreFault == faults < MaxFaults /\ faults' = faults + 1

Removal == removals < MaxRemovals /\ removals' = removals + 1

-----------------------------------------------------------------------------
(* PUT /signal: HandleUpsertSignal and the statements of UpsertSignal. *)

\* The request passes validation; INSERT INTO users ... DO NOTHING.
ReceiveUpload(r, u, p) ==
  /\ requests[r] = NoRequest
  /\ uploads < MaxUploads
  /\ uploads' = uploads + 1
  /\ users' = users \cup {u}
  /\ requests' = [requests EXCEPT ![r] =
       [pc |-> "upsert", user |-> u, profile |-> p,
        live |-> TRUE, cands |-> {}]]
  /\ UNCHANGED <<signals, matches, sweepVars, launches, offered, removals, faults, crashes>>

\* The signal row is written and the goroutine running MatchSingle starts.
UpsertSignal(r) ==
  /\ At(r, "upsert")
  /\ requests[r].user \in users
  /\ PutSignal(requests[r].user, requests[r].profile)
  /\ offered' = offered \cup {<<requests[r].user, requests[r].profile>>}
  /\ requests' = [requests EXCEPT ![r].pc = "find"]
  /\ UNCHANGED <<users, matches, sweepVars, launches, boundVars>>

\* The account was deleted since the first statement: foreign key violated.
UpsertRefused(r) ==
  /\ At(r, "upsert")
  /\ requests[r].user \notin users
  /\ Finish(r)
  /\ UNCHANGED <<tables, sweepVars, launches, offered, boundVars>>

\* The statement fails; it may have been committed all the same.
UpsertFails(r) ==
  /\ At(r, "upsert")
  /\ StoreFault
  /\ \/ UNCHANGED <<signals, offered>>
     \/ /\ requests[r].user \in users
        /\ PutSignal(requests[r].user, requests[r].profile)
        /\ offered' = offered \cup {<<requests[r].user, requests[r].profile>>}
  /\ Finish(r)
  /\ UNCHANGED <<users, matches, sweepVars, launches, uploads, removals, crashes>>

\* The handler answers and returns, which cancels r.Context() under the
\* goroutine it has started.
HandlerReturns(r) ==
  /\ At(r, "find") \/ At(r, "create")
  /\ requests[r].live
  /\ requests' = [requests EXCEPT ![r].live = FALSE]
  /\ UNCHANGED <<tables, sweepVars, launches, offered, boundVars>>

-----------------------------------------------------------------------------
(* MatchSingle, in the goroutine. *)

\* Rows that a statement running now in another request may hold locked: the
\* row another upsert is writing, the rows another SELECT FOR UPDATE selects.
\* (A row locked by a running DELETE or by the marking UPDATE is skipped just
\* as if that statement had come first.)
MaybeLocked(r) ==
  UNION {IF At(s, "upsert") THEN {requests[s].user}
         ELSE IF At(s, "find") THEN CandidatesFor(requests[s].user, requests[s].profile)
         ELSE {} : s \in Request \ {r}}

\* FOR UPDATE SKIP LOCKED skips the locked rows; the statement's own locks
\* end with it.
FindCandidates(r) ==
  /\ At(r, "find")
  /\ requests[r].live
  /\ \E skipped \in SUBSET MaybeLocked(r) :
       LET found == CandidatesFor(requests[r].user, requests[r].profile) \ skipped IN
       IF found = {}
         THEN Finish(r)
         ELSE requests' = [requests EXCEPT ![r].pc = "create", ![r].cands = found]
  /\ UNCHANGED <<tables, sweepVars, launches, offered, boundVars>>

\* "find candidates: ..." is returned, and dropped by the goroutine.
FindFails(r) ==
  /\ At(r, "find")
  /\ \/ ~requests[r].live /\ UNCHANGED faults
     \/ requests[r].live /\ StoreFault
  /\ Finish(r)
  /\ UNCHANGED <<tables, sweepVars, launches, offered, uploads, removals, crashes>>

\* The loop goes on to the next candidate, or the goroutine ends.
NextCandidate(r, v, live) ==
  IF requests[r].cands = {v}
    THEN Finish(r)
    ELSE requests' = [requests EXCEPT ![r].cands = @ \ {v}, ![r].live = live]

SingleCreates(r, v) ==
  /\ At(r, "create")
  /\ requests[r].live
  /\ v \in requests[r].cands
  /\ MatchCreated(requests[r].user, v)
  /\ introduceAsync(requests[r].user, v)
  /\ NextCandidate(r, v, TRUE)
  /\ UNCHANGED <<users, signals, sweepVars, offered, boundVars>>

\* The pair exists already, or an account is gone: continue.
SingleSkips(r, v) ==
  /\ At(r, "create")
  /\ requests[r].live
  /\ v \in requests[r].cands
  /\ MatchExists(requests[r].user, v) \/ MatchRefused(requests[r].user, v)
  /\ NextCandidate(r, v, TRUE)
  /\ UNCHANGED <<tables, sweepVars, launches, offered, boundVars>>

\* The INSERT fails, or the handler returns while it runs: the row may be
\* there, but no introduction is started.
SingleFails(r, v) ==
  /\ At(r, "create")
  /\ requests[r].live
  /\ v \in requests[r].cands
  /\ \/ StoreFault /\ NextCandidate(r, v, TRUE)
     \/ UNCHANGED faults /\ NextCandidate(r, v, FALSE)
  /\ MatchCreated(requests[r].user, v) \/ UNCHANGED matches
  /\ UNCHANGED <<users, signals, sweepVars, launches, offered, uploads, removals, crashes>>

\* Once the context is cancelled every remaining INSERT fails unsent.
SingleAbandons(r) ==
  /\ At(r, "create")
  /\ ~requests[r].live
  /\ Finish(r)
  /\ UNCHANGED <<tables, sweepVars, launches, offered, boundVars>>

-----------------------------------------------------------------------------
(* The sweep, Job.Run, in the scheduler goroutine. *)

SweepIdle == todo = {} /\ created = NoPair

\* Mutant: the test for "not enough signals" is off by one.
findCompatiblePairsOfThree ==
  {pair \in SUBSET GetUnmatchedSignals :
     \E x, y \in pair :
       /\ x # y
       /\ pair = {x, y}
       /\ GetUnmatchedSignals # pair
       /\ compatible(signals[x].profile, signals[y].profile)}

findCompatiblePairs ==
  {pair \in SUBSET GetUnmatchedSignals :
     \E x, y \in pair :
       /\ x # y
       /\ pair = {x, y}
       /\ compatible(signals[x].profile, signals[y].profile)}

SweepStarts ==
  /\ SweepIdle
  /\ findCompatiblePairs # {}
  /\ todo' = findCompatiblePairs
  /\ UNCHANGED <<tables, requests, created, launches, offered, boundVars>>

\* A pair is written in the order its two signal rows were first inserted,
\* which may be either.
SweepCreates(x, y) ==
  /\ created = NoPair
  /\ {x, y} \in todo
  /\ MatchCreated(x, y)
  /\ created' = <<x, y>>
  /\ todo' = todo \ {{x, y}}
  /\ UNCHANGED <<users, signals, requests, launches, offered, boundVars>>

SweepSkips(x, y) ==
  /\ created = NoPair
  /\ {x, y} \in todo
  /\ MatchExists(x, y) \/ MatchRefused(x, y)
  /\ todo' = todo \ {{x, y}}
  /\ UNCHANGED <<tables, requests, created, launches, offered, boundVars>>

SweepCreateFails(x, y) ==
  /\ created = NoPair
  /\ {x, y} \in todo
  /\ StoreFault
  /\ MatchCreated(x, y) \/ UNCHANGED matches
  /\ todo' = todo \ {{x, y}}
  /\ UNCHANGED <<users, signals, requests, created, launches, offered, uploads, removals, crashes>>

SweepMarks ==
  /\ created # NoPair
  /\ MarkSignalsMatched(created[1], created[2])
  /\ introduceAsync(created[1], created[2])
  /\ created' = NoPair
  /\ UNCHANGED <<users, matches, requests, todo, offered, boundVars>>

\* "failed to mark signals matched": the pair is not introduced.
SweepMarkFails ==
  /\ created # NoPair
  /\ StoreFault
  /\ MarkSignalsMatched(created[1], created[2]) \/ UNCHANGED signals
  /\ created' = NoPair
  /\ UNCHANGED <<users, matches, requests, todo, launches, offered, uploads, removals, crashes>>

-----------------------------------------------------------------------------
(* What users, time and the process do to the tables. *)

\* DELETE /signal
DeleteSignal(u) ==
  /\ HasSignal(u)
  /\ Removal
  /\ DropSignals({u})
  /\ UNCHANGED <<users, matches, requests, sweepVars, launches, offered, uploads, faults, crashes>>

\* Mutant: ON DELETE CASCADE on the match rows too.
DeleteUserCascade(u) ==
  /\ u \in users
  /\ Removal
  /\ users' = users \ {u}
  /\ matches' = {row \in matches : u \notin {row[1], row[2]}}
  /\ DropSignals({u})
  /\ UNCHANGED <<requests, sweepVars, launches, offered, uploads, faults, crashes>>

\* Mutant: no ON DELETE CASCADE, and no foreign key, on agent_signals.
DeleteUserOnly(u) ==
  /\ u \in users
  /\ ~Referenced(u)
  /\ Removal
  /\ users' = users \ {u}
  /\ UNCHANGED <<signals, matches, requests, sweepVars, launches, offered,
                 uploads, faults, crashes>>

\* DELETE /account: the signal goes with the user (ON DELETE CASCADE); a match
\* row that references the user makes the statement fail.
DeleteUser(u) ==
  /\ u \in users
  /\ ~Referenced(u)
  /\ Removal
  /\ users' = users \ {u}
  /\ DropSignals({u})
  /\ UNCHANGED <<matches, requests, sweepVars, launches, offered, uploads, faults, crashes>>

\* expires_at passes.
Expire(u) ==
  /\ HasSignal(u)
  /\ ~signals[u].expired
  /\ Removal
  /\ signals' = [signals EXCEPT ![u].expired = TRUE]
  /\ UNCHANGED <<users, matches, requests, sweepVars, launches, offered, uploads, faults, crashes>>

\* The cleanup tick, served by the goroutine that also runs the sweep.
CleanExpired ==
  /\ SweepIdle
  /\ \E u \in User : HasSignal(u) /\ signals[u].expired
  /\ DropSignals({u \in User : HasSignal(u) /\ signals[u].expired})
  /\ UNCHANGED <<users, matches, requests, sweepVars, launches, offered, boundVars>>

\* The process dies or shuts down, without waiting for the scheduler or for
\* the goroutines that handlers have started, and starts again.
Crash ==
  /\ crashes < MaxCrashes
  /\ crashes' = crashes + 1
  /\ requests' = [r \in Request |-> NoRequest]
  /\ todo' = {}
  /\ created' = NoPair
  /\ UNCHANGED <<tables, launches, offered, uploads, removals, faults>>

-----------------------------------------------------------------------------
Upload(r) ==
  \/ \E u \in User, p \in Profile : ReceiveUpload(r, u, p)
  \/ UpsertSignal(r) \/ UpsertRefused(r) \/ UpsertFails(r)
  \/ HandlerReturns(r)

MatchSingle(r) ==
  \/ FindCandidates(r) \/ FindFails(r)
  \/ \E v \in User : SingleCreates(r, v) \/ SingleSkips(r, v) \/ SingleFails(r, v)
  \/ SingleAbandons(r)

Sweep ==
  \/ SweepStarts
  \/ \E x, y \in User :
       SweepCreates(x, y) \/ SweepSkips(x, y) \/ SweepCreateFails(x, y)
  \/ SweepMarks \/ SweepMarkFails

Next ==
  \/ \E r \in Request : Upload(r) \/ MatchSingle(r)
  \/ Sweep
  \/ \E u \in User : DeleteSignal(u) \/ DeleteUser(u) \/ Expire(u)
  \/ CleanExpired
  \/ Crash

Spec == Init /\ [][Next]_vars

-----------------------------------------------------------------------------
(* What must hold of the matches, whatever the interleaving. *)

(***************************************************************************)
(* Two people are introduced to each other at most once, and only if they  *)
(* are matched: of the sweep and all the MatchSingle goroutines that find  *)
(* the same pair, in either order of the two users and across crashes, at  *)
(* most one gets created = true from CreateMatchIfNotExists and goes on to *)
(* call introduceAsync.                                                    *)
(***************************************************************************)
OneIntroductionPerPair ==
  \A x, y \in User :
    launches[<<x, y>>] + launches[<<y, x>>] <= IF PairTaken(x, y) THEN 1 ELSE 0

\* x and y have each stored a signal such that the two accept each other.
OfferedMutual(x, y) ==
  \E p, q \in Profile :
    <<x, p>> \in offered /\ <<y, q>> \in offered /\ Mutual(p, q)

(***************************************************************************)
(* Nobody is matched with themselves or with somebody they did not ask     *)
(* for: for every match row, each of the two users has stored a signal     *)
(* such that the two signals accept each other.  Both paths decide on rows *)
(* they read earlier, of users who may have uploaded again since.          *)
(***************************************************************************)
EveryMatchWasMutual ==
  \A row \in matches : row[1] # row[2] /\ OfferedMutual(row[1], row[2])

(***************************************************************************)
(* A signal is taken out of matching and discovery (matched = true) only   *)
(* for a user who has a match, with somebody whose account still exists,   *)
(* even though the sweep marks in a statement of its own, after uploads,   *)
(* removals and account deletions may have come between.                   *)
(***************************************************************************)
MatchedHasPartner ==
  \A u \in User :
    HasSignal(u) /\ signals[u].matched =>
      \E v \in users \ {u} : PairTaken(u, v)

(***************************************************************************)
(* Of the available rows of other users the statement of                   *)
(* FindCandidatesForSignal selects, but for those it skips as locked, all  *)
(* that accept the new signal and are accepted by it, in both directions   *)
(* of its one-sided clauses, and nobody else; with one exception that is   *)
(* in the code: a row whose text is not the spelling the H3 library        *)
(* prints, which the validation lets pass (model/validate.go:87) and the   *)
(* comparison of texts does not.  The spelling is the row's, not the new   *)
(* signal's: where one of two users has such a row, who uploads last       *)
(* decides whether the real-time path can find the pair or only the sweep. *)
(* Seeking is as both decisions have it; NonBinaryMatchesAnySeeking below  *)
(* is what a comment says of it.                                           *)
(***************************************************************************)
RealtimeFindsMutual ==
  \A x, y \in User, p \in Profile :
    y \in CandidatesFor(x, p) <=>
      /\ available(y) /\ y # x
      /\ Mutual(p, signals[y].profile)
      /\ Canonical(signals[y].profile)

(***************************************************************************)
(* The sweep is "to catch edge cases missed by real-time matching"         *)
(* (matching/job.go:48): it pairs all available signals that accept each   *)
(* other, however their cells are spelled and whichever row comes first.   *)
(* It leaves out those h3.GridDistance returns an error for, which it      *)
(* never takes for a distance.                                             *)
(***************************************************************************)
SweepFindsMutual ==
  \A x, y \in User :
    {x, y} \in findCompatiblePairs <=>
      /\ available(x) /\ available(y) /\ x # y
      /\ Mutual(signals[x].profile, signals[y].profile)
      /\ Ends(signals[x].profile, signals[y].profile) \in Measurable

\* Two users whose signals the sweep would match.
Eligible(x, y) ==
  /\ x # y
  /\ {x, y} \subseteq GetUnmatchedSignals
  /\ compatible(signals[x].profile, signals[y].profile)

UserPair == {{x, y} : x, y \in User}

\* What has been done for each pair, by the launches and the match rows.
StatusIn(launched, rows) ==
  [pair \in UserPair |->
     IF \E x, y \in pair : pair = {x, y} /\ launched[<<x, y>>] > 0
       THEN "introduced"
     ELSE IF \E x, y \in pair : pair = {x, y} /\ <<x, y>> \in rows
       THEN "matched"
     ELSE "strangers"]

PairStatus == StatusIn(launches, matches)

(***************************************************************************)
(* Matching implements the ledger of MatchLedger: a pair goes from unknown *)
(* to matched to introduced and never back, and an account that appears in *)
(* a match stays.                                                          *)
(***************************************************************************)
Ledger == INSTANCE MatchLedger WITH accounts <- users, status <- PairStatus

ImplementsLedger == Ledger!Spec

-----------------------------------------------------------------------------
(* Why it holds: what is true in between, while matches are being made. *)

\* Every signal, and every profile a goroutine matches for, was stored once.
ProfilesWereOffered ==
  /\ \A u \in User : HasSignal(u) => <<u, signals[u].profile>> \in offered
  /\ \A r \in Request : At(r, "find") \/ At(r, "create") =>
       <<requests[r].user, requests[r].profile>> \in offered

\* Candidates and loaded pairs accepted each other, with signals that may have
\* changed since.
PendingPairsAreMutual ==
  /\ \A r \in Request : requests[r] # NoRequest =>
       \A v \in requests[r].cands :
         v # requests[r].user /\ OfferedMutual(requests[r].user, v)
  /\ \A x, y \in User : {x, y} \in todo => x # y /\ OfferedMutual(x, y)

\* The foreign keys of agent_signals and matches.
RowsReferenceUsers ==
  /\ \A u \in User : HasSignal(u) => u \in users
  /\ \A row \in matches : {row[1], row[2]} \subseteq users

\* The unique index of migration 004.
OneRowPerPair ==
  \A x, y \in User : x # y /\ <<x, y>> \in matches => <<y, x>> \notin matches

\* Between its two statements the sweep holds a match nobody has introduced.
CreatedNotIntroduced ==
  created # NoPair =>
    /\ created \in matches
    /\ launches[created] = 0
    /\ launches[<<created[2], created[1]>>] = 0

(***************************************************************************)
(* The inductive invariant: between the two statements of the sweep, and   *)
(* between MatchSingle's query and its INSERTs, everything the properties  *)
(* above need is already in place.                                         *)
(***************************************************************************)
IInv ==
  /\ TypeOK
  /\ ProfilesWereOffered /\ PendingPairsAreMutual /\ EveryMatchWasMutual
  /\ RowsReferenceUsers
  /\ OneRowPerPair /\ CreatedNotIntroduced /\ OneIntroductionPerPair
  /\ MatchedHasPartner

-----------------------------------------------------------------------------
(* What the repository says of matching and the code does not do. *)

(***************************************************************************)
(* "Real-time matching: find compatible partners immediately"              *)
(* (handler/signal.go:74): once no upload is in progress, any two signals  *)
(* the sweep would match are matched already.                              *)
(***************************************************************************)
UploadsMatchImmediately ==
  (\A r \in Request : requests[r] = NoRequest) =>
    \A x, y \in User : Eligible(x, y) => PairTaken(x, y)

\* Seeking as the comment above seekingCompatible has it (matching/job.go:239).
documentedSeeking(p, q) ==
  q.seeking = "any" \/ p.gender = q.seeking \/ p.gender = "NB"

(***************************************************************************)
(* "any" seeking matches all genders; "NB gender matches any seeking"      *)
(* (matching/job.go:239): two available signals, near enough and of ages   *)
(* that suit, are paired by the sweep if each gender is one the other      *)
(* seeks or is NB.                                                         *)
(***************************************************************************)
NonBinaryMatchesAnySeeking ==
  \A x, y \in GetUnmatchedSignals :
    LET p == signals[x].profile
        q == signals[y].profile
    IN  /\ x # y
        /\ geographicallyClose(p.locationH3, q.locationH3)
        /\ ageCompatible(p, q)
        /\ documentedSeeking(p, q) /\ documentedSeeking(q, p)
        => {x, y} \in findCompatiblePairs

=============================================================================
