----------------------------- MODULE RateLimiter -----------------------------
(***************************************************************************)
(* The rate limiter of the authenticated routes (middleware/ratelimit.go): *)
(* a sync.Map of counters, one for each session and minute, which requests *)
(* create and increment and a goroutine of its own removes.                *)
(*                                                                         *)
(* No lock is held over two steps.  A request reads the clock, then gets   *)
(* its counter, then increments it, and holds a pointer to the counter in  *)
(* between; the cleanup may remove the counter from the map meanwhile.     *)
(* A counter is named here by the request that allocated it.               *)
(***************************************************************************)
EXTENDS Integers, FiniteSets

CONSTANTS
  Session,    \* session ids
  Limit,      \* requests allowed for a session in a minute
  Parsed,     \* for each session, the number the cleanup reads from its keys
  NoNumber,   \* it cannot read one
  NoCounter,  \* no entry in the map
  NoRequest,  \* the request has not been made
  NoSweep,    \* the cleanup goroutine waits for its ticker
  MaxRequests, \* bound: requests in a behaviour
  MaxMinute   \* bound: minutes in a behaviour

VARIABLES
  minute,    \* time.Now().UTC().Unix()/60, from some minute on
  counters,  \* the map
  count,     \* the value of each counter
  requests,  \* the requests and what became of them
  sweep      \* the cleanup's run over the map

vars == <<minute, counters, count, requests, sweep>>

\* Requests are numbered in the order in which they come in.
Request == 1..MaxRequests
Minute == 0..MaxMinute
Key == Session \X Minute

RequestRecord ==
  [pc : {"load", "add", "admitted", "rejected"},
   key : Key, counter : Request \cup {NoCounter}]

Run == [cutoff : Int, due : SUBSET Key, seen : SUBSET Key]

ASSUME RateAssumption ==
  /\ MaxRequests \in Nat
  /\ Limit \in Nat
  /\ Parsed \in [Session -> Int \cup {NoNumber}]
  /\ NoNumber \notin Int
  /\ NoCounter \notin Request
  /\ NoRequest \notin RequestRecord
  /\ NoSweep \notin Run
  /\ MaxMinute \in Nat

TypeOK ==
  /\ minute \in Minute
  /\ counters \in [Key -> Request \cup {NoCounter}]
  /\ count \in [Request -> Nat]
  /\ requests \in [Request -> RequestRecord \cup {NoRequest}]
  /\ sweep \in Run \cup {NoSweep}

Init ==
  /\ minute = 0
  /\ counters = [k \in Key |-> NoCounter]
  /\ count = [r \in Request |-> 0]
  /\ requests = [r \in Request |-> NoRequest]
  /\ sweep = NoSweep

At(r, label) == requests[r] # NoRequest /\ requests[r].pc = label

-----------------------------------------------------------------------------
(* Middleware. *)

\* The token has been checked; the window of the request is the minute now.
\* (A request without a session id would not be counted; Auth lets none pass.)
ReceiveRequest(r, s) ==
  /\ requests[r] = NoRequest
  /\ \A q \in 1..(r - 1) : requests[q] # NoRequest
  /\ requests' = [requests EXCEPT ![r] =
       [pc |-> "load", key |-> <<s, minute>>, counter |-> NoCounter]]
  /\ UNCHANGED <<minute, counters, count, sweep>>

\* Mutant: a Load and, if that finds nothing or not yet, a Store.
StoreCounter(r) ==
  /\ At(r, "load")
  /\ \E found \in {counters[requests[r].key], r} \ {NoCounter} :
       /\ counters' = [counters EXCEPT ![requests[r].key] = found]
       /\ requests' = [requests EXCEPT ![r].pc = "add", ![r].counter = found]
  /\ UNCHANGED <<minute, count, sweep>>

\* LoadOrStore(key, new(int64))
LoadOrStore(r) ==
  /\ At(r, "load")
  /\ LET stored == counters[requests[r].key]
         found == IF stored = NoCounter THEN r ELSE stored
     IN /\ counters' = [counters EXCEPT ![requests[r].key] = found]
        /\ requests' = [requests EXCEPT ![r].pc = "add", ![r].counter = found]
  /\ UNCHANGED <<minute, count, sweep>>

\* Mutant: the limit itself is refused.
decideStrict(n) == IF n >= Limit THEN "rejected" ELSE "admitted"

decide(n) == IF n > Limit THEN "rejected" ELSE "admitted"

\* atomic.AddInt64, and what follows from the value it returns.
Add(r) ==
  /\ At(r, "add")
  /\ LET c == requests[r].counter IN
       /\ count' = [count EXCEPT ![c] = @ + 1]
       /\ requests' = [requests EXCEPT ![r].pc = decide(count[c] + 1)]
  /\ UNCHANGED <<minute, counters, sweep>>

-----------------------------------------------------------------------------
(* The cleanup goroutine of NewRateLimiter. *)

CleanupTick ==
  /\ sweep = NoSweep
  /\ sweep' = [cutoff |-> minute - 2,
               due |-> {k \in Key : counters[k] # NoCounter}, seen |-> {}]
  /\ UNCHANGED <<minute, counters, count, requests>>

\* Mutant: the branches of the error test are swapped.
oldUnreadable(k) == Parsed[k[1]] = NoNumber

\* Mutant: the comparison is the wrong way round.
oldLater(k) == Parsed[k[1]] # NoNumber /\ Parsed[k[1]] > sweep.cutoff

(***************************************************************************)
(* What the cleanup takes for the minute of a key.  It reads a number from *)
(* the last 20 characters; the minute has 8 digits and a colon before it,  *)
(* so they begin with the last 11 characters of the session's UUID, and    *)
(* Sscanf stops at the first character of these that is no digit, or at    *)
(* the colon.  The number is one of the session: it has nothing to do with *)
(* the minute, and is none if the first of the 11 is a letter.             *)
(***************************************************************************)
old(k) == Parsed[k[1]] # NoNumber /\ Parsed[k[1]] < sweep.cutoff

\* Range calls the function for each key at most once: for every key that was
\* there at the start, and perhaps for keys stored since.
CleanupVisits(k) ==
  /\ sweep # NoSweep
  /\ counters[k] # NoCounter
  /\ k \notin sweep.seen
  /\ counters' = IF old(k) THEN [counters EXCEPT ![k] = NoCounter] ELSE counters
  /\ sweep' = [sweep EXCEPT !.due = @ \ {k}, !.seen = @ \cup {k}]
  /\ UNCHANGED <<minute, count, requests>>

CleanupEnds ==
  /\ sweep # NoSweep
  /\ sweep.due = {}
  /\ sweep' = NoSweep
  /\ UNCHANGED <<minute, counters, count, requests>>

MinutePasses ==
  /\ minute < MaxMinute
  /\ minute' = minute + 1
  /\ UNCHANGED <<counters, count, requests, sweep>>

Middleware(r) ==
  \/ \E s \in Session : ReceiveRequest(r, s)
  \/ LoadOrStore(r) \/ Add(r)

Cleanup == CleanupTick \/ (\E k \in Key : CleanupVisits(k)) \/ CleanupEnds

Next == (\E r \in Request : Middleware(r)) \/ Cleanup \/ MinutePasses

Spec == Init /\ [][Next]_vars

\* The ticker of the cleanup never stops, and its loop has no way out.
FairSpec == Spec /\ WF_vars(Cleanup)

-----------------------------------------------------------------------------
(* What must hold of the limit, whatever the interleaving. *)

\* The requests of a session admitted in (or for) a minute.
Admitted(k) == {r \in Request : At(r, "admitted") /\ requests[r].key = k}

\* The cleanup has found no reason yet to remove a counter of the session.
Untouched(s) == Parsed[s] = NoNumber \/ Parsed[s] >= minute - 2

(***************************************************************************)
(* No session gets more than Limit requests through in a minute, however   *)
(* its requests race to create and increment the counter and however late  *)
(* in the minute, or in the next, they get to it, unless the cleanup takes *)
(* the number in its session id for an expired minute.                     *)
(***************************************************************************)
LimitHolds ==
  \A k \in Key : Untouched(k[1]) => Cardinality(Admitted(k)) <= Limit

(***************************************************************************)
(* Nobody is refused too early: a request is answered 429 only if Limit    *)
(* requests of the same session and minute have been let through, whatever *)
(* counters the cleanup has removed.                                       *)
(***************************************************************************)
RejectedOnlyAtLimit ==
  \A r \in Request :
    At(r, "rejected") => Cardinality(Admitted(requests[r].key)) >= Limit

(***************************************************************************)
(* Counters whose session id reads as an early number all leave the map,   *)
(* also those stored while the cleanup runs.                               *)
(***************************************************************************)
EarlyNumbersLeave ==
  \A k \in Key :
    (counters[k] # NoCounter /\ ~Untouched(k[1])) ~> counters[k] = NoCounter

-----------------------------------------------------------------------------
(* Why it holds. *)

\* A counter is in the map under the key of the request that allocated it.
CountersAreOwned ==
  \A k \in Key : counters[k] # NoCounter =>
    /\ requests[counters[k]] # NoRequest
    /\ requests[counters[k]].key = k
    /\ requests[counters[k]].counter = counters[k]

\* A request has a counter allocated for its own session and minute, or none.
RequestsHaveCounters ==
  \A r \in Request : requests[r] # NoRequest =>
    LET c == requests[r].counter IN
      IF requests[r].pc = "load" THEN c = NoCounter
      ELSE /\ c # NoCounter
           /\ requests[c] # NoRequest
           /\ requests[c].counter = c
           /\ requests[c].key = requests[r].key

\* The requests a counter has let through.
AdmittedBy(c) == {r \in Request : At(r, "admitted") /\ requests[r].counter = c}

\* They are the first Limit that incremented it.
CountersCount ==
  \A c \in Request :
    Cardinality(AdmittedBy(c)) = IF count[c] <= Limit THEN count[c] ELSE Limit

\* A refused request saw its counter above the limit, where it stays.
RejectedAboveLimit ==
  \A r \in Request : At(r, "rejected") => count[requests[r].counter] > Limit

\* The cleanup's cutoff does not lie ahead of time.
CutoffIsPast == sweep # NoSweep => sweep.cutoff <= minute - 2

\* Such a session has one counter for each minute: the one in the map.
UntouchedHaveOneCounter ==
  \A r \in Request :
    /\ requests[r] # NoRequest
    /\ requests[r].counter = r
    /\ Untouched(requests[r].key[1])
    => counters[requests[r].key] = r

(***************************************************************************)
(* The inductive invariant: requests hold counters of their own key, and a *)
(* counter lets exactly its first Limit requests through.                  *)
(***************************************************************************)
IInv ==
  /\ TypeOK
  /\ CountersAreOwned /\ RequestsHaveCounters
  /\ CountersCount /\ RejectedAboveLimit
  /\ CutoffIsPast /\ UntouchedHaveOneCounter

-----------------------------------------------------------------------------
(* The steps of a request, taken for one. *)

Window == [r \in Request |-> IF requests[r] = NoRequest THEN NoRequest ELSE requests[r].key]

Verdict ==
  [r \in Request |->
     IF requests[r] = NoRequest THEN "unasked"
     ELSE IF requests[r].pc \in {"load", "add"} THEN "waiting"
     ELSE requests[r].pc]

Atomic == INSTANCE FixedWindow WITH
  window <- Window,
  verdict <- Verdict,
  excused <- {s \in Session : ~Untouched(s)}

(***************************************************************************)
(* The limiter without locks behaves as one that decides in a single step: *)
(* however requests race to allocate and increment a counter, and however  *)
(* late, each decision is right for the requests of its minute that were   *)
(* decided before, except for sessions whose counters the cleanup takes    *)
(* for expired, which may get more through.                                *)
(***************************************************************************)
ImplementsFixedWindow == Atomic!Spec

-----------------------------------------------------------------------------
(* What the repository says of the cleanup and the code does not do. *)

(***************************************************************************)
(* "Lazy cleanup: remove expired buckets every 2 minutes"                  *)
(* (middleware/ratelimit.go:20): the counter of the current minute, which  *)
(* cannot have expired, stays in the map.                                  *)
(***************************************************************************)
OnlyExpiredAreRemoved ==
  [][\A s \in Session :
       counters[<<s, minute>>] # NoCounter => counters'[<<s, minute>>] # NoCounter]_vars

=============================================================================
