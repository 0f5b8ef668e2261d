-------------------------- MODULE RateLimiterProofs --------------------------
(***************************************************************************)
(* Safety of RateLimiter, for any sessions, limit and numbers the cleanup  *)
(* may read from their keys.                                               *)
(***************************************************************************)
EXTENDS RateLimiter, FiniteSetTheorems, TLAPS

LEMMA RequestsFinite ==
  /\ IsFiniteSet(Request)
  /\ \A S \in SUBSET Request : IsFiniteSet(S) /\ Cardinality(S) \in Nat
<1>1. IsFiniteSet(Request)
  BY FS_Interval, RateAssumption DEF Request
<1> QED BY <1>1, FS_Subset, FS_CardinalityType

LEMMA InitInvariant == Init => IInv
<1> SUFFICES ASSUME Init PROVE IInv
  OBVIOUS
<1> USE RateAssumption
<1>1. TypeOK
  BY DEF Init, TypeOK, Minute
<1>2. CountersAreOwned /\ RequestsHaveCounters /\ RejectedAboveLimit /\ CutoffIsPast
      /\ UntouchedHaveOneCounter
  BY DEF Init, CountersAreOwned, RequestsHaveCounters, RejectedAboveLimit, CutoffIsPast,
         UntouchedHaveOneCounter, At, Key
<1>3. \A c \in Request : AdmittedBy(c) = {}
  BY DEF Init, AdmittedBy, At
<1>4. CountersCount
  BY <1>3, FS_EmptySet DEF Init, CountersCount
<1> QED BY <1>1, <1>2, <1>4 DEF IInv

-----------------------------------------------------------------------------
(* One lemma for each kind of step. *)

LEMMA ReceiveStep ==
  ASSUME IInv, NEW r \in Request, NEW s \in Session, ReceiveRequest(r, s) PROVE IInv'
<1> USE RateAssumption DEF IInv
<1> DEFINE new == [pc |-> "load", key |-> <<s, minute>>, counter |-> NoCounter]
<1>1. /\ requests[r] = NoRequest
      /\ requests' = [requests EXCEPT ![r] = new]
      /\ UNCHANGED <<minute, counters, count, sweep>>
  BY DEF ReceiveRequest
<1>2. new \in RequestRecord /\ new # NoRequest
  BY DEF RequestRecord, TypeOK, Key
<1>3. TypeOK'
  BY <1>1, <1>2 DEF TypeOK
<1>4. requests'[r] = new /\ \A q \in Request \ {r} : requests'[q] = requests[q]
  BY <1>1 DEF TypeOK
<1> HIDE DEF new
<1>5. new.pc = "load" /\ new.counter = NoCounter
  BY DEF new
<1>6. CountersAreOwned'
  BY <1>1, <1>4 DEF CountersAreOwned, TypeOK
<1>7. RequestsHaveCounters'
  BY <1>1, <1>2, <1>4, <1>5 DEF RequestsHaveCounters, TypeOK, RequestRecord
<1>8. \A c \in Request : AdmittedBy(c)' = AdmittedBy(c)
  BY <1>1, <1>2, <1>4, <1>5 DEF AdmittedBy, At
<1>9. CountersCount'
  BY <1>1, <1>8 DEF CountersCount
<1>10. RejectedAboveLimit' /\ CutoffIsPast'
  BY <1>1, <1>2, <1>4, <1>5 DEF RejectedAboveLimit, CutoffIsPast, At
<1>11. UntouchedHaveOneCounter'
  BY <1>1, <1>2, <1>4, <1>5 DEF UntouchedHaveOneCounter, Untouched
<1> QED BY <1>3, <1>6, <1>7, <1>9, <1>10, <1>11

LEMMA LoadOrStoreStep ==
  ASSUME IInv, NEW r \in Request, LoadOrStore(r) PROVE IInv'
<1> USE RateAssumption DEF IInv
<1> DEFINE k == requests[r].key
           found == IF counters[k] = NoCounter THEN r ELSE counters[k]
           new == [requests[r] EXCEPT !.pc = "add", !.counter = found]
<1>1. /\ requests[r] # NoRequest /\ requests[r].pc = "load"
      /\ requests[r] \in RequestRecord /\ k \in Key
      /\ counters' = [counters EXCEPT ![k] = found]
      /\ requests' = [requests EXCEPT ![r] = new]
      /\ UNCHANGED <<minute, count, sweep>>
  BY DEF LoadOrStore, At, TypeOK, RequestRecord
<1>2. found \in Request
  BY <1>1 DEF TypeOK
<1>3. /\ new \in RequestRecord /\ new # NoRequest
      /\ new.pc = "add" /\ new.counter = found /\ new.key = k
  BY <1>1, <1>2 DEF RequestRecord
<1>4. TypeOK'
  BY <1>1, <1>2, <1>3 DEF TypeOK
<1>5. /\ requests'[r] = new /\ \A q \in Request \ {r} : requests'[q] = requests[q]
      /\ counters'[k] = found /\ \A l \in Key \ {k} : counters'[l] = counters[l]
  BY <1>1 DEF TypeOK
\* Nobody holds a counter of r yet, and none is in the map.
<1>6. requests[r].counter = NoCounter
  BY <1>1 DEF RequestsHaveCounters
<1>7. \A l \in Key : counters[l] # r
  BY <1>6 DEF CountersAreOwned
<1>8. \A q \in Request : requests[q] # NoRequest => requests[q].counter # r
  BY <1>6 DEF RequestsHaveCounters
<1>9. counters[k] # NoCounter =>
        /\ found # r /\ requests[found] # NoRequest
        /\ requests[found].key = k /\ requests[found].counter = found
  BY <1>1, <1>7 DEF CountersAreOwned
<1>10. /\ requests'[found] # NoRequest
       /\ requests'[found].key = k /\ requests'[found].counter = found
  BY <1>2, <1>3, <1>5, <1>9
<1> HIDE DEF new, found, k
<1>11. CountersAreOwned'
  <2> SUFFICES ASSUME NEW l \in Key, counters'[l] # NoCounter
               PROVE  /\ requests'[counters'[l]] # NoRequest
                      /\ requests'[counters'[l]].key = l
                      /\ requests'[counters'[l]].counter = counters'[l]
    BY DEF CountersAreOwned
  <2>1. CASE l = k
    BY <2>1, <1>5, <1>10
  <2>2. CASE l # k
    <3>1. counters'[l] = counters[l] /\ counters[l] \in Request \ {r}
      BY <2>2, <1>5, <1>7 DEF TypeOK
    <3> QED BY <3>1, <1>5 DEF CountersAreOwned
  <2> QED BY <2>1, <2>2
<1>12. RequestsHaveCounters'
  <2> SUFFICES ASSUME NEW q \in Request, requests'[q] # NoRequest
               PROVE  LET c == requests'[q].counter IN
                        IF requests'[q].pc = "load" THEN c = NoCounter
                        ELSE /\ c # NoCounter
                             /\ requests'[c] # NoRequest
                             /\ requests'[c].counter = c
                             /\ requests'[c].key = requests'[q].key
    BY DEF RequestsHaveCounters
  <2>1. CASE q = r
    BY <2>1, <1>2, <1>3, <1>5, <1>10
  <2>2. CASE q # r
    <3>1. requests'[q] = requests[q] /\ requests[q] \in RequestRecord
      BY <2>2, <1>5 DEF TypeOK
    <3>2. CASE requests[q].pc = "load"
      BY <3>1, <3>2 DEF RequestsHaveCounters
    <3>3. CASE requests[q].pc # "load"
      <4>1. requests[q].counter \in Request \ {r}
        BY <3>1, <3>3, <1>8 DEF RequestsHaveCounters, RequestRecord
      <4> QED BY <3>1, <3>3, <4>1, <1>5 DEF RequestsHaveCounters
    <3> QED BY <3>2, <3>3
  <2> QED BY <2>1, <2>2
<1>13. \A c \in Request : AdmittedBy(c)' = AdmittedBy(c)
  BY <1>1, <1>3, <1>5 DEF AdmittedBy, At
<1>14. CountersCount'
  BY <1>1, <1>13 DEF CountersCount
<1>15. RejectedAboveLimit' /\ CutoffIsPast'
  BY <1>1, <1>3, <1>5 DEF RejectedAboveLimit, CutoffIsPast, At
<1>16. UntouchedHaveOneCounter'
  <2> SUFFICES ASSUME NEW q \in Request, requests'[q] # NoRequest,
                      requests'[q].counter = q, Untouched(requests'[q].key[1])
               PROVE  counters'[requests'[q].key] = q
    BY <1>1 DEF UntouchedHaveOneCounter, Untouched
  <2>1. CASE q = r
    BY <2>1, <1>3, <1>5
  <2>2. CASE q # r
    <3>1. requests'[q] = requests[q] /\ requests[q].key \in Key
      BY <2>2, <1>5 DEF TypeOK, RequestRecord
    <3>2. counters[requests[q].key] = q
      BY <3>1 DEF UntouchedHaveOneCounter, TypeOK
    <3>3. CASE requests[q].key = k
      BY <3>1, <3>2, <3>3, <1>5 DEF found
    <3>4. CASE requests[q].key # k
      BY <3>1, <3>2, <3>4, <1>5
    <3> QED BY <3>3, <3>4
  <2> QED BY <2>1, <2>2
<1> QED BY <1>4, <1>11, <1>12, <1>14, <1>15, <1>16

LEMMA AddStep ==
  ASSUME IInv, NEW r \in Request, Add(r) PROVE IInv'
<1> USE RateAssumption DEF IInv
<1>0. /\ requests[r] # NoRequest /\ requests[r].pc = "add"
      /\ requests[r] \in RequestRecord
  BY DEF Add, At, TypeOK
<1>1. PICK c \in Request : c = requests[r].counter
  BY <1>0 DEF RequestsHaveCounters, RequestRecord
<1> DEFINE new == [requests[r] EXCEPT !.pc = decide(count[c] + 1)]
<1>2. /\ count' = [count EXCEPT ![c] = @ + 1]
      /\ requests' = [requests EXCEPT ![r] = new]
      /\ UNCHANGED <<minute, counters, sweep>>
  BY <1>0, <1>1 DEF Add
<1>3. /\ count[c] \in Nat /\ count'[c] = count[c] + 1
      /\ \A d \in Request \ {c} : count'[d] = count[d]
  BY <1>2 DEF TypeOK
<1>4. /\ new \in RequestRecord /\ new # NoRequest
      /\ new.pc = decide(count[c] + 1) /\ new.counter = c /\ new.key = requests[r].key
  BY <1>0, <1>1 DEF RequestRecord, decide
<1>5. TypeOK'
  BY <1>2, <1>3, <1>4 DEF TypeOK
<1>6. requests'[r] = new /\ \A q \in Request \ {r} : requests'[q] = requests[q]
  BY <1>2 DEF TypeOK
<1>7. \A q \in Request :
        /\ requests'[q] # NoRequest <=> requests[q] # NoRequest
        /\ requests[q] # NoRequest =>
             /\ requests'[q].key = requests[q].key
             /\ requests'[q].counter = requests[q].counter
             /\ requests'[q].pc = "load" <=> requests[q].pc = "load"
  <2>1. decide(count[c] + 1) # "load"
    BY DEF decide
  <2> QED BY <2>1, <1>0, <1>1, <1>4, <1>6
<1> HIDE DEF new
<1>8. CountersAreOwned'
  BY <1>2, <1>7 DEF CountersAreOwned, TypeOK
<1>9. RequestsHaveCounters'
  <2> SUFFICES ASSUME NEW q \in Request, requests'[q] # NoRequest
               PROVE  LET d == requests'[q].counter IN
                        IF requests'[q].pc = "load" THEN d = NoCounter
                        ELSE /\ d # NoCounter
                             /\ requests'[d] # NoRequest
                             /\ requests'[d].counter = d
                             /\ requests'[d].key = requests'[q].key
    BY DEF RequestsHaveCounters
  <2>1. requests[q] \in RequestRecord
    BY <1>7 DEF TypeOK
  <2>2. requests[q].pc # "load" => requests[q].counter \in Request
    BY <2>1, <1>7 DEF RequestsHaveCounters, RequestRecord
  <2> QED BY <2>2, <1>7 DEF RequestsHaveCounters
<1>10. \A d \in Request \ {c} : AdmittedBy(d)' = AdmittedBy(d)
  BY <1>0, <1>1, <1>4, <1>6 DEF AdmittedBy, At
<1>11. r \notin AdmittedBy(c)
  BY <1>0 DEF AdmittedBy, At
<1>12. AdmittedBy(c)' =
         IF count[c] + 1 > Limit THEN AdmittedBy(c) ELSE AdmittedBy(c) \cup {r}
  <2>1. r \in AdmittedBy(c)' <=> ~(count[c] + 1 > Limit)
    BY <1>0, <1>1, <1>4, <1>6 DEF AdmittedBy, At, decide
  <2>2. \A q \in Request \ {r} : q \in AdmittedBy(c)' <=> q \in AdmittedBy(c)
    BY <1>6 DEF AdmittedBy, At
  <2>3. AdmittedBy(c)' \subseteq Request /\ AdmittedBy(c) \subseteq Request
    BY DEF AdmittedBy
  <2> QED BY <2>1, <2>2, <2>3, <1>11
<1>13. AdmittedBy(c) \in SUBSET Request
  BY DEF AdmittedBy
<1>14. CountersCount'
  <2>1. \A d \in Request \ {c} :
          Cardinality(AdmittedBy(d)') = IF count'[d] <= Limit THEN count'[d] ELSE Limit
    BY <1>3, <1>10 DEF CountersCount
  <2>2. IsFiniteSet(AdmittedBy(c))
    BY <1>13, RequestsFinite
  <2>3. Cardinality(AdmittedBy(c) \cup {r}) = Cardinality(AdmittedBy(c)) + 1
    BY <1>11, <2>2, FS_AddElement
  <2>4. Cardinality(AdmittedBy(c)) = IF count[c] <= Limit THEN count[c] ELSE Limit
    BY DEF CountersCount
  <2>5. Cardinality(AdmittedBy(c)') = IF count'[c] <= Limit THEN count'[c] ELSE Limit
    BY <2>3, <2>4, <1>3, <1>12
  <2> QED BY <2>1, <2>5 DEF CountersCount
<1>15. RejectedAboveLimit'
  <2> SUFFICES ASSUME NEW q \in Request, requests'[q] # NoRequest, requests'[q].pc = "rejected"
               PROVE  count'[requests'[q].counter] > Limit
    BY DEF RejectedAboveLimit, At
  <2>1. CASE q = r
    BY <2>1, <1>3, <1>4, <1>6 DEF decide
  <2>2. CASE q # r
    <3>1. requests'[q] = requests[q] /\ count[requests[q].counter] > Limit
      BY <2>2, <1>6 DEF RejectedAboveLimit, At
    <3>2. requests[q] \in RequestRecord
      BY <3>1 DEF TypeOK
    <3>3. requests[q].counter \in Request
      BY <3>1, <3>2 DEF RequestsHaveCounters, RequestRecord
    <3> QED BY <3>1, <3>3, <1>3
  <2> QED BY <2>1, <2>2
<1>16. CutoffIsPast'
  BY <1>2 DEF CutoffIsPast
<1>17. UntouchedHaveOneCounter'
  BY <1>2, <1>7 DEF UntouchedHaveOneCounter, Untouched
<1> QED BY <1>5, <1>8, <1>9, <1>14, <1>15, <1>16, <1>17

\* Nothing but the minute, the map and the cleanup's run changes.
LEMMA CleanupStep ==
  ASSUME IInv, Cleanup \/ MinutePasses PROVE IInv'
<1> USE RateAssumption DEF IInv
<1>1. requests' = requests /\ count' = count
  BY DEF Cleanup, CleanupTick, CleanupVisits, CleanupEnds, MinutePasses
<1>2. /\ RequestsHaveCounters' /\ RejectedAboveLimit'
      /\ \A c \in Request : AdmittedBy(c)' = AdmittedBy(c)
  BY <1>1 DEF RequestsHaveCounters, RejectedAboveLimit, AdmittedBy, At
<1>3. CountersCount'
  BY <1>1, <1>2 DEF CountersCount
<1>4. CASE CleanupTick
  <2>1. TypeOK'
    BY <1>4 DEF CleanupTick, TypeOK, Run, Minute
  <2>2. CutoffIsPast'
    BY <1>4 DEF CleanupTick, CutoffIsPast, TypeOK, Minute
  <2>3. CountersAreOwned' /\ UntouchedHaveOneCounter'
    BY <1>4 DEF CleanupTick, CountersAreOwned, UntouchedHaveOneCounter, Untouched
  <2> QED BY <1>2, <1>3, <2>1, <2>2, <2>3
<1>5. ASSUME NEW k \in Key, CleanupVisits(k) PROVE IInv'
  <2>1. /\ sweep \in Run /\ sweep.cutoff <= minute - 2 /\ minute' = minute
        /\ sweep' = [sweep EXCEPT !.due = @ \ {k}, !.seen = @ \cup {k}]
    BY <1>5 DEF CleanupVisits, CutoffIsPast, TypeOK
  <2>2. sweep' \in Run /\ sweep'.cutoff = sweep.cutoff
    BY <2>1 DEF Run
  <2>3. /\ counters' \in [Key -> Request \cup {NoCounter}]
        /\ \A l \in Key \ {k} : counters'[l] = counters[l]
        /\ counters'[k] = IF old(k) THEN NoCounter ELSE counters[k]
    BY <1>5 DEF CleanupVisits, TypeOK
  <2>4. TypeOK'
    BY <1>1, <2>1, <2>2, <2>3 DEF TypeOK
  <2>5. CutoffIsPast'
    BY <2>1, <2>2 DEF CutoffIsPast
  <2>6. CountersAreOwned'
    BY <1>1, <2>3 DEF CountersAreOwned
  \* The cleanup does not remove a counter of an untouched session.
  <2>7. Untouched(k[1]) => ~old(k)
    <3>1. k[1] \in Session
      BY DEF Key
    <3> QED BY <2>1, <3>1 DEF Untouched, old, Run, TypeOK, Minute
  <2>8. UntouchedHaveOneCounter'
    <3> SUFFICES ASSUME NEW q \in Request, requests[q] # NoRequest,
                        requests[q].counter = q, Untouched(requests[q].key[1])
                 PROVE  counters'[requests[q].key] = q
      BY <1>1, <2>1 DEF UntouchedHaveOneCounter, Untouched
    <3>1. counters[requests[q].key] = q /\ requests[q].key \in Key
      BY DEF UntouchedHaveOneCounter, TypeOK, RequestRecord
    <3> QED BY <3>1, <2>3, <2>7
  <2> QED BY <1>2, <1>3, <2>4, <2>5, <2>6, <2>8
<1>6. CASE CleanupEnds
  <2>1. TypeOK' /\ CutoffIsPast' /\ CountersAreOwned' /\ UntouchedHaveOneCounter'
    BY <1>6 DEF CleanupEnds, TypeOK, CutoffIsPast, CountersAreOwned,
                UntouchedHaveOneCounter, Untouched
  <2> QED BY <1>2, <1>3, <2>1
<1>7. CASE MinutePasses
  <2>1. minute \in Nat /\ minute' = minute + 1 /\ minute' \in Minute
    BY <1>7 DEF MinutePasses, TypeOK, Minute
  <2>2. TypeOK' /\ CountersAreOwned'
    BY <1>7, <2>1 DEF MinutePasses, TypeOK, CountersAreOwned
  <2>3. CutoffIsPast'
    <3>1. sweep # NoSweep => sweep.cutoff \in Int
      BY DEF TypeOK, Run
    <3> QED BY <1>7, <2>1, <3>1 DEF MinutePasses, CutoffIsPast
  <2>4. \A s \in Session : Untouched(s)' => Untouched(s)
    BY <2>1 DEF Untouched
  <2>5. \A q \in Request : requests[q] # NoRequest => requests[q].key[1] \in Session
    BY DEF TypeOK, RequestRecord, Key
  <2>6. UntouchedHaveOneCounter'
    BY <1>7, <2>4, <2>5 DEF MinutePasses, UntouchedHaveOneCounter
  <2> QED BY <1>2, <1>3, <2>2, <2>3, <2>6
<1> QED BY <1>4, <1>5, <1>6, <1>7 DEF Cleanup

\* The invariant holds in every reachable state.
THEOREM Inductive == Spec => []IInv
<1>1. IInv /\ [Next]_vars => IInv'
  <2> SUFFICES ASSUME IInv, [Next]_vars PROVE IInv'
    OBVIOUS
  <2>1. ASSUME NEW r \in Request, Middleware(r) PROVE IInv'
    BY <2>1, ReceiveStep, LoadOrStoreStep, AddStep DEF Middleware
  <2>2. CASE Cleanup \/ MinutePasses
    BY <2>2, CleanupStep
  <2>3. CASE UNCHANGED vars
    BY <2>3 DEF vars, IInv, TypeOK, CountersAreOwned, RequestsHaveCounters, CountersCount,
                AdmittedBy, At, RejectedAboveLimit, CutoffIsPast,
                UntouchedHaveOneCounter, Untouched
  <2> QED BY <2>1, <2>2, <2>3 DEF Next
<1> QED BY <1>1, InitInvariant, PTL DEF Spec

-----------------------------------------------------------------------------
(* The limit. *)

LEMMA AdmittedSets ==
  ASSUME IInv, NEW k \in Key, NEW c \in Request,
         requests[c] # NoRequest, requests[c].counter = c, requests[c].key = k
  PROVE  /\ AdmittedBy(c) \subseteq Admitted(k)
         /\ Untouched(k[1]) => Admitted(k) = AdmittedBy(c)
<1> USE RateAssumption DEF IInv
<1>1. AdmittedBy(c) \subseteq Admitted(k)
  BY DEF AdmittedBy, Admitted, At, RequestsHaveCounters
<1>2. ASSUME Untouched(k[1]), NEW r \in Admitted(k) PROVE r \in AdmittedBy(c)
  <2>1. r \in Request /\ At(r, "admitted") /\ requests[r].key = k
    BY <1>2 DEF Admitted
  <2>2. requests[r] \in RequestRecord
    BY <2>1 DEF At, TypeOK
  <2>3. PICK d \in Request : /\ d = requests[r].counter /\ requests[d] # NoRequest
                             /\ requests[d].counter = d /\ requests[d].key = k
    BY <2>1, <2>2 DEF At, RequestsHaveCounters, RequestRecord
  <2>4. counters[k] = d /\ counters[k] = c
    BY <1>2, <2>3 DEF UntouchedHaveOneCounter
  <2> QED BY <2>1, <2>3, <2>4 DEF AdmittedBy
<1> QED BY <1>1, <1>2

\* No more than Limit requests in a minute, unless the session's counters are
\* taken for expired ones.
THEOREM LimitKept == Spec => []LimitHolds
<1>1. IInv => LimitHolds
  <2> SUFFICES ASSUME IInv, NEW k \in Key, Untouched(k[1])
               PROVE  Cardinality(Admitted(k)) <= Limit
    BY DEF LimitHolds
  <2> USE RateAssumption
  <2>1. CASE Admitted(k) = {}
    BY <2>1, FS_EmptySet
  <2>2. ASSUME NEW r \in Admitted(k) PROVE Cardinality(Admitted(k)) <= Limit
    <3>1. r \in Request /\ At(r, "admitted") /\ requests[r].key = k
      BY <2>2 DEF Admitted
    <3>2. requests[r] \in RequestRecord
      BY <3>1 DEF At, TypeOK, IInv
    <3>3. PICK c \in Request : /\ requests[c] # NoRequest
                               /\ requests[c].counter = c /\ requests[c].key = k
      BY <3>1, <3>2 DEF At, IInv, RequestsHaveCounters, RequestRecord
    <3>4. Admitted(k) = AdmittedBy(c)
      BY <3>3, AdmittedSets
    <3>5. Cardinality(AdmittedBy(c)) = IF count[c] <= Limit THEN count[c] ELSE Limit
      BY DEF IInv, CountersCount
    <3> QED BY <3>4, <3>5 DEF IInv, TypeOK
  <2> QED BY <2>1, <2>2
<1> QED BY <1>1, Inductive, PTL

\* A refusal means that Limit requests were let through.
THEOREM RefusalsJustified == Spec => []RejectedOnlyAtLimit
<1>1. IInv => RejectedOnlyAtLimit
  <2> SUFFICES ASSUME IInv, NEW r \in Request, At(r, "rejected")
               PROVE  Cardinality(Admitted(requests[r].key)) >= Limit
    BY DEF RejectedOnlyAtLimit
  <2> USE RateAssumption
  <2>1. requests[r] \in RequestRecord /\ requests[r].key \in Key
    BY DEF At, TypeOK, IInv, RequestRecord
  <2>2. PICK c \in Request :
          /\ c = requests[r].counter /\ requests[c] # NoRequest
          /\ requests[c].counter = c /\ requests[c].key = requests[r].key
    BY <2>1 DEF At, IInv, RequestsHaveCounters, RequestRecord
  <2>3. AdmittedBy(c) \subseteq Admitted(requests[r].key)
    BY <2>1, <2>2, AdmittedSets
  <2>4. count[c] > Limit /\ count[c] \in Nat
    BY <2>2 DEF IInv, RejectedAboveLimit, TypeOK
  <2>5. Cardinality(AdmittedBy(c)) = Limit
    BY <2>4 DEF IInv, CountersCount
  <2>6. Admitted(requests[r].key) \in SUBSET Request
    BY DEF Admitted
  <2>7. IsFiniteSet(Admitted(requests[r].key)) /\ Cardinality(Admitted(requests[r].key)) \in Nat
    BY <2>6, RequestsFinite
  <2>8. Cardinality(AdmittedBy(c)) <= Cardinality(Admitted(requests[r].key))
    BY <2>3, <2>7, FS_Subset
  <2> QED BY <2>5, <2>7, <2>8
<1> QED BY <1>1, Inductive, PTL

-----------------------------------------------------------------------------
(* Every decision is right at once. *)

LEMMA WindowVerdict ==
  ASSUME NEW r \in Request
  PROVE  /\ Window[r] = (IF requests[r] = NoRequest THEN NoRequest ELSE requests[r].key)
         /\ Verdict[r] = (IF requests[r] = NoRequest THEN "unasked"
                          ELSE IF requests[r].pc \in {"load", "add"} THEN "waiting"
                          ELSE requests[r].pc)
  BY DEF Window, Verdict

LEMMA NothingNew ==
  ASSUME NEW r \in Request
  PROVE  /\ Window' = [Window EXCEPT ![r] = Window[r]] => Window' = Window
         /\ Verdict' = [Verdict EXCEPT ![r] = Verdict[r]] => Verdict' = Verdict
<1>1. ASSUME NEW f, NEW S, f = [q \in S |-> f[q]], NEW x \in S
      PROVE  [f EXCEPT ![x] = f[x]] = f
  BY <1>1
<1>2. Window = [q \in Request |-> Window[q]] /\ Verdict = [q \in Request |-> Verdict[q]]
  BY DEF Window, Verdict
<1> QED BY <1>1, <1>2

\* Only the request itself changes.
LEMMA OneRequest ==
  ASSUME NEW r \in Request, NEW record, requests' = [requests EXCEPT ![r] = record],
         requests \in [Request -> RequestRecord \cup {NoRequest}], record # NoRequest
  PROVE  /\ Window' = [Window EXCEPT ![r] = record.key]
         /\ Verdict' = [Verdict EXCEPT ![r] = IF record.pc \in {"load", "add"} THEN "waiting"
                                              ELSE record.pc]
<1>1. \A q \in Request : requests'[q] = IF q = r THEN record ELSE requests[q]
  OBVIOUS
<1> QED BY <1>1 DEF Window, Verdict

LEMMA ExcusedGrow ==
  ASSUME TypeOK
  PROVE  /\ UNCHANGED minute => UNCHANGED {s \in Session : ~Untouched(s)}
         /\ minute' = minute + 1 =>
              {s \in Session : ~Untouched(s)} \subseteq {s \in Session : ~Untouched(s)}'
<1>1. ASSUME UNCHANGED minute PROVE UNCHANGED {s \in Session : ~Untouched(s)}
  BY <1>1 DEF Untouched
<1>2. ASSUME minute' = minute + 1, NEW s \in Session, ~Untouched(s) PROVE ~Untouched(s)'
  <2>1. Parsed[s] # NoNumber /\ Parsed[s] \in Int /\ minute \in Int
    BY <1>2, RateAssumption DEF Untouched, TypeOK, Minute
  <2> QED BY <1>2, <2>1 DEF Untouched
<1> QED BY <1>1, <1>2

LEMMA PassedAreAdmitted ==
  ASSUME TypeOK, NEW r \in Request, requests[r] # NoRequest
  PROVE  Atomic!Passed(r) = Admitted(requests[r].key)
<1>1. ASSUME NEW q \in Request
      PROVE  Window[q] = Window[r] /\ Verdict[q] = "admitted"
               <=> At(q, "admitted") /\ requests[q].key = requests[r].key
  BY WindowVerdict DEF At
<1> QED BY <1>1 DEF Atomic!Passed, Admitted

\* FixedWindow counts with the Cardinality of its own FiniteSets.
LEMMA SameCardinality == \A S : Atomic!Cardinality(S) = Cardinality(S)
  BY DEF Atomic!Cardinality, Cardinality, Atomic!IsFiniteSet, IsFiniteSet

LEMMA AddDecides ==
  ASSUME IInv, NEW r \in Request, Add(r)
  PROVE  Atomic!Admit(r) \/ Atomic!Reject(r)
<1> USE RateAssumption
<1> DEFINE c == requests[r].counter
           k == requests[r].key
           record == [requests[r] EXCEPT !.pc = decide(count[c] + 1)]
<1>1. /\ requests[r] # NoRequest /\ requests[r].pc = "add" /\ requests[r] \in RequestRecord
      /\ requests' = [requests EXCEPT ![r] = record]
      /\ UNCHANGED minute
  BY DEF Add, At, IInv, TypeOK
<1>2. record \in RequestRecord /\ record.pc = decide(count[c] + 1) /\ record.key = k
  BY <1>1 DEF RequestRecord, decide
<1>3. /\ k \in Key /\ k[1] \in Session /\ c \in Request
      /\ requests[c] # NoRequest /\ requests[c].counter = c /\ requests[c].key = k
  BY <1>1 DEF IInv, RequestsHaveCounters, RequestRecord, Key
<1>4. AdmittedBy(c) \subseteq Admitted(k) /\ (Untouched(k[1]) => Admitted(k) = AdmittedBy(c))
  BY <1>3, AdmittedSets
<1>5. /\ count[c] \in Nat
      /\ Cardinality(AdmittedBy(c)) = IF count[c] <= Limit THEN count[c] ELSE Limit
  BY <1>3 DEF IInv, TypeOK, CountersCount
<1>6. IsFiniteSet(Admitted(k)) /\ Cardinality(Admitted(k)) \in Nat
  BY RequestsFinite DEF Admitted
<1>7. Cardinality(AdmittedBy(c)) <= Cardinality(Admitted(k))
  BY <1>4, <1>6, FS_Subset
<1>8. Window[r] = k /\ Verdict[r] = "waiting" /\ Atomic!Passed(r) = Admitted(k)
  BY <1>1, WindowVerdict, PassedAreAdmitted DEF IInv
<1> HIDE DEF c, k, record
<1>9. /\ Window' = [Window EXCEPT ![r] = k]
      /\ Verdict' = [Verdict EXCEPT ![r] = decide(count[c] + 1)]
  <2>1. record # NoRequest /\ requests \in [Request -> RequestRecord \cup {NoRequest}]
    BY <1>2 DEF IInv, TypeOK
  <2>2. record.pc \notin {"load", "add"}
    BY <1>2 DEF decide
  <2> QED BY <1>1, <1>2, <2>1, <2>2, OneRequest
<1>10. Window' = Window
  BY <1>8, <1>9, NothingNew
<1>11. UNCHANGED {s \in Session : ~Untouched(s)}
  BY <1>1, ExcusedGrow DEF IInv
<1>12. CASE count[c] + 1 > Limit
  <2>1. Cardinality(Admitted(k)) >= Limit
    BY <1>5, <1>6, <1>7, <1>12
  <2>2. decide(count[c] + 1) = "rejected"
    BY <1>12 DEF decide
  <2>3. Atomic!Decide(r, "rejected")
    BY <1>1, <1>8, <1>9, <1>10, <1>11, <2>2 DEF Atomic!Decide
  <2> QED BY <1>8, <2>1, <2>3, SameCardinality DEF Atomic!Reject
<1>13. CASE ~(count[c] + 1 > Limit)
  <2>1. Untouched(k[1]) => Cardinality(Admitted(k)) < Limit
    BY <1>4, <1>5, <1>13
  <2>2. decide(count[c] + 1) = "admitted"
    BY <1>13 DEF decide
  <2>3. Atomic!Decide(r, "admitted")
    BY <1>1, <1>8, <1>9, <1>10, <1>11, <2>2 DEF Atomic!Decide
  <2>4. k[1] \in {s \in Session : ~Untouched(s)} \/ Cardinality(Atomic!Passed(r)) < Limit
    BY <1>3, <1>8, <2>1
  <2> QED BY <1>8, <2>3, <2>4, SameCardinality DEF Atomic!Admit
<1> QED BY <1>12, <1>13

LEMMA AtomicStep ==
  ASSUME IInv, [Next]_vars
  PROVE  [Atomic!Next]_Atomic!windowVars
<1> USE RateAssumption
<1>0. TypeOK /\ requests \in [Request -> RequestRecord \cup {NoRequest}]
  BY DEF IInv, TypeOK
<1>1. ASSUME NEW r \in Request, NEW s \in Session, ReceiveRequest(r, s)
      PROVE  Atomic!Ask(r, s)
  <2> DEFINE new == [pc |-> "load", key |-> <<s, minute>>, counter |-> NoCounter]
  <2>1. /\ requests[r] = NoRequest /\ requests' = [requests EXCEPT ![r] = new]
        /\ UNCHANGED minute
    BY <1>1 DEF ReceiveRequest
  <2>2. new \in RequestRecord
    BY <1>0 DEF RequestRecord, Key, TypeOK
  <2>3. new # NoRequest /\ new.pc = "load" /\ new.key = <<s, minute>>
    BY <2>2
  <2> HIDE DEF new
  <2>4. /\ Window' = [Window EXCEPT ![r] = <<s, minute>>]
        /\ Verdict' = [Verdict EXCEPT ![r] = "waiting"]
    BY <1>0, <2>1, <2>3, OneRequest
  <2>5. Verdict[r] = "unasked"
    BY <2>1, WindowVerdict
  <2> QED BY <1>0, <2>1, <2>4, <2>5, ExcusedGrow DEF Atomic!Ask
<1>2. ASSUME NEW r \in Request, LoadOrStore(r) PROVE UNCHANGED Atomic!windowVars
  <2> DEFINE stored == counters[requests[r].key]
             found == IF stored = NoCounter THEN r ELSE stored
             record == [requests[r] EXCEPT !.pc = "add", !.counter = found]
  <2>1. /\ requests[r] # NoRequest /\ requests[r].pc = "load" /\ requests[r] \in RequestRecord
        /\ requests' = [requests EXCEPT ![r] = record]
        /\ UNCHANGED minute
    BY <1>0, <1>2 DEF LoadOrStore, At
  <2>2. found \in Request
    BY <1>0, <2>1 DEF TypeOK, RequestRecord
  <2>3. record \in RequestRecord /\ record.pc = "add" /\ record.key = requests[r].key
    BY <2>1, <2>2 DEF RequestRecord
  <2> HIDE DEF record
  <2>4. /\ Window' = [Window EXCEPT ![r] = requests[r].key]
        /\ Verdict' = [Verdict EXCEPT ![r] = "waiting"]
    BY <1>0, <2>1, <2>3, OneRequest
  <2>5. Window[r] = requests[r].key /\ Verdict[r] = "waiting"
    BY <2>1, WindowVerdict
  <2>6. Window' = Window /\ Verdict' = Verdict
    BY <2>4, <2>5, NothingNew
  <2> QED BY <1>0, <2>1, <2>6, ExcusedGrow DEF Atomic!windowVars
<1>3. CASE MinutePasses
  <2>1. Window' = Window /\ Verdict' = Verdict
    BY <1>3 DEF MinutePasses, Window, Verdict
  <2>2. Atomic!MinutePasses
    BY <1>0, <1>3, <2>1, ExcusedGrow DEF MinutePasses, Atomic!MinutePasses
  <2> QED BY <2>2 DEF Atomic!Next
<1>4. CASE Cleanup \/ UNCHANGED vars
  <2>1. UNCHANGED <<minute, requests>>
    BY <1>4 DEF Cleanup, CleanupTick, CleanupVisits, CleanupEnds, vars
  <2>2. Window' = Window /\ Verdict' = Verdict
    BY <2>1 DEF Window, Verdict
  <2> QED BY <1>0, <2>1, <2>2, ExcusedGrow DEF Atomic!windowVars
<1> QED BY <1>1, <1>2, <1>3, <1>4, AddDecides DEF Next, Middleware, Atomic!Next

LEMMA AtomicInit == Init => Atomic!Init
  BY DEF Init, Atomic!Init, Window, Verdict

(***************************************************************************)
(* LoadOrStore, the atomic increment and the comparison with the limit are *)
(* together one decision, for any sessions and requests: the lock-free     *)
(* limiter cannot be told from one that counts under a lock, as long as    *)
(* the cleanup finds no early number in the session's id.                  *)
(***************************************************************************)
THEOREM FixedWindowImplemented == Spec => ImplementsFixedWindow
<1>1. IInv /\ [Next]_vars => [Atomic!Next]_Atomic!windowVars
  BY AtomicStep
<1> QED BY <1>1, AtomicInit, Inductive, PTL DEF Spec, ImplementsFixedWindow, Atomic!Spec

=============================================================================
