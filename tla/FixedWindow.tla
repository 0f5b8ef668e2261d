----------------------------- MODULE FixedWindow -----------------------------
(***************************************************************************)
(* What the rate limiter promises, without counters, a map or its cleanup: *)
(* each request counts in the minute in which it comes in, whenever it is  *)
(* decided, and the decision is one step, which looks at the requests let  *)
(* through so far.  Excused sessions may get more through, never less.     *)
(***************************************************************************)
EXTENDS Integers, FiniteSets

CONSTANTS Session, Request, Limit, NoRequest

VARIABLES
  minute,
  window,   \* of each request: its session and minute
  verdict,  \* on each request
  excused   \* sessions

windowVars == <<minute, window, verdict, excused>>

Init ==
  /\ minute = 0
  /\ window = [r \in Request |-> NoRequest]
  /\ verdict = [r \in Request |-> "unasked"]
  /\ excused \in SUBSET Session

Ask(r, s) ==
  /\ verdict[r] = "unasked"
  /\ window' = [window EXCEPT ![r] = <<s, minute>>]
  /\ verdict' = [verdict EXCEPT ![r] = "waiting"]
  /\ UNCHANGED <<minute, excused>>

Passed(r) == {q \in Request : window[q] = window[r] /\ verdict[q] = "admitted"}

Decide(r, v) ==
  /\ verdict[r] = "waiting"
  /\ verdict' = [verdict EXCEPT ![r] = v]
  /\ UNCHANGED <<minute, window, excused>>

Admit(r) ==
  /\ Decide(r, "admitted")
  /\ window[r][1] \in excused \/ Cardinality(Passed(r)) < Limit

Reject(r) ==
  /\ Decide(r, "rejected")
  /\ Cardinality(Passed(r)) >= Limit

MinutePasses ==
  /\ minute' = minute + 1
  /\ excused \subseteq excused'
  /\ UNCHANGED <<window, verdict>>

Next ==
  \/ \E r \in Request : Admit(r) \/ Reject(r) \/ \E s \in Session : Ask(r, s)
  \/ MinutePasses

Spec == Init /\ [][Next]_windowVars

=============================================================================
