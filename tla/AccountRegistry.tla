--------------------------- MODULE AccountRegistry ---------------------------
(***************************************************************************)
(* What the broker promises about accounts, without rows, keys, conflicts, *)
(* devices or tokens of former accounts: a person has one account at a     *)
(* time and an id belongs to one person, sessions name the account of      *)
(* their person and end with it, only accounts of persons known to         *)
(* Telegram are verified, and those with a match stay.                     *)
(***************************************************************************)
CONSTANTS Person, AnonId

VARIABLES
  accounts,  \* <<p, a>>: a is the account of p
  sessions,  \* likewise: p has a session, which names a
  verified, matched,  \* ids
  loggedIn   \* persons

registryVars == <<accounts, sessions, verified, matched, loggedIn>>

Init ==
  /\ accounts = {} /\ sessions = {}
  /\ verified = {} /\ matched = {} /\ loggedIn = {}

\* a is the account of p from now on, if not before.
Join(p, a) ==
  \/ <<p, a>> \in accounts /\ UNCHANGED accounts
  \/ /\ \A old \in accounts : old[1] # p /\ old[2] # a
     /\ accounts' = accounts \cup {<<p, a>>}

Upload(p, a) ==
  /\ Join(p, a)
  /\ UNCHANGED <<sessions, verified, matched, loggedIn>>

CreateSession(p, a) ==
  /\ Join(p, a)
  /\ sessions' = sessions \cup {<<p, a>>}
  /\ UNCHANGED <<verified, matched, loggedIn>>

LogIn(p, a) ==
  /\ Join(p, a)
  /\ loggedIn' = loggedIn \cup {p}
  /\ UNCHANGED <<sessions, verified, matched>>

\* The answer to a login, which may come too late to be of use.
Answer(p, a) ==
  /\ p \in loggedIn
  /\ <<p, a>> \in accounts
  /\ verified' \in {verified, verified \cup {a}}
  /\ sessions' \in {sessions, sessions \cup {<<p, a>>}}
  /\ UNCHANGED <<accounts, matched, loggedIn>>

SessionsEnd ==
  /\ sessions' \subseteq sessions
  /\ UNCHANGED <<accounts, verified, matched, loggedIn>>

Match(a, b) ==
  /\ a # b
  /\ \E p, q \in Person : {<<p, a>>, <<q, b>>} \subseteq accounts
  /\ matched' = matched \cup {a, b}
  /\ UNCHANGED <<accounts, sessions, verified, loggedIn>>

Leave(p, a) ==
  /\ <<p, a>> \in accounts
  /\ a \notin matched
  /\ accounts' = accounts \ {<<p, a>>}
  /\ sessions' = sessions \ {<<p, a>>}
  /\ verified' = verified \ {a}
  /\ UNCHANGED <<matched, loggedIn>>

Next ==
  \/ \E p \in Person, a \in AnonId :
       Upload(p, a) \/ CreateSession(p, a) \/ LogIn(p, a) \/ Answer(p, a) \/ Leave(p, a)
  \/ SessionsEnd
  \/ \E a, b \in AnonId : Match(a, b)

Spec == Init /\ [][Next]_registryVars

=============================================================================
