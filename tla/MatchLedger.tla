----------------------------- MODULE MatchLedger -----------------------------
(***************************************************************************)
(* What matching promises about pairs of users, without saying who finds   *)
(* the pairs: a pair is matched once, introduced at most once and only     *)
(* after that, both for ever, and the two accounts of a match are kept.    *)
(***************************************************************************)
CONSTANT User

VARIABLES
  accounts,  \* the users known to the broker
  status     \* what the broker has done for each pair of users

Pair == {{x, y} : x, y \in User}

Init ==
  /\ accounts \in SUBSET User
  /\ status = [pair \in Pair |-> "strangers"]

Open(u) ==
  /\ accounts' = accounts \cup {u}
  /\ UNCHANGED status

Close(u) ==
  /\ \A pair \in Pair : u \in pair => status[pair] = "strangers"
  /\ accounts' = accounts \ {u}
  /\ UNCHANGED status

\* A pair may be introduced in the step that matches it, later, or never.
Match(x, y, outcome) ==
  /\ x # y
  /\ {x, y} \subseteq accounts
  /\ status[{x, y}] = "strangers"
  /\ status' = [status EXCEPT ![{x, y}] = outcome]
  /\ UNCHANGED accounts

Introduce(pair) ==
  /\ status[pair] = "matched"
  /\ status' = [status EXCEPT ![pair] = "introduced"]
  /\ UNCHANGED accounts

Next ==
  \/ \E u \in User : Open(u) \/ Close(u)
  \/ \E x, y \in User, outcome \in {"matched", "introduced"} : Match(x, y, outcome)
  \/ \E pair \in Pair : Introduce(pair)

Spec == Init /\ [][Next]_<<accounts, status>>

=============================================================================
