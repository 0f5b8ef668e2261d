---------------------------- MODULE MeetingLedger ----------------------------
(***************************************************************************)
(* What the broker promises about meetings, without rows, requests,        *)
(* goroutines or a scheduler: pairs are matched as MatchLedger says; the   *)
(* members of a match hear of each other at most twice, and once more for  *)
(* every mishap; and a match counts as introduced only after a message to  *)
(* each of them has been tried.                                            *)
(***************************************************************************)
EXTENDS Naturals

CONSTANT User

VARIABLES
  accounts, status,  \* as in MatchLedger
  tried,    \* <<x, y>>: a message to x about y has been sent, or tried
  heard,    \* how often x has heard of y
  mishaps   \* failing calls and crashes so far

Ledger == INSTANCE MatchLedger

meetingVars == <<accounts, status, tried, heard, mishaps>>

Contact == User \X User

Init ==
  /\ Ledger!Init
  /\ tried = {}
  /\ heard = [c \in Contact |-> 0]
  /\ mishaps = 0

\* Accounts and matches: nobody hears of anything.
Arrange ==
  /\ \/ \E u \in User : Ledger!Open(u) \/ Ledger!Close(u)
     \/ \E x, y \in User : Ledger!Match(x, y, "matched")
  /\ UNCHANGED <<tried, heard, mishaps>>

Matched(c) == status[{c[1], c[2]}] # "strangers"

Hear(c) ==
  /\ Matched(c)
  /\ heard[c] < 2 + mishaps
  /\ heard' = [heard EXCEPT ![c] = @ + 1]
  /\ tried' = tried \cup {c}
  /\ UNCHANGED <<accounts, status, mishaps>>

MayFail == mishaps' \in {mishaps, mishaps + 1}

Miss(c) ==
  /\ Matched(c)
  /\ tried' = tried \cup {c}
  /\ MayFail
  /\ UNCHANGED <<accounts, status, heard>>

Introduce(x, y) ==
  /\ {<<x, y>>, <<y, x>>} \subseteq tried
  /\ Ledger!Introduce({x, y})
  /\ MayFail
  /\ UNCHANGED <<tried, heard>>

Mishap ==
  /\ mishaps' = mishaps + 1
  /\ UNCHANGED <<accounts, status, tried, heard>>

Next ==
  \/ Arrange
  \/ \E c \in Contact : Hear(c) \/ Miss(c)
  \/ \E x, y \in User : Introduce(x, y)
  \/ Mishap

Spec == Init /\ [][Next]_meetingVars

=============================================================================
