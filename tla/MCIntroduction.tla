--------------------------- MODULE MCIntroduction ---------------------------
(***************************************************************************)
(* Finite instances of Introduction: one match of two users, or two        *)
(* matches that share a user, the second with one who has not logged in.   *)
(***************************************************************************)
EXTENDS Introduction, TLC

CONSTANTS ann, ben, cid, first, second

MCOneMembers == first :> [s \in Side |-> IF s = "A" THEN ann ELSE ben]

MCTwoMembers ==
  MCOneMembers @@ second :> [s \in Side |-> IF s = "A" THEN cid ELSE ann]

\* The broker has its bot at first, and only cid has not logged in.
MCStart ==
  /\ Init
  /\ bot
  /\ \A u \in User : telegramID[u] = (IF u = cid THEN "hash" ELSE "chat")

MCFairSpec == MCStart /\ [][Next]_vars /\ WF_vars(SweepMarks \/ RetryMissingIntros)

=============================================================================
