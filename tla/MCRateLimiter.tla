---------------------------- MODULE MCRateLimiter ----------------------------
(***************************************************************************)
(* Finite instances of RateLimiter, with two sessions: the last characters *)
(* of one UUID begin with digits, which read as a minute of the recent     *)
(* past, and those of the other with a letter, which reads as no number.   *)
(***************************************************************************)
EXTENDS RateLimiter

CONSTANTS digits, letters

MCParsed == [s \in Session |-> IF s = digits THEN -2 ELSE NoNumber]

=============================================================================
