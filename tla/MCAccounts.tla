----------------------------- MODULE MCAccounts -----------------------------
(***************************************************************************)
(* Finite instances of Accounts: ann has two devices, ben has one, and the *)
(* broker may generate new ids for Telegram logins.                        *)
(***************************************************************************)
EXTENDS Accounts

CONSTANTS ann, ben, phone, laptop, tablet

MCOwn == [p \in Person |-> IF p = ann THEN {phone, laptop} ELSE {tablet}]

=============================================================================
