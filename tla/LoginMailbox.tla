---------------------------- MODULE LoginMailbox ----------------------------
(***************************************************************************)
(* What a login through the broker promises, without callbacks, results    *)
(* that wait, ages or polls: a mailbox per login, open from its start to   *)
(* its only message.  A person gets an account by redeeming an             *)
(* authorisation, is verified only with an account, and a client gets a    *)
(* session only for a person who authorised that very login.               *)
(***************************************************************************)
CONSTANTS Flow, Person

VARIABLES
  started, open,       \* the logins there have been, and those still open
  agreed, redeemed,    \* <<f, p>>: p has authorised f, and that was used
  accounts, verified,  \* persons
  answer               \* the last message each client has received

mailboxVars == <<started, open, agreed, redeemed, accounts, verified, answer>>

Init ==
  /\ started = {} /\ open = {}
  /\ agreed = {} /\ redeemed = {}
  /\ accounts = {} /\ verified = {}
  /\ answer = [f \in Flow |-> "none"]

Start(f) ==
  /\ f \notin started
  /\ started' = started \cup {f} /\ open' = open \cup {f}
  /\ UNCHANGED <<agreed, redeemed, accounts, verified, answer>>

Agree(f, p) ==
  /\ f \in started
  /\ agreed' = agreed \cup {<<f, p>>}
  /\ UNCHANGED <<started, open, redeemed, accounts, verified, answer>>

Redeem(f, p) ==
  /\ <<f, p>> \in agreed
  /\ redeemed' = redeemed \cup {<<f, p>>}
  /\ UNCHANGED <<started, open, agreed, accounts, verified, answer>>

Register(p) ==
  /\ \E f \in Flow : <<f, p>> \in redeemed
  /\ accounts' = accounts \cup {p}
  /\ UNCHANGED <<started, open, agreed, redeemed, verified, answer>>

Verify(p) ==
  /\ p \in accounts
  /\ verified' = verified \cup {p}
  /\ UNCHANGED <<started, open, agreed, redeemed, accounts, answer>>

\* What the only message of a login may say.
Messages(f) == {"error", "expired"} \cup {p \in accounts : <<f, p>> \in redeemed}

\* The message may be lost; the mailbox is closed all the same.
Empty(f) ==
  /\ f \in open
  /\ open' = open \ {f}
  /\ \E a \in Messages(f) : answer' \in {answer, [answer EXCEPT ![f] = a]}
  /\ UNCHANGED <<started, agreed, redeemed, accounts, verified>>

\* Who asks for a closed mailbox hears that it is gone.
Gone(f) ==
  /\ f \in started \ open
  /\ answer' = [answer EXCEPT ![f] = "expired"]
  /\ UNCHANGED <<started, open, agreed, redeemed, accounts, verified>>

\* Mailboxes are given up unread.
Forget ==
  /\ open' \subseteq open
  /\ UNCHANGED <<started, agreed, redeemed, accounts, verified, answer>>

Next ==
  \/ \E f \in Flow : Start(f) \/ Empty(f) \/ Gone(f)
  \/ \E f \in Flow, p \in Person : Agree(f, p) \/ Redeem(f, p)
  \/ \E p \in Person : Register(p) \/ Verify(p)
  \/ Forget

Spec == Init /\ [][Next]_mailboxVars

=============================================================================
