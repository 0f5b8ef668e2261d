------------------------------ MODULE Accounts ------------------------------
(***************************************************************************)
(* Accounts and the sessions that name them: the identity columns of users *)
(* (store/postgres.go, migrations), the two ways to create a session       *)
(* (handler/auth_telegram.go), the tokens (middleware/auth.go), and the    *)
(* requests that create and delete accounts on the way.                    *)
(*                                                                         *)
(* A row of users has two keys, the anonymous id and the hash of the       *)
(* Telegram id, and the statements that write it resolve conflicts on one  *)
(* of them only.  A person may use several devices, each with an id of its *)
(* own, and hold sessions of an account that has been deleted since.       *)
(* Persons act for themselves: a client sends its own person's hash.       *)
(***************************************************************************)
EXTENDS Naturals

CONSTANTS
  Person,       \* Telegram identities; stands for telegram_id_hash as well
  AnonId,       \* anonymous ids
  Own,          \* for each person, the ids generated on their devices
  NoUser,       \* no row in users
  MaxDeletions  \* bound: deletions of each person's account

VARIABLES
  users,      \* the row of each anonymous id
  matched,    \* the ids that rows of matches refer to
  sessions,   \* tokens in the hands of clients and not expired
  verifying,  \* Telegram logins between their two statements, with their token
  known,      \* the ids that the clients of each person may send
  life,       \* how often each person's account has been deleted
  loggedIn,   \* history: persons that have logged in through Telegram
  refused     \* history: the ids whose deletion was refused

vars == <<users, matched, sessions, verifying, known, life, loggedIn, refused>>

\* telegram_id holds the hash until a login through Telegram stores the real id.
User == [person : Person, telegram : {"hash", "id"}, verified : BOOLEAN]

\* A token names an account; life is history, and not in the token.
Token == [person : Person, sid : AnonId, life : Nat]

ASSUME AccountsAssumption ==
  /\ Own \in [Person -> SUBSET AnonId]
  /\ \A p, q \in Person : p # q => Own[p] \cap Own[q] = {}
  /\ NoUser \notin User
  /\ MaxDeletions \in Nat

TypeOK ==
  /\ users \in [AnonId -> User \cup {NoUser}]
  /\ matched \subseteq AnonId
  /\ sessions \subseteq Token /\ verifying \subseteq Token
  /\ known \in [Person -> SUBSET AnonId]
  /\ life \in [Person -> 0..MaxDeletions]
  /\ loggedIn \subseteq Person
  /\ refused \subseteq AnonId

Init ==
  /\ users = [a \in AnonId |-> NoUser]
  /\ matched = {} /\ sessions = {} /\ verifying = {}
  /\ known = Own
  /\ life = [p \in Person |-> 0]
  /\ loggedIn = {} /\ refused = {}

Exists(a) == users[a] # NoUser

\* The rows with the hash of p, which the UNIQUE constraint allows one of.
AccountsOf(p) == {a \in AnonId : Exists(a) /\ users[a].person = p}

NewUser(p, telegram) == [person |-> p, telegram |-> telegram, verified |-> FALSE]

-----------------------------------------------------------------------------
(* The statements of store/postgres.go.  EnsureUser(a, p, b) inserts a row *)
(* for p under a, or finds the one there is (ON CONFLICT telegram_id_hash),*)
(* and returns the id b of the row.                                        *)

\* INSERT under an id and a hash that are both free.
InsertUser(a, p, telegram) ==
  /\ AccountsOf(p) = {}
  /\ ~Exists(a)
  /\ users' = [users EXCEPT ![a] = NewUser(p, telegram)]

\* Mutant: DO UPDATE SET telegram_id = EXCLUDED.telegram_id here as well.
EnsureUserOverwrites(a, p, b) ==
  \/ /\ b \in AccountsOf(p)
     /\ users' = [users EXCEPT ![b].telegram = "hash"]
  \/ InsertUser(a, p, "hash") /\ b = a

EnsureUser(a, p, b) ==
  \/ b \in AccountsOf(p) /\ UNCHANGED users
  \/ InsertUser(a, p, "hash") /\ b = a

\* Mutant: the id of the candidate is used, not the one the statement returns.
EnsureUserCandidate(a, p, b) ==
  /\ b = a
  /\ \/ \E c \in AccountsOf(p) : users' = [users EXCEPT ![c].telegram = "id"]
     \/ InsertUser(a, p, "id")

EnsureUserFromTelegram(a, p, b) ==
  \/ b \in AccountsOf(p) /\ users' = [users EXCEPT ![b].telegram = "id"]
  \/ InsertUser(a, p, "id") /\ b = a

\* Mutant: the UPDATE without its WHERE clause.
MarkEverybodyVerified(b) ==
  users' = [a \in AnonId |->
              IF Exists(a) THEN [users[a] EXCEPT !.verified = TRUE] ELSE users[a]]

\* An UPDATE of the row there is now, if there is one.
MarkAgeVerified(b) ==
  users' = IF Exists(b) THEN [users EXCEPT ![b].verified = TRUE] ELSE users

-----------------------------------------------------------------------------
(* Sessions. *)

\* POST /auth/session, with an id the client has.
HandleCreateSession(p, a) ==
  /\ a \in known[p]
  /\ \E b \in AnonId :
       /\ EnsureUser(a, p, b)
       /\ sessions' = sessions \cup {[person |-> p, sid |-> b, life |-> life[p]]}
       /\ known' = [known EXCEPT ![p] = @ \cup {b}]
  /\ UNCHANGED <<matched, verifying, life, loggedIn, refused>>

\* POST /auth/telegram, or the callback of a brokered login: Telegram has said
\* who it is, the candidate is a new UUID, and the token is issued.
HandleTelegramAuth(p, a) ==
  /\ \A q \in Person : a \notin known[q]
  /\ \E b \in AnonId :
       /\ EnsureUserFromTelegram(a, p, b)
       /\ verifying' = verifying \cup {[person |-> p, sid |-> b, life |-> life[p]]}
       /\ known' = [known EXCEPT ![p] = @ \cup {b}]
  /\ loggedIn' = loggedIn \cup {p}
  /\ UNCHANGED <<matched, sessions, life, refused>>

\* The second statement, whose failure is ignored, and the answer.
AnswerTelegramAuth(t) ==
  /\ t \in verifying
  /\ MarkAgeVerified(t.sid) \/ UNCHANGED users
  /\ verifying' = verifying \ {t}
  /\ sessions' = sessions \cup {t}
  /\ UNCHANGED <<matched, known, life, loggedIn, refused>>

\* The token is lost or has expired; nothing in the broker knows of it.
SessionEnds(t) ==
  /\ t \in sessions
  /\ sessions' = sessions \ {t}
  /\ UNCHANGED <<users, matched, verifying, known, life, loggedIn, refused>>

\* Auth lets a request pass that comes with a valid token, of whatever life.
Auth(p) == \E t \in sessions : t.person = p

-----------------------------------------------------------------------------
(* Requests with a session, and the rest of the broker. *)

\* Mutant: no UNIQUE constraint on telegram_id_hash.
UpsertSignalUnchecked(p, a) ==
  /\ Auth(p)
  /\ a \in known[p]
  /\ ~Exists(a)
  /\ users' = [users EXCEPT ![a] = NewUser(p, "hash")]
  /\ UNCHANGED <<matched, sessions, verifying, known, life, loggedIn, refused>>

\* PUT /signal: the first statement of UpsertSignal inserts the account if the
\* id has none.  If the hash has one, under another id, the statement fails.
UpsertSignal(p, a) ==
  /\ Auth(p)
  /\ a \in known[p]
  /\ InsertUser(a, p, "hash")
  /\ UNCHANGED <<matched, sessions, verifying, known, life, loggedIn, refused>>

\* DELETE /account deletes the row of the token's id, if there is one.
DeleteUser(t) ==
  /\ t \in sessions
  /\ Exists(t.sid)
  /\ t.sid \notin matched
  /\ life[users[t.sid].person] < MaxDeletions
  /\ life' = [life EXCEPT ![users[t.sid].person] = @ + 1]
  /\ users' = [users EXCEPT ![t.sid] = NoUser]
  /\ UNCHANGED <<matched, sessions, verifying, known, loggedIn, refused>>

\* matches refers to the row, without ON DELETE CASCADE: "Failed to delete
\* account".
DeleteRefused(t) ==
  /\ t \in sessions
  /\ t.sid \in matched
  /\ refused' = refused \cup {t.sid}
  /\ UNCHANGED <<users, matched, sessions, verifying, known, life, loggedIn>>

\* Matching finds two accounts.
CreateMatch(x, y) ==
  /\ x # y
  /\ Exists(x) /\ Exists(y)
  /\ matched' = matched \cup {x, y}
  /\ UNCHANGED <<users, sessions, verifying, known, life, loggedIn, refused>>

\* Logins in progress are lost; tokens are not kept by the broker.
Crash ==
  /\ verifying # {}
  /\ verifying' = {}
  /\ UNCHANGED <<users, matched, sessions, known, life, loggedIn, refused>>

Next ==
  \/ \E p \in Person, a \in AnonId :
       HandleCreateSession(p, a) \/ HandleTelegramAuth(p, a) \/ UpsertSignal(p, a)
  \/ \E t \in sessions : SessionEnds(t) \/ DeleteUser(t) \/ DeleteRefused(t)
  \/ \E t \in verifying : AnswerTelegramAuth(t)
  \/ \E x, y \in AnonId : CreateMatch(x, y)
  \/ Crash

Spec == Init /\ [][Next]_vars

-----------------------------------------------------------------------------
(* What must hold of accounts and sessions. *)

(***************************************************************************)
(* A session works until its account is deleted: whatever ids the devices  *)
(* of its person have sent and whichever statement has made the account,   *)
(* the token names the account of its person, and it is the same for all   *)
(* sessions created since the last deletion.                               *)
(***************************************************************************)
CurrentSessionsWork ==
  \A t \in sessions :
    t.life = life[t.person] => AccountsOf(t.person) = {t.sid}

(***************************************************************************)
(* Only accounts of people who have logged in through Telegram are marked  *)
(* as of age, although the mark is set in a statement of its own, by an id *)
(* whose account may have been deleted and made again since.               *)
(***************************************************************************)
VerifiedLoggedIn ==
  \A a \in AnonId : Exists(a) /\ users[a].verified => users[a].person \in loggedIn

(***************************************************************************)
(* While an account exists it keeps its identity, a Telegram id that was   *)
(* once stored is not replaced by the hash again, and its age verification *)
(* stays, whichever devices create sessions or upload.                     *)
(***************************************************************************)
AccountsKeepIdentity ==
  [][\A a \in AnonId : Exists(a) /\ Exists(a)' =>
       /\ users'[a].person = users[a].person
       /\ users[a].telegram = "id" => users'[a].telegram = "id"
       /\ users[a].verified => users'[a].verified]_vars

-----------------------------------------------------------------------------
(* Why it holds. *)

\* The UNIQUE constraint on telegram_id_hash.
OneAccountPerIdentity ==
  \A a, b \in AnonId :
    Exists(a) /\ Exists(b) /\ users[a].person = users[b].person => a = b

\* An id that has been used for one person is not used for another.
IdsAreApart ==
  /\ \A p, q \in Person : p # q => known[p] \cap known[q] = {}
  /\ \A a \in AnonId : Exists(a) => a \in known[users[a].person]
  /\ \A t \in sessions \cup verifying : t.sid \in known[t.person]

\* Tokens issued since the last deletion name an account that exists.
TokensAreCurrent ==
  \A t \in sessions \cup verifying :
    /\ t.life <= life[t.person]
    /\ t.life = life[t.person] => Exists(t.sid) /\ users[t.sid].person = t.person

\* A token from Telegram is one of a person who has logged in.
LoginsAreRecorded == \A t \in verifying : t.person \in loggedIn

\* The foreign keys of matches.
MatchedExist == \A a \in matched : Exists(a)

(***************************************************************************)
(* The inductive invariant: tokens name accounts of their own person even  *)
(* when these have been deleted and made again.                            *)
(***************************************************************************)
IInv ==
  /\ TypeOK
  /\ OneAccountPerIdentity /\ IdsAreApart /\ TokensAreCurrent
  /\ LoginsAreRecorded /\ VerifiedLoggedIn /\ MatchedExist

-----------------------------------------------------------------------------
(* Two keys, one registry. *)

\* The rows, the sessions that are not of a former account, the marks.
Registered == {c \in Person \X AnonId : Exists(c[2]) /\ users[c[2]].person = c[1]}

CurrentSessions ==
  {c \in Person \X AnonId : [person |-> c[1], sid |-> c[2], life |-> life[c[1]]] \in sessions}

VerifiedIds == {a \in AnonId : Exists(a) /\ users[a].verified}

Registry == INSTANCE AccountRegistry WITH
  accounts <- Registered,
  sessions <- CurrentSessions,
  verified <- VerifiedIds

(***************************************************************************)
(* Although each statement resolves conflicts on one of the two keys of    *)
(* users only, devices send ids of their own, logins end after the account *)
(* is gone and tokens outlive it, the accounts are a registry of persons:  *)
(* nobody has two, no session of the present account names another one,    *)
(* deletion ends them all, and a late answer verifies nobody else.         *)
(***************************************************************************)
ImplementsRegistry == Registry!Spec

-----------------------------------------------------------------------------
(* What the repository says of deletion and the code does not do. *)

(***************************************************************************)
(* "CASCADE on users table handles agent_signals and related rows"         *)
(* (store/postgres.go:111): no row of another table keeps an account from  *)
(* being deleted.                                                          *)
(***************************************************************************)
DeletionSucceeds == refused = {}

=============================================================================
