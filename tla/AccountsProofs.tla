--------------------------- MODULE AccountsProofs ---------------------------
(***************************************************************************)
(* Safety of Accounts, for any persons, ids and devices and any number of  *)
(* deletions.  The lemmas say what one step may do to a row of users; the  *)
(* parts of the inductive invariant follow from them.                      *)
(***************************************************************************)
EXTENDS Accounts, TLAPS

\* A row that a statement has inserted for p under a.
Inserted(a, p) ==
  /\ AccountsOf(p) = {} /\ ~Exists(a)
  /\ \E telegram \in {"hash", "id"} : users' = [users EXCEPT ![a] = NewUser(p, telegram)]

\* The row of b has been updated by a login.
LoggedIn(b) == Exists(b) /\ users' = [users EXCEPT ![b].telegram = "id"]

\* The row of b has been marked as verified.
Marked(b) == Exists(b) /\ users' = [users EXCEPT ![b].verified = TRUE]

\* The row of b has been deleted.
Deleted(b) == Exists(b) /\ b \notin matched /\ users' = [users EXCEPT ![b] = NoUser]

(***************************************************************************)
(* What the two statements that find or make an account do: the id they    *)
(* return is of an account of the person they were given.                  *)
(***************************************************************************)
LEMMA EnsureFinds ==
  ASSUME users \in [AnonId -> User \cup {NoUser}],
         NEW a \in AnonId, NEW p \in Person, NEW b \in AnonId,
         EnsureUser(a, p, b) \/ EnsureUserFromTelegram(a, p, b)
  PROVE  /\ users' \in [AnonId -> User \cup {NoUser}]
         /\ \/ UNCHANGED users /\ b \in AccountsOf(p)
            \/ LoggedIn(b) /\ b \in AccountsOf(p)
            \/ Inserted(a, p) /\ b = a
         /\ users'[b] # NoUser /\ users'[b].person = p
  <1> USE AccountsAssumption
  <1>1. CASE b \in AccountsOf(p) /\ UNCHANGED users
    BY <1>1 DEF AccountsOf, Exists
  <1>2. CASE b \in AccountsOf(p) /\ users' = [users EXCEPT ![b].telegram = "id"]
    BY <1>2 DEF AccountsOf, Exists, LoggedIn, User
  <1>3. CASE \E telegram \in {"hash", "id"} : InsertUser(a, p, telegram) /\ b = a
    <2>1. PICK telegram \in {"hash", "id"} : InsertUser(a, p, telegram)
      BY <1>3
    <2>2. NewUser(p, telegram) \in User /\ NewUser(p, telegram).person = p
      BY DEF NewUser, User
    <2> QED
      BY <1>3, <2>1, <2>2 DEF InsertUser, Inserted
  <1> QED
    BY <1>1, <1>2, <1>3 DEF EnsureUser, EnsureUserFromTelegram

(***************************************************************************)
(* What one step may do to users.                                          *)
(***************************************************************************)
LEMMA UsersStep ==
  ASSUME TypeOK, [Next]_vars
  PROVE  \/ UNCHANGED users
         \/ \E a \in AnonId, p \in Person :
              /\ Inserted(a, p)
              /\ a \in known[p] \/ \A q \in Person : a \notin known[q]
              /\ a \in known'[p]
         \/ \E b \in AnonId : LoggedIn(b)
         \/ \E t \in verifying : Marked(t.sid)
         \/ \E t \in sessions : Deleted(t.sid) /\ DeleteUser(t)
  <1> USE AccountsAssumption DEF TypeOK
  <1>1. ASSUME NEW p \in Person, NEW a \in AnonId, HandleCreateSession(p, a)
        PROVE  UNCHANGED users \/ (Inserted(a, p) /\ a \in known[p] /\ a \in known'[p])
               \/ \E b \in AnonId : LoggedIn(b)
    <2>1. PICK b \in AnonId : EnsureUser(a, p, b) /\ known' = [known EXCEPT ![p] = @ \cup {b}]
      BY <1>1 DEF HandleCreateSession
    <2> QED
      BY <1>1, <2>1, EnsureFinds DEF HandleCreateSession
  <1>2. ASSUME NEW p \in Person, NEW a \in AnonId, HandleTelegramAuth(p, a)
        PROVE  UNCHANGED users
               \/ (Inserted(a, p) /\ (\A q \in Person : a \notin known[q]) /\ a \in known'[p])
               \/ \E b \in AnonId : LoggedIn(b)
    <2>1. PICK b \in AnonId :
            EnsureUserFromTelegram(a, p, b) /\ known' = [known EXCEPT ![p] = @ \cup {b}]
      BY <1>2 DEF HandleTelegramAuth
    <2> QED
      BY <1>2, <2>1, EnsureFinds DEF HandleTelegramAuth
  <1>3. ASSUME NEW p \in Person, NEW a \in AnonId, UpsertSignal(p, a)
        PROVE  Inserted(a, p) /\ a \in known[p] /\ a \in known'[p]
    BY <1>3 DEF UpsertSignal, InsertUser, Inserted
  <1>4. ASSUME NEW t \in sessions, DeleteUser(t)
        PROVE  Deleted(t.sid)
    BY <1>4 DEF DeleteUser, Deleted
  <1>5. ASSUME NEW t \in verifying, AnswerTelegramAuth(t)
        PROVE  UNCHANGED users \/ Marked(t.sid)
    BY <1>5 DEF AnswerTelegramAuth, MarkAgeVerified, Marked
  <1>6. ASSUME NEW t \in sessions, SessionEnds(t) \/ DeleteRefused(t)
        PROVE  UNCHANGED users
    BY <1>6 DEF SessionEnds, DeleteRefused
  <1>7. ASSUME NEW x \in AnonId, NEW y \in AnonId, CreateMatch(x, y)
        PROVE  UNCHANGED users
    BY <1>7 DEF CreateMatch
  <1>8. CASE Crash \/ UNCHANGED vars
    BY <1>8 DEF Crash, vars
  <1> QED
    BY <1>1, <1>2, <1>3, <1>4, <1>5, <1>6, <1>7, <1>8 DEF Next

(***************************************************************************)
(* What one step may do to the tokens: a new one names an account of its   *)
(* person, made by then, in the present life.                              *)
(***************************************************************************)
LEMMA TokensStep ==
  ASSUME TypeOK, [Next]_vars
  PROVE  \A t \in sessions' \cup verifying' :
           \/ t \in sessions \cup verifying
           \/ /\ t \in Token
              /\ t.life = life[t.person] /\ life' = life
              /\ t.sid \in known'[t.person]
              /\ users'[t.sid] # NoUser /\ users'[t.sid].person = t.person
              /\ t \in verifying' => t.person \in loggedIn'
  <1> USE AccountsAssumption DEF TypeOK
  <1>1. ASSUME NEW p \in Person, NEW a \in AnonId, HandleCreateSession(p, a),
               NEW t \in sessions' \cup verifying', t \notin sessions \cup verifying
        PROVE  /\ t \in Token
               /\ t.life = life[t.person] /\ life' = life
               /\ t.sid \in known'[t.person]
               /\ users'[t.sid] # NoUser /\ users'[t.sid].person = t.person
               /\ t \in verifying' => t.person \in loggedIn'
    <2>1. PICK b \in AnonId :
            /\ EnsureUser(a, p, b)
            /\ sessions' = sessions \cup {[person |-> p, sid |-> b, life |-> life[p]]}
            /\ known' = [known EXCEPT ![p] = @ \cup {b}]
      BY <1>1 DEF HandleCreateSession
    <2>2. users'[b] # NoUser /\ users'[b].person = p
      BY <2>1, EnsureFinds
    <2>3. verifying' = verifying /\ life' = life
      BY <1>1 DEF HandleCreateSession
    <2>4. t = [person |-> p, sid |-> b, life |-> life[p]]
      BY <1>1, <2>1, <2>3
    <2> QED
      BY <1>1, <2>1, <2>2, <2>3, <2>4 DEF Token
  <1>2. ASSUME NEW p \in Person, NEW a \in AnonId, HandleTelegramAuth(p, a),
               NEW t \in sessions' \cup verifying', t \notin sessions \cup verifying
        PROVE  /\ t \in Token
               /\ t.life = life[t.person] /\ life' = life
               /\ t.sid \in known'[t.person]
               /\ users'[t.sid] # NoUser /\ users'[t.sid].person = t.person
               /\ t \in verifying' => t.person \in loggedIn'
    <2>1. PICK b \in AnonId :
            /\ EnsureUserFromTelegram(a, p, b)
            /\ verifying' = verifying \cup {[person |-> p, sid |-> b, life |-> life[p]]}
            /\ known' = [known EXCEPT ![p] = @ \cup {b}]
      BY <1>2 DEF HandleTelegramAuth
    <2>2. users'[b] # NoUser /\ users'[b].person = p
      BY <2>1, EnsureFinds
    <2>3. sessions' = sessions /\ life' = life /\ p \in loggedIn'
      BY <1>2 DEF HandleTelegramAuth
    <2>4. t = [person |-> p, sid |-> b, life |-> life[p]]
      BY <1>2, <2>1, <2>3
    <2> QED
      BY <2>1, <2>2, <2>3, <2>4 DEF Token
  <1>3. ASSUME \/ \E t \in sessions : SessionEnds(t) \/ DeleteUser(t) \/ DeleteRefused(t)
               \/ \E t \in verifying : AnswerTelegramAuth(t)
               \/ \E p \in Person, a \in AnonId : UpsertSignal(p, a)
               \/ \E x, y \in AnonId : CreateMatch(x, y)
               \/ Crash
               \/ UNCHANGED vars
        PROVE  sessions' \cup verifying' \subseteq sessions \cup verifying
    BY <1>3 DEF SessionEnds, DeleteUser, DeleteRefused, AnswerTelegramAuth, UpsertSignal,
                CreateMatch, Crash, vars
  <1> QED
    BY <1>1, <1>2, <1>3 DEF Next

(***************************************************************************)
(* What one step may do to the ids of a person: a new one is of an account *)
(* of that person, or has been of nobody.                                  *)
(***************************************************************************)
LEMMA KnownStep ==
  ASSUME TypeOK, [Next]_vars
  PROVE  \/ UNCHANGED known
         \/ \E p \in Person, b \in AnonId :
              /\ known' = [known EXCEPT ![p] = @ \cup {b}]
              /\ b \in AccountsOf(p) \/ b \in known[p] \/ \A q \in Person : b \notin known[q]
  <1> USE AccountsAssumption DEF TypeOK
  <1>1. ASSUME NEW p \in Person, NEW a \in AnonId, NEW b \in AnonId,
               EnsureUser(a, p, b) \/ EnsureUserFromTelegram(a, p, b)
        PROVE  b \in AccountsOf(p) \/ b = a
    BY <1>1 DEF EnsureUser, EnsureUserFromTelegram
  <1>2. ASSUME NEW p \in Person, NEW a \in AnonId,
               HandleCreateSession(p, a) \/ HandleTelegramAuth(p, a)
        PROVE  \E b \in AnonId :
                 /\ known' = [known EXCEPT ![p] = @ \cup {b}]
                 /\ b \in AccountsOf(p) \/ b \in known[p] \/ \A q \in Person : b \notin known[q]
    BY <1>1, <1>2 DEF HandleCreateSession, HandleTelegramAuth
  <1> QED
    BY <1>2 DEF Next, UpsertSignal, SessionEnds, DeleteUser, DeleteRefused, AnswerTelegramAuth,
                CreateMatch, Crash, vars

(***************************************************************************)
(* What one step may do to the lives: only a deletion adds to them.        *)
(***************************************************************************)
LEMMA LifeStep ==
  ASSUME TypeOK, [Next]_vars
  PROVE  UNCHANGED life \/ \E t \in sessions : DeleteUser(t)
  BY DEF Next, HandleCreateSession, HandleTelegramAuth, UpsertSignal, SessionEnds, DeleteRefused,
         AnswerTelegramAuth, CreateMatch, Crash, vars

(***************************************************************************)
(* What one step may do to the references of matches: a new one is to an   *)
(* account that is there.                                                  *)
(***************************************************************************)
LEMMA MatchedStep ==
  ASSUME TypeOK, [Next]_vars
  PROVE  UNCHANGED matched
         \/ (UNCHANGED users /\ \A a \in matched' : a \in matched \/ (a \in AnonId /\ Exists(a)))
  BY DEF Next, HandleCreateSession, HandleTelegramAuth, UpsertSignal, SessionEnds, DeleteUser,
         DeleteRefused, AnswerTelegramAuth, CreateMatch, Crash, vars

(***************************************************************************)
(* What one step may do to the record of logins: it only grows.            *)
(***************************************************************************)
LEMMA LoginsStep ==
  ASSUME TypeOK, [Next]_vars
  PROVE  loggedIn \subseteq loggedIn' /\ loggedIn' \subseteq Person
  BY DEF Next, HandleCreateSession, HandleTelegramAuth, UpsertSignal, SessionEnds, DeleteUser,
         DeleteRefused, AnswerTelegramAuth, CreateMatch, Crash, vars, TypeOK

(***************************************************************************)
(* What one step may do to the record of refusals.                         *)
(***************************************************************************)
LEMMA RefusedStep ==
  ASSUME TypeOK, [Next]_vars
  PROVE  refused' \subseteq AnonId
  BY DEF Next, HandleCreateSession, HandleTelegramAuth, UpsertSignal, SessionEnds, DeleteUser,
         DeleteRefused, AnswerTelegramAuth, CreateMatch, Crash, vars, TypeOK, Token

(***************************************************************************)
(* The types are right.                                                    *)
(***************************************************************************)
LEMMA TypeCorrect ==
  ASSUME TypeOK, [Next]_vars
  PROVE  TypeOK'
  <1> USE AccountsAssumption DEF TypeOK
  <1>1. users' \in [AnonId -> User \cup {NoUser}]
    <2>1. ASSUME NEW a \in AnonId, NEW p \in Person, Inserted(a, p)
          PROVE  users' \in [AnonId -> User \cup {NoUser}]
      BY <2>1 DEF Inserted, NewUser, User
    <2>2. ASSUME NEW b \in AnonId, LoggedIn(b) \/ Marked(b) \/ Deleted(b)
          PROVE  users' \in [AnonId -> User \cup {NoUser}]
      <3>1. CASE LoggedIn(b)
        BY <3>1 DEF LoggedIn, Exists, User
      <3>2. CASE Marked(b)
        BY <3>2 DEF Marked, Exists, User
      <3>3. CASE Deleted(b)
        BY <3>3 DEF Deleted
      <3> QED
        BY <2>2, <3>1, <3>2, <3>3
    <2>3. \A t \in sessions \cup verifying : t.sid \in AnonId
      BY DEF Token
    <2> QED
      BY <2>1, <2>2, <2>3, UsersStep
  <1>2. matched' \subseteq AnonId
    BY MatchedStep
  <1>3. sessions' \subseteq Token /\ verifying' \subseteq Token
    BY TokensStep
  <1>4. known' \in [Person -> SUBSET AnonId]
    BY KnownStep
  <1>5. life' \in [Person -> 0..MaxDeletions]
    <2>1. ASSUME NEW t \in sessions, DeleteUser(t)
          PROVE  life' \in [Person -> 0..MaxDeletions]
      <3>1. t.sid \in AnonId /\ users[t.sid] \in User
        BY <2>1 DEF DeleteUser, Exists, Token
      <3>2. users[t.sid].person \in Person
        BY <3>1 DEF User
      <3> QED
        BY <2>1, <3>2 DEF DeleteUser
    <2> QED
      BY <2>1, LifeStep
  <1>6. loggedIn' \subseteq Person /\ refused' \subseteq AnonId
    BY LoginsStep, RefusedStep
  <1> QED
    BY <1>1, <1>2, <1>3, <1>4, <1>5, <1>6

(***************************************************************************)
(* The parts of the inductive invariant.                                   *)
(***************************************************************************)

(***************************************************************************)
(* What one step may do to one row: it is as before, perhaps updated, or   *)
(* inserted for somebody without an account, or deleted by a token.        *)
(***************************************************************************)
LEMMA RowStep ==
  ASSUME TypeOK, [Next]_vars, NEW a \in AnonId
  PROVE  \/ users'[a] = users[a]
         \/ /\ users[a] # NoUser /\ users'[a] # NoUser
            /\ users'[a].person = users[a].person
            /\ users'[a].telegram \in {users[a].telegram, "id"}
            /\ \/ users'[a].verified = users[a].verified
               \/ users'[a].verified /\ \E t \in verifying : t.sid = a
         \/ /\ users[a] = NoUser /\ users'[a] # NoUser
            /\ users'[a].person \in Person /\ ~users'[a].verified
            /\ AccountsOf(users'[a].person) = {}
            /\ a \in known'[users'[a].person]
            /\ \A b \in AnonId : b # a => users'[b] = users[b]
         \/ /\ users[a] # NoUser /\ users'[a] = NoUser
            /\ a \notin matched
            /\ \E t \in sessions : t.sid = a /\ DeleteUser(t)
  <1> USE AccountsAssumption DEF TypeOK
  <1>1. ASSUME NEW b \in AnonId, NEW p \in Person, Inserted(b, p), b \in known'[p]
        PROVE  \/ users'[a] = users[a]
               \/ /\ users[a] = NoUser /\ users'[a] # NoUser
                  /\ users'[a].person \in Person /\ ~users'[a].verified
                  /\ AccountsOf(users'[a].person) = {}
                  /\ a \in known'[users'[a].person]
                  /\ \A c \in AnonId : c # a => users'[c] = users[c]
    <2>1. PICK telegram \in {"hash", "id"} : users' = [users EXCEPT ![b] = NewUser(p, telegram)]
      BY <1>1 DEF Inserted
    <2>2. /\ NewUser(p, telegram) \in User
          /\ NewUser(p, telegram).person = p /\ NewUser(p, telegram).verified = FALSE
      BY DEF NewUser, User
    <2> QED
      BY <1>1, <2>1, <2>2 DEF Inserted, Exists
  <1>2. ASSUME NEW b \in AnonId, LoggedIn(b)
        PROVE  \/ users'[a] = users[a]
               \/ /\ users[a] # NoUser /\ users'[a] # NoUser
                  /\ users'[a].person = users[a].person
                  /\ users'[a].telegram = "id"
                  /\ users'[a].verified = users[a].verified
    BY <1>2 DEF LoggedIn, Exists, User
  <1>3. ASSUME NEW t \in verifying, Marked(t.sid)
        PROVE  \/ users'[a] = users[a]
               \/ /\ users[a] # NoUser /\ users'[a] # NoUser
                  /\ users'[a].person = users[a].person
                  /\ users'[a].telegram = users[a].telegram
                  /\ users'[a].verified /\ t.sid = a
    BY <1>3 DEF Marked, Exists, User
  <1>4. ASSUME NEW t \in sessions, Deleted(t.sid)
        PROVE  \/ users'[a] = users[a]
               \/ users[a] # NoUser /\ users'[a] = NoUser /\ a \notin matched /\ t.sid = a
    BY <1>4 DEF Deleted, Exists
  <1> QED
    BY <1>1, <1>2, <1>3, <1>4, UsersStep

(***************************************************************************)
(* One account for each identity.                                          *)
(***************************************************************************)
LEMMA OneAccountPreserved ==
  ASSUME TypeOK, OneAccountPerIdentity, [Next]_vars
  PROVE  OneAccountPerIdentity'
  <1> SUFFICES ASSUME NEW a \in AnonId, NEW b \in AnonId,
                      users'[a] # NoUser, users'[b] # NoUser,
                      users'[a].person = users'[b].person, a # b
               PROVE  FALSE
    BY DEF OneAccountPerIdentity, Exists
  <1>1. CASE users[a] = NoUser
    BY <1>1, RowStep DEF AccountsOf, Exists, TypeOK
  <1>2. CASE users[b] = NoUser
    BY <1>2, RowStep DEF AccountsOf, Exists, TypeOK
  <1>3. CASE users[a] # NoUser /\ users[b] # NoUser
    BY <1>3, RowStep DEF OneAccountPerIdentity, Exists
  <1> QED
    BY <1>1, <1>2, <1>3

(***************************************************************************)
(* No id is used for two persons.                                          *)
(***************************************************************************)
LEMMA IdsPreserved ==
  ASSUME TypeOK, IdsAreApart, [Next]_vars
  PROVE  IdsAreApart'
  <1> USE DEF TypeOK
  <1>1. \A p \in Person : known[p] \subseteq known'[p]
    BY KnownStep
  <1>2. \A p, q \in Person : p # q => known'[p] \cap known'[q] = {}
    <2>1. ASSUME NEW p \in Person, NEW b \in AnonId,
                 known' = [known EXCEPT ![p] = @ \cup {b}],
                 b \in AccountsOf(p) \/ b \in known[p] \/ \A q \in Person : b \notin known[q]
          PROVE  \A q, r \in Person : q # r => known'[q] \cap known'[r] = {}
      <3>1. b \in known[p] \/ \A q \in Person : b \notin known[q]
        BY <2>1 DEF AccountsOf, IdsAreApart
      <3>2. \A q \in Person \ {p} : b \notin known[q]
        BY <3>1 DEF IdsAreApart
      <3> QED
        BY <2>1, <3>2 DEF IdsAreApart
    <2> QED
      BY <2>1, KnownStep DEF IdsAreApart
  <1>3. ASSUME NEW a \in AnonId, users'[a] # NoUser
        PROVE  a \in known'[users'[a].person]
    <2>1. users[a] # NoUser => users[a].person \in Person
      BY DEF User
    <2> QED
      BY <1>1, <1>3, <2>1, RowStep DEF IdsAreApart, Exists
  <1>4. ASSUME NEW t \in sessions' \cup verifying'
        PROVE  t.sid \in known'[t.person]
    BY <1>1, TokensStep DEF IdsAreApart, Token
  <1> QED
    BY <1>2, <1>3, <1>4 DEF IdsAreApart, Exists

(***************************************************************************)
(* Tokens of the present life name an account of their person.             *)
(***************************************************************************)
LEMMA TokensPreserved ==
  ASSUME TypeOK, IdsAreApart, TokensAreCurrent, [Next]_vars
  PROVE  TokensAreCurrent'
  <1> USE DEF TypeOK
  <1> SUFFICES ASSUME NEW t \in sessions' \cup verifying'
               PROVE  /\ t.life <= life'[t.person]
                      /\ t.life = life'[t.person] =>
                           users'[t.sid] # NoUser /\ users'[t.sid].person = t.person
    BY DEF TokensAreCurrent, Exists
  <1>1. CASE t \notin sessions \cup verifying
    BY <1>1, TokensStep DEF Token
  <1>2. CASE t \in sessions \cup verifying
    <2>1. /\ t \in Token /\ t.sid \in AnonId /\ t.person \in Person /\ t.life \in Nat
          /\ t.life <= life[t.person]
      BY <1>2 DEF TokensAreCurrent, Token
    <2>2. ASSUME NEW d \in sessions, DeleteUser(d), d.sid = t.sid, users[t.sid] # NoUser
          PROVE  t.life < life'[t.person]
      <3>1. users[t.sid].person \in Person /\ t.sid \in known[users[t.sid].person]
        BY <2>1, <2>2 DEF IdsAreApart, User, Exists
      <3>2. users[t.sid].person = t.person
        BY <1>2, <2>1, <3>1 DEF IdsAreApart
      <3>3. life' = [life EXCEPT ![t.person] = @ + 1]
        BY <2>2, <3>2 DEF DeleteUser
      <3> QED
        BY <2>1, <3>3
    <2>3. life[t.person] <= life'[t.person] /\ life'[t.person] \in Nat
      <3>1. ASSUME NEW d \in sessions, DeleteUser(d)
            PROVE  life[t.person] <= life'[t.person] /\ life'[t.person] \in Nat
        <4>1. users[d.sid] \in User
          BY <3>1 DEF DeleteUser, Exists, Token
        <4>2. users[d.sid].person \in Person
          BY <4>1 DEF User
        <4> QED
          BY <2>1, <3>1, <4>2 DEF DeleteUser
      <3> QED
        BY <2>1, <3>1, LifeStep
    <2>4. ASSUME t.life = life'[t.person]
          PROVE  users'[t.sid] # NoUser /\ users'[t.sid].person = t.person
      <3>1. t.life = life[t.person]
        BY <2>1, <2>3, <2>4
      <3>2. users[t.sid] # NoUser /\ users[t.sid].person = t.person
        BY <1>2, <3>1 DEF TokensAreCurrent, Exists
      <3>3. ~\E d \in sessions : d.sid = t.sid /\ DeleteUser(d)
        BY <2>1, <2>2, <2>4, <3>2
      <3> QED
        BY <2>1, <3>2, <3>3, RowStep
    <2> QED
      BY <2>1, <2>3, <2>4
  <1> QED
    BY <1>1, <1>2

(***************************************************************************)
(* A token between the two statements of a login is of somebody who has    *)
(* logged in.                                                              *)
(***************************************************************************)
LEMMA LoginsPreserved ==
  ASSUME TypeOK, LoginsAreRecorded, [Next]_vars
  PROVE  LoginsAreRecorded'
  <1> SUFFICES ASSUME NEW t \in verifying'
               PROVE  t.person \in loggedIn'
    BY DEF LoginsAreRecorded
  <1>1. CASE t \in verifying
    BY <1>1, LoginsStep DEF LoginsAreRecorded
  <1>2. CASE t \notin verifying
    <2>1. PICK p \in Person, a \in AnonId : HandleTelegramAuth(p, a)
      BY <1>2 DEF Next, HandleCreateSession, UpsertSignal, SessionEnds, DeleteUser,
                  DeleteRefused, AnswerTelegramAuth, CreateMatch, Crash, vars
    <2> QED
      BY <1>2, <2>1 DEF HandleTelegramAuth
  <1> QED
    BY <1>1, <1>2

(***************************************************************************)
(* The mark is only set by a token of a login, on an account of its person *)
(* whatever has become of it since.                                        *)
(***************************************************************************)
LEMMA VerifiedPreserved ==
  ASSUME TypeOK, IdsAreApart, LoginsAreRecorded, VerifiedLoggedIn, [Next]_vars
  PROVE  VerifiedLoggedIn'
  <1> USE DEF TypeOK
  <1> SUFFICES ASSUME NEW a \in AnonId, users'[a] # NoUser, users'[a].verified
               PROVE  users'[a].person \in loggedIn'
    BY DEF VerifiedLoggedIn, Exists
  <1>1. loggedIn \subseteq loggedIn'
    BY LoginsStep
  <1>2. users[a] # NoUser => users[a].person \in Person /\ a \in known[users[a].person]
    BY DEF IdsAreApart, Exists, User
  <1>3. ASSUME NEW t \in verifying, t.sid = a, users[a] # NoUser
        PROVE  users[a].person \in loggedIn
    <2>1. t.person \in Person /\ a \in known[t.person]
      BY <1>3 DEF IdsAreApart, Token
    <2>2. users[a].person = t.person
      BY <1>2, <1>3, <2>1 DEF IdsAreApart
    <2> QED
      BY <2>2 DEF LoginsAreRecorded
  <1>4. users[a] # NoUser /\ users[a].verified => users[a].person \in loggedIn
    BY DEF VerifiedLoggedIn, Exists
  <1> QED
    BY <1>1, <1>3, <1>4, RowStep

(***************************************************************************)
(* matches refers to accounts that exist.                                  *)
(***************************************************************************)
LEMMA MatchedPreserved ==
  ASSUME TypeOK, MatchedExist, [Next]_vars
  PROVE  MatchedExist'
  <1> SUFFICES ASSUME NEW a \in matched'
               PROVE  users'[a] # NoUser
    BY DEF MatchedExist, Exists
  <1>1. CASE a \in matched
    BY <1>1, RowStep DEF MatchedExist, Exists, TypeOK
  <1>2. CASE a \notin matched
    BY <1>2, MatchedStep DEF Exists
  <1> QED
    BY <1>1, <1>2

(***************************************************************************)
(* The invariant of Accounts holds in every state: the tables, tokens and  *)
(* logins in progress fit together whatever is deleted in between.         *)
(***************************************************************************)
THEOREM Inductive == Spec => []IInv
  <1>1. Init => IInv
    BY AccountsAssumption
       DEF Init, IInv, TypeOK, OneAccountPerIdentity, IdsAreApart, TokensAreCurrent,
           LoginsAreRecorded, VerifiedLoggedIn, MatchedExist, Exists
  <1>2. IInv /\ [Next]_vars => IInv'
    BY TypeCorrect, OneAccountPreserved, IdsPreserved, TokensPreserved, LoginsPreserved,
       VerifiedPreserved, MatchedPreserved DEF IInv
  <1> QED
    BY <1>1, <1>2, PTL DEF Spec

(***************************************************************************)
(* Every session created since the last deletion names the one account of  *)
(* its person.                                                             *)
(***************************************************************************)
THEOREM SessionsWork == Spec => []CurrentSessionsWork
  <1>1. IInv => CurrentSessionsWork
    <2> SUFFICES ASSUME IInv, NEW t \in sessions, t.life = life[t.person]
                 PROVE  AccountsOf(t.person) = {t.sid}
      BY DEF CurrentSessionsWork
    <2>1. t.sid \in AnonId /\ Exists(t.sid) /\ users[t.sid].person = t.person
      BY DEF IInv, TypeOK, TokensAreCurrent, Token
    <2> QED
      BY <2>1 DEF IInv, OneAccountPerIdentity, AccountsOf
  <1> QED
    BY <1>1, Inductive, PTL

(***************************************************************************)
(* Only accounts of people who have logged in through Telegram are marked  *)
(* as of age.                                                              *)
(***************************************************************************)
THEOREM VerifiedByLogin == Spec => []VerifiedLoggedIn
  <1>1. IInv => VerifiedLoggedIn
    BY DEF IInv
  <1> QED
    BY <1>1, Inductive, PTL

(***************************************************************************)
(* An account keeps its identity, its Telegram id and its verification as  *)
(* long as it exists.                                                      *)
(***************************************************************************)
THEOREM IdentityKept == Spec => AccountsKeepIdentity
  <1>1. IInv /\ [Next]_vars =>
          [\A a \in AnonId : Exists(a) /\ Exists(a)' =>
             /\ users'[a].person = users[a].person
             /\ users[a].telegram = "id" => users'[a].telegram = "id"
             /\ users[a].verified => users'[a].verified]_vars
    BY RowStep DEF IInv, Exists
  <1> QED
    BY <1>1, Inductive, PTL DEF Spec, AccountsKeepIdentity

-----------------------------------------------------------------------------
(* Accounts implement the registry of persons. *)

(***************************************************************************)
(* What the statements on users do to the registry.                        *)
(***************************************************************************)
LEMMA RegisteredStep ==
  ASSUME TypeOK, NEW a \in AnonId
  PROVE  /\ \A p \in Person : Inserted(a, p) =>
              /\ \A old \in Registered : old[1] # p /\ old[2] # a
              /\ Registered' = Registered \cup {<<p, a>>}
              /\ VerifiedIds' = VerifiedIds
         /\ LoggedIn(a) => Registered' = Registered /\ VerifiedIds' = VerifiedIds
         /\ Marked(a) => Registered' = Registered /\ VerifiedIds' = VerifiedIds \cup {a}
         /\ Deleted(a) => /\ Registered' = Registered \ {<<users[a].person, a>>}
                          /\ VerifiedIds' = VerifiedIds \ {a}
  <1> USE DEF TypeOK, Exists
  <1>1. ASSUME NEW p \in Person, Inserted(a, p)
        PROVE  /\ \A old \in Registered : old[1] # p /\ old[2] # a
               /\ Registered' = Registered \cup {<<p, a>>}
               /\ VerifiedIds' = VerifiedIds
    <2>1. PICK telegram \in {"hash", "id"} : users' = [users EXCEPT ![a] = NewUser(p, telegram)]
      BY <1>1 DEF Inserted
    <2>2. NewUser(p, telegram) # NoUser
      <3>1. NewUser(p, telegram) \in User
        BY DEF NewUser, User
      <3> QED BY <3>1, AccountsAssumption
    <2>3. NewUser(p, telegram).person = p /\ ~NewUser(p, telegram).verified
      BY DEF NewUser
    <2>4. users[a] = NoUser /\ \A b \in AnonId : users[b] # NoUser => users[b].person # p
      BY <1>1 DEF Inserted, AccountsOf
    <2>5. \A old \in Registered : old[1] # p /\ old[2] # a
      BY <2>4 DEF Registered, AccountsOf, Exists
    <2>6. Registered' = Registered \cup {<<p, a>>}
      BY <2>1, <2>2, <2>3, <2>4 DEF Registered, AccountsOf, Exists
    <2>7. VerifiedIds' = VerifiedIds
      BY <2>1, <2>3, <2>4 DEF VerifiedIds
    <2> QED BY <2>5, <2>6, <2>7
  <1>2. ASSUME LoggedIn(a) PROVE Registered' = Registered /\ VerifiedIds' = VerifiedIds
    <2>1. users[a] \in User /\ users' = [users EXCEPT ![a] = [users[a] EXCEPT !.telegram = "id"]]
      BY <1>2 DEF LoggedIn
    <2>2. [users[a] EXCEPT !.telegram = "id"] \in User
      BY <2>1 DEF User
    <2>3. /\ [users[a] EXCEPT !.telegram = "id"].person = users[a].person
          /\ [users[a] EXCEPT !.telegram = "id"].verified = users[a].verified
      BY <2>1 DEF User
    <2>4. \A b \in AnonId : /\ users'[b] # NoUser <=> users[b] # NoUser
                            /\ users'[b].person = users[b].person
                            /\ users'[b].verified = users[b].verified
      BY <2>1, <2>2, <2>3, AccountsAssumption
    <2> QED BY <2>4 DEF Registered, AccountsOf, Exists, VerifiedIds
  <1>3. ASSUME Marked(a)
        PROVE  Registered' = Registered /\ VerifiedIds' = VerifiedIds \cup {a}
    <2>1. users[a] \in User /\ users' = [users EXCEPT ![a] = [users[a] EXCEPT !.verified = TRUE]]
      BY <1>3 DEF Marked
    <2>2. [users[a] EXCEPT !.verified = TRUE] \in User
      BY <2>1 DEF User
    <2>3. /\ [users[a] EXCEPT !.verified = TRUE].person = users[a].person
          /\ [users[a] EXCEPT !.verified = TRUE].verified
      BY <2>1 DEF User
    <2>4. \A b \in AnonId : /\ users'[b] # NoUser <=> users[b] # NoUser
                            /\ users'[b].person = users[b].person
                            /\ b # a => users'[b] = users[b]
      BY <2>1, <2>2, <2>3, AccountsAssumption
    <2>5. users'[a] # NoUser /\ users'[a].verified
      BY <2>1, <2>2, <2>3, AccountsAssumption
    <2> QED BY <2>4, <2>5 DEF Registered, AccountsOf, Exists, VerifiedIds
  <1>4. ASSUME Deleted(a)
        PROVE  /\ Registered' = Registered \ {<<users[a].person, a>>}
               /\ VerifiedIds' = VerifiedIds \ {a}
    <2>1. users[a] # NoUser /\ users' = [users EXCEPT ![a] = NoUser]
      BY <1>4 DEF Deleted
    <2> QED BY <2>1 DEF Registered, AccountsOf, Exists, VerifiedIds
  <1> QED BY <1>1, <1>2, <1>3, <1>4

LEMMA RegisteredKept ==
  ASSUME UNCHANGED users
  PROVE  UNCHANGED <<Registered, VerifiedIds>>
  BY DEF Registered, AccountsOf, Exists, VerifiedIds, Exists

(***************************************************************************)
(* What finding or making an account, and adding a session, is there.      *)
(***************************************************************************)
LEMMA EnsureJoins ==
  ASSUME TypeOK, NEW a \in AnonId, NEW p \in Person, NEW b \in AnonId,
         EnsureUser(a, p, b) \/ EnsureUserFromTelegram(a, p, b)
  PROVE  Registry!Join(p, b) /\ VerifiedIds' = VerifiedIds
  <1>1. ASSUME b \in AccountsOf(p) PROVE <<p, b>> \in Registered
    BY <1>1 DEF Registered, AccountsOf
  <1>2. CASE UNCHANGED users /\ b \in AccountsOf(p)
    BY <1>1, <1>2, RegisteredKept DEF Registry!Join
  <1>3. CASE LoggedIn(b) /\ b \in AccountsOf(p)
    BY <1>1, <1>3, RegisteredStep DEF Registry!Join
  <1>4. CASE Inserted(a, p) /\ b = a
    BY <1>4, RegisteredStep DEF Registry!Join
  <1>5. users \in [AnonId -> User \cup {NoUser}]
    BY DEF TypeOK
  <1> QED BY <1>2, <1>3, <1>4, <1>5, EnsureFinds

LEMMA SessionAdded ==
  ASSUME NEW p \in Person, NEW b \in AnonId, NEW l, life' = life,
         sessions' = sessions \cup {[person |-> p, sid |-> b, life |-> l]}
  PROVE  CurrentSessions' =
           IF l = life[p] THEN CurrentSessions \cup {<<p, b>>} ELSE CurrentSessions
  <1>1. ASSUME NEW c \in Person \X AnonId
        PROVE  c \in CurrentSessions' <=> c \in CurrentSessions \/ (l = life[p] /\ c = <<p, b>>)
    <2>1. [person |-> c[1], sid |-> c[2], life |-> life[c[1]]] = [person |-> p, sid |-> b, life |-> l]
            <=> l = life[p] /\ c = <<p, b>>
      OBVIOUS
    <2> QED BY <2>1 DEF CurrentSessions
  <1> QED BY <1>1 DEF CurrentSessions

LEMMA SessionsKept ==
  ASSUME UNCHANGED <<sessions, life>>
  PROVE  UNCHANGED CurrentSessions
  BY DEF CurrentSessions

(***************************************************************************)
(* A late answer verifies the account its id has now, which is one of the  *)
(* same person, and its session is one of this account or of a former one. *)
(***************************************************************************)
LEMMA AnswerStep ==
  ASSUME IInv, NEW t \in verifying, AnswerTelegramAuth(t)
  PROVE  [Registry!Next]_Registry!registryVars
  <1>1. /\ t \in Token /\ t.person \in Person /\ t.sid \in AnonId
        /\ t = [person |-> t.person, sid |-> t.sid, life |-> t.life]
    BY DEF IInv, TypeOK, Token
  <1>2. CurrentSessions' = IF t.life = life[t.person]
                             THEN CurrentSessions \cup {<<t.person, t.sid>>}
                             ELSE CurrentSessions
    <2>1. life' = life /\ sessions' = sessions \cup {[person |-> t.person, sid |-> t.sid, life |-> t.life]}
      BY <1>1 DEF AnswerTelegramAuth
    <2> QED BY <1>1, <2>1, SessionAdded
  <1>3. UNCHANGED <<matched, loggedIn>>
    BY DEF AnswerTelegramAuth
  <1>4. CASE Exists(t.sid)
    <2>1. users[t.sid].person = t.person /\ t.person \in loggedIn
      <3>1. users[t.sid].person \in Person
        BY <1>1, <1>4 DEF IInv, TypeOK, Exists, User
      <3> QED BY <1>1, <1>4, <3>1 DEF IInv, IdsAreApart, LoginsAreRecorded
    <2>2. <<t.person, t.sid>> \in Registered
      BY <1>1, <1>4, <2>1 DEF Registered, AccountsOf, Exists
    <2>3. Registered' = Registered /\ VerifiedIds' \in {VerifiedIds, VerifiedIds \cup {t.sid}}
      <3>1. UNCHANGED users \/ Marked(t.sid)
        BY <1>4 DEF AnswerTelegramAuth, MarkAgeVerified, Marked
      <3> QED BY <1>1, <3>1, RegisteredKept, RegisteredStep DEF IInv
    <2>4. Registry!Answer(t.person, t.sid)
      BY <1>2, <1>3, <2>1, <2>2, <2>3 DEF Registry!Answer
    <2> QED BY <1>1, <2>4 DEF Registry!Next
  <1>5. CASE ~Exists(t.sid)
    <2>1. UNCHANGED users
      BY <1>5 DEF AnswerTelegramAuth, MarkAgeVerified
    <2>2. t.life # life[t.person]
      BY <1>5 DEF IInv, TokensAreCurrent
    <2> QED BY <1>2, <1>3, <2>1, <2>2, RegisteredKept DEF Registry!registryVars
  <1> QED BY <1>4, <1>5

(***************************************************************************)
(* A deletion ends the sessions of the account, and no others.             *)
(***************************************************************************)
LEMMA DeletionStep ==
  ASSUME IInv, NEW t \in sessions, DeleteUser(t)
  PROVE  Registry!Leave(users[t.sid].person, t.sid) /\ users[t.sid].person \in Person
  <1> DEFINE p == users[t.sid].person
  <1>1. t.sid \in AnonId /\ Deleted(t.sid) /\ p \in Person
    BY DEF IInv, TypeOK, Token, DeleteUser, Deleted, Exists, User
  <1>2. <<p, t.sid>> \in Registered
    BY <1>1 DEF Registered, AccountsOf, Exists, Deleted
  <1>3. sessions' = sessions /\ life' = [life EXCEPT ![p] = @ + 1]
    BY DEF DeleteUser
  <1> HIDE DEF p
  <1>4. ASSUME NEW c \in Person \X AnonId
        PROVE  c \in CurrentSessions' <=> c \in CurrentSessions /\ c # <<p, t.sid>>
    <2>1. CASE c[1] # p
      <3>1. life'[c[1]] = life[c[1]]
        BY <1>3, <2>1 DEF IInv, TypeOK
      <3> QED BY <1>3, <2>1, <3>1 DEF CurrentSessions
    <2>2. CASE c[1] = p
      <3>1. life[p] \in Nat /\ life'[p] = life[p] + 1
        BY <1>1, <1>3, AccountsAssumption DEF IInv, TypeOK
      <3>2. c \notin CurrentSessions'
        <4>1. ASSUME [person |-> p, sid |-> c[2], life |-> life[p] + 1] \in sessions
              PROVE  life[p] + 1 <= life[p]
          BY <4>1 DEF IInv, TokensAreCurrent
        <4> QED BY <1>3, <2>2, <3>1, <4>1 DEF CurrentSessions
      <3>3. ASSUME c \in CurrentSessions PROVE c = <<p, t.sid>>
        <4>1. [person |-> p, sid |-> c[2], life |-> life[p]] \in sessions
          BY <2>2, <3>3 DEF CurrentSessions
        <4>2. Exists(c[2]) /\ users[c[2]].person = p
          BY <4>1 DEF IInv, TokensAreCurrent
        <4>3. Exists(t.sid) /\ users[t.sid].person = p
          BY <1>1 DEF Deleted, p
        <4> QED BY <1>1, <2>2, <4>2, <4>3 DEF IInv, OneAccountPerIdentity
      <3> QED BY <3>2, <3>3
    <2> QED BY <2>1, <2>2
  <1>5. CurrentSessions' = CurrentSessions \ {<<p, t.sid>>}
    BY <1>4 DEF CurrentSessions
  <1>6. /\ Registered' = Registered \ {<<p, t.sid>>}
        /\ VerifiedIds' = VerifiedIds \ {t.sid}
    BY <1>1, RegisteredStep DEF IInv, p
  <1>7. t.sid \notin matched /\ UNCHANGED <<matched, loggedIn>>
    BY DEF DeleteUser
  <1> QED BY <1>1, <1>2, <1>5, <1>6, <1>7 DEF Registry!Leave, p

LEMMA RegistryStep ==
  ASSUME IInv, [Next]_vars
  PROVE  [Registry!Next]_Registry!registryVars
  <1>0. TypeOK
    BY DEF IInv
  <1>1. ASSUME NEW p \in Person, NEW a \in AnonId, HandleCreateSession(p, a)
        PROVE  Registry!Next
    <2>1. PICK b \in AnonId :
            /\ EnsureUser(a, p, b)
            /\ sessions' = sessions \cup {[person |-> p, sid |-> b, life |-> life[p]]}
      BY <1>1 DEF HandleCreateSession
    <2>2. UNCHANGED <<matched, life, loggedIn>>
      BY <1>1 DEF HandleCreateSession
    <2>3. CurrentSessions' = CurrentSessions \cup {<<p, b>>}
      BY <2>1, <2>2, SessionAdded
    <2>4. Registry!CreateSession(p, b)
      BY <1>0, <2>1, <2>2, <2>3, EnsureJoins DEF Registry!CreateSession
    <2> QED BY <2>4 DEF Registry!Next
  <1>2. ASSUME NEW p \in Person, NEW a \in AnonId, HandleTelegramAuth(p, a)
        PROVE  Registry!Next
    <2>1. PICK b \in AnonId : EnsureUserFromTelegram(a, p, b)
      BY <1>2 DEF HandleTelegramAuth
    <2>2. /\ UNCHANGED <<matched, life, sessions>>
          /\ loggedIn' = loggedIn \cup {p}
      BY <1>2 DEF HandleTelegramAuth
    <2>3. Registry!LogIn(p, b)
      BY <1>0, <2>1, <2>2, EnsureJoins, SessionsKept DEF Registry!LogIn
    <2> QED BY <2>3 DEF Registry!Next
  <1>3. ASSUME NEW p \in Person, NEW a \in AnonId, UpsertSignal(p, a)
        PROVE  Registry!Next
    <2>1. Inserted(a, p) /\ UNCHANGED <<matched, life, sessions, loggedIn>>
      BY <1>3 DEF UpsertSignal, InsertUser, Inserted
    <2>2. Registry!Join(p, a) /\ UNCHANGED VerifiedIds
      BY <1>0, <2>1, RegisteredStep DEF Registry!Join
    <2>3. Registry!Upload(p, a)
      BY <2>1, <2>2, SessionsKept DEF Registry!Upload
    <2> QED BY <2>3 DEF Registry!Next
  <1>4. ASSUME NEW t \in sessions, SessionEnds(t) PROVE Registry!SessionsEnd
    BY <1>4, RegisteredKept DEF SessionEnds, CurrentSessions, Registry!SessionsEnd
  <1>5. ASSUME NEW x \in AnonId, NEW y \in AnonId, CreateMatch(x, y)
        PROVE  Registry!Match(x, y)
    <2>1. ASSUME NEW a \in {x, y}
          PROVE  users[a].person \in Person /\ <<users[a].person, a>> \in Registered
      <3>1. a \in AnonId /\ users[a] \in User /\ Exists(a)
        BY <1>0, <1>5 DEF CreateMatch, TypeOK, Exists
      <3> QED BY <3>1 DEF User, Registered, AccountsOf
    <2> QED BY <1>5, <2>1, RegisteredKept, SessionsKept DEF CreateMatch, Registry!Match
  <1>6. ASSUME \/ \E t \in sessions : DeleteRefused(t)
               \/ Crash \/ UNCHANGED vars
        PROVE  UNCHANGED Registry!registryVars
    <2>1. UNCHANGED <<users, sessions, life, matched, loggedIn>>
      BY <1>6 DEF DeleteRefused, Crash, vars
    <2> QED BY <2>1, RegisteredKept, SessionsKept DEF Registry!registryVars
  <1>7. ASSUME NEW t \in sessions, DeleteUser(t) PROVE Registry!Next
    <2>1. t.sid \in AnonId
      BY <1>0 DEF TypeOK, Token
    <2> QED BY <1>7, <2>1, DeletionStep DEF Registry!Next
  <1> QED BY <1>1, <1>2, <1>3, <1>4, <1>5, <1>6, <1>7, AnswerStep DEF Next, Registry!Next

LEMMA RegistryInit == Init => Registry!Init
  BY DEF Init, Registry!Init, Registered, AccountsOf, Exists, CurrentSessions, VerifiedIds

(***************************************************************************)
(* The users table, the tokens and the four handlers that write or read    *)
(* them implement the registry, for any persons and devices: the partial   *)
(* conflict clauses of EnsureUser, EnsureUserFromTelegram and UpsertSignal *)
(* never give a person two accounts or an id to two persons, a session     *)
(* names the present account of its person or none, and a late answer to a *)
(* login verifies the account of the person who logged in or nothing.      *)
(***************************************************************************)
THEOREM RegistryImplemented == Spec => ImplementsRegistry
  <1>1. IInv /\ [Next]_vars => [Registry!Next]_Registry!registryVars
    BY RegistryStep
  <1> QED BY <1>1, RegistryInit, Inductive, PTL DEF Spec, ImplementsRegistry, Registry!Spec

=============================================================================
