# A formal model of the Merge broker

This directory holds TLA+ specifications of the broker in this repository, the
TLC configurations that check them on small instances, and proofs, checked by
TLAPS, that hold for every instance. The specifications are translated from the
Go source, the SQL statements in it and the migrations; where a comment or a
client document says something else, a run shows the difference.

## The system

The broker is one Go process over one PostgreSQL database. Client skills upload
an availability signal for their user (a cell of the H3 grid, gender, seeking,
age, age range, and data the broker cannot read); the broker finds pairs of
signals that accept each other, records a match, and sends both people an
introduction through a Telegram bot.

| component | source | state | operations |
|---|---|---|---|
| Signal endpoints | `handler/signal.go` | none of its own; a goroutine per upload | PUT /signal, DELETE /signal, GET /signal/{id}, DELETE /account |
| Matching | `matching/job.go` | position in the sweep; goroutines with their candidates | `Run` (sweep), `MatchSingle` (one upload), `findCompatiblePairs` |
| Compatibility rules | `matching/job.go`, `store/postgres.go` | none | the Go functions of the sweep, the WHERE clause of the real-time query |
| Tables | `store/postgres.go`, `migrations/` | `users`, `agent_signals`, `matches`, `verification_sessions` | one SQL statement per method, each a transaction of its own |
| Introductions | `matching/job.go`, `telegram/` | goroutines between two DMs; `matches.introduced` | `introduceAsync`, `Introduce`, `RetryMissingIntros` |
| Accounts and sessions | `handler/auth_telegram.go`, `store/postgres.go` | identity columns of `users` | POST /auth/session, POST /auth/telegram, `EnsureUser`, `EnsureUserFromTelegram` |
| Brokered login | `handler/auth_telegram.go` | a map of pending logins under a mutex | start, callback, poll, cleanup |
| Rate limiter | `middleware/ratelimit.go` | a `sync.Map` of counters by session and minute | middleware, cleanup goroutine |
| Scheduler | `cmd/broker/main.go` | one goroutine, two tickers | sweep; cleanup and retry |
| Session tokens | `middleware/auth.go` | none: a token is signed and kept by the client | `IssueToken`, `Auth` |
| Read endpoints, health, logging, configuration | the other files | none | single SELECTs, pure checks |

How they interact. PUT /signal writes `users` and `agent_signals` and starts a
goroutine that runs `MatchSingle` with the *request's* context. The scheduler
goroutine runs `Run` on one ticker, and on the other the removal of expired
signals and `RetryMissingIntros`. Both matching paths insert into `matches`;
whichever gets `created = true` calls `introduceAsync`, which starts another
goroutine. Nothing but single SQL statements coordinates them: no transaction
spans two statements, and the process keeps no lock over the tables.

What is hard, and where (PROJECT.json lists it line by line under `hazards`):
the two paths race for the same pair; both act on rows they have read earlier;
creating a match, marking its signals, sending two DMs and marking it introduced
are separate steps any of which may fail, or be cut by a crash or a cancelled
context after it has committed; deleting an account meets foreign keys without
cascade; pending logins are written by a callback that looked them up before a
network call; the rate limiter's counters are deleted concurrently.

What makes each component correct:

* matching: nobody is matched with somebody who did not accept them; a pair is
  matched and introduced at most once; a signal is hidden only for a user who
  has a match; a compatible pair is matched in the end;
* compatibility: each of the two decisions finds the pairs that accept each other,
  and nobody else, and where one misses a pair the other can find it;
* introductions: every match is introduced in the end, each person is told once,
  and *introduced* means told;
* accounts: one account per Telegram identity, a session for the account that
  owns the identity, also after deletions; deletion possible;
* brokered login: a result is delivered once, to the client that started the
  login, a session only for somebody who authorised it, and what the client was
  told stays so;
* rate limiter: at most `limit` requests per session and minute, nobody refused
  before that, and expired counters (only those) go away;
* the whole: two compatible signals end in one introduction, whoever finds the
  pair, and the match it is for keeps its members.

## Modules

| module | models |
|---|---|
| `Compatibility` | the columns matching reads, their validation (`model/validate.go`), the sweep's decision in Go (`compatible`), the real-time decision in SQL (`candidate`), and the symmetric condition both are about (`Mutual`) |
| `BrokerTables` | the tables `users`, `agent_signals`, `matches` and the statements matching runs on them, with foreign keys, cascade and the unique pair index |
| `Matching` | uploads, `MatchSingle` goroutines, the sweep, removals, expiry, failures and crashes over those tables; its properties and inductive invariant |
| `MatchLedger` | the abstract specification of `Matching`: per pair of users, strangers, then matched, then introduced |
| `Introduction` | the goroutines of `introduceAsync`, the retry in the scheduler, both running `Introduce`, and the columns `telegram_id` and `introduced` |
| `OAuthPending` | the pending logins of the brokered Telegram login: start, callback, poll, cleanup |
| `Accounts` | the identity columns of `users`, sessions and tokens, the requests that make and delete accounts |
| `RateLimiter` | the counters of the rate limiter, its middleware and its cleanup goroutine |
| `Broker` | `Matching` and `Introduction` composed: the same tables, one scheduler goroutine, one process that crashes |
| `MeetingLedger` | the abstract specification of `Broker`: the ledger of pairs with the messages each of the two has heard |
| `LoginMailbox` | the abstract specification of `OAuthPending`: a mailbox per login that is emptied once |
| `AccountRegistry` | the abstract specification of `Accounts`: persons, their one account and its sessions |
| `FixedWindow` | the abstract specification of `RateLimiter`: a limiter that decides in one step |
| `MCMatching`, `MCIntroduction`, `MCAccounts`, `MCRateLimiter`, `MCBroker` | finite instances for TLC |
| `CompatibilityProofs`, `MatchingProofs`, `IntroductionProofs`, `OAuthProofs`, `AccountsProofs`, `RateLimiterProofs`, `BrokerProofs` | theorems checked by TLAPS |

`Matching` extends `BrokerTables`, which extends `Compatibility`. `Introduction`
takes matches as they come; `Broker` extends `Matching` and takes its match rows for
the matches of an instance of `Introduction`, so that each is the other's
environment. `MeetingLedger` keeps its accounts and pairs in a `MatchLedger`.
`OAuthPending`, `Accounts` and `RateLimiter` stand alone: the first ends
in the calls with which a session begins in the second, and the third sees
nothing of a request but its session id.

Definitions named "Mutant" in their comment are slips that the definition after
them could have had (a WHERE clause or a direction left out, `<` for `<=`). No
specification uses them; putting one in place of its definition makes the
property that guards it fail, which shows that the property depends on it.

### Two decisions, two readings of a cell

A signal keeps its cell as the text the client sent (`locationH3`).
`isValidH3Resolution9` accepts whatever `h3.CellFromString` parses to a cell, which
includes upper-case digits, a prefix `0x` and leading zeros, and nothing normalises
it before it is stored. The constants `Text`, `CellFromString` and `String` are the
texts accepted, the cell each names, and the text the library prints for a cell; all
that is assumed of them is that a printed text parses back to its cell.
`geographicallyClose` parses both texts, as `job.go:217-218` does. `h3Cells` prints
the cells of the disk around the parsed one, as `job.go:113-117` does, and `candidate`
looks for the row's text, as it is, among those (`postgres.go:384`). So the two
decisions differ in two ways, and both are in the properties:

* a row whose text is not `Canonical` is never a candidate. Its owner's own upload
  finds others, since the spelling of the new signal does not matter, and the sweep
  finds it; another user's upload does not;
* a pair whose distance `h3.GridDistance` cannot compute (not in `Measurable`) is none
  of the sweep's.

A pair to which both apply is found by an upload of the user with the odd spelling
and by no other step, and by none at all if both users spell their cells oddly.

### State and actions of Matching

* `users`, `signals`, `matches` are the tables. At first some users may have accounts
  (logins make them as well) and nobody a signal. A signal row keeps the columns
  matching reads as one record `profile`, `matched`, and whether `expires_at`
  has passed. A match row is `<<user_a, user_b>>`: its id adds nothing, because
  the unique index and the order of the columns tell rows apart.
* `requests` holds each PUT /signal in progress together with its goroutine, with
  a program counter at the next SQL statement: `upsert` (the users row is
  written, the signal is not), `find` (the candidate query), `create` (the loop
  over the candidates). `live` is false once the handler has returned and
  net/http has cancelled the request's context.
* `todo` and `created` are the sweep: the pairs it has still to handle and the
  match it has inserted and not yet marked. Both empty, the scheduler is idle.
* `launches` (calls of `introduceAsync` for each row) and `offered` (profiles
  stored so far) are history, read by properties only.

One action is one SQL statement with the Go code around it up to the next one.
A statement has every outcome the code distinguishes: `CreateMatchIfNotExists`
creates, finds the pair taken, or violates a foreign key. A failing statement
(`UpsertFails`, `FindFails`, `SingleFails`, `SweepCreateFails`, `SweepMarkFails`)
may have committed or not. `HandlerReturns` cancels the context at any point after
the goroutine has started; a statement cut while it runs may have committed
(`SingleFails`), and later ones are not sent (`SingleAbandons`, `FindFails`).
`FOR UPDATE SKIP LOCKED` leaves out rows that a statement running in another
request may have locked (`MaybeLocked`). `Crash` is a crash or a shutdown:
tables stay, goroutines and the sweep's position are gone.

Abstractions. The push token, encrypted vector, public key and signal id are left
out: nothing in matching reads them. The sweep's order (`created_at` of the rows)
and the order of a pair's two columns are left open. A failing
`GetUnmatchedSignals` changes nothing and is not an action of its own. PostgreSQL
statements are atomic; the H3 library is an assumption (`GridAssumption`): texts
that name cells, and a symmetric distance, of which `h3.GridDistance` may fail to
compute some values.

### State and actions of Introduction

* `marking` is the match the sweep has created and whose signals it marks: it calls
  `introduceAsync` only after that, and not at all if the marking fails
  (`SweepCreates`, `SweepMarks`); `MatchSingle` creates and calls in one step
  (`CreateMatch`). The sweep and the retry share the scheduler goroutine
  (`SchedulerIdle`).
* `matches` and `introduced` are the rows of `matches` and those with the flag set;
  `telegramID` is the column of that name, as far as Telegram is concerned: the
  hash `EnsureUser` and `UpsertSignal` write, or the chat id a login through Telegram
  writes (`Login`). No statement of the broker writes an empty one, so the branch
  of `Introduce` for it is in the model and is never taken.
* `intros` holds the `Introduce` each goroutine runs: one goroutine for each match
  (`introduceAsync`), and the scheduler. Its program counter is the next call:
  reading the ids, the message to A, the message to B, marking. `live` is the
  30-second deadline of the goroutine; the scheduler's context has none.
* `missing` is the list `RetryMissingIntros` has loaded and not handled yet; its
  order (by `created_at`) is left open.
* `told` and `lost` are history: how often a message arrived, and whose was lost.

A message that arrives with the call reported as failed is a `Delivered`, because
`Introduce` only logs the error. `Undelivered` is a message to a hash, a failing
call or a passed deadline. A statement cut while it runs may have committed
(`MarkFails`). `Crash` also covers a shutdown, which waits neither for the
goroutines nor for the scheduler. Users with a match cannot be deleted (foreign
keys), so `Members` is constant, and what an account has been before its first
match makes no difference here. `Broker` does not assume that: there accounts are
deleted and made again, and `MembersStay` and `BrokerInvariant` say that it comes to
the same. The text of the messages and the handles are left out.

### State and actions of OAuthPending

* `pending` is the key set of `AuthHandler.pending`. `result` is status and result of
  every entry ever made, also of one that has left the map: a callback holds a
  pointer to it and may still write to it. A person stands for "complete" with a
  session for that person, and the two fields are written under one lock.
* `age` is the time since `createdAt` in the three ranges the code tells apart (5
  minutes for callback and poll, 10 for the cleanup); `TimePasses` moves one login at
  a time, which leaves the order of different logins open.
* `callbacks` are the callback requests in progress, with the call they have to make
  next: exchange, `EnsureUserFromTelegram`, `MarkAgeVerified`, or writing the result.
  Any browser may bring any issued code, again or concurrently (`ReceiveCode`), or
  an error (`ReceiveError`), which the code accepts at any age.
* `granted` and `used` are Telegram's side: codes issued, codes exchanged. A code
  is accepted once; an exchange that fails may have used it up.
* `answer` and `delivered` are history: the client's last answer, and how often a
  result was handed out.

A poll reads and deletes under one lock and is one action; its answer may be lost
afterwards. The answer "pending" changes nothing and is no action. Accounts are
only added here; deletion belongs to `Accounts`.

### State and actions of Accounts

* `users` is the table by `anonymous_id`, each row with its `telegram_id_hash` (a
  person), whether `telegram_id` holds the hash or the real id, and `age_verified`.
  The statements resolve conflicts on one of the two unique keys only
  (`EnsureUser`, `EnsureUserFromTelegram` on the hash, `UpsertSignal` on the id); a
  conflict on the other one makes them fail, and nothing changes.
* `sessions` are the tokens in the hands of clients. A token names an id and
  expires; the broker keeps none, so a deleted account leaves its tokens valid
  (`Auth` looks at nothing else). `life` counts the deletions of a person's account and is
  history: it tells tokens issued before a deletion from later ones.
* `verifying` are Telegram logins between `EnsureUserFromTelegram` and
  `MarkAgeVerified`. The callback of a brokered login makes the same calls, and they
  are the same action here.
* `known` are the ids the clients of a person may send: those generated on their
  devices, and those an answer has brought.
* `matched` are the accounts rows of `matches` refer to; `refused` is history.

A lost answer is a session that ends unused (`SessionEnds`); so is an expired one.
Every id is a UUID of its own. Clients are taken to be honest: they send the hash
of their own person.

### State and actions of RateLimiter

* `counters` is the `sync.Map`, by session and minute; a counter is named by the
  request that allocated it, because a request holds a pointer to it between
  `LoadOrStore` and `Add`, when the map may already hold another one.
  `count` is the value of each counter.
* `requests` are numbered as they come in; `key` is computed with the minute at that
  moment (`ReceiveRequest`), however late the next steps are.
* `sweep` is the cleanup goroutine's run of `Range`: `CleanupVisits` handles one key, and
  may or may not see keys stored since its start.

`Parsed` is what `Sscanf` finds in the last 20 characters of a key. The minute has 8
digits and follows a colon, so these begin with the last 11 characters of the
session id, and the number (or the failure to read one) depends on the session
alone: `Parsed` is a constant function of it, and the specification leaves its values open.
The counters live in memory, so a behaviour is the life of one process.

### State and actions of Broker

`Broker` has the variables of `Matching` and, for those of `Introduction` that are not
tables or sweep already, variables of its own. A match of `Introduction` is a row;
the match it is `marking` is `created` of `Matching`. Where `Matching` counts a call of
`introduceAsync` in `launches`, the goroutine starts (`StartIntroductions`).
`SchedulerSweeps`, `SchedulerCleans` and `SchedulerRetries` are the two tickers' work in
their one goroutine: each waits for the others to end (`RetryIdle`, `SweepIdle`).
`UserLogsIn` also inserts the account, and `UserLeaves` forgets its Telegram id.
`BrokerCrash` is both crashes at once.

### The abstract specifications

Each says what a client or user may rely on, without the machinery; the detailed
module names the mapping and states the implementation as a property
(`ImplementsLedger`, `ImplementsMeetings`, `ImplementsMailbox`, `ImplementsRegistry`,
`ImplementsFixedWindow`). None of them states fairness: what must happen in the
end is in the liveness properties.

* `MatchLedger`: `status` of a pair is `PairStatus`, the launches and rows of its two
  possible rows. Accounts of a pair that is no longer strangers stay.
* `MeetingLedger`: here a pair is introduced once its row is *marked* (`Marks`). `tried`
  and `heard` are about people, not rows: `TriedContacts` and `HeardContacts` add up
  what either row of a pair has led to. The step to introduced needs a message
  to each of the two to have been tried, and a message needs a match and room
  below 2 and the mishaps so far. A mishap is a failing call or a crash, which may
  be the same step as the message or the mark it loses.
* `LoginMailbox`: the mailbox is open while the login is in the map. Results waiting
  in the map, ages and the state of callbacks are not in it: all a callback does for
  the clients is to redeem an authorisation, and register and verify its person;
  which of the possible messages a poll brings is left open, but a session only for a
  person with an account whose authorisation of this login was redeemed.
* `AccountRegistry`: an account is a pair of a person and an id. `Registered` reads it
  from the rows; `CurrentSessions` are the tokens of the present life, so tokens of a
  deleted account are not sessions and the registry does not know devices or
  other ids. Leaving ends account, sessions and verification in one step.
* `FixedWindow`: the steps between `LoadOrStore` and `Add` are stutters, and the
  verdict falls at `Add`. Sessions the cleanup has had reason to touch are excused
  from the limit, but not from the rule that nobody is refused below it.

## Runs

| run | question | expected |
|---|---|---|
| `matching_three_users` | Do races between uploads and the sweep break mutuality, uniqueness or the matched flag, and does each of the two decisions find the pairs it should? | holds |
| `matching_churn` | Do re-uploads, removals, deletions, expiry, failures and crashes break the inductive invariant or the ledger? | holds |
| `uploads_match_immediately` | Are compatible uploads matched once they are done, as `signal.go:74` says? | violated |
| `non_binary_seeking` | Does NB gender match any seeking, as `job.go:239` says? | violated |
| `introduction` | With goroutines, the retry, deadlines, logins, a fault and a crash: is a match marked only after both messages were tried, are repeats bounded by the failures, is every match introduced in the end? | holds |
| `introduced_means_delivered` | Is a match marked "as delivered" (`introducer.go:27`) one both were told of? | violated |
| `oauth_pending` | Is a result handed out once, for somebody authorised, and final, with two callbacks at once, expiry and a crash, does every login leave the map, and is the whole a mailbox that is emptied once? | holds |
| `accounts` | With several devices, both kinds of login, deletions and old tokens: does every current session name the one account of its person, does that keep what it is, and is the whole a registry of persons? | holds |
| `accounts_deletion` | Does CASCADE handle related rows when an account is deleted, as `postgres.go:111` says? | violated |
| `rate_limiter` | With requests, cleanup and clock racing: is the limit kept, is nobody refused before it, do counters the cleanup can read go away, and is each verdict the one an atomic limiter would give? | holds |
| `rate_limiter_expired` | Does the cleanup remove expired buckets only, as `ratelimit.go:20` says? | violated |
| `broker` | With matching and introductions together in one process: do compatible signals end in an introduction, are repeats bounded, do matches keep their members, is nobody told of somebody who did not ask for them or has left, and is every step one of the ledger of meetings? | holds |

What the violations show:

* `uploads_match_immediately`: the goroutine runs on `r.Context()`. In the trace
  the handler returns first and the candidate query fails, with no fault in the
  store. What is meant to be instant is then left to the sweep.
* `non_binary_seeking`: `seekingCompatible` asks for "any" or for equal values, and the
  SQL for the same. Somebody of gender NB is found by those who seek "NB" or "any" only.
* `introduced_means_delivered`: a message that fails is logged, and the match is
  marked and leaves the retry. The trace needs no failing call: `telegram_id` holds a
  hash, not an empty string, until its user logs in, so neither the query nor the
  test in `Introduce` for "missing Telegram IDs" (`introducer.go:35`) waits for the
  login, and both messages go to a hash.
* `accounts_deletion`: `matches` refers to `users` without ON DELETE, so whoever has ever
  been matched cannot delete the account. The same foreign keys are what
  `Introduction` and the ledger rely on.
* `rate_limiter_expired`: the cleanup takes digits of the session id for the minute. If
  they read as a small number, every cleanup removes the session's counters, the
  current one included; `LimitHolds` says that this is the only way past the limit.
  If they begin with a letter or read as a large one, the counters stay for good;
  `EarlyNumbersLeave` is about the others.

Other places where a text and the code differ, which the models have but no run
is spent on: `postgres.go:370` "returns unmatched signals that are compatible" leaves
out rows whose cell is in another spelling (`RealtimeFindsMutual` says which);
`postgres.go:373` "FOR UPDATE SKIP LOCKED to prevent concurrent match races" is no
transaction, so the locks end with the query and the unique index alone keeps
pairs apart (`OneIntroductionPerPair`); `job.go:159` "haven't been introduced yet"
includes matches a goroutine is introducing just now, hence the 2 in
`RepeatsAreAccountedFor`; and a reload of the callback after "Login successful!"
(`auth_telegram.go:584`) overwrites the result with an error if the client has not
polled yet. What happens to a result before it is polled, by this or by a later
callback, is in `OAuthPending` as the code has it, and no property says that it stays:
`OneResult`, `AnswersAreFinal` and the mailbox are about what the client is told.

Bounds, all constants of `Matching`: `MaxUploads`, `MaxRemovals` (removals,
deletions and expiries together), `MaxFaults` (failing statements), `MaxCrashes`,
and the sizes of `User`, `Request` (uploads in progress at once) and `Profile`.
Two concurrent requests and the sweep are three parties for one pair, one more
than the two a race over a unique pair needs; three users let a goroutine hold
several candidates and the sweep several pairs; three uploads over two users
include a re-upload at every point of the other two. `matching_three_users` has no
faults or removals; `matching_churn` has them with two users. A cancelled context
needs no fault and is part of both. The four profiles of `matching_three_users` have,
among them, two pairs of users of whom only one accepts the other, a pair at the
limit of the ring (distance 5) and one just beyond it (6), a pair whose distance
cannot be computed, and a cell in a spelling of its own; that row is in
`matching_churn` too. The gender and age columns take few values there, and the
theorems `CandidateExact` and `CompatibleExact` cover all of them. `non_binary_seeking` and
`uploads_match_immediately` have two uploads of two users and nothing else. The deadlock check is off in the runs of `Matching`, since
the system stops when its bounds are used up. User and request names are
symmetric.

`Introduction` is bounded by `MaxFaults` and `MaxCrashes`. The run has two matches that
share a user, so that three goroutines (two of `introduceAsync` and the scheduler)
are at work, one user who has yet to log in, one failing call and one crash: a
retry can race with a goroutine and fail, and be repeated after the crash. The
specification of the run, `MCFairSpec`, starts from one of the initial states only
(a bot, one user not logged in); logins and the crash lead to the others.
`OAuthPending` is bounded by `MaxCallbacks` and `MaxCrashes`. Logins share nothing but
the lock, so the run has one, through four callbacks: with two slots one can
overtake another, with two persons somebody else's code comes to the login, and
callbacks come before and after a result, a poll, an expiry and a crash. Polls are
not bounded.

`Accounts` is bounded by one deletion for each person and by four ids: a person with
two devices, one with a single device, and an id for the broker to generate. That
is enough for a token of a deleted account to meet the account made after it under
another id, for two devices of one person to race, and for a person who has not
logged in to sit beside one who has. `RateLimiter` has three requests and a limit of
one, so that two can race for the counter and a third meet what they have left,
over three minutes; one session id reads as a small number, one as none.

`Broker` multiplies both parts, so it is small: two users whose signals accept each
other, one of whom has logged in through Telegram before, two uploads, one at a
time (the runs of `Matching` have two at once), one removal, deletion or expiry, a
crash, logins as they come. The pair can be found by an upload or the sweep, be
marked or not, and be introduced by a goroutine or the retry; the races between
the parts are what this run is for. Failing calls of the store or of Telegram are
left to the runs of the components: a cancelled context, a deadline and the crash
reach the same half-done states here. With one profile, whoever is told of somebody
accepts them by itself; `ToldOnlyOfPartners` then says that both have stored signals
and accounts, and `PartnersOnly` proves it for any profiles. Two uploads leave none for
a signal that replaces one the sweep has loaded, so `PairsMeet` says nothing of that
case (nor of failing calls), which only safety covers (`MatchedPartners`). Larger bounds (a removal more, a third
upload, a failing call on either side) were tried and found no error, but take too
long to be kept.

The proofs hold for any number of all of these. The deadlock check is off in all these runs:
once the bounds are used up there may be nothing left to do.

Fairness. In `Broker`, `BrokerFairSpec` assumes of the scheduler goroutine that the sweep
and the retry, whenever they have something to do again and again, are served:
`Run` and a call of `RetryMissingIntros` have no unbounded wait (a message waits 15
seconds at most), and the `select` of `runScheduler` picks at random among the tickers
that have ticked. That is strong fairness of each, since either may be waiting for
the other to end. Of uploads, handlers, the goroutines of `MatchSingle` and
`introduceAsync`, logins and `CleanExpired` nothing is assumed. Crashes are bounded,
and `PairsMeet` is about behaviours that run with a bot token from some point on.
In `Introduction` it is the same for the scheduler's work as a whole, and weak,
as nothing else there takes it away. In `OAuthPending` it is assumed that time passes
and that the ticker of `StartCleanup`, an endless loop without a way out, ticks; in
`RateLimiter` that the cleanup goroutine, which is another one, goes on.

## Proofs

`CompatibilityProofs` proves, for every grid and set of texts satisfying
`GridAssumption` and every two profiles, that `candidate` is `Mutual` with a canonical
text in the row (`CandidateExact`: the one-sided WHERE clauses add up to the symmetric
condition, and the comparison of texts to the distance and the spelling), and
that `compatible` is `Mutual` with a measurable distance (`CompatibleExact`).
`RealtimeExact` and `SweepExact` in `MatchingProofs` carry this to every reachable state
of `Matching`, where it says of the rows available what the query and the sweep
find among them.

`MatchingProofs` proves safety of `Spec` for any sets `User`, `Request`, `Profile`
and any bounds, from `GridAssumption`, `TablesAssumption` (profiles pass
validation, `NoSignal` is no row) and `MatchingAssumption` (bounds are naturals,
the two other null values are none of the values they stand for).

`TypeCorrect` comes first, with one lemma per group of actions. Then come lemmas on
what one step may do to each table (`SignalsStep`, `UsersStep`, `MatchWriters`,
`RequestsStep`): a signal row is the former one, perhaps marked, or one just
uploaded; accounts only disappear unreferenced; a new match is of a pending pair,
both accounts present, the pair free; and so on. With these, the inductive
invariant `IInv` is proved part by part:

* `ProfilesWereOffered` and `PendingPairsAreMutual` carry mutuality over the time
  between reading rows and inserting the match, since the rows may change in
  between: `EveryMatchWasMutual` alone is not inductive;
* `RowsReferenceUsers` is what the foreign keys give, and is needed for the
  partner in `MatchedHasPartner`;
* `OneRowPerPair` and `CreatedNotIntroduced` say what holds between the sweep's two
  statements; without them `OneIntroductionPerPair` is not preserved by the step
  that introduces the match created earlier.

From `IInv` follow `IntroducedOnce`, `MatchesAreMutual` and `MatchedPartners`.
TLC checks `IInv` in `matching_churn`. The last theorem, `Implementation`, is that
`Matching` implements `MatchLedger`: each action keeps the launches and the rows, adds
a row of a pair that had none, or adds a launch for a row that had none; with
`IInv` each of these is a step of the ledger or leaves it unchanged.

`IntroductionProofs` proves safety of `Introduction` for any users, matches, faults and
crashes. `RepeatsAreAccountedFor` (at most two messages, plus one for every fault and
crash) is not inductive: it does not see the messages still to come. The invariant
`RepeatsAndPending` counts them in advance: `Weight` adds to the messages received one
for the goroutine that has its message still to send and one for the retry, if it is
on the way, in the loaded list, or will be loaded because the match is unmarked,
and one for the goroutine the sweep is about to start.
Loading and starting move a message from one of these to the next; sending turns
one into a message received; only a fault or a crash brings the retry back after it
has sent. `MarkedOnlyAfterTrying` rests on `PastMessagesWereTried`.

`OAuthProofs` proves safety of `OAuthPending` for any logins, persons and callbacks.
Lemmas on what one step may do (`LoginStep`, `ResultStep`, `CallbackStep`) come first.
`PendingIsUnanswered` (a login in the map is new to its client) makes `OneResult`
inductive and gives `AnswersAreFinal`; `CallbacksAreBacked` and `ResultsAreBacked` carry
the authorisation from the exchange through the callback and the stored result to
the answer, which `SessionsAreBacked` alone does not remember. `MailboxImplemented` is
the refinement of `LoginMailbox`. Each step of a callback redeems, registers, verifies
or does nothing to the mailbox (`CallbackMails`); that it has the right to comes from
`CallbacksAreBacked`. A poll empties the mailbox or finds it gone (`PollMails`), and
what it brings is one of the `Messages` by `ResultsAreBacked`. A callback that writes a
result to an entry no longer in the map is a stutter, so nothing late reopens a mailbox.

`AccountsProofs` proves safety of `Accounts` for any people, devices and ids. It rests on
two assumptions about the environment (`AccountsAssumption`, `known` in `Init`): no
two people's devices generate the same id. `TokensAreCurrent` is the part that makes
`CurrentSessionsWork` inductive: a token of the present life names a row that exists,
and it must say so of logins still in progress. `IdsAreApart` is what keeps an id that
was once one person's from becoming another's, without which an old token would
verify, or delete, somebody else's account.
`RegistryImplemented` is the refinement of `AccountRegistry`. `RegisteredStep` says what an
insert, a login, a mark and a deletion of a row do to the accounts of persons: an
insert adds one for a person who has none, under an id nobody has, because both keys
are unique, whichever of the two the statement resolves. `EnsureJoins` and `AnswerStep`
use that for the two kinds of session; an answer that comes after the deletion of its
account finds the token's life past (`TokensAreCurrent`) and is no session.

`RateLimiterProofs` proves safety of `RateLimiter` for any sessions, limit, number of
requests and any `Parsed`. `CountersCount` (a counter has let through as many
requests as it counts, up to the limit) needs a lemma on the cardinality of a set
that gains one request. `UntouchedHaveOneCounter` links counters to minutes: a
session the cleanup has had no reason to touch has, for each minute, the one
counter in the map, so the limit of the counter is the limit of the minute.
`FixedWindowImplemented` is the refinement of `FixedWindow`: at `Add` the counter has the
value from which the code decides, and the atomic limiter counts the requests of
the window let through; `AddDecides` shows with `CountersCount` and
`UntouchedHaveOneCounter` that the two come to the same, in the one direction
(refusal) for every session and in the other for the sessions not excused.

`BrokerProofs` proves that the two invariants hold together. It extends
`MatchingProofs` and instantiates `IntroductionProofs` with the broker's variables: a
step of `Broker` is a step of `Matching` and, for `Introduction`, one of its actions
or nothing, which is proved by cases on what the step does to `launches`, `created`
and the rows; then the lemma that a step preserves the invariant
(`StepInvariant`) applies to each. That is where the assumptions the components make
about each other are discharged. `NeverFlooded` and `MembersKept` follow, and
`PromisesKept`: what was proved of each part alone holds of it in the broker.
`PartnersOnly` goes from a message to the match row and from there to the two signals,
through an invariant of each part. `BrokerLedger` carries the refinement of `MatchLedger` over to the broker, where a login may
open an account.

`BrokerMeetings` is the refinement of `MeetingLedger`. Lemmas on `MeetingStatus`, the
contacts and their sums (`MeetingStatusOf`, `HeardOf`, `TriedOf`) translate between rows
and people; `SendsHears`, `LosesMisses` and `MarkIntroduces` are the steps of `Introduce`
that the ledger sees, `MatchingMeets` those of `Matching`. That a message finds room
below the bound follows from `NobodyIsFlooded` after the step, which `RepeatsAndPending`
gives by counting the message in advance, and from the one row a pair has. A mark is
the ledger's introduction by `PastMessagesWereTried`, unless the row was marked before, and then a stutter.

TLC checks each inductive invariant (`introduction`, `oauth_pending`, `accounts`,
`rate_limiter`, `broker`).

Only model-checked: the liveness properties `PairsMeet`, `EveryMatchIsIntroduced`,
`PendingIsForgotten` and `EarlyNumbersLeave`, since liveness under fairness is out of
the prover's reach.
They, and the claims of the five violated runs, are the only properties without
a theorem; `PairsMeet` and `EveryMatchIsIntroduced` depend on the strong or weak fairness
of the scheduler and so on ENABLED, and the two others on fair clocks and tickers.

## Not modelled

The read endpoints, health, logging, request ids, recovery and configuration keep
no state another component depends on: each is a single SELECT or a pure function.
`verification_sessions` is emptied by the scheduler and written by nothing.
`EXAMPLE/` holds the Discord predecessor and the client skill, which are not part
of the broker process. Signatures, encodings, hashes and the H3 library are taken
to do what they promise. Time is abstract: a signal, token or deadline may expire at
any moment, and tickers tick at any moment; how long a user waits is not a question
of these models. Whether a client may upload for another anonymous id is not
either: an upload is for one user.

## What could come next

* `Accounts` and `OAuthPending` composed with `Broker`: the account a login makes is the
  one matching uses. Here the two meet in `EnsureUserFromTelegram`, which both model.
* The abstract specifications proved about in their turn (nobody introduced unheard of,
  a limit per window), so that their clauses follow from the refinements alone.
* `PairsMeet` with three users, where the sweep of one pair holds up another's retry.
