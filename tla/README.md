# A verification project for Merope

Merope is a social platform: a Go backend (`backend/`, one process behind Fiber
that talks to PostgreSQL, Redis, NATS and, optionally, ScyllaDB) and a Flutter
client. This directory models the parts of the backend where several requests,
goroutines or stores meet, checks them with TLC on small instances, and proves
with TLAPS, for instances of every size, every safety property that the passing runs check.

To use it, inside this directory:

    tlc -workers 2 -config MCLedger.cfg MCLedger
    tlapm LedgerProofs.tla

`PROJECT.json` lists the runs, the mutants (a plausible bug for each property, which
TLC must then find), the source lines of every definition, the hazards, and the
theorems.

## 1. The system

`cmd/api/main.go` calls `BuildApp` of `core/wiring/wiring.go`, which makes everything and
returns `cleanup`. Every HTTP request runs in a goroutine of its own.

| component | state | operations | talks to |
|---|---|---|---|
| wiring and lifecycle | what was made, the listener | start, readiness, signal, drain, cleanup | everything |
| admission | windows and the token blacklist in Redis, the detector's buckets | limit, detect, authenticate | in front of every handler |
| identity and sessions | `users` with a read-through cache, `sessions`, devices, refresh tokens, MFA challenges | register, login, MFA, refresh, logout, me | PostgreSQL, Redis |
| idempotency middleware | response and lock of each key in Redis | look up, lock, run, store, release | in front of every authenticated mutation |
| finance | `wallets`, `escrow_records`, `transactions` | tip, transfer, unlock, create, release and refund an escrow | PostgreSQL, one transaction each |
| worker pools (`Orchestrator`, two `Engine`s) | buffered channels, goroutines, `stopCh` | Submit, worker, dispatcher, Stop | run the tasks of messaging |
| circuit breaker | `isOpen`, `failureCount`, `lastFailure`, a mutex | Execute | in front of ScyllaDB, called by the tasks |
| messaging | rooms, members, messages, reads, reactions, mutes, keys; copies in ScyllaDB | send, edit, delete, react, read, mute, history, unread, keys | PostgreSQL; then a task: breaker, ScyllaDB, NATS |
| realtime hub and NATS bridge | connections by user in 32 shards, `unregister` channel | Serve, Run, Stop, LocalDelivery | NATS to WebSockets |
| progression (growth) | profile, events, quests, season scores | RecordEvent, ClaimQuest, shield, boost, profile | PostgreSQL |
| social graph | `follows`, `follow_requests`, `blocks`, deny edges | follow, unfollow, request, respond, profile, followers | PostgreSQL |
| content and stories | posts, polls, reactions, comments, reposts, stories; copies in ScyllaDB; fingerprints | broadcast, edit, delete, react, comment, feed; tell, view, react, expire | PostgreSQL, ScyllaDB, NATS |
| community | groups, members, guidelines, events, collectives, threads, subscriptions | some twenty-five | PostgreSQL, a statement at a time |
| marketplace | `products`, `orders` | post, browse, purchase | PostgreSQL |
| developer API | applications, keys, webhooks, deliveries, bots | create, edit, drop, list, test | PostgreSQL, a pool of connections |
| search, lumia, vault, notifications | rows of one user | store, tip, search, choose, notify, page, mark, clear | PostgreSQL, NATS |

A call travels through several of these: limiter -> detector -> token -> idempotency ->
handler -> service -> repository -> PostgreSQL, then Submit -> pool -> breaker -> ScyllaDB ->
NATS -> bridge -> hub -> WebSocket. Nothing ties one hop to the next: there is no outbox,
no retry, and no transaction across stores. That is where the hard behaviours are:

- interleaving of transactions at READ COMMITTED, with row locks, unlocked reads
  before them, and deadlocks between transactions that lock in different orders;
- handlers that ask in one statement and write in the next, in no transaction;
- answers that are lost after their effect, and the retries that follow;
- tasks that run in any order, are refused by a full queue or dropped at shutdown;
- state looked at under a lock, and used after the lock was given back (breaker,
  hub, idempotency lookup, content guard, cached accounts);
- pages that shift while rows come in;
- parts that may be missing (ScyllaDB, the bus, the auditor), and a shutdown that
  proceeds while handlers, tasks and deliveries are under way;
- clocks: midnight on two of them, windows in Redis stamped by the process, a token
  against its blacklist entry.

What makes each part correct:

- *finance*: no overdraft, no money made or lost, an escrow settled once, a journal
  that explains the balances, an "ok" that is durable, requests that end;
- *idempotency*: one effect and one body for each key, faithful replays, one handler at
  a time, a lock that is kept while it is needed and comes free afterwards;
- *identity*: a lock that was earned, MFA that was proved, a refresh token and a challenge
  spent once, grants that rest on rows, and a logout that holds;
- *admission*: no more passes in a window than its limit;
- *pools*: a task runs once, nothing runs after Stop, what was accepted runs, Stop returns;
- *breaker*: flag and counter agree, one probe at a time, it opens and recovers;
- *messaging*: PostgreSQL comes first, one event for each call, nothing after shutdown,
  the history that is served is that of PostgreSQL, and its pages are complete;
- *hub*: an open connection is found by deliveries and served in order, a closed one forgotten;
- *progression*: xp, quests and streaks are what the events explain, rewards are paid once;
- *social, content, stories*: a private account is followed, seen and answered only by those it
  accepted; copies agree with rows; a text is published once;
- *community*: a ban holds; *marketplace*: orders and stock add up, and a stock that limits is not oversold
  (a counter at 0 means unlimited); *developer*: rows have their
  owner and their app, and somebody can always go on; *personal*: what was answered is kept;
- *lifecycle*: stores outlive their users, readiness means a bus, and a signal ends the process.

## 2. The modules

    LedgerSpec  <---implements---  Ledger  <- LedgerProofs, MCLedger
    TaskPool    <---implements---  Orchestrator  <- OrchestratorProofs, MCOrchestrator
        ^-------extended by------  MessageMirror  <- MCMessageMirror
    RealtimeHub, Rooms, MessageMirror  <- Conversations  <- MCConversations, MessagingProofs
    Idempotency, Sessions  <- Gate  <- MCIdempotency, GateProofs
    Accounts  <- MCAccounts, GateProofs
    Progression  <- MCProgression, ProgressionProofs
    SocialGraph  <- Posts, Stories  <- Content  <- MCContent, ContentProofs
    CircuitBreaker, Market, Community, Lifecycle, Developer, Admission, Personal
        <- Services  <- MCServices, ServicesProofs
    SumTheorems  <- LedgerProofs, ServicesProofs, ProgressionProofs

Each module declares its parameters as CONSTANTS with a named assumption. An
`MC` module only gives them values. Definitions commented with `Mutant:` are
the buggy variants used to test the properties; no specification uses them.

Two kinds of composition occur. *Content*, *MessageMirror* and *Orchestrator* compose parts that
share state: their steps interleave. *Gate*, *Conversations* and *Services* put parts that share
none (or whose shared rows are modelled in each by themselves, as the messages of Rooms and MessageMirror) next to each other: a variable (`mode`, `part`) says which of them a behaviour follows, and the
others stay as they were. What holds of all behaviours then holds of each part alone.

An action is one step that nothing in the code can interrupt: a statement of PostgreSQL, a command or
script of Redis, a stretch under one mutex, a send to a channel. Where a handler has one statement, the
handler is one action. Names follow the code; the source lines of a definition are those of the function it
stands for, and an operator that is a statement (`InsertMessage`, `Respond`) has its SQL.
Variables marked *history* record what happened for the properties to speak of; no action looks at them.

**Ledger** (`modules/finance`). `balance`, `escrow` and `journal` are the committed
tables; `tx[r]` is what the open transaction of request `r` has written, `walletLock`
and `escrowLock` are PostgreSQL's row locks, `pc[r]` is the next statement. One
action is one statement: `Debit`, `SettleRow`, `Credit`, `Record`, `Commit`, each with its
`...Miss` when no row matches. Tip, transfer and unlock share `Debit`/`Credit`/`Record`.
`Submit` is what the service does before BEGIN, with the unlocked read of an escrow.
`Abort` is any error in the middle, `Commit(r, "failed")` a lost answer,
`DetectDeadlock` PostgreSQL's detector. Names stand for users in several spellings
(`Parse`), since the code compares strings and stores UUIDs. **LedgerSpec** is the
promise: whole operations, no locks, no statements.

**Idempotency** (`core/middleware/idempotency.go`). A delivery of a request goes through
`Hit`/`Miss`, `Acquire`, `Handle`, `Store`, `Unlock`, which `Serve` collects;
`LockExpires`, `ResponseLost`, `RedisDown`, `StoreFails`, `UnlockFails` and `Crash` are
what goes wrong. The constant `Faults` names the kinds of trouble that are admitted.
**Sessions** (`modules/identity`, registration and login): the limiter of logins, the look for a known
device, the risk that adds up, the session row, the alert of an impossible journey (another address within the hour; a place is an
address and an agent, `Address` its first half), the tokens, and requests that bear them. `audited` is whether the repository has an auditor; `BuildApp` gives it none, so
that a registration panics after its row is written, and both cases are checked and proved about. **Gate** has both, and
Idempotency a second time with no faults and no overlap of an attempt and its retry (`mode = "serial"`).

**Accounts** (the row of one account). `row` is the row, `cache` the copy that `GetUserByID` serves,
`slot` the requests in progress, each with the `view` it has loaded: failed logins counted and the account
locked, MFA set up, confirmed and verified, refresh tokens rotated. The copy has what JSON keeps of a user, so the view of a cache hit
has no secret (`ViewOf`), and `Check` goes by the secret of the view, the empty one if it has none. A store may fail at every step.

**Admission** (`core/middleware/rate_limit_redis.go`, `core/security`). One clock of ticks. A request is
stamped, its limiter scripts run later, in any order; the detector counts in its bucket; the token is checked
for expiry and then against the blacklist, which a logout fills for as long as the token has left.

**TaskPool** and **Orchestrator** (`core/worker`). `Orchestrator` has both engines with
their channels, goroutines, dispatchers and `Stop`, which closes and waits pool by pool,
and the context that SIGTERM cancels *before* that. `TaskPool` is what callers can count
on. **MessageMirror** is built on `TaskPool`, so that what it relies on is shown of the code.

**CircuitBreaker** (`core/worker/circuit_breaker.go`). The look at the state, the call and
the recording of its result are separate steps; a half-open call holds the write lock.
The clock is one bit, whether the timeout has passed since `lastFailure`.

**MessageMirror** (`modules/messaging`, the tasks). The handler's statement, `Submit`, then the task: mirror
write through the breaker, event. `History` is what `GetRoomHistory` returns for a first page.
A text is named after the call that wrote it, and `HasRow` is what the statements look for, which a deletion goes on without. One room. **Rooms** has the handlers: the rows of rooms, members,
messages, reads, reactions, mutes and public keys, `copied` for the mirror in its own order, `mirrored` for whether
ScyllaDB was there at the start, and readers that follow the cursors: `seen` is what they were shown, `owed` what was there when they began,
`lacked` what a page of the mirror kept from them.

**RealtimeHub** (`core/realtime`). `Serve` registers at once and reads; `ReadFails` is the
deferred `select` that may find the channel full; `Unregister` is `Run`; the bridge takes an
event, looks up the members, copies their connections one member at a time and
writes to the copies. `Stop(u)` passes the shards one by one.

**Progression** (`modules/growth`). Each call is a transaction with the locks of its
statements, in their order; what it writes is applied when it commits. `began` is
`CURRENT_DATE` of the transaction, `computed` the day of the later `time.Now()`. A reader takes the
season and the profile in statements of their own (`ReadProfile`, `ProfileShown`).

**SocialGraph** (`modules/social`): the calls on `follows`, `requests` and `blocks`, of which an acceptance and the
look at a profile are two statements. **Posts** (`modules/content`, with the guard of `modules/social`): calls that
look at a post, write its rows, copy them to ScyllaDB and publish; the poll of a post is written row by row by a goroutine
of its own; `mirrored` as in Rooms. Of the copies of a post's comments, which have times of their own, the newest `CommentsShown` are read;
`SearchPosts` is what search, completions and trends find. **Stories**: telling, viewing, reacting and expiry. **Content**
interleaves all three over the rows of `follows`.

**Community** (`modules/community`). Groups are loaded in one statement and changed in another. What is shown
to whom is an operator (`ListCommunities`, `Members`, `Analytics`, ...) with the flags and roles it answers, and the property compares
these reads with the bans. **Market**: carts are checked line by line against unlocked reads, then
reserved line by line under row locks; others post and browse meanwhile. **Developer**: the owner is asked, then the row is
written; an application that is dropped takes its parts along; a list of webhooks holds one connection and asks for another.
**Personal**: vault, lumia, search and notifications; `linked` is whether the bus was there. Rows of notifications are a set,
each with the stamp of its INSERT (`Time`); the order of a page is that of the stamps (`Place`).

**Lifecycle** (`cmd/api/main.go`, `BuildApp`). `main` is the part that is being made, then "serving", "draining",
"closing", "exited"; `wired` what was made; `turn` the part that the cleanup closes next. `StartFails` is `log.Fatalf`, which skips
the cleanup; `PublishPanics` and `TaskPanics` are a Publish on the nil bus of a development process, which answers 500
in a handler and ends the process in a worker.

## 3. The runs

Passing runs:

- `ledger`: three requests that choose among 17 calls (transfers both ways, to oneself under
  another spelling, to a user without a wallet; refused calls; two escrows and every
  settlement of the first by every user), two wallets with 2 and 1. Three requests are what
  a race between a release and a refund of one escrow, or a deadlock with a bystander,
  needs; amounts reach from below zero to the whole balance.
- `idempotency_faults`: three deliveries of one key, one with another body, with every fault; the same without faults for a
  client that retries after an answer; and one name registered, logged in from two addresses and with two agents at one of them, its
  refresh token presented twice, asking who it is: three calls of eight, two at a time, which a registration and two logins, or two
  refreshes of its token, need.
- `accounts`: two requests at a time on one account, two refresh tokens, a secret besides the empty one, one challenge, thresholds of two:
  two clients can hold the same token, challenge or stale view.
- `orchestrator`: two pools, three goroutines, four tasks, one of them a dispatcher's,
  queues of one slot, so that full queues, a race of two goroutines for a task and shutdown
  with tasks queued all happen.
- `conversations`: three connections of two users, two events, room for one in the channel; and three of seventeen
  calls on three rooms, with pages of one message, so that a reader meets two pages and a message comes between,
  with ScyllaDB and without; and one message sent, edited and deleted by its author, perhaps deleted before it is there, and changed by
  somebody else, with failures of each store, full queues and shutdown.
- `progression_rows`: two posts, a message that unlocks an achievement, a claim, a reader, two days,
  with failures anywhere in a call and answers lost after a commit.
- `content`: any three of thirty calls by three users, one with a private account, step by step: a call that
  looks, one that answers a request or unfollows, and one that writes. `Scenes` takes the three either from the calls on the
  graph and on what the private account posts and tells, or from those on the posts of an open one, with a block: the two
  share no row but those of follows, and the theorems are of any calls together. One comment of the mirror is read, so that a second hides the first.
- `services`: four carts over two products with two of each (the same rows in both orders, more than there is) and a
  third product that is refused; three callers of a breaker with threshold two; three of twenty-two calls on two groups; two requests with
  their tasks; two of twenty-five calls on two applications, with two connections; two visits on a clock of four
  ticks with limits of one; three of seventeen errands of two users, pages of one.

Bounds that a guard enforces: `MaxEvents` (events of a subscription), `MaxChats`, `MaxCalls` and `Scenes`, `MaxGroupCalls`, `MaxDevCalls`,
`MaxErrands`, `MaxEntries` and `MaxAtOnce` (calls of one behaviour, or at a time), `MaxGuidelines` (of one update), `LastTick` (the clock),
`MaxDay` and `MaxShields` (days, and uses of the shield). All else is bounded by the constants' sets. The hazards of these modules are
between two calls, or two and a third that ends a ban, an app or a follow; `PageSize`, `CommentsShown`, `HistoryShown`, `LoginMax`, `GlobalMax` and their
like are constants of the code made small, so that they are reached.

The runs that must fail show disagreements between the code and what the repository says
(`findings` in PROJECT.json quotes the lines):

- `idempotency_overlap`: the stored response is looked up before the lock is taken and not
  again under it. A duplicate that looked before its original stored its response, and
  locks after it gave the lock back, runs the handler again.
- `progression_claims`: two claims of a quest that both read it before either commits are both
  paid; the upsert that serialises them does not look at `claimed` again.
- `mirror_follows`: without any fault, the history served from ScyllaDB departs from PostgreSQL.
  TLC's shortest way is two sends mirrored in the other order. `MirrorFollows` has four other
  parts, which fail too: an edit never reaches the table the history is read from
  (`scylla_repository.go:90`), a message whose mirror failed is missing from a history that is not empty
  (`high_performance_messaging.go:287`), a late edit writes its text back after a deletion (`:104`), and a deletion by
  somebody else, which PostgreSQL does not apply, blanks the mirrored text (`:130`).
- `accounts_secret`: SetupMFA stores a secret and shows it to the user; a copy of the row in Redis has none; VerifyMFA on that copy
  goes by the empty secret and, if a code is right for it, turns MFA on and writes the empty secret over the one that was shown
  (`identity_service.go:131`, `:135`). README.md of the repository calls Redis disposable and PostgreSQL authoritative.

What the passing properties say is in the comment of each. Several are conjunctions of named parts, one for each way in
which the rows of a component could come to disagree: `BooksBalance`, `AllIsEarned`, `AccountHolds`, `SessionsHold`, `ProcessHolds`,
`KeptAndOwned`, `BansHold`, `PrivateStaysPrivate`. Some name an exception, which is a behaviour of the code:
a streak may grow by one at midnight (`StreakIsEarned`); a limit holds while scripts run in the order of their stamps (`LimitHolds`);
a token that expires while its request is checked may be served after its logout (`LoggedOutStaysOut`); copies differ after two writes
at the same time (`torn` in `CopiesAgree`), and a comment with `CommentsShown` newer copies is no longer read (`OldCopies`);
a reader of the history misses what its pages of the mirror lack (`Lacks` in `PagesAreComplete`); a deletion is mirrored and announced though
PostgreSQL may not have applied it (`NothingAhead` is about texts); a second factor may be on with the empty secret, if a code for that was
given (`EnabledIsProved`); the feed shows a post for its author alone to accepted followers (`FeedAudience` in `PrivateStaysPrivate`, which does not
cover search at all); a banned organizer counts as active, and a list of groups calls a banned viewer's role "member" (`BansHold`); as many lists of webhooks as connections wait for one another for ever (`PoolSuffices`);
what is sold of a product whose counter came to 0 is unlimited (`StockIsSold`); a process that starts without a bus may fail for it (`ProcessHolds`).

Deadlock is checked in every run but `content` and `services`. A process that has nothing left to do is a
named action that changes nothing (`Finished`, `Idle`, `Quiet`, `Done`, `Terminated`, `Over`), enabled only then. In `content` and
`services` every call that is made comes to an end and no more need come, and the process of Lifecycle exits; there the
properties `PurchasesEnd`, `Recovers`, `SignalEnds` and `PoolSuffices` say that nobody waits for ever.

## 4. Fairness

- *Ledger*: WF of each request's next statement. PostgreSQL executes what it
  is sent and its detector runs; a lock that is free is granted. Aborts, lost answers and new requests are not fair.
- *Gate*: WF of a delivery's next step and of the lock's TTL, which Redis enforces.
- *Orchestrator*: WF of each goroutine's select and of its running task, and of the shutting goroutine.
  The signal need never come. `StopReturns` assumes that tasks return: the clients they call have timeouts.
- *Conversations*: WF of a task's steps, from its start on: what `AcceptedRuns` shows of the pools. WF of `Run`, of a failed read, and of a delivery in hand. Writes have a
  deadline of ten seconds, so one that a client does not take ends (`WriteTimesOut`). Rooms has none.
- *Progression*: SF of each call in progress, since PostgreSQL queues the waiters of a row first in first out, and WF of the
  deadlock detector and of the reader's last step.
- *Services*: SF of each caller of the breaker (Go hands a mutex to waiters in turn, and messages keep coming) and WF of its clock;
  the called service fails and recovers without any fairness. WF of a purchase in progress, deadlock detector included.
  WF of main's own steps at the end, of the return of a statement and of a task; handlers may take as long as they like.

## 5. What is proved

Each `...Proofs` module shows `Spec => []Inv` for an inductive invariant of each component, for all values of the
constants that satisfy the named assumptions, and draws its theorems from it. TLC checked each invariant on a run before it
was proved. None of the properties below is inductive by itself.

- **LedgerProofs**: `TypeCorrect`, `NeverOverdrawn`, `EscrowSettledOnce`, `LedgerImplementsPromise`, `BooksAlwaysBalance`.
  `IInv` ties `tx[r]` to `pc[r]`: before its first statement a request has no writes and no locks
  (`QuietInv`), afterwards its writes are a function of how far it is (`DeltaOf`, `RowOf`, `Entry`)
  and it holds the locks of the rows it has changed (`ActiveInv`). `NoOverdraft` then follows
  because the row that covered the debit cannot change before the commit; `SettledOnce` because a
  held escrow whose lock is taken stays held. The refinement maps `Commit` to one whole
  operation and every other step to a stutter. The books are followed through that operation: what a commit
  takes from one sum (balances, held escrows, the journal's debits and credits) it adds to another.
- **GateProofs**: `LockIsOwned`, `HandlersExclude`, `ReplaysAreFaithful`, `SerialIsOnceAlways`, `SessionsHoldAlways`,
  `AccountHoldsAlways`. The lock of a running delivery holds its token unless it lapsed, and a stored response belongs to a delivery
  of its key that was answered below 500 (`StoredInv`). Where deliveries of a key take turns and nothing fails (`SerialInv`), a delivery
  that is about to run its handler finds no response, and an effect without one is that of the delivery under way. Sessions rest on which
  calls come to which point (`PointsAreSound`), on who holds a refresh token (`TokensAreSound`) and on what a login saw of the rows before
  its own (`RowsAreSound`). For an account `SlotIsSound` says what the view of a request, however stale, was loaded from: a count that was
  reached, a secret (or none) a valid code was given for, a challenge that is gone before anybody is answered for it.
- **OrchestratorProofs**: `NothingRunsAfterStop`, `TasksRunOnce`, `OrchestratorKeepsPromise`. `TurnInv`: Stop is past
  a pool only when its goroutines are gone; `QueueInv` and `RunInv`: a task is queued, running or executed, once.
- **MessagingProofs**: `OpenIsRegisteredAlways`, `InOrderAlways`, `PagesAreCompleteAlways`, `PrimaryComesFirst`, `EventsAreSingle`,
  `ClientsCanBeClosed`. The hub: a list has connections of its user, once each, and what is in the channel has been left
  (`ListsAreSound`); a bridge has each target once, and what a connection got is older than an event that may still come to it
  (`GotIsSound`). The rooms: a reader has seen what it is owed of the rows no older than the pages it took, or the
  mirror lacked it (`ReadersKeepUp`), where with the mirror pages 0 and 1 are one (`Covered`). The tasks: how far a call is tells the fate of its task (`Fates`) and, unless it is
  a deletion, that its author's row exists (`Written`).
- **ProgressionProofs**: `AllIsEarnedAlways`. A call knows what it holds: from its first statement on an event has the season's row, so
  that no other event is inserted, and a call that has read the profile has its lock, so that what it read is what is there
  (`EventInv`, `ClaimInv`). `StreakIsEarned` alone says too little of the next event, which may add to the streak only where no recorded
  day lies further than one past `last`: there `StreakInv` counts the days up to `last` only. A commit adds the same to the sum of the events,
  to the season and to the profile; a claim adds one reward to both sides of `XpIsExplained`.
- **ContentProofs**: `FollowersWereAccepted`, `CopiesAgreeAlways`, `OriginalsAreSingleAlways`, `PrivateStaysPrivateAlways`. A call that is
  about to insert a follow of a private account rests on an acceptance (`InsertInv`), which is never taken back; what was accepted is
  inserted, about to be, or over (`AgreedInv`); one that is about to be shown something followed when it asked (`ShowInv`). Unless a row
  and its copy are marked `torn`, at most one call is between the two, and it is the one that wrote the row (`ReactionInv`, `StatusInv`),
  and a comment keeps its copy, read or hidden by newer ones.
  Two broadcasts of a text that are both past the comparison have compared at the same time (`TextInv`). A call that has looked may know
  the post, then and later (`PostPrivacy`, `TalePrivacy`). Each is proved of Content itself, where all three parts interleave.
- **ServicesProofs**, a section for each component, and `ServicesHold` of their composition:
  breaker (`FlagMatchesCount`, `CountIsBounded`, `ProbesExclude`): the counter and the calls still under way stay below the
  threshold plus the callers (`PendingBound`);
  lifecycle (`ProcessHoldsAlways`): the cleanup moves only when the drain is over (`DrainInv`), no task executes
  once the workers are closed (`WorkersInv`, with the order of the cleanup in `ClosedInTurn`), and what was wired when the process
  began to serve is what there is (`WiredInv`);
  community (`BansHoldAlways`): who is banned has that role and no other (`BansAreRows`), and every statement that counts or flags members looks at roles;
  developer (`RowsAreOwnedAlways`, `PoolSufficesAlways`): a call past its comparison is by the owner of the row's app (`DevCallIsSound`),
  and a call that holds a connection waits for one only after its list;
  admission (`LimitHoldsAlways`, `LogoutIsFinal`): while scripts run in order, what still counts at the latest one is in the set
  (`WindowIsWhole`), which cannot expire before (`TimesInv`);
  market (`StockIsSoldAlways`): an open reservation holds the rows it has passed and has taken of each all that was asked, or all that there
  was (`Holds`), so that a commit moves as much from the stock to the sum of the orders;
  personal (`PersonalIsKeptAlways`): what a reader was due it has seen, or it is on a page still to come (`ReaderInv`), since new rows only
  push older ones to later places.
- **SumTheorems** has the lemmas about sums over finite sets (`SumAdds`, `SumChanges`, `SumAlike`, ...). The library's fold is a
  recursive function, chosen, on the subsets of a finite set. Instead of an induction, whose theorem has an operator as a parameter,
  the lemmas take a smallest subset on which they fail (`SmallestSubset`, from the well-foundedness of the naturals) and find none.

The assumptions are those of the modules. Most say which calls exist and that the constants have their types. Some sets are finite:
wallets, quests (a catalogue in the code), calls and people of some modules, which sums and cardinalities need. A row that a call
inserts is a new one (`broadcast`, `register`, `add`), since the code makes its id; the ids of applications and of their parts are different
ones; the model values for "none" are no calls; who follows at first follows nobody private.

Only model-checked: all liveness, which is outside the prover's reach like ENABLED: `EveryRequestEnds`, `KeyComesFree`, `AcceptedRuns`,
`StopReturns`, `EventDespiteMirror`, `OpenIsServed`, `LeftIsForgotten`, `CallsEnd`, `PurchasesEnd`, `Recovers` and `SignalEnds`. That a token is
refused after its logout was answered (`LoggedOutStaysOut`), that clients are silent once closed (`SilentOnceClosed`), and the two
refinements are properties of steps, and are proved.

## 6. What the models assume or leave out

- PostgreSQL at READ COMMITTED, its row locks and deadlock detector; atomic Redis commands and scripts;
  the FIFO delivery of one NATS subscription; ScyllaDB's logged batch as one step. They are modelled
  from how the code uses them.
- Tables that no migration creates (`communities` and its kin, `follow_requests`, `vault_items`, `energy_drops`, `search_history`,
  `sessions`) and columns that `db/schema.sql` lacks: the models have what the queries name.
- Ledger: nothing in the code inserts a wallet, so the wallets are a constant. Balances are
  unbounded; the columns of escrows are 32 bits wide (`MaxInt32`). The `int32` into which the
  history reads an amount (`postgres_repository.go:83`) only fails a read. A refund's journal row names the seller as the
  sender of money that never was in the seller's wallet (`:386`); `BooksBalance` reads the journal accordingly.
- Messaging: "published" means handed to the bus. Whether the bus passes it on is another matter:
  the stream and the bridge subscribe to `chat.*`, which matches one further token, and so neither
  `chat.message.sent` nor the other three-part subjects (`platform/nats/nats.go:33`, `core/realtime/nats_bridge.go:106`).
- Messages that a client sends over its WebSocket are published to `ws.route.<user>`
  (`websocket.go:163`), to which nothing subscribes; the hub's register channel and `Broadcast` have no
  caller. A connection whose unregister found the channel full stays in its shard until shutdown;
  `LeftIsForgotten` is about the others.
- Progression: server and database in UTC; one user, whose season row serialises the events. Level,
  reputation and combo are functions of what is modelled, energy never leaves 100. An event that unlocks an
  achievement executes on the connection whose rows it is still reading (`:392`), which pgx refuses; `Refused`
  is the rollback, and so such an event is never recorded however often it is sent.
  `ActivateBoost` and `ClaimStreakShield` answer from a transaction that nobody commits (`:334`): their steps end in a rollback.
  A daily quest's Monday row has the week's `period_start` and counts all week (`:224`);
  `ProgressIsEarned` says what holds nonetheless.
- Identity: hashes, codes and claims are model values; the risk is a sum of the code's summands in hundredths, which stays at most 80 where
  the test is `> 0.8` (`identity_service.go:93`), so that nobody is refused for it. A refresh looks at no session row and writes none.
  `LockIsEarned` remembers a count that was reached before a reset, since a stale copy may be counted by.
- Content: the limits of the guard refuse at any time (which requests they count is left out); fingerprints are never given back, so a
  text whose broadcast failed cannot be sent again; with ScyllaDB pages 0 and 1 of a feed are the same.
  Copies of deleted comments stay in the mirror and count among its newest hundred (`content/infra/scylla_repository.go:105`, a cap that
  `backend/SCYLLA_INTEGRATION.md:187` states), where PostgreSQL's query has no limit (`db/query.sql:101`). The feed's condition (`db/query.sql:90`)
  does not tell a post for its author alone from one for the followers.
- Stories: visibility has no writer and is "followers"; highlights are stubs. Notifications: nothing calls `Notify`, whose action is
  the row appearing.
- Community: settings are answered and not stored, a list of groups answers the role "member" to whoever
  has none (`community_list_compatibility.go:62`), active members are the organizers of events (`analytics_compatibility.go:44`), a cancelled event keeps no status, RSVP writes 'going' whatever was asked, a locked
  thread takes replies, a reply's parent is only answered: the actions do what the statements do.
- Lifecycle: `/health/ready` of `BuildApp` is registered before main's own, so the answer "draining" (`main.go:86`) is never reached.

Divergences that need no run to be seen:

- A full queue refuses a task and `SendMessage` drops the refusal (`high_performance_messaging.go:66`):
  the message is stored and has no event, where `docs/PRODUCTION_HARDENING.md:40` wants an outbox.
- Shutdown cancels the workers' context first (`worker.go:80`, `cmd/api/main.go`), so queued tasks are
  dropped, where `docs/PRODUCTION_HARDENING.md:23` wants them drained. `AcceptedRuns` holds up to the signal.
- A deletion that matches no row, by somebody else or of no message, answers nil, the mirror is told and `MESSAGE_DELETED` is published
  (`messaging/infra/postgres_repository.go:302`); it is one part of `MirrorFollows`.
- With ScyllaDB a mute sends the text of an expression as a time and fails (`high_performance_messaging.go:263`); without it the
  same call succeeds. A reaction of one who is not a member inserts no row and is mirrored and announced all the same.
- The query behind search, completions and trends (`db/query.sql:488`) asks only whether a post is archived, and so finds posts of private
  accounts and posts for their author alone, where `docs/SOCIAL_PLATFORM_MASTER_PLAN.md:111` wants results that "respect privacy".
- A key reused with another payload while its first delivery is under way executes both (`idempotency.go:87` and
  `:107`); the cause is that of `idempotency_overlap`, and `SerialIsOnce` holds without overlap.

Not modelled:

- *moderation*: no row can reach the review queue (`AutoFlagContent` classifies an empty text, whose score is 0); reports, bans and
  suspicious accounts are stubs that answer nil.
- *audit chain*, *suggestion caches*: one atomic step under one mutex each, and nothing that is served depends on the former.
- *tokens, passwords, request checks*: computations on one request.
- reads that list rows without a condition a property could be about: quests and leaderboards, collectives, subscriptions, search of
  users, analytics of a post, transactions of a wallet.
- handlers that have no route, and the packages that nothing imports: the scheduler, feeds, bots, tenants, gRPC, ads, AI, media, privacy, push,
  spark, stickers, talent, video, the first chat hub, the adaptive worker pool (whose scaler holds the mutex that `spawnWorker`
  takes, `worker_pool.go:97`) and a second breaker.
- the *Flutter client*, which queues no writes, and generated queries and drivers, which are in the actions that call them.

## 7. Plan

Written in this order: Ledger with LedgerSpec, Idempotency, TaskPool and Orchestrator, CircuitBreaker, MessageMirror, RealtimeHub,
Progression; then Accounts, SocialGraph with Posts and Stories, Market, Community, Rooms, Developer, Admission, Lifecycle, Personal,
Sessions; then the proofs of all safety properties. Next, most useful first:

1. An abstract specification of the messaging history (what a reader may be shown) that Rooms without the mirror implements, with
   the step-by-step proof that `ReadersKeepUp` prepares.
2. Idempotency over Ledger: the middleware composed with real transfers, so that a retried transfer with a lost answer is
   followed to the money.
3. An abstract specification of the marketplace (orders and stock, no rows locked) that Market implements.
