# A TLA+ model of proxy-gate

proxy-gate is one Go process between API clients and OpenAI, Anthropic and
Vertex. It pools OAuth accounts and API keys, sends each request through one
of them, retries with others, and keeps usage and account state in a bbolt file
through a write-behind queue. Nearly everything that can go wrong in it comes
from goroutines meeting over shared memory: request handlers, the file watchers
and their timers, pollers, the admin API and the queue's loop.

This directory holds the TLA+ modules that model it, the TLC configurations
that check them on small instances, and the TLAPS proofs of the properties that
matter most. Paths below are relative to the repository (`src/`).

    tlc -workers 2 -config MCPersistQueue.cfg MCPersistQueue    # a run
    tlapm PersistQueueProofs.tla                                # the proofs

`PROJECT.json` lists the runs, the lines each definition models (`map`), the
known hazards of the code and the mutants that show that a plausible bug would
break each property. Definitions commented `Mutant:` are those bugs; no
specification uses them.

## 1. The system

| Component | State | Operations | Meets | Model |
|---|---|---|---|---|
| Persist queue `control/persist.go`, `store/` | channels `ops` and `flushReq`, `closed`, the loop's batch and timer, the bbolt file | Put, Delete, Flush, Close, the loop | recorder, pins and statistics put into it; `main.go` flushes and closes it | `PersistQueue`, `WriteBehind` |
| ChatGPT account pool `broker/pool.go`, `rotation.go`, `account.go` | email → entry (account, lease count), state per account | Lease, Release, Add, Remove, marks | handlers, watcher, poller, admin API | `AccountPool` |
| Claude account pool `broker/claude_account.go` | the same, with usage | the same; Add hands state and count over | the same | `ClaudePool` |
| File watchers `broker/watch.go` and their Claude twins | fsnotify's channel, a timer per path, handler goroutines | LoadDir, WatchDir, handleFileEvent | pools, disk; token refresh and admin API write files | `HotReload` |
| Responses handler `ingress/responses.go` | per request: source, attempt, lease, refreshed set | the attempt loops, refresh, backoff, wait | account pool, key pool, upstream, recorder | `Responses` |
| Key pool `broker/apikey.go` | lease counts, marks, token load | Lease, Release, marks, add and delete | handlers, admin API | as used in `Responses`, `Messages`, `Lifecycle` |
| Cooldowns `broker/ratelimit.go` | none | ParseRetryAfter, BackoffFor5xx, NearestCooldown | handlers | NearestCooldown, in `Responses` |
| Messages and chat handlers `ingress/messages.go`, `chat.go` | as Responses, and the order of the sources | Claude pool, Anthropic keys, Vertex; OpenAI keys | pools, upstream, policy | `Messages` |
| Fallback policy `ingress/claude_fallback.go`, `provider/vertex_anthropic.go` | the policy, behind a mutex | Match, WithDefaults, replacement by an admin | messages handler, admin API, store | `Messages` |
| MCP, passthrough `ingress/mcp.go`, `passthrough.go` | one lease | forward, refresh, forward again | account pool | jobs of `Lifecycle` |
| Token refresh `control/recorder.go`, `claude_refresh.go`, `provider/` | tokens in memory and on disk | exchange, update, save | upstream, watcher | `Lifecycle` |
| Account statistics `control/admin.go`, `main.go` | flags of an account, the store | toggles, marks, snapshots, restart, disable command | pools, queue | `Lifecycle` |
| Pollers `control/wham.go`, `claude_usage.go` | none | write usage to accounts | pools | jobs of `Lifecycle`; `Update` in the pools |
| Recorder `control/recorder.go` | totals under a mutex, snapshots of them | RecordRequest, the dashboard's sums | relay, queue, store | `Accounting` |
| Pin store `control/pinstore.go` | pins with a TTL, in the store only | Put, Lookup | pool, queue | `Accounting` |
| Relay `relay/` | the scanner of a stream | feed, parse, done | handlers | `Relay` |
| OAuth logins `auth/oauth.go`, `main.go`, `control/admin.go`, `cmd/` | callback servers, pending logins | start, callback, finish | provider, files | `Logins` |
| Pricing, configuration, dashboard, lists of the admin API | – | – | – | no |

What each has to get right:

* **Queue** – an operation whose Put returned nil reaches the file, in order,
  unless a commit fails or the process dies; a Flush is a barrier; Close leaves
  nothing behind; no operation waits in memory without a timer.
* **Pools** – the lease count of an account is the number of leases out, as
  ranking relies on it; equal accounts share the load; accounts with used-up
  quota come last. Hard because a lease outlives a reload of its account:
  Release finds the entry by email, not by identity, and decrements it after
  unlocking.
* **Watchers** – when the events of a file are dealt with, the pool holds what
  the file holds. Hard because files are written in several steps, only the last
  event of a burst counts, and a handler reads the file before it locks the pool.
* **Handlers** – every way out of a request gives its lease back once, answers
  at most once, and ends; sources are left in order and for a reason. Hard
  because a refresh gives its attempt back and an admin may replace the policy
  between two readings of it.
* **Credentials** – file, pool and store follow the newest token and the last
  toggle. Hard because one account lives in several objects, each worked on by
  whoever leased it, and because its statistics are read in one step and queued in
  another.
* **Recorder and pins** – totals count every request once, also over a restart;
  a fresh pin is found. Hard because the queue separates reading from writing.
* **Logins** – a login that was begun can be finished, and one that was given up
  lets go of its port. Hard because logins share ports and pending slots.

## 2. The modules

Each module says in its head comment which steps it takes: a step is what one
goroutine does between two points where another can see it (a lock, a
channel operation, an atomic).

**`WriteBehind`** is what the persistence promises: a store and a list of
pending operations; a step accepts an operation, commits a whole prefix of the
list atomically and in order, drops a prefix, or loses everything pending.

**`PersistQueue`** is `persist.go`: `SendCheck` / `SendEnqueue` /
`SendSeesClose` / `SendPanics` are the check of `closed` and the arms of the
select of `send`; `FlushCall` / `FlushRequest` / `FlushSkip` are Flush; `CloseOps`
/ `CloseCloseCh` / `CloseReturn` are Close; `Loop…`, `Drain…` and `AckRest` are
the loop. `Crash` ends the process at any point, after which only the store is
left. A commit may fail at any time. `accepted`, `retired` and `mark` are history
variables. The refinement maps `pending` to `batch \o ops`.

**`AccountPool`** tells Account *objects* apart: an object is loaded once for an
email, and after a reload replaced it, lives on in the leases that hold it.
`Lease` runs under the read lock, which others share. With a pin it chooses in one
step (`LeasePinned`); without one it ranks as `rankCandidates` does, entry by entry:
`RankLook` reads whether the entry is available, `RankCount` its count, `RankScore`
its state once more, and `LeaseRanked` sorts what was read and takes the first
(`RankNone`: there is none). The comparisons of the sort read counts again where
scores are equal; if these move meanwhile, any of the equals may come first
(`Foremost`). `LeaseCount` then counts the lease. Release is two steps with the unlock
between them. `Add` and `Remove` wait for the lock; leases, releases and `Update`,
which stands for all goroutines that change what the ranking reads, do not. Scores have
the default weights, as integers. `stray` counts decrements that hit an entry for a
lease of another one; `least` and `most` note between which numbers of leases an entry
was while a handler ranked, `moved` whose count moved while it sorted.

**`ClaudePool`** is the same for Claude, where Add hands the state and the count
of the replaced entry over (`Replace`), Release stops at 0, and the choice is by
freshness and usage (`RoutingCandidates`, `Before`).

**`Responses`** is one behaviour per request over both pools: the sources in
order, `maxAttempts` leases per source, and for every answer of the upstream what
the handler does with lease, mark and client. Which available credential a
lease gets is left open here; the pools' modules settle it. Requests refused
before the first lease (bad body, no route) are left out: nothing is held then.

**`HotReload`** is the directory, the watcher and the process that loads it:
`WriteBegin` and `WriteEnd` (a file is torn between them), `Delete`,
`LoadDir`, `WatchDir`, `Stop`; `Debounce` and `Fire` are runWatcher; `LoadFile`
→ `AddLoaded` and `FindSource` → `DropFound` are handleFileEvent with the
unlocked gap in the middle. The pool is reduced to where each account came from.

**`Messages`** is one behaviour per request to the messages or the chat handler.
`Start`, `Order` and `Exhausted` are ServeHTTP: the order of the sources is
computed once (`plan`), while `VertexMatch` and `Exhausted` read the policy of
the moment, which `PutPolicy` may replace in between. The loops over
Claude accounts and over keys are alike but for what the code distinguishes:
only Claude accounts are waited for (`WaitForCooldown`) and refreshed
(`RefreshSucceeds` leaves `attempt` as it is, the code's `attempt--; continue`).
The Vertex loop has no lease; its pauses count as attempts. The functions of
`claude_fallback.go` are operators: `WithDefaults`, `Matching`, `FirstMatch`,
`Valid`. Names that `NormalizeClaudeModel` maps to one are one value.

**`Lifecycle`** follows one credential, an account of ChatGPT or Claude or an API
key. Its token lives in the file, at the upstream (which honours the newest
refresh token only) and in account *objects*: the one in the pool and those that
goroutines still hold. Its flags live in the objects and, as
statistics, in the store behind the queue (`INSTANCE WriteBehind`). A goroutine
takes a job – request, retry of a request that remembers the account from an earlier
attempt (`authRetried`, `refreshed`), passed-through request or poll, poll of a Claude
account, refresh, toggle, deletion – and goes through it in the steps of the code:
`CallAnswered`, `CallUnauthorized` (a 401 that leads to a refresh), `CallRefused` (an
answer, or the lack of one, that marks the credential dead without a refresh),
`SendToken`, `Exchange` / `ExchangeFails`, `UpdateTokens`, `Save`, `Persist`,
`Put`, `RefreshFailed`, `SetDisabled`, `Unlink`, `Remove`, `Forget`. `Look` and
`Add` are the watcher, `Start` and `Stop` the process, `Command` the disable
and enable commands. A dead mark has a reason: a failed refresh, or a refused call.
`Login` writes a file only where there is none: the admin API may also import over
an account that is there (`admin.go:507-579`), which `Rewrite` covers for the same token
only. An account without a refresh token, which Claude's loop marks dead at the
first 401, does to the flags what a 403 does.

**`Relay`** has no state: the lines of an event stream (`Wire`, `Block`), the scanner
that reads them one after the other (`Scan`, `Feed`, `ParseEvent`, `Done`; recursive
functions over positions, which can be proved about) and the three dialects (`Responses`, `Anthropic`,
`Chat`), with `Told`, what the events say when they are taken one by one. A line cut
between two chunks is whole in the buffer; of one that the stream breaks off inside of,
`Torn` is what gjson, which does not ask for the end of an object or a number, may read of
its part: each count whole, short of its last digits, or missing.

**`Accounting`** feeds it. A goroutine relays an answer (`Chunk`, `StreamEnds`,
`ReadDocument`), which may end after any line or inside one (`Endings`), pins its conversation, bumps the three totals it touches in one
step under the mutex (`Record`) and queues the snapshots one by one (`Put`); `Unpin`
is the Delete of a lookup that found an expired pin. The queue and the store are
`WriteBehind` again.

**`Logins`** has the goroutine of a browser login (`WaitDone`, `WaitTimeout`,
`Exchange`, `Save`), its callback server (`Handle`, `Signal`, `CloseDone`,
`ClosePanics`, `ServePanics`: the channel is looked at in one step and closed in
another), and the logins by hand of the dashboard and the command line
(`StartManual`, `Finish…`), which keep one pending login each; `AbortPending` is
`add-claude-account --abort-pending`. A redirect goes to whoever listens on its port,
which may be a later login's server (`Redirect`). A login and its code
have the same number: `Handle` compares states as the server does, and
`FinishExchange` has the provider refuse a code that is not of the verifier's login.
The names of the module differ from those of `ClaudePool`, so that `ClaudeProofs` can
be about both.

**How they compose.** `PersistQueue` implements `WriteBehind`, and `Lifecycle` and
`Accounting` are built on it: that every step of theirs is one of `WriteBehind`
is proved (section 5), so what they show of the store holds of the queue of
`persist.go`. `HotReload` shows that the watcher catches up with the
file; `Lifecycle` takes that as the steps `Look` and `Add`. The pools show whom a
lease goes to and that counts are kept; `Responses` and `Messages` take any
available credential. `Accounting` evaluates `Relay`.

`MC…` modules only give constants for TLC. `…Proofs` modules hold the theorems.

## 3. What is checked

| Run | Instance | Distinct states | Shows |
|---|---|---|---|
| `persist_queue` | 2 senders, 1 flusher, 2 keys, 1 value and delete, capacity 2, flush capacity 1, batch 2, 2 operations, 1 crash | 72,452 | the queue refines `WriteBehind`; `FlushBarrier`, `CloseDrains`, `WaitingBatchHasTimer`; with fairness `EventuallyRetired`, `FlushAcknowledged` |
| `persist_close_race` | 1 sender, 1 operation, no crash | – | violated: `PutNeverPanics` (finding 1) |
| `account_pool` | 2 accounts of one plan, 2 handlers, 3 objects, 2 states | 1,541,865 | `InflightExact`, `RotatesWhileExact` |
| `account_pool_reload` | the same | – | violated: `InflightPenaltyRotates` (finding 2) |
| `claude_pool` | 2 accounts, 2 handlers, 3 objects; quota known, used up, unavailable, unknown | 664,536 | `CountsHandedOver`, `ProtectedLast` |
| `responses` | 2 requests, one pinned; 1 account, then 1 key; 2 attempts | 353,960 | `LeasesBalanced`, `AnsweredOnce`, `ExhaustedIsHonest`; with fairness `EveryRequestEnds` |
| `hot_reload` | 2 files with an account each, 2 handler goroutines, 3 changes | 84,002 | `QuietPoolInStep`; with fairness `WrittenIsLoaded` |
| `hot_reload_ghost` | 2 files that may hold either account | – | violated: `RemovedFileIsGone` (finding 3) |
| `messages` | 1 request to either handler, 1 account, 1 key of either type, 3 attempts, 5 policies to submit | 296,992 | `LeasesBalanced`, `AnsweredOnce`, `SourcesInOrder`, `OneKindOfFallback`, `ForwardsBounded`; with fairness `EveryRequestEnds` |
| `lifecycle` | 1 credential of each kind, 2 goroutines, 2 objects, queue of 1, 2 events | 5,140,421 | `ToggleHolds`, `TokensInStep`, `DeadHasReason`, `DeletedIsGone` |
| `accounting` | 2 goroutines, 4 answers, 10 lines in all, queue of 2, 2 instants, 1 restart or failed commit | 1,660,326 | `UsageOfStream`, `CountsExact`, `PartsWithinWhole`, `PinKept` |
| `logins` | 2 logins, 2 ports, 2 visitors, 2 finishes, 2 events | 217,014 | `SavedWithOwnCode`, `PendingKept`; with fairness `EveryLoginEnds` |

Each passing run but two also checks its module's type invariant. Those of `Lifecycle`
and `Logins` are proved, and a run would only repeat that.

**Bounds.** The queue's constants keep the relations the code depends on: a
batch can be completed by the channel's content, the channel and `flushReq` can
be full with a caller blocked on them, and after a crash there are callers
again. Two operations on two keys are enough to see a reordering, a split batch
and a lost tail. In the pools three objects for two emails allow a
reload during a lease, a removal followed by a new load, and both at the same
time as a Release between its two steps; two handlers allow a tie, a decrement
that meets a reload, and two rankings on one count. The states of `account_pool` are an
available account and one that is not, with another usage, so that an account may be
marked between the two reads of its state. In `Responses`, two requests
share one credential per pool, so that one request's mark changes what the
other finds; two attempts separate first from last, where the code branches
(`attempt+1 < maxAttempts`). In `HotReload` three changes allow
write–remove–write and a write followed by a restart; two handlers may overlap.
In `Messages` one request is enough: requests share nothing but the credentials
and the policy, and `Update` and `PutPolicy` do to those whatever another request,
a reload or an admin does, at any time. Three attempts separate first, middle and
last; the five policies cover the request, do not cover it, may fail to apply to its
body, are refused, or have no rules. In `Lifecycle` two goroutines are a
refresh that meets another, a poll, a toggle or a deletion; two objects are
the one in the pool and the one a goroutine still holds; a queue of one has a
snapshot waiting in it and another in hand. Two events are a refresh and
a restart, a toggle and a lost commit, a deletion and a login. In `Accounting` ten lines let two
streams be in flight, or three answers follow one another, so that snapshots overtake
each other; in `Logins` two ports are the first and
another, and two of everything else is an overlap.

`MaxOps`, `MaxCrashes`, `MaxChanges`, `MaxEvents`, `MaxLines`, `MaxTime`,
`MaxLogins`, the `MaxQueue` of `Lifecycle` and `Accounting` (1024 in the code) and
the finite `Objects` bound runs only; the proofs hold for every value.

**Symmetry.** `lifecycle` takes goroutines and objects as interchangeable and
`accounting` goroutines: no action names one of them, and neither run checks
liveness.

**Deadlock.** Every run but `messages` says `CHECK_DEADLOCK FALSE`: these systems
really come to rest once the bounds are used up, all requests are answered or all
callers have gone. In `messages` the environment never rests, so the check says
nothing either; that no request gets stuck is `EveryRequestEnds`.

**Fairness.** Go keeps running goroutines that can run, and a `select`
picks at random among its ready arms, so no arm that is ready again and again is
starved: weak fairness for the queue's loop and strong fairness for its arms.
Request goroutines are weakly fair, which includes that the upstream answers or
breaks the connection, or that the client ends the wait: the HTTP clients that forward have
no timeout of their own. The goroutine of a browser login is weakly fair: its
wait has a timeout of five minutes, its calls one of thirty seconds. Timers and handlers of the watchers are weakly fair. Users,
admins, callers of the queue, reloads, cancellations and crashes may happen or
not; nothing is assumed of them.

**Provisos in the properties**, each one a fact about the code:

* `InflightExact` and `RotatesWhileExact` name `stray`: decrements by leases of
  replaced entries are real (finding 2), and `InflightExact` says that they are the
  *only* deviation of a count. `RotatesWhileExact` compares the accounts as far as the
  code can: between its reads others lease and release, so the account leased had at some
  moment of the ranking no more leases out than its equal had at some moment of it. With
  nobody between, that is the one with the fewest.
* `CountsHandedOver` names `leaked` in the same way (see the observations) and leaves out
  emails that were removed, where a Release finds no entry or a new one.
* `FlushAcknowledged` asks only for requests the loop can still see: a Flush may
  enter `flushReq` after the loop's last look. Its caller is the shutdown path,
  before Close.
* `QuietPoolInStep` and `WrittenIsLoaded` hold for files that keep their account
  (`SaveAccountFile` names a file after its email) and leave out a path
  whose handlers overlapped, that changed while nobody watched, or whose account
  the admin API deleted (`unsure`): two handlers of one path that take longer
  than the 200 ms debounce may add in the wrong order.
* `SourcesInOrder` says what a 503 is worded after only if the policy did not change
  under the request (`moved`).
* `ToggleHolds` names what the code is known to lose (`wish = "any"`): a toggle of
  an object that a reload has replaced, or while somebody has an older snapshot or
  object in hand; a reload of a ChatGPT account, or of a Claude account with
  another token; a removal from the pool; a failed commit; an end of the process
  before the commit.
* `TokensInStep` names the ways to lose a token (`sound`): the answer of the
  upstream lost, a save that failed, the process ended before it, a save of an
  object that was replaced and whose successor was refreshed meanwhile.
* `DeadHasReason` is about accounts whose dead reason is a failed refresh. It names
  the ways to lose a good one so (`wronged`): a refresh that
  failed for another reason than its token (a timeout, a client that left,
  `responses.go:400`), or that shared its token with another one; such a mark in the
  store of an earlier process. Of the other marks it says nothing, for they ask nothing
  of the refresh token: a 401 or 403 of a key, a 403 at Claude, a 401 of a retry
  (`responses.go:395-398`, `messages.go:191-199`), and no answer to the call after a
  refresh (`responses.go:413-416`), which kills an account that has just got the newest token.
* `DeletedIsGone` is about a Claude account that is deleted while nobody else works
  on it: a refresh under way would save its file again. Deletions of ChatGPT
  accounts and of keys only touch the pool, so nothing is claimed of them.
* `UsageOfStream` says of an answer that broke off inside the data of an event that its part
  counts as an event with counts that are whole, cut short or missing; of all others
  that exactly the events whose data came count.
* `CountsExact` and `PartsWithinWhole` name snapshots that were queued after later
  ones (`overtaken`), failed commits and ends of the process; `PinKept` names
  the Delete of an expired pin that followed a fresh Put (`raced`).
* `PendingKept` leaves out a login that was begun while an earlier one of its slot was
  being finished, which forgets it (`admin.go:391`), one that the user aborted
  (`main.go:604-610`), and a restart (`excused`).
* `EveryLoginEnds` takes a panic of the callback server for an end of the login.

Each of these histories is set by the step of the code that loses something; the
property says that no other step of the model does. What they leave out is not covered: the
hazards of `PROJECT.json` that are such a loss name no property, and say why.

## 4. Findings

1. **A Put can panic** (`control/persist.go:77`). `send` checks `closed` under
   the mutex, unlocks, and then selects on `q.ops <- op`; a Close in between
   closes the channel. `persist_test.go:63-64` asks `ErrQueueClosed` of a Put
   on a closed queue. At shutdown handlers may outlive `srv.Shutdown`'s 10 s.
2. **A lease that outlives a reload is given back to the new entry**
   (`broker/pool.go:134`), whose count starts at 0 and goes to −1. Every later
   ranking is off by one, and the busier of two equal accounts is chosen, against
   `rotation_test.go:138`. Every token refresh causes such a reload.
3. **A removed file can leave an account behind** (`broker/watch.go:81`). An
   edit that changes the account of a file leaves the old one in the pool, and
   the removal drops one account only; `README.md:15` promises removal without
   a restart.

**Further observations**, met while modelling. No run shows them by a
counterexample: the properties above leave some of them out by name, the others
were met in the code around what is modelled.

* The Claude pool can keep a lease for ever (`claude_account.go:402`): a Release that
  looked its entry up before an Add decrements the old entry after Add copied its
  count, and the account is ranked as busier from then on; `CountsHandedOver`
  counts these as `leaked`. `claude_pool_test.go:287-289` asks 0 after a reload.
* Even with exact counts, the busier of two equal accounts can be leased while others
  lease and release between the reads of a ranking (`rotation.go:60-79`).
* An account that has just been refreshed is marked dead, with the newest token, when the
  call that follows gets no answer, also when only the client has gone
  (`responses.go:413-416`); the first call checks for that (`responses.go:378-381`).
* Of a stream that breaks off inside a usage line, the part is recorded, possibly with fewer
  tokens than an earlier event told (`relay/usage.go:44`, `anthropic.go:31`, `chat.go:30`).
* A refresh of a ChatGPT account ends in a reload that forgets its flags
  (`pool.go:62`): a disabled account is enabled again, in memory, by the admin's own
  refresh. A Claude account loses `Disabled` when its token differs
  (`claude_account.go:319`), as it does after every refresh of an object the pool
  no longer holds.
* A toggle is undone in the store by a snapshot taken before it and queued after it
  (`recorder.go:131`), and by the next restart in the pool.
* A snapshot that is overtaken in the queue leaves the stored total too low until
  the next request (`recorder.go:106`).
* The finish of one login forgets one begun meanwhile (`admin.go:391`); two callbacks
  that both find the channel open both close it (`oauth.go:283`), which panics.
* The redirect of a login by hand names the first port, so a browser login that
  listens there receives it and fails with a state mismatch.
* The manual finish for ChatGPT (`admin.go:253-259`, `cmd/cli.go`) exchanges its code with
  a verifier made at that moment, which cannot be the one the login was begun with.
* `Lookup` queues its Delete while its caller holds the pool's read lock: with the
  queue full, every Add and Remove waits for the disk.
* A fallback policy with no rules is replaced by the default one, and so switched on
  (`claude_fallback.go:102`); two concurrent PUTs may be set in one order and
  queued in the other; `WithDefaults` writes into the rules it shares.
* The disable command overwrites the totals of the accounts it touches
  (`main.go:683`).

## 5. What is proved

For every value of the constants that satisfies the named assumptions
(`QueueAssumption`, `PoolAssumption`, `ClaudeAssumption`,
`ResponsesAssumption`, `ReloadAssumption`, `SentinelAssumption`,
`MessagesAssumption`, `LifecycleAssumption`, `AccountingAssumption`,
`LoginsAssumption`: finite sets of handlers, requests, files and objects, positive
capacities, attempts and ports, policies and requests made of `Names`, answers of any
finite number of events, one if it is a document, and sentinels apart from values).

| Theorem | Says |
|---|---|
| `PersistQueueProofs!TypeCorrect` | types; channels within their capacities |
| `…!FlushIsABarrier`, `…!NoBatchWithoutTimer`, `…!CloseLeavesNothing` | the safety properties of the queue |
| `…!QueueRefinesWriteBehind` | `Spec => WB!Spec` |
| `AccountPoolProofs!PoolTypeCorrect`, `…!CountsAreExact`, `…!LoadIsShared` | types, `InflightExact`, `RotatesWhileExact` |
| `ClaudeProofs!ClaudeTypeCorrect`, `…!CountsSurviveReload`, `…!ProtectedIsLastResort` | types, `CountsHandedOver`, `ProtectedLast` |
| `…!LoginsTypeCorrect`, `…!LoginsPendingKept`, `…!LoginsSavedWithOwnCode` | `LoginTypeOK`, `PendingKept`, `SavedWithOwnCode` |
| `ResponsesProofs!ResponsesTypeCorrect`, `…!LeasesGivenBack`, `…!OneAnswer`, `…!HonestExhaustion` | types and the three safety properties of the handler |
| `MessagesProofs!MessagesTypeCorrect`, `…!MessagesLeasesGivenBack`, `…!MessagesAnsweredOnce` | types, `LeasesBalanced`, `AnsweredOnce` |
| `…!MessagesOneKindOfFallback`, `…!MessagesForwardsBounded`, `…!MessagesSourcesInOrder` | `OneKindOfFallback`, `ForwardsBounded`, `SourcesInOrder` |
| `HotReloadProofs!ReloadTypeCorrect`, `…!QuietInStep` | types, `QuietPoolInStep` |
| `LifecycleProofs!LifecycleTypeCorrect`, `…!LifecycleTokensInStep`, `…!LifecycleDeadHasReason` | types, `TokensInStep`, `DeadHasReason` |
| `…!LifecycleToggleHolds`, `…!LifecycleDeletedIsGone` | `ToggleHolds`, `DeletedIsGone` |
| `…!LifecycleIsWriteBehind` | store and queue move as `WriteBehind` says, or a command writes both at once |
| `AccountingProofs!TypeIsInvariant`, `…!UsageIsOfStream` | types, `UsageOfStream` |
| `…!CountsAreExact`, `…!PartsStayWithinWhole`, `…!PinIsKept` | `CountsExact`, `PartsWithinWhole`, `PinKept` |
| `…!AccountingIsWriteBehind` | `Spec => Behind!Spec` |

**Queue.** `QueueInv` conjoins the bookkeeping `accepted = retired + Len(batch) +
Len(ops)`, that no flusher marked more than was accepted, that a loop past its
select left both channel and batch empty and the channel closed, and that Close
returns after the loop. The barrier is not inductive alone: at the end of a
drain it follows from the bookkeeping with `ops` and `batch` empty. For the
refinement each action is mapped: receiving without committing leaves `batch \o
ops` as it is, a full batch, timer, drain or exit commits or drops `Len(batch)`
operations, and lemmas about `SubSeq` and `\o` say that this is a prefix of the pending
list.

**Pools.** `InflightExact` needs that a lease's object was loaded for some email
and, until it is counted, is still in the map (the read lock), that a
Release's target was loaded, and that an object not yet loaded has a clean count.
`CountsHandedOver` needs in addition that an email with no entry that was
never removed has no leases and no leaks. `RotatesWhileExact` needs an invariant about
the reads of a ranking (`Watched`): the leases out on an entry were between `least` and
`most` all the while (`Within`), and so was a count that was read of an entry without strays
(`HasRead`). If the scores of two twins differ, the better one had the smaller count when it was
read; if they are equal, either a count moved while the handler sorted, or the
counts are compared as they are. `ProtectedLast` follows from the invariant and the
order of the candidates.

**Responses.** The lemma `Shapes` says that every step of a request takes a
lease, keeps what it has, gets nothing, or gives its lease back; the proofs go by
these four shapes instead of the twelve actions. `LeasesBalanced` counts the
holders of a credential; `AnsweredOnce` needs that an unfinished request was not
answered; `ExhaustedIsHonest` needs that the sources before the current one are
spent and that `tried` keeps up with `attempt`, which in turn needs that a request
waits only after a refusal (`WaitingRefused`, proved together with the types).

**Messages.** `Frame` says that a step of one request changes nothing of the
others, `OwnStep` names what it does to its own: it takes a lease, gets nothing,
retries, returns, refreshes, backs off, repeats, or asks Vertex. Every invariant is
then proved for these shapes instead of the actions of three loops.
`OneKindOfFallback` needs that a request tries only sources of its plan, and that no
plan has both kinds (`Planned`). `ForwardsBounded` needs
`Limited`: forwards go to sources up to the current one, and the current one
saw no more of them than attempts were begun and accounts refreshed there. `SourcesInOrder`
needs that the sources before the current one are used up (`InOrder`), and that a plan
follows the policy unless that `moved` (`PlanOfPolicy`).

**HotReload.** Of what waits for a path, event or timer, the last says whether the file
is there (`Agrees`). Once nothing waits (`Settled`), either no handler of the path
runs and the pool is in step with the file, or the one that runs does what the file
asks for (`FollowedBy`). The last event leaves the channel through `Debounce` and
the timer through `Fire`, which starts such a handler; that it is the only one
of its path (`Alone`) is what `unsure` leaves out otherwise. That an entry of the
pool, a file and a handler belong to their own path (`AtHome`) keeps one path from
disturbing another.

**Lifecycle.** The actions are sorted into those that leave the tokens alone, those
that leave the flags alone, and the rest (`Steps`, `FlagsKept`), so that each
invariant is proved for the few that matter. `TokensInStep` needs `Fresh`: while
nothing was lost, the newest token is in file and pool, or in the hands of the one
goroutine that is about to save it. `DeadHasReason` needs that a goroutine on its
way from a failed exchange to the mark holds an account with a token that is used up
and stays so (`Failing`), and that only such a goroutine sets this reason: the other marks
leave that of every other object alone (`RefusedKeeps`, `MarkedDead`). `ToggleHolds` needs that every object and every snapshot in
hand say what the admin asked, and so does the last one accepted by the queue, or
another is on its way (`Wished`); that a commit leaves the last accepted statistics
alone is a lemma about `WriteBehind`. `DeletedIsGone` follows the one goroutine at
work through its deletion: from the unlink on there is no file, and the pool has let
go of the account or will be told to (`Deleting`).

**Accounting.** The scanner first. `Layout` says where the lines of an answer are, and
`Upto(s, a)` what a scanner that has read `a` of them has: in its usage the events
that are complete (`Heard`), in its buffer the lines of the next one (`Cut`).
`ReadLine` proves one step of this for the three dialects and each line of an event,
`FeedLines` carries it over a chunk of any length by the least position where it
might fail, and `DoneHeard` is the end of the answer after any line: an event whose data
has come counts, complete or not. `DoneTorn` is its end inside a line of data, which is an
event with what `Torn` leaves of its counts (`TornPayload`, `ToldTorn`); `EndingsHeard`
joins the two. So the typing invariant `Typed` can say of every
goroutine that relays that its scanner is `Upto(s, a)`, whatever the chunks were,
and `UsageOfStream` is what `EndingsHeard` says at the end.

The totals are followed by what `Replay` leaves of a list of writes: the last one to
a key (`ReplayAt`), also when the list is cut by a commit (`ReplayJoin`), so that
`Accepted` survives transactions. `Counts` says that what memory, store, queue and
the snapshots in hand know of a total is bounded by what was counted, that a total
that is on its way to the store is in memory, and that without a loss the total in use
is what was counted and is accepted or in some hand: the snapshot that counts may be
another goroutine's.
`PartsWithinWhole` counts in three places at once and is not about equal numbers:
after a restart the store may have a request in its day and not in its account. `Parted`
therefore has a witness `V`, a division of the day's first `d` requests by kind for
each `d`: every point of the queue (`WholeAll`), every hand (`AllFit`) and memory
(`InStep`) are measured by it, a request extends it by one (`OneMore`), and a
restart starts a new one from what is stored. `PinKept` needs that what is accepted
of the pin is the pin put last, or that one was deleted after it had expired
(`Pinned`).

This proof changed the model in one place: in `Put`, the guards of a CASE were both
true for a pin, the last thing in hand, and TLA+ does not say which of two true guards
a CASE takes; it is an IF now. TLC had taken the first, which is what the code does.

**Logins.** `PendingKept` needs that what is pending in a slot is the newest login of
it (`PendingNewest`), and of a finish that it works on the newest login, or that a later
one was begun under it, and has saved its own by the time it forgets what is pending
(`FinishesNewest`); then what it forgets was saved or is `excused`, as is what an abort forgets. That a login
which begins is newer than all before follows from their numbers being those from 1
on (`BegunInOrder`). `SavedWithOwnCode` follows the code (`CodesOwn`): a callback
takes one only of a login that the user confirmed, though any redirect may reach its
port, and a goroutine or a finish about to save has exchanged the code of the login
that it saves.

**The store.** `AccountingIsWriteBehind` maps every action: `Unpin` and `Put` accept
an operation, which the types say is one, transactions commit or drop a prefix,
`Restart` loses what is pending, and nothing else touches store or queue.
`LifecycleIsWriteBehind` does the same for `Put` and `Forget`, the transactions and
`Stop`; a `Command` writes the store itself, which is an operation accepted and
committed at once, for it finds the queue empty and no server (`Down`). With
`QueueRefinesWriteBehind`, the safety proved of the store on this level holds above
the queue of `persist.go`.

**Only model-checked.** Liveness (`EventuallyRetired`, `FlushAcknowledged`,
`EveryRequestEnds`, `WrittenIsLoaded`, `EveryLoginEnds`): the prover does not do
fairness. Of `EveryLoginEnds`, that a login which has ended listens on no port is part of
`LoginTypeOK`, and proved. What recursive functions compute over all inputs is proved
where it is said above, by the least position at which it might fail; the library's
induction theorems are out of the provers' reach.

## 6. Not modelled, and why

* Contents: bodies, headers, the JSON of events, formats of files. They change no
  control state; of an event the model keeps its type and its counts.
* Costs and prices: floating-point sums over a cached table.
* Quota numbers, plans and the token load of keys, but for what the rankings of the
  pools tell apart; days other than today in the recorder; more than one
  model, account and key per kind of request there.
* Real time: timers fire at any time after they were set, cooldowns end at any
  time; `ParseRetryAfter` and `BackoffFor5xx` are functions of durations. The 200 ms
  of the debounce appear only as the proviso above. The clock of `Accounting` counts
  lifetimes of a pin.
* bbolt, fsnotify, net/http, the providers: external. A bbolt transaction is atomic
  and may fail; fsnotify delivers in order and its queue does not overflow; the
  upstream honours the newest refresh token, and a code once.
* The editing of bodies for Vertex and the token it gets from Google: a variant that
  edits more than the model may fail to apply, that is all.
* Configuration, the dashboard, its session, the lists of the admin API, the list of
  models and the middleware: sequential input handling without state.

## 7. Plan

The modules of the plan are written, and every safety property of a passing
run is a theorem. What could be added, in this order:

1. More of the quota numbers in the pools, and the token load of the keys, in place of
   the few values the rankings tell apart.
2. An order among the fsnotify events of several directories, and an overflow of
   its queue, as parts of `HotReload`.
