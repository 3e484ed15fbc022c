# TLA+ models of lang-compare

`lang-compare` holds the same servers written in several languages so that they
can be compared.  Each system has a specification (`SPEC.md`), a conformance
test, and one or more implementations.  This directory models the Go
implementations, which the repository names as a full set (`go-1`, and for the
issue tracker also `go-plain-1`), as TLA+ state machines, checks them with TLC on small instances, and proves the most
important results with TLAPS for every value of the constants.

## 1. Inventory

### 1.1 mini-redis (`src/redis/impl/go-1`)

| part | state | operations | interaction |
|---|---|---|---|
| connection (`main.go`) | input buffer, `out`, `now`, `quit`; once subscribed `pending`, `sig`, `dead` | `serve`, `process`, `flush`, `startAsync`, `deliverLocked`, `pushAsync`, `writer`, `cleanup` | two goroutines per subscribed connection share `pending` under `c.mu`; publishers append to it |
| pub/sub (`pubsub.go`) | `pubsub.chans`, each client's `subs` | `SUBSCRIBE`, `UNSUBSCRIBE`, `PUBLISH`, clean-up | write side of `pubsub.mu` for registry changes, read side for `PUBLISH` |
| shard table (`store.go`) | open-addressing table with tombstones, `count`, `tombs`, `nexp`, `used`, `expCur` | `find`, `get`, `insert`, `del`, `grow`, `rehash`, `setExp`, `flush`, `expiryLoop`, `evictOne` | one mutex per shard; a global byte counter |
| commands (`commands.go`) | - | string, list, hash, key, expiry commands | `lockKeys` takes the shards of all keys in ascending order; `afterWrite` evicts after unlocking |
| allocator (`alloc.go`) | free lists per size class | `allocRaw`, `freeItem`, `arenaReset` | under the shard lock |

Hard behaviour: wake-ups between writer and publishers, two places that close
the same channel, buffer reuse outside the lock, acknowledgements pushed after
the registry lock is released, lazy and active expiry against a clock read
once per `Read`, probe chains across deletions and rehashes, multi-key commands
against commands that lock shard by shard, and the memory limit.

### 1.2 issue tracker (`src/tracker/impl/go-1`)

| part | state | operations | interaction |
|---|---|---|---|
| webhook dispatcher (`webhooks.go`) | one in-memory queue per (webhook, issue), the `deliveries` table | `enqueue`, worker, `process`, `loadPending` | the outbox row is written in the transaction, the queue is fed after commit |
| webhook cache (`webhooks.go`) | cached hook list per organisation with a generation | `orgHooks`, `invalidateHooks` | read inside transactions that hold rows, invalidated by hook changes |
| issues (`issues.go`, `list.go`) | issues, versions, per-project sequence, idempotency keys | create, bulk create, patch, transition, delete, list | row locks, optimistic versions |
| comments (`comments.go`) | comments, `comment_count` | create, edit, delete | row locks |
| organisations and projects (`orgs.go`, `projects.go`) | members with roles | add, change, remove, leave | `FOR UPDATE` on the organisation |
| authentication (`auth.go`) | access and refresh tokens, rotation chains | register, login, refresh, logout | single statements and transactions |
| identifiers, cursors (`util.go`) | last millisecond and sequence | `newID` | mutex |

Hard behaviour: order of deliveries about one issue when transactions commit in
one order and enqueue in another, crashes between the attempt and its record,
at-least-once redelivery after a restart, a refresh racing the revocation of
its chain, checks made before a lock is taken, one connection pool shared by
nested queries.

### 1.3 the second issue tracker (`src/tracker/impl/go-plain-1`)

The same API on the same database engine, written independently.

| part | state | operations | how it differs from `go-1` |
|---|---|---|---|
| webhook dispatcher (`webhooks.go`, `main.go`) | `deliveries` table with a sequence, `inflight`, `done` | `enqueue`, `runDispatcher`, attempts, shutdown | one loop polls the table; no queue in memory |
| authentication (`auth.go`) | refresh tokens and chains | register, login, refresh, logout | one transaction with `FOR UPDATE` per rotation |
| organisations and projects (`orgs.go`, `projects.go`) | members, roles, projects | the same | role and project come from different statements |
| issues, comments, search (`issues.go`, `comments.go`, `search.go`, `http.go`) | issues, history, keys, comments | the same | idempotency key claimed by an insert; lists by offset; filters in one query |

Hard behaviour: row locks taken in different orders, an `UPDATE` that waits for a
row and does not see the one inserted meanwhile, a scan of the table that overlaps
the end of an attempt, a limit of 500 rows per scan.

### 1.4 search engine (`src/search/impl/go-1`)

Indexer: workers consume chunks in parallel, write sorted runs, a writer puts
chunk results back in order, a k-way merge per bucket writes the dictionary and
posting blocks.  Server: block cursors (`next`, `advance`), phrase matching,
conjunction with negative clauses, a bounded top-k heap, ranges evaluated in
parallel.  The index is immutable while served.

### 1.5 Lox interpreter (`src/lox/impl/go-1`)

Scanner, single-pass compiler, bytecode VM with closures, classes and upvalues.
Sequential and deterministic.

### 1.6 orders API (`src/go`, `src/go-fasthttp`, `src/go-sqlite` and siblings)

`createOrder` asks the catalogue for every product in parallel, checks the user
and inserts the order in one transaction; `listOrders` joins orders and items.

### 1.7 Other parts

The Rust, TypeScript and Python implementations repeat the systems above.
`bench`, `agents`, `results`, `runs`, `infra` are measurement harness and data.

## 2. Plan

Done:

1. **AsyncOutput / OutStream / AsyncOutputProofs**: the output path of one
   connection, the stream it promises, the refinement proved.
2. **PubSub / PubSubProofs**: several connections and the registry, over the promise of
   OutStream.
3. **ShardTable / KeyMap / StoreProofs**: one shard's table, with expiry and the sweep,
   as an implementation of a map.
4. **Keyspace / AtomicStore / KeyspaceProofs**: commands over several shards,
   their lock order and their atomicity.
5. **Webhooks / WebhooksProofs**: the tracker's outbox and dispatcher.
6. **MemoryLimit / StoreProofs**: the byte counter, refusals with OOM and eviction.
7. **PlainDispatcher**: the polling dispatcher of `go-plain-1`, proved in HookProofs.
8. **HookCache / HookProofs**: the cache of webhooks over the connection pool.
9. **Sessions / SessionsPlain / AccountProofs**: refresh tokens in both trackers.
10. **Members / MembersPlain / AccountProofs**: members, roles, projects, and the
    assignee of an issue, checked and stored in separate statements, in both; the
    removal of a member statement by statement.
11. **IssueNumbers / IssueProofs**: numbers and idempotency keys in both.
12. **IssueRows / IssueProofs**: versions, history, comments and their locks in both.
13. **IssueList / IssueProofs**, **IssueFilter / AccountProofs**: pages and filters of both.
14. **Identifiers / IssueProofs**: `newID`.
15. **MCServer**, **MCTracker**: the instances of the parts of a server in one run.

Left, in this order:

16. Algorithms: `parseInt`, `globMatch`, the list ring buffer with range clamping,
    the request parser, the allocator's classes; the search engine's cursors,
    conjunction, top-k and merge: operators against a reference definition.
17. The orders API and the Lox VM's upvalues.

## 3. Modules and the code

One action is one critical section or one blocking operation: what happens
between `Lock` and `Unlock`, between two statements of a transaction, or in a
goroutine that shares nothing at that moment, is one step.

### AsyncOutput, OutStream

`pc` is where the connection's goroutine is (`serve`, `process`, `cleanup`),
`wpc` where `writer` is.  `pending`, `sig`, `closed`, `dead` are the fields under
`c.mu`; `pendArr`, `bufArr`, `spareArr` name the backing arrays that the two
buffers use, because `writer` writes from one of them outside the lock.
`DeliverLocked` is `deliverLocked` with its overflow branch (`Cut`); `Answer`,
`Subscribe`, `Register`, `Unsubscribe`, `ExecEnd` are steps of command execution,
`Flush` the synchronous write before the first subscription, `Message` a
publisher, `ReadError`, `CleanupUnsub`, `CleanupClose` the end of the connection,
and `WriterRecv`, `WriterSwap`, `WriterSend`, `WriterFail`, `WriterNext`,
`WriterEnd` the writer.  `PeerLeave` is the network.  OutStream is the promise:
items come out in the order in which they were accepted, or the link breaks.

### PubSub

`chans` and `subs` are the two copies of the registry.  A connection's output is a
sequence that may overflow or break, as OutStream promises.  `SUBSCRIBE` takes
the lock once per channel and pushes the acknowledgement inside the section
(`SubscribeOne`); `UNSUBSCRIBE` unregisters in one section and pushes afterwards
(`Push`); `PUBLISH` holds the read side over all subscribers (`Publish`,
`PublishDeliver`, `PublishEnd`).

### ShardTable, KeyMap

`tab` has the slots, `count`, `tombs`, `used`, `nexp` and `expCur`; `Find`, `Get`,
`Insert`, `Del`, `Grow`, `Rehash`, `SetExp` are the functions of `store.go` on it.
A command is one action, because it runs under the shard's mutex: `Read`,
`Refuse`, `Write`, `Delete`, `SetExpiry`, `Flush`, `Evict`; `Sweep` is one batch of
`expiryLoop`.  A command uses a `now` up to `MaxLag` behind the clock.  KeyMap is
a function from keys to values and expiry times.  Hashes, table sizes, the
sweep's base and its batch are constants; the ratios (3/4 full, 1/8 sparse) are
the code's.

### Keyspace, AtomicStore

`lockKeys` collects the shards of a command's keys and locks them in ascending
order (`Lock`, `NextLock`), the command works key by key (`Work`), `unlockKeys`
releases (`Unlock`).  `FLUSHALL` locks all shards; `KEYS`, `DBSIZE`, `INFO` lock
one after another (`Scan`).  `Lose` is an expiry or eviction, in a shard that
nobody holds.  AtomicStore calls, executes in one step and returns.

### Webhooks

`row` and `tries` are the `deliveries` table, `queue` and `running` are `d.queues`,
`work` the workers, `req` the handlers.  A handler's transaction holds the issue's
row from `Change` to `Commit`, `Rollback` or `CommitUnknown` (the commit was made
but reported as failed); `EnqueueAnswer` follows.  A worker runs `Take` or
`Leave`, `Load` or `LoadFails`, `Post`, `Answer`, `Record` or `RecordFails`.
`Stop` is a crash or the end of `main`, `Start` and `StartFails` the next one's
`loadPending`.  There is one webhook: the key of a queue is the issue.

### MemoryLimit

`mem` is the items of the keyspace (a string by its length, a list by the lengths of
its elements, a hash by those of the fields it has), `used` the global counter.  A command
is one action under its shard's lock: it is refused if its estimate exceeds the
limit, else it changes the item and the counter by the difference the code adds.
`evictor` is a client that has unlocked and is in `evict`: it looks at the counter,
draws a victim outside the keys it protects (any one: samples and LRU clocks are
left out), or gives up (`gaveUp`).  `overgrown` holds the keys `incrBy` has made
longer than the limit.

### Sessions, SessionsPlain

A token is its number; `chainOf` and `parent` are columns, `used`, `revoked`,
`expired` sets of tokens.  In `go-1` the used mark, the probe after a failed mark,
the revocation and the new pair are statements of their own (`mark`, `probe`,
`reuse`); in `go-plain-1` one transaction holds the row (`held`), an `UPDATE` of
a chain works on the rows it found when it began (`rows`) and waits for each, and
a deadlock aborts one of two.  `broken` and `dead` are history variables.

### Members, MembersPlain

`orgRole`, `pmRole`, `project`, `assignee` are the tables, `lock` the organisation's
row lock, `ask` a request with what it has read so far.  Each statement is a step;
a request may fail at each.

The removal of a member goes through `DeleteRows` (both DELETEs), `Unassign` and the
Commit (`DeleteWrite`), in `go-plain-1` `PlainDeleteRows`, `PlainUnassignInOrg` and
`PlainDeleteWrite`.  A statement finds what is committed when it runs, and only what it has
found (`found`) goes at the commit: a row stored in between stays.  A row that it has
written makes other writers wait (`Deleted`, `RowFree`), and `unassignAll` waits for a PATCH
that has locked the issue.  The two DELETEs are one step: between them, before the second
has looked, nothing differs from before the first, because the row of `org_members` is
written under the lock of the organisation only and read as it was until the commit.  One
issue is followed: it is assigned when it is created (`assign`) or by a PATCH that holds its
row (`reassign`), after a check of its own (`AssignCheck`, `PlainAssignCheck`).

`raced` names the people who were removed while a request that had checked them was not
stored yet, or after one was stored behind the statement that would have found it (`late`
in `found`); `clashes` the PATCHes that overlap.

### IssueNumbers

`seq` is the project's `seq` (`last_number` in `go-plain-1`), whose row `seqHolder` locks; `log` the issues
in the order in which they appear to readers; `key` the row of an idempotency key
with its age, `keyHolder` the transaction that has inserted it and not ended.
`TryKey`, `LookKey`, `PurgeKey`, `TakeNumber`, `CommitIssues`, `AbortIssues` are the
statements of `go-1`, the `Plain` actions those of `go-plain-1`.

### IssueRows

`issue` is one row with version, status, `resolved`, count and `updated_at`,
`history` the number of history rows, `comments` the comments; `iLock` and `cLock`
the row locks and `job` the transactions.  PATCH with `If-Match`, transition,
deletion, `unassignAll`, and creation, change and deletion of comments of both
trackers, with the aborts that the database's deadlock detector causes.

### HookCache

`hooks` is the table, `cache` the cached list with the version of the table it was
read at, `gen` the generation, `conns` the transactions that have a connection, `holder`
whose transaction has a row or an idempotency key.  A write takes a connection
(`BeginWrite`), inserts its key if it has one (`TakeKey`), locks the row of the issue or of
the project (`TakeRow`), asks the cache, and on a miss reads the table over a second
connection between two sections of the cache's mutex.  Who waits for a key, a row or the
second connection keeps the first one; the client may go away at any point (`GiveUp`).
A transaction locks one row: the second row of `hDeleteComment`, and what the database does
about opposite orders, is in IssueRows.

### IssueList, IssueFilter

`walk` is a client that follows a list page by page, by cursor in `go-1` and by
offset in `go-plain-1`, while rows are inserted, deleted and changed.  `touched`
are the rows that were.  `Sorted(S)` holds the sequence of the rows of `S` that `ORDER BY`
gives: there is at most one (proved), and TLC's runs find that there is one.

IssueFilter has the answers of `hListIssues` and of `searchIssues` of `go-plain-1` as
functions of the caller and of the request; `Ask` asks both.  The projects, the values of
the enumerations, the users and the labels are constants.

### Identifiers

The time and the counter of `newID`, a clock that may be set back, and a counter that
overflows after `SeqMax`.

### PlainDispatcher

`sheet` is the deliveries table, `list` what the last scan returned, `inflight` the
queues in hand, `attempt` the goroutines that POST and record.  `Drain`, `Scan`,
`ScanFails`, `Launch`, `LeaveLoop` are the loop, `SigTerm`, `Shutdown`, `Crash`, `Restart` the
process.  `unsure` are deliveries whose record was lost.

## 4. Runs

A property that is a conjunction of named parts is listed by its own name; the parts
are defined and explained beside it.

| run | properties | bounds, and why they suffice |
|---|---|---|
| `output` | `NoLostWakeup`, `NoPanic`, `BuffersIntact`, `ImplementsStream`, `EndsWithoutPeer`, `EventuallyReceived` | a buffer of 2 items overflows; 4 items fill the writer's buffer, the pending buffer and one more swap |
| `pubsub` | `RegistrySound`, `PublishOrder`, `AcksRight` | 2 clients, 2 channels, 3 commands with lists of up to 2 channels (a channel twice included), so that each can act between two sections of the other |
| `server` | `LiveWithoutPeers`; `MemorySound` | channels: 1 channel, 3 commands, no peer reads. Memory: 2 clients, 2 keys, 2 fields, elements of length 1 and 3, limit 7: one key fits, two of them do not, INCR outgrows it. |
| `table_map` | `TableSound`, `ImplementsMap`, `SweepReclaims` | 2 keys with the same hash, whose paths wrap around in tables of 2 to 8 slots, 2 costs, expiry at 1, a clock read 1 late; more keys are left to the theorems |
| `table_churn` | violated: `AlwaysReclaimed` | 6 keys in a table of 8, one `Sweep` visits 2 |
| `table_stale` | violated: `ExpiredNeverVisible` | a clock read 1 late |
| `keyspace` | `LocksSound`, `ImplementsAtomic`, `CommandsEnd` | 2 clients, 2 shards, 3 keys; lists in either order, with a repeated key, within one shard |
| `keyspace_scan` | violated: `ScanSeesWholeCommands` | one `MSET` of 3 keys against `KEYS` |
| `webhooks` | `DispatcherSound`, `CausalOrder`, `OvertakenOnlyIfLate`, `RepeatedOnlyIfDoubtful`, `Settles` | 2 requests, 2 issues, 2 deliveries, 2 attempts, 1 slot, 2 stops, 2 failed statements; IInv was also checked with 3 deliveries (1.9 million states) |
| `webhooks_order` | violated: `EventOrder` | 1 issue, 2 deliveries, no stop, no failure |
| `plain_webhooks` | `DispatchSound`, `AllSettle` | 2 writers, 2 issues, 2 deliveries, 2 attempts, scans of 1 row (so that one issue hides the other), 1 crash or shutdown, 1 failed statement |
| `tracker` | `ChainsSound`, `DeadStaysDead`; `HasOwner`, `RemovalComplete`, `PatchKeepsOthers`; `NumberingSound`, `TwiceOnlyByPurge`; `RowSound`, `OnlyKnownDeadlock`, `UpdatedMovesOn`; `CacheSound`, `StarvedOnlyByLookups`; `WalkSound`; `SameDecisions`, `FiltersAgree`; `IdsRise` | two requests at a time in each part, which is what a race needs: 2 clients and 3 tokens (a chain and its rotation); 2 people (two owners, or one who removes the other) and 3 requests, from nothing or from an organisation with an owner, a member and a project (`Founded`), so that a removal meets every other request at each of its statements; 2 creations with a bulk of 2, 2 bodies (a key used again with another one) and 3 tries; 2 transactions, 2 comments, 4 versions, 2 clock values; 3 requests over a pool of 2 (a lookup and a transaction that waits for its row take all of it), 2 rows, 1 key, 1 hook, 2 changes; 3 rows with 2 column values (ties), pages of 1 and 2, 2 edits; every caller and every filter over 2 projects, 2 statuses, 2 users and a label; a counter that overflows after 2 ids |

The parts of `server` and of `tracker` share no state; a behaviour is one of one part
(`part` in MCServer and MCTracker), so that the run explores each on its own.

Deadlock checking is off where the system may stop: in `output`, `pubsub` and
`server` when all connections are closed or the commands are used up, in
`webhooks*` and `plain_webhooks` when everything has been delivered and the bounds are
used up, in `tracker` when the requests or the changes are used up.

### Findings

* `table_stale`: `c.now` is read once per network read, so that a command can still
  answer with a key that has expired; `src/redis/SPEC.md:118` says never.
* `table_churn`: `rehash` sends the sweep back to slot 0; a load that rehashes
  often enough keeps later slots from being swept; `src/redis/SPEC.md:119` promises
  2 seconds.
* `keyspace_scan`: `KEYS`, `DBSIZE` and `INFO` see a part of an `MSET`;
  `src/redis/SPEC.md:153` says every command is atomic.
* `webhooks_order`: the delivery of a second change of an issue can be sent before
  the first one's handler has called `enqueue`; `src/tracker/SPEC.md:200` promises
  event order.  `CausalOrder` says what remains true: a client that waits for its
  answers gets its deliveries in order.

### What the properties leave room for

Some properties name an exception, because the code does not promise more:

* `DeadStaysDead`: a revocation that meets a token in the middle of its exchange
  (`auth.go:342-362`) misses the successor; `go-1` ignores a failed revocation.
* `TwiceOnlyByPurge`: a request that found an idempotency key older than a day deletes
  by key (`issues.go:477`) and may delete a row stored since.
* `RemovalComplete`: a request that has checked a member before the removal is committed
  may store the membership of a project, or the assignment, after the statement of the
  removal that would have found it: between that statement and the commit, or later
  (`projects.go:372`, `issues.go:421` and `826` against `orgs.go:420-429`; in `go-plain-1`
  `projects.go:302` and `issues.go:450`, `532`, `644` against `orgs.go:309-317`).
* `PatchKeepsOthers`: two PATCHes of a project that overlap lose one (`projects.go:297`);
  `hPatchHook` has the same form.
* `OnlyKnownDeadlock`: `hDeleteComment` and `hDeleteIssue` lock in opposite orders; the
  database aborts one.
* `StarvedOnlyByLookups`: with a cold cache, one lookup is enough for the pool to stand
  still: it waits for a second connection (`webhooks.go:59`) while the others are held by
  lookups like it or by transactions that wait for the row it has locked (`issues.go:182`,
  `510`).
* `CacheSound`: a change that was applied and reported as failed leaves the cache stale
  until the next change.
* `UpdatedMovesOn` speaks of PATCH and transition of `go-1`: `unassignAll` takes its time
  before it waits for the rows (`orgs.go:419`), and `go-plain-1` stores the clock, so that
  two versions in a millisecond have the same `updated_at`.
* `MemorySound`: `incrBy` has no estimate, and `evictOne` may find no victim by chance.
* `FiltersAgree`: `go-1` answers an invalid filter with an empty page when no visible
  project is named (`list.go:71`).
* `SameDecisions`: the rules differ for a PATCH of a member that changes nothing.

### Fairness

* Goroutines that can run do run: weak fairness on the steps of the connection and
  of its writer.  Nothing is assumed of a peer, except in `EventuallyReceived`,
  whose hypothesis `PeerReads` is that it reads.
* Strong fairness for whoever waits for a lock: `sync.Mutex` hands itself to a
  goroutine that has waited a millisecond, and `sync.RWMutex` lets no new reader
  pass a waiting writer.  `Post` is strongly fair because goroutines blocked on
  the channel `d.sem` are served in turn.
* `Sweep` and `Tick` are weakly fair: a ticker drives `expiryLoop`.
* An attempt ends (the HTTP client's timeout is 5 seconds), and the server is
  restarted after a stop: without the latter no durable delivery could arrive.
* In PlainDispatcher the ticker wakes the loop, a scan that can return everything due
  (`Scan({})`: no back-off is running) returns it infinitely often if it can be
  (strong: back-offs end), attempts end, `select` sees the end of the context (strong),
  and the process is restarted.
* Clients, publishers, failures and stops are never fair.

## 5. Proofs

All theorems hold for every value of the constants that the named assumptions
admit (positive limits, natural bounds, a shard for every key).

* **AsyncOutputProofs** proves `NoLostWakeup`, `NoPanic`, `BuffersIntact` (by
  `TypeOK`, `NoSharedArray`, `NothingLost` with `DrainedWhenClosed`), and that the
  two goroutines implement OutStream.  The invariant adds a life cycle (a closed
  signal channel, `dead` and the writer's end come in that order), which is what
  excludes the second close, and the separation of all three arrays, because a
  swap turns the spare array into the pending one.
* **KeyspaceProofs** proves `LocksSound` (`TypeOK` and `WaitsUpward`): the shards a client holds
  are below those it still needs.  Together with a total order of shards this
  excludes a cycle of waiting clients.  It also proves `ImplementsAtomic`: commands are steps
  of AtomicStore.  `StoreInv` adds that no two clients hold a shard (`Exclusive`) and that a
  command with work left holds all the shards of its keys (`Protocol`).  Hence a key has at
  most one client that is still to write it, whose value the mapping shows (`OneWriter`), and
  what another client has still to read does not change (`OthersWork`): the last `Lock` is the
  step of the store, every key of the loop a stutter.
* **WebhooksProofs** proves `DispatcherSound` (`TypeOK`, `WorkerPerQueue`,
  `NoneForgotten`) and `CausalOrder`.  `NoneForgotten` becomes inductive when it names the issue's own
  queue and worker (`Kept`), with rows of known issues (`Rows`) and queues that
  hold only their own (`Workers`).  `CausalOrder` has to hold from `Take` on
  (`Ordered`): an earlier answered delivery has a lower id, is no longer with its
  handler (`Requests`), and the worker takes the lowest id.
  `OvertakenOnlyIfLate` is kept by saying where a delivery not yet settled is
  (`HandedOver`), and `RepeatedOnlyIfDoubtful` by the place of an answer that is not in
  doubt: it is the only one, and recorded or with the worker that got it (`AckInv`).
* **PubSubProofs** proves `RegistrySound`, `AcksRight` and `PublishOrder` for any number of
  connections, channels and commands.  What a peer has received says nothing of what is on
  its way, so the invariant speaks of the stream, received and queued.  While the connection
  lives, the stream and the replies still in `c.out` say what `c.subs` is (`Told`); and the
  last message of a publisher in it is the last published, or the one before if the loop of
  `PUBLISH` has not come to this client (`Fed`).  The read side of `pubsub.mu` is what
  excludes an `UNSUBSCRIBE` between the two (`Working`).  Lemmas on sequences (what
  appending items does to subscriptions, counts and gaps) carry both.
* **IssueProofs** has four parts.  *Rows*: `RowSound` and `OnlyKnownDeadlock` of both
  trackers and the action property `UpdatedMovesOn` of `go-1`.  `RowsInv` adds that a
  worker that holds a row lock has read the row as it is (`Locks`), so that the version it
  writes is the next one.  *Numbers*: `NumberingSound` and `TwiceOnlyByPurge` of both.
  `NumbersInv` adds that whoever is about to insert holds the project's row and has taken the
  numbers that follow the last one logged; `KeyInv` that a key created today is in the table
  or was purged, and that its inserting transaction holds it.  In `go-plain-1` nothing
  purges, so that the exception does not exist there.  *Identifiers*: `IdsRise` for every
  width of the counter: the two words of `newID` are always the id made last (`IdsInv`), and
  each of its three branches makes a greater one; a lemma on products bounds how far ids
  run ahead.  *Pages*: `WalkSound` for any rows, columns, page sizes and changes between
  pages.  The cursor cuts the order in two (`AfterCuts`), and of the rows that stay exactly
  those before the cut have been shown (`CursorInv`); by offset, of a list that does not
  change, a prefix (`OffsetInv`), because there is only one way to sort it
  (`SortedUnique`).
* **AccountProofs** proves `HasOwner`, `RemovalComplete` and the action property
  `PatchKeepsOthers` of both trackers for any number of people and requests.  `OwnersInv`
  adds that requests are on their way only once there is an owner, and that who is about to
  write holds the lock and leaves an owner: the count that allowed the write is still true
  when it happens, because an insert waits for the lock and can only add owners.
  `RemovalInv` adds, for each request, what its checks have established and that it is in
  `raced` or `clashes` as soon as that is no longer so (`Checked`), and, for the removal
  under way, that at each of its statements what refers to the person has been found, or is
  still to be looked for, or was stored `late` (`RemovalSoFar`, `Covered`): what the commit
  leaves behind is in `raced`.  Its second part proves
  `ChainsSound` and `DeadStaysDead` of both trackers for any number
  of tokens and requests.  The invariant describes a chain as a line: a token has at most
  one successor, and all but the last are spent (`Lineage`, `OneLive`); in `go-1` an
  exchange under way has spent the last token of its chain, alone (`Marks`); in
  `go-plain-1` no two transactions hold a row and the row of an exchange is good (`Swaps`).
  Its last part compares the two trackers: `SameDecisions` in every state that either of
  them reaches, which follows from the two invariants and a comparison of the rules value by
  value, and `FiltersAgree` for any projects, users, labels and requests.
* **StoreProofs** proves `TableSound` and `ImplementsMap` of ShardTable and `MemorySound` of
  MemoryLimit.  What probing, rehashing and the accounts compute is induction over data.  The
  theorems of the library take a predicate; here a set stands in its place: `NatMin` is the
  well-foundedness of the naturals cited for the set of counterexamples, and `UpTo` (numbers
  up to n) and `OverSubsets` (subsets of a finite set) follow from it.  They give the laws of
  the recursive functions (powers of two, an item placed after an item, the sweep slot by
  slot) and of sums over finite sets and sequences.
  *Table*: `TableInv` is that the path of an item is not cut before it (`Paths`), that no key
  has two items (`Unique`), that `count`, `tombs`, `nexp` and `used` are those of what is in
  the slots (`Counted`), and that the load leaves room (`Loaded`).  With an empty slot a probe
  ends; the lemma `Emptied` says why `del` may empty a slot whose successor is empty and must
  leave a tombstone otherwise.  Every function is first described by what it does to the set
  of items (`Contents`), and the commands and the sweep are then steps of KeyMap or leave the
  map alone.
  *Memory*: `MemInv` is that every item's own `cost` is the sum over its elements, that `used`
  is the sum over the keys (`Accounts`), that keys fit (`Fitted`), and, for the limit, that
  as long as it is exceeded, there is a client still to evict whose protected keys alone do
  not exceed it (`Held`), unless an exception has occurred.  An eviction by somebody else may
  take a key that this client protects: then its keys become cheaper.  A write by somebody
  else may make one dearer: then the writer is the client to evict, and protects what fits.
* **HookProofs** proves `CacheSound` and `StarvedOnlyByLookups` of HookCache for any number
  of callers, rows and keys and any pool, and `DispatchSound` of PlainDispatcher.  `HooksInv`
  says that what is cached, and what a query has read under the present generation, may be
  kept (`ListsFresh`), that transactions alone hold connections, and that who has a key is
  past the wait for it and who has a row waits for no other (`ConnsHeld`): from a full pool,
  one leads to the holder of what it waits for, and from there to one that goes on or is in
  a lookup.  `DispatchInv` adds where the answer to a delivery
  is: recorded, or in the attempt whose queue is in `inflight`, which the next scan does not
  start again.

Assumptions on constants: limits, bounds and counters are natural numbers, positive where
zero would mean no server at all (a buffer, a pool, a slot, an attempt); sets whose size
the code counts (clients and channels in PubSub, clients in Sessions, comments, keys and
fields in MemoryLimit) are finite; a table's first size is a power of two from 2 to 1024, the
marks of free slots are not keys, and the words for a bad or an empty filter are not values;
and the value that means "nobody" is not a client.  None bounds the size of an instance.

Only model-checked: all liveness properties (`LiveWithoutPeers`, `SweepReclaims`,
`CommandsEnd`, `Settles`, `AllSettle`, `EndsWithoutPeer`, `EventuallyReceived`), because
fairness and ENABLED are out of the prover's reach.  Every invariant, action property and
refinement that a passing run checks is also a theorem.

## 6. Abstractions, and what is left out

* Replies, messages and bodies are numbers or records; bytes of RESP and JSON do
  not appear.  `maxPending` counts items.
* Time is a counter in ShardTable and absent elsewhere: a time-out may always
  happen.  Back-off times are left out, their order with stops is not.
* A partial write of the writer delivers a prefix of whole items.
* Rows of the database are locked and read as PostgreSQL does at READ COMMITTED: a
  statement sees what is committed when it begins, `FOR UPDATE` and `UPDATE` wait for the
  row and then see its latest version, a unique key makes an insert wait for the other
  transaction, and a cycle of waiting transactions is broken by aborting one.
* Symmetry is used for clients and channels, for people, comments and locked rows, and for
  the requests that work on them, which have the same names in all parts of `tracker`:
  nothing in the code orders them.
* The text of issues, comments and names, validation of fields, JSON, passwords and the
  check of access tokens keep no state that a property here speaks of.

### Not modelled

* redis: the request parser, the allocator, numbers, ranges, globs and the ring buffer of
  lists are sequential computations on bytes (section 2, 16).
* The search engine serves an immutable index; its algorithms are planned (16).  The
  orders API and the Lox interpreter are last (17): the latter is sequential,
  deterministic, and covered by its conformance suite.
* Start, routes and schema are wiring and DDL.  The implementations in other languages,
  the benchmarks and the data are not part of this development.
