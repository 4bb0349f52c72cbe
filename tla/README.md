# A verification development of redis-glass

redis-glass is a key-value store that speaks RESP: one goroutine per
connection, strings with TTLs, lists and hashes in maps behind one
`sync.RWMutex`, an append-only file (AOF) with online compaction, and a built-in
dashboard. This directory holds TLA+ models of it, the TLC runs that check them
and the TLAPS proofs about them. Line numbers refer to the files of the repository.

## Inventory

| Part | State | Operations | What is hard |
|---|---|---|---|
| AOF logging, `store/aof.go`, `commands/handler.go` (`mutateAndLog`) | `file`, `writer`, `mu`, `fsync` | `writeLocked`, `Sync`, `StartFsyncLoop` | mutate and log is two steps; write, flush and fsync fail one by one; some handlers drop the error |
| AOF rewrite, `store/aof.go` (`Rewrite`) | `rewriting`, `rewriteBuf`, `rewriteRunning`, the temporary file | `BGREWRITEAOF`, `StartAutoRewrite` | runs next to commands, two critical sections, eight calls that fail, a swap of the live file |
| Start and shutdown, `main.go` | the process | `NewAOF`, `Replay`, signal, `Sync`, `os.Exit` | crash at any step, power loss, connections that are still served while shutting down |
| AOF contents, `store/aof.go` (`writeSnapshot`, `Replay`, `replayCommand`) | the commands in the file and their bytes | frame, serialise, parse, replay | relative TTLs, chunks, a memory ceiling and a clock that apply again on replay; an entry cut at any byte, and later ones behind it |
| Store, `store/store.go` | `data`, `lists`, `hashes`, `expiryKeys` | SET … HDEL, lazy expiry, `sampleExpire` | check under a read lock, act under a write lock; a set kept in step with a map by hand; an estimated ceiling |
| SCAN, `store/store.go` (`Scan`) | none; the cursor is the client's | `Scan` | an offset into a list that changes between two calls; COUNT overflow |
| Recorder, `events/events.go` | histograms, slow log, ring of hot keys; subscribers and their channels | `Record`, `top`, `SLOWLOG`, `Subscribe`, `broadcast` | close against send, a counter changed outside the lock, full buffers, a window computed before the lock |
| Server, `server/server.go` | connections, counters, the authentication flag, the buffered writer | accept loop, `readAndHandle`, AUTH | pipelining, panics in the middle of a command, clients that stall or hang up during a flush |
| RESP, `resp/*.go` | none | `Parse`, writers | lengths that reach over the end of what is there |
| Dashboard, `monitor/dashboard.go` | one subscription per viewer | `serveMonitorStream` | slow viewers, viewers that leave in the middle of a broadcast |
| Configuration, `main.go` | none | `parseMBEnv`, `parseMsEnv` | nothing |

How they interact. A connection goroutine parses a command and calls its handler.
A mutating handler takes `aof.mu`, and inside it `store.mu`, mutates, appends to
the file and releases both; then it replies and reports to the recorder. A rewrite takes
`aof.mu` twice, once to copy the store (with `store.mu` inside) and once to swap
the file. The fsync loop and the shutdown take `aof.mu`. The sampler and the
lookups take `store.mu` only: expiry is never logged. Every command that a
handler ends is reported to the recorder between writing the reply and flushing
it, so a panic in the recorder would come behind a reply; the recorder offers the
event to each dashboard viewer and drops it where the channel is full.

What makes the parts correct: replaying the file rebuilds the store, through every
interleaving, failure and restart; what a client was told is in the file, what
was forced stays forced; one rewrite at a time and nobody stuck on a lock;
`expiryKeys` in step with `data`; memory under its ceiling; only expired
entries expire, and all of them do; a scan returns what was there all along;
one reply per request, the right one and in order; no send to a closed
channel and nobody blocked by a viewer; statistics that count what happened, once.

## Modules

| Module | Models |
|---|---|
| `DurableLog` | abstract: a log written in place, with forced prefix, crash, power loss and restart |
| `AOF` | logging, fsync, `Rewrite` with all its error paths, shutdown, restart; commands are names |
| `AOFProofs` | theorems about `AOF`: with a reliable file, where it implements `DurableLog`, and with any I/O call failing |
| `StoreOps` | the store's operations as functions of the store's content |
| `SumProofs` | lemmas about sums over finite sets, for the estimate of the store and the statistics |
| `StoreOpsProofs` | lemmas: each operation leaves a store as the program can have it, and adds at most what it asked for |
| `Store` | the store under concurrent connections, with clock, lazy and active expiry |
| `StoreProofs` | theorems about `Store`: typing, `expiryKeys`, what expiry removes, the memory ceiling |
| `Persistence` | the meaning of the file: commands, snapshot serialisation, replay, TTLs, ceiling |
| `PersistenceProofs` | theorems about `Persistence`: exact rebuilding, what survives with TTLs, and what was deleted stays deleted |
| `ScanCursor` | one client's SCAN against concurrent additions and removals |
| `ScanCursorProofs` | theorems about `ScanCursor`, on lemmas about listings |
| `AofTail` | the bytes of the file: framing, `resp.Parse`, `Replay`, entries cut at any byte |
| `Recorder` | histograms, the ring of hot keys and the slow log under concurrent reports |
| `RecorderProofs` | theorems about the ring, the leaderboard, the percentiles and the slow log |
| `EventStream` | subscribers, their channels and the counter in front of the broadcast |
| `Server` | the connections, on top of an `INSTANCE` of `EventStream` |
| `ServerProofs` | theorems about `Server` and the stream in it |
| `MCAOF`, `MCStore`, … | values of the constants for TLC |

Definitions whose comment starts with "Mutant" are not part of the models. Each is a
definition with a plausible bug; put in place of the definition that follows it, it
makes a run report a violation, which shows that the property can fail.

### AOF

A command is an element of `Ops`, issued once, so that "once" differs from "twice".
The store is a function of the commands applied to it, and is represented
by their sequence (`store`); a file by the sequence its replay
executes (`file`, `tmp`). The compact form of a snapshot stands for the commands
behind it; that it really has the same effect is the subject of `Persistence`.

| Code | Model |
|---|---|
| `mutateAndLog`: `WithLock`, mutate | `Receive`, `Mutate`, `MutateRejected` |
| `writeLocked`, reply | `LogSucceeds`, `LogFlushFails`, `LogFsyncFails` |
| `if h.mutateAndLog(...)` dropped or looked at | `UncheckedOps`, `CheckedOps` in `UnlockAndReply` |
| `StartFsyncLoop`, `Sync` | `FsyncTick`, `SyncFile` |
| `Rewrite`, aof.go:298-394 | one action per I/O call or critical section: `RewriteEnter`, `RewriteSnapshot`, `RewriteDump`, `RewriteMerge`, `RewriteTmpSync`, `RewriteCloseLive`, `RewriteRename`, `RewriteReopen`, a `...Fails` for each that can fail, `RewriteCleanup`, `RewriteExit` |
| signal, `aof.Sync`, `os.Exit` | `ShutdownSync`, `Exit` |
| start, `Replay` | `Recover` |

`writer` is `ok`, `sticky` (a `bufio.Writer` keeps its first error) or `closed`.
The operating system keeps flushed bytes when the process dies (`Crash`, `Exit`); a
`PowerLoss` keeps any prefix of the file that contains the fsynced part. The
ghosts `acked` and `durable` say what clients were promised.

### Store, StoreOps

`s` is a record of the four maps. Strings have a length and may spell an integer of
w bits, where `Half` is 2^(w-1). Everything that happens under one hold of `s.mu` is one action. Three
operations are more than that: `Set` computes its deadline before it takes the
lock (`SetBegin`, `SetEnd`), and the lookups `Get`, `TTL` and the first half of `Exists` read,
look at the clock and delete in three steps (`LookupRead`, `LookupCheck`,
`LookupDelete`). `SampleRound` is one round of `sampleExpire`; which keys
it draws is left open, as Go leaves map iteration open.

### Persistence

Commands are records, and `Effect` executes them with the operations of `StoreOps`,
live and on replay, as the code uses the same methods of `Store` for both.
`SnapshotLogs` is what `writeSnapshot` may produce, over all orders of map
iteration; snapshot and dump are two steps, with commands and time in
between. The clock ticks `TicksPerMs` times per millisecond, because PX
truncates. `Commands` is what handlers log: pushes and HSETs carry at least one
element, TTLs are not negative. `Keys` and `Fields` are finite, as they
are strings of bounded length; the orders of a map's keys are the injective sequences over
them. A workload is a set of commands and where the clock stops;
a behaviour has one of them. EXPIRE takes milliseconds too: its second is a multiple
of them, and nothing depends on which. With `SlowReplay = FALSE` no
time passes and the sampler does not run while the file is replayed; with `TRUE` both
happen, as `main` starts the sampler before the replay.

### ScanCursor

Keys are numbers in their sort order. `present` holds the entries of the three maps,
so a name used in two maps is listed twice. The iteration belongs to
one client that starts at 0 and passes back what it got; everybody else adds and
removes entries. `shifted` remembers whether an entry behind the cursor went away, the
one case in which a scan misses a key that stays.

### AofTail

The same file as in `AOF`, one level down: a sequence of bytes. Characters are one-letter strings, and
SET is the only command, called `S`. `Encode` is
`writeLocked`, `Parse` the parser as far as a log file can exercise it: arrays,
bulk strings, inline lines and every error. `WriteFails` and `PowerLoss` cut an entry at any
byte; `Restart` appends behind the cut, as the code does; `Rewrite` is the swap of
`AOF` as one step. The ghost `whole` records which entries are in the
file undivided, `clean` how far the file goes without a divided entry that is
followed by something.

### Recorder

Goroutines go through `Record` in up to four steps: the histogram (`RecordLatency`),
the clock and the lock of `hotkeyTracker.access` (`ReadClock`, `Access`), the slow
log (`LogIfSlow`). A time is the number of a window, 5 seconds in the code. The
readers are operators where they hold one lock (`Percentile`, `SlowlogGet`,
`Leaders`), and `top` is two steps, since it reads the clock before it locks. The ghosts
`samples`, `accesses` and `logged` keep everything that was reported, and the
properties recompute each statistic from them. `Calls` is finite, as the strings and integers in
a report are of bounded size; otherwise a sum over the samples would mean nothing.

### EventStream and Server

`EventStream` has one action per hold of `subMu` and one per access to the atomic
counter: `Subscribe` and `Count`, `Remove` and `UncountAndClose`, `RecordCheck` and
`Broadcast`. What was sent, only its number matters; `owed` remembers for each viewer
whose event it must be offered.

`Server` has one action per step of a connection's goroutine: a request is taken and
ends as malformed (`ParseFails`), as an error reply (`ParseRefuses`, `ParseDenied`), in a
handler (`Handle`) or in a panic (`HandlerPanics`); after `Handle` come the two
steps of the stream, then `Flush` or `FlushFails`. `conn` names the stage: `last` is an
error after which the loop ends, `ignoring` a flush whose error is dropped. The
recover of `readAndHandle` is in `ParseRefuses` (`make` refuses a length),
`HandlerPanics`, and the branch of `Broadcast` that would be taken if a send
panicked. The network takes `Window` replies that the client has not read; then
a flush waits. Replies and requests are classes, and `Answer` says from the
requests alone what each reply must be.

## Runs

All runs with `expect` pass are exhaustive within their bounds.

| Run | Shows | Bounds |
|---|---|---|
| `aof_faults` | with fsync always and any I/O call failing: answered commands are on disk, forced ones in the forced prefix, nothing is logged twice or out of order, a completed swap repairs the file, one rewrite, no stuck buffer | 2 connections, 2 rewriters, 3 commands, 1 crash |
| `aof_everysec` | everysec, failures that leave the live file alone: file = memory whenever nobody is in a critical section; `AOF` implements `DurableLog`; every command and every rewrite ends, and what was answered is forced | 2 connections, 2 rewriters, 2 commands, 2 crashes; no symmetry, because of the liveness properties |
| `store` | `expiryKeys` exact, ceiling, only due entries vanish, expired keys are reclaimed, with two interleaved connections and the sampler | 2 keys, 1 field, 1 text, counters of 2 bits, ceiling 4, sample of 1, clock to 3 |
| `scan` | scans end, with the cursor 0 unless cursor + COUNT overflows, and return every key that stays unless an entry behind the cursor goes away, for COUNT −1, 1, 2 and 31 of 6 bits | 3 names in 2 maps |
| `persist` | restart rebuilds everything exactly where nothing expires; with TTLs what is alive survives with its value and a deadline that is (almost) no earlier and bounded by the longest TTL, and what was deleted stays deleted, also in a slow replay | two workloads: all types on 1 key, or strings with TTLs on 2 keys; TTL 2 ms, 2 ticks per ms, chunks of 2, 3 commands, 1 crash, clock to 5 |
| `recorder` | percentiles, slots, leaderboard and slow log are what the reports make them | 2 goroutines, 3 reports, 2 finite buckets, ring of 2 of 5 windows, slow log of 1, best of 1 |
| `server` | replies match requests, INFO's counters, nothing sent to a closed channel, watchers offered every event; a reading client is answered, a hung-up one goes away | 2 connections with 2 requests and 1, the second with a network that takes nothing; 2 viewers, channels of 1 |
| `tail` | the file replays to its whole entries up to the damage, and a rewrite repairs it | 3 commands, values of 0, 2, 4 and 10 bytes, one with a CRLF and a `$`; 2 cuts |

Why these bounds are enough to be interesting: two connections and two rewriters
are what every race in the comments of `aof.go` needs; three commands allow one before
the snapshot, one mirrored and one after the swap, and two allow one of each kind,
before, during or after a rewrite; a second crash shows that what
a restart leaves behind is sound. Chunks of 2 with pushes of 3 elements have full
and partial chunks, and two pushes a second boundary. A clock of three
ticks has "before", "at" and "after" the deadline. A ring of two
windows among five is overrun and reused, also by a goroutine that is late; a slow log of
one entry overflows with the second. Two connections and two viewers are what it
takes for one to come or go while another is served; the three requests cover AUTH before and
after a command that needs it, and a panic in front of a further request. Two cuts
are needed for an entry that follows a damaged one to be damaged
itself. `MaxCrashes`, `MaxTime`, `MaxLog`, `MaxRecords`, `MaxRequests`,
`MaxWrites`, `MaxCuts` and the `until` of a workload are the only bounds in guards.
The ASSUMEs of the modules are evaluated by these runs.

CHECK_DEADLOCK stays on: in every model something can always happen.

### Statements of the code and its documentation that do not hold

Four have a run that is expected to report a violation, and an entry under
`findings` in `PROJECT.json`.

| Run | What happens |
|---|---|
| `aof_rewrite_drops` | a command whose fsync failed during a rewrite vanishes from the file with the swap |
| `store_lazy` | a lookup deletes an entry to which an EXPIRE of another connection has just given a later deadline |
| `persist_extended` | a key whose TTL is extended during a rewrite is lost with the next restart |
| `tail_lost` | a failed write leaves a part of an entry in the file; a command logged after the next restart follows it and is not replayed. The torn entry may swallow the head of the next |

The models contain these as well; no run is devoted to them:

- DEL, EXPIRE, HDEL and FLUSHALL are answered with success although they could not be
  logged (handler.go:292, 315, 489, 627; `UncheckedOps` in `AOF`).
- Commands are answered between the last Sync and the exit (main.go:111; `Exit` after
  `ShutdownSync`).
- When a rewrite fails between closing and reopening the live file, the log is
  closed until a restart; later rewrites fail as they close it again
  (aof.go:357; `RewriteCloseLiveFails`).
- INCR on an expired key keeps the deadline that has passed (store.go:331; `IncrByOp`).
- EXPIRE revives a key that has expired and was not removed yet (store.go:166; `Expire`).
- cursor + COUNT overflows and the handler panics (store.go:271; `ScanPanics`).
- A goroutine held up for a whole ring between clock and lock throws away the counts
  of a newer window (events.go:140; `late` in `Recorder`).
- A deletion behind the cursor makes a scan miss a key that stays
  (store.go:266; the exception in `StayersReturnedUnlessShifted`).
- A key in its last millisecond is rewritten with PX 0 and so never expires after a
  restart (aof.go:412; `SnapshotLogs`, the exception in `RestartKeepsLive`).
- A restart starts relative TTLs anew and so puts deadlines off and revives expired keys, by no more
  than the longest TTL that was set, PX 0 aside (aof.go:518; `Effect`, `TTLsBounded`).
- INCR after an expiry counts on from the old value on replay, as nothing in the file says that the key
  expired (aof.go:537; `Effect`).
- The sampler already runs during the replay (main.go:30): a key whose TTL was extended is lost if its
  first TTL runs out before the EXPIRE is replayed (`Sweep`, with `SlowReplay`).
- Under maxmemory each chunk of a rewritten list is charged for the key again, and
  a later one may be refused on replay (aof.go:575; `Demand`).

### Fairness

`AOF!Fairness`: goroutines that can run do run (WF on each step that needs
no lock). Taking `a.mu` is strongly fair, because `sync.Mutex` in starvation
mode hands the lock to a waiter that has waited for a millisecond, so a waiter is not
passed over for ever although others keep taking the lock. Nothing makes
clients send, rewrites start or the machine fail or recover. `Store!FairSpec` has WF on the
sampler: its ticker fires and `s.mu` is free between two steps of the
model. `ScanCursor!FairSpec` has WF on the client's next call.

`Server!Fairness` has WF on each connection's goroutine, which
includes the flush once the network takes it, and on the reading of the clients in
`Reading`, the only ones that `RequestsAnswered` promises anything. No viewer is fair:
a dashboard may stall for ever.

`EventuallyReclaimed` is promised only while the keys with a TTL fit into one sample, and says
so itself. Beyond that the code has only Go's map iteration to choose keys, which
promises nothing that fairness could express.

## Proofs

Everything below holds for every value of the constants that the modules' named
assumptions allow. Facts about sequences, finite sets and functions come from the library's
theorem modules; lemmas precede the theorem that needs them.

### AOFProofs

For any sets of connections, rewriters and commands, each
fsync policy, any set of faults and any number of crashes, from
`ConstantsAssumption` alone:

- `TypeCorrect`: `Spec => []TypeOK`.
- `MutualExclusion`: `Spec => [](LockInv /\ OneRewrite /\ BufferingEnds)`, with
  `RewritesExclude` and `MirroringEnds` as the two parts the runs check.
- `ExactlyOnceHolds`: `Spec => []ExactlyOnce`.
- `NothingIsLost`: `Spec => []LosesNothing`: memory is the file plus what is still to be logged, and
  no rewrite is about to put in place a file that lacks any of it.
- `Refinement`: under `LogIsReliable`, `Spec => ImplementsLog`.

The argument. "file = store" is not inductive: it fails between a mutation
and its log entry, and nothing in it says why a swap keeps it. `Consistent`
strengthens it: memory is the file plus the entry the holder of `a.mu` has not logged
(`Recorded`), and at each stage of a rewrite, what it has written plus what it has
mirrored is the file (`RewriteMatches`); the writer is never sticky, and closed only
while a rewrite is swapping. To preserve `RewriteMatches` when a command logs, one needs
that mirroring is on while some rewrite is in its dump (`BufferingEnds`) and
that this rewrite is the only one (`OneRewrite`); to preserve `Recorded`, that the
holder of `a.mu` is the client between its two steps (`LockInv`). `Quiet` says
that a process that is down holds nothing. `IInv` is the conjunction. In the
refinement every step of a client is `Execute`, `Log` or a stutter, every step of a rewrite
is a stutter, but for the rename, which looks like `Force`.

Whatever write, flush, fsync, close, rename or reopen fails, from the same assumption:

- `AckedStaysOnDisk`: `Spec => []AckedOnDisk`.
- `DurableStaysForced`: `Spec => []DurableForced`.
- `FileIsSubHistory`: `Spec => []SubHistory`.
- `SnapshotOnDisk`: `Spec => []SnapshotReachesDisk`.

The argument for these. With failures the file is no longer the store, but it embeds in it: memory
executes each command once, and the file holds some of them in that order, without the
one that is executed and not yet logged (`Logs`). So does what a rewrite is going to put in its
place, which is the snapshot with what was mirrored since, and later the temporary file
(`Successor`). `Prepares` says this of each rewrite, together with: whatever was
answered is in the successor too. Only then does a rename keep `AckedOnDisk`, which is the
reason that a command may be answered while a rewrite runs. `Kept` says the same of
the file and of its fsynced part. `FaultInv` is the conjunction.

### SumProofs

`SumFunctionOnSet` of the community modules is a recursive function that takes the elements of a
set in an order nobody specifies. That it has a value and what the value is (`SumParts`,
`SumFacts`) is shown without induction: among the subsets for which a statement fails there
would be one that is least (`LeastSubset`), and it is refuted. From there on sums are compared
(`SumLess`), split (`SumUnion`, `SumPart`, `SumWithin`), counted up (`SumCounts`) and taken over other names for
the same elements (`SumRenamed`).

### StoreOpsProofs, StoreProofs

For any number of connections, any keys, sample size, clock and width of integers:

- `StoreTypeCorrect`: `Spec => []TypeOK`.
- `ExpiryStaysTracked`: `Spec => []ExpiryTracked`, `expiryKeys` is exactly the set of keys with a
  deadline.
- `OnlyDueIsRemoved`: `Spec => OnlyDueRemoved`, the action property that expiry takes away
  nothing that is not due.
- `MemoryStaysBounded`: `Spec => []MemoryBounded`, the estimate, taken from the maps as they are, never
  exceeds the ceiling.

The argument. `StoreOpsProofs` shows operation by operation that it takes a sound store to a
sound one and what becomes of the set of strings. `OnlyDueRemoved` needs one
invariant more: the entry that a lookup read outside the lock and is going to delete
was due then, and the clock has not gone back since (`HeldDue`). Which entry it removes
is another matter: see `store_lazy`.

For the ceiling, a step either empties the store, takes up nothing, or takes up at most the
`n` that `Fits` has checked in the same step (`StepGrows`). Each operation is shown to add at
most what it asked for (`Grows`: `SetGrows`, `IncrByGrows`, `PushGrows`, `HSetGrows`), whether it makes an
entry, replaces one or, in HSET, writes a field twice; deletions and expiry add nothing
(`ShrinkGrows`). The estimate is a sum over the three maps, finite at any time (`Finite`), of what their
entries take, itself a sum for lists and hashes. `MemoryInv` is the conjunction with
`StoreInv`.

### PersistenceProofs

For any workload, chunk size, order of map iteration, and any number of commands,
rewrites and crashes, with time and expiry going on in between:

- `DeletedNeverReturns`: `Spec => []DeletedStaysDeleted`, with any TTLs, any ceiling, also
  in a slow replay.
- `RestartIsExact`: `Spec => []RestartRebuilds`; the property has "no TTLs, no ceiling" as its
  condition.
- `LiveSurvivesRestart`: without a ceiling, and if either no command sets a TTL (`NoTTLs`) or strings are
  written whole, with SET, and neither extended by EXPIRE nor counted (`WritesWhole`),
  `[]RestartKeepsLive`. Both conditions on strings are needed: `persist_extended` shows that EXPIRE
  and TTLs lose a key, and INCR after an expiry counts on from the old value on replay. The
  lists and hashes need neither (`BareInductive`, `BareBack`), only that no ceiling refuses a command on
  replay.

The argument for the first. A log is settled for a key (`Settled`) if a later
command clears the key after each one that makes it. The file is, for each
deleted key (`FileSettled`). During a rewrite the mirrored commands are settled by themselves, and
clear the key if the snapshot has it (`RewriteSettled`): the snapshot's own
commands only make strings that it holds (`Rebuilds`). A replay
may have such a key for a while, as long as the command that clears it is still to come
(`ReplaySettles`), and that command cannot fail.

The argument for the second. `After` is what a command makes of a store that has no
deadlines, where the time does not matter, and a log leads from one store to another
(`Leads`) through the stores after each of its commands (`Replays`). A rewritten snapshot leads from
the empty store to the snapshot (`SnapshotLeads`): each string, each chunk of a list and
each chunk of a hash adds what it carries to the part of the map that is there already, chunks cut a
sequence into pieces that join to the whole (`ChunksCut`), and an order of a map's keys has
each of them once (`OrderOfKeys`). So the file leads from the empty store to the current one at all
times (`FileLeads`), the mirrored commands lead there from the snapshot (`PlainState`), and a replay
stands at the store that the file goes through at its position
(`ReplayLeads`). `RestartInv` is the conjunction; the store must also stay without empty
lists and hashes (`Lasting`), of which a rewrite would leave no trace.

`ForEach` joins logs with the recursive function `FlattenSeq`. That it has a value and
what that is (`FlattenJoins`) is shown by a least counterexample, with
`NatLessThanWellFounded` and without the induction theorems.

The argument for the third. Lists and hashes have no deadlines and do not look at strings. Take the
strings out of a store (`Bare`) and replace the commands on strings in a log by ones that do
nothing (`Apart`): what is left is a replay without deadlines, and the argument for the second
applies, whatever the workload (`BareFile`, `BareReplay`, `BareInv`). For strings, the file
cannot be compared with the store: deadlines move, and what is due vanishes at
different times. `StringInv` says instead, of each string that is not about to run out
(`AboutDue`), that the last command in the file which touches it makes it, with the same value and a
deadline no more than a millisecond earlier, or none if it has none (`LastSays`, `Renews`); during a rewrite the same of the
mirrored commands and the snapshot (`StringsMirrored`), during a replay of what is still
to come, or else of the store as it is (`StringsReplayed`). It is inductive because time only makes a
string more nearly due and a relative TTL later (`TickStrings`), and because the
commands of a snapshot touch each string once (`SnapshotSays`). TLC found it to hold on the instance of
`persist`.

### ScanCursorProofs

For any finite sets of keys and types and any COUNT, interleaved with any
additions and removals:

- `ScanTypeCorrect`: `Spec => []TypeOK`.
- `ScanReturnsStayers`: `Spec => []StayersReturnedUnlessShifted`.
- `ScanSeesBehindCursor`: `Spec => []BehindCursorSeen`.

The argument. The sorted listing puts each key behind all entries of smaller ones (`UpTo`
counts them), so a position in the listing is a number of entries. `Covered`
says which staying keys must have been seen in terms of these numbers: those that
begin before the cursor. An addition can only move a key to the right, so
it makes `Covered` weaker; a removal behind the cursor sets `shifted`.

### ServerProofs

For any finite set of viewers, any connections, requests,
windows and channel size, from `ServerAssumption`:

- `ServerTypeCorrect`: `Spec => []TypeOK`.
- `NeverSendsToClosed`: `Spec => []SubscribedOpen`.
- `WatchersOffered`: `Spec => []WatchersAreOffered`.
- `RepliesInOrder`: `Spec => []RepliesMatch`.
- `CountersRight`: `Spec => []CountersAgree`.

The argument. `StreamInv` ties the map, the counter and the closed channels to the
stage each viewer is in: the map holds those between the two critical sections, the
counter is the number of those counted and not yet uncounted, and only a viewer that is
away has a closed channel. So a watcher keeps the counter positive, which is why its finiteness
matters, and a channel in the map is open. `RepliesMatch` alone is not inductive: it
says nothing of the reply on its way. `ReplyInv` says for each stage of a connection
what its writer holds: the answer to the request in hand, or nothing; and that
`authed` is what the requests taken so far make it. It needs `StreamInv`, as a panic
in a broadcast would put a second reply behind the first. A broken writer is
exempt, for nothing of it reaches the client. `CountInv` says that INFO's counters are the
cardinalities of the connections being served and of the commands taken so far; both sets
are finite at any time, however many connections there may be.

### RecorderProofs

For any ring, any sizes, any number of goroutines and any reports, from
`RecorderAssumption`:

- `RecorderTypeCorrect`: `Spec => []TypeOK`.
- `SlotsStayExact`: `Spec => []SlotsExact`.
- `SlowlogStaysLatest`: `Spec => []SlowlogLatest`.
- `LeaderboardStaysRight`: `Spec => []LeaderboardRight`.
- `PercentilesStayRanked`: `Spec => []PercentilesRank`.

The argument. `RingInv` adds that a slot has
moved on from every window it was counted in (`MovesOn`); two windows that share a slot are a
whole ring apart (`RingApart`), so an access that is not late finds its own window's
counts, or a slot of an older window and nothing counted in its own. `LogInv` says that the
i-th entry from the end of the slow log is the i-th report from the end since the last reset, with an
id that counts on through resets, and that the log is as long as its limit lets it be.

For the leaderboard, the slots that a reader finds current stand for windows of their own, all
within its view of the ring (`CurrentWindows`), so a total over slots is a sum over windows
(`TotalIsSum`). It is not too large, because no slot counts more than its window got, not even after
a late access (`LeaderInv`, `TotalAtMost`). It is not too small, because a window within the ring in which
something was counted still has its slot (`MovesOn`, `RingApart`), and that slot is current for the
reader, whose clock is not ahead (`TotalAtLeast`).

For the percentiles, a histogram is its samples counted by bucket (`HistInv`), and buckets are ascending
ranges (`BucketsAscend`), so the count up to a bucket is the number of samples up to it
(`CumulativeIs`). The first bucket that covers a percentage is then that of the first latency that
does (`SameBucket`): if it came earlier, the greatest latency up to it would cover the percentage, too.

### Only model-checked

- All liveness properties: fairness and ENABLED are beyond the prover.
- `AofTail` (`RebuiltUpToDamage`, `RewriteRepairs`): it parses with RECURSIVE operators, which keep
  the prover out, and that decoding undoes encoding for every command is induction over data.
- `RestartKeepsLive` for other workloads and with a ceiling does not hold (`persist_extended`, and the list
  above).
- `TTLsBounded`: the same argument as for `LiveSurvivesRestart`, with an upper bound, has not been made.

## Not modelled, and why

- RESP that only clients send: simple strings, integers, negative lengths, inline
  commands of several words. In `Server` a request is one of eight classes.
- The directory entry after the rename is taken as durable, a failed fsync as one
  that can be repeated (kernels may drop the dirty pages).
- Panics inside `Rewrite`: its callers recover from them, and nothing in it is known to
  panic.
- `RWMutex` of the store as such: its critical sections are atomic actions.
- Negative TTLs: SET treats them as none, EXPIRE as a deadline that has passed.
- Wall clocks that go backwards. The recorder's windows and the store's deadlines come
  from one; the models' time only advances.
- What the replies, INFO, SLOWLOG and the page look like, and the redaction of
  arguments. The statistics the dashboard computes (operations per second and
  its first tick, dashboard.go:151) and its HTTP and TLS ends are transport and layout.
- The accept loop with its listener, and TLS: an accepted connection simply starts; the end of
  the process is `Crash` and `Exit` in `AOF`.
- The parsing of the environment: its values are the CONSTANTS.
- The ceiling across restarts: `Persistence` has it, the run sets none, because a
  rebuilt list is indeed cut short then (see the list above).

## Plan

Done: every module of the table above. There is one passing run per module or question, and four
runs for disagreements; the other disagreements are described above and have no run. Left:

1. `AOF` with a directory entry that a power loss may take back after the rename.
2. The ceiling across restarts, with a property that says what may be lost.
3. `AofTail` with a parser that is a recursive function, and a proof that an undivided entry is read
   back as it was written.
