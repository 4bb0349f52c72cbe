---------------------------- MODULE Persistence ----------------------------
(***************************************************************************)
(* What the append-only file says: the commands handlers log, the compact  *)
(* form writeSnapshot gives to a snapshot, and what Replay makes of them   *)
(* after a restart, with deadlines and the memory ceiling (store/aof.go    *)
(* writeSnapshot, Replay, replayCommand; the mutating handlers).           *)
(*                                                                         *)
(* How commands, rewrites and crashes interleave is the subject of AOF,    *)
(* where a command is a name.  Here a command has a meaning: executing and *)
(* logging it is one step, and a rewrite is two, with commands and time in *)
(* between.                                                                *)
(***************************************************************************)
EXTENDS StoreOps

CONSTANTS
  Workloads,   \* what clients may send, and when the clock stops: sets of records
               \* [commands, until], of which a behaviour has one; until is a bound
  ChunkSize,   \* chunkSize: elements or pairs per rewritten command
  TicksPerMs,  \* the clock is finer than the milliseconds of PX
  MaxMemory,   \* maxMemoryBytes, 0 for no limit
  SlowReplay,  \* whether time passes and the sampler runs during a replay
  MaxLog,      \* bound: commands in the file
  MaxCrashes   \* bound: how often the process dies

\* What handlers log.  TTLs are in milliseconds, 0 is "none"; a deadline in the
\* past is one that has just been reached.
Commands ==
  [op : {"SET"}, key : Keys, val : Values, ttl : Nat]
    \cup [op : {"EXPIRE"}, key : Keys, ttl : Nat]
    \cup [op : {"INCRBY"}, key : Keys, delta : Ints]
    \cup [op : {"LPUSH", "RPUSH"}, key : Keys, vals : Seq(Values) \ {<<>>}]
    \cup [op : {"HSET"}, key : Keys, pairs : Seq(Fields \X Values) \ {<<>>}]
    \cup [op : {"HDEL"}, key : Keys, fields : SUBSET Fields]
    \cup [op : {"DEL"}, keys : SUBSET Keys] \cup [op : {"FLUSHALL"}]

ASSUME PersistenceAssumption ==
  /\ IsFiniteSet(Keys) /\ IsFiniteSet(Fields)  \* strings of bounded length
  /\ ChunkSize \in Nat \ {0} /\ TicksPerMs \in Nat \ {0}
  /\ MaxMemory \in Nat /\ SlowReplay \in BOOLEAN
  /\ MaxLog \in Nat /\ MaxCrashes \in Nat
  /\ \A w \in Workloads : w.commands \subseteq Commands /\ w.until \in Nat

VARIABLES
  work,       \* the workload of this behaviour; does not change
  s, now,     \* the store and the clock
  log,        \* the commands in the file
  snap, buf,  \* rewrite in progress: its snapshot (or NoSnap), a.rewriteBuf
  pos,        \* replay in progress: the next command; 0 while serving clients
  crashes,
  deleted,    \* ghost: string keys a DEL or FLUSHALL has removed for good
  before      \* ghost: what a client could see when the process died

vars == <<work, s, now, log, snap, buf, pos, crashes, deleted, before>>

NoSnap == <<>>

Init ==
  /\ work \in Workloads /\ s = Empty /\ now = 1 /\ log = <<>>
  /\ snap = NoSnap /\ buf = <<>> /\ pos = 0 /\ crashes = 0
  /\ deleted = {} /\ before = Empty

Serving == pos = 0

-----------------------------------------------------------------------------
(***************************************************************************)
(* The meaning of a command.                                               *)
(***************************************************************************)
Deadline(ttl) == now + ttl * TicksPerMs

\* Bytes a command asks checkMemoryLocked for.
Demand(c) ==
  CASE c.op = "SET" -> Length[c.key] + Len1(c.val)
    [] c.op = "INCRBY" -> Length[c.key] + Digits(Counted(s, c.key, c.delta, now))
    [] c.op \in {"LPUSH", "RPUSH"} -> Length[c.key] + SumLen(c.vals)
    [] c.op = "HSET" ->
         Length[c.key]
           + SumFunction([i \in DOMAIN c.pairs |-> Length[c.pairs[i][1]] + Len1(c.pairs[i][2])])

\* The handler reports success and has something to log.
Succeeds(c) ==
  CASE c.op = "EXPIRE" -> c.key \in DOMAIN s.data
    [] c.op = "INCRBY" -> IsCounter(s, c.key, now) /\ Fits(s, Demand(c), MaxMemory)
    [] c.op \in {"SET", "LPUSH", "RPUSH", "HSET"} -> Fits(s, Demand(c), MaxMemory)
    [] OTHER -> TRUE

Effect(c) ==
  CASE c.op = "SET" -> SetOp(s, c.key, c.val, IF c.ttl > 0 THEN Deadline(c.ttl) ELSE 0)
    [] c.op = "DEL" -> DelOp(s, c.keys)
    [] c.op = "EXPIRE" -> ExpireOp(s, c.key, Deadline(c.ttl))
    [] c.op = "INCRBY" -> IncrByOp(s, c.key, c.delta, now)
    [] c.op = "LPUSH" -> LPushOp(s, c.key, c.vals)
    [] c.op = "RPUSH" -> RPushOp(s, c.key, c.vals)
    [] c.op = "HSET" -> HSetOp(s, c.key, c.pairs)
    [] c.op = "HDEL" -> HDelOp(s, c.key, c.fields)
    [] c.op = "FLUSHALL" -> Empty

\* Mutant: the command is not mirrored for the rewrite in progress.
ExecuteUnmirrored(c) ==
  /\ Serving /\ Len(log) < MaxLog /\ Succeeds(c)
  /\ s' = Effect(c)
  /\ log' = Append(log, c)
  /\ deleted' = CASE c.op = "DEL" -> deleted \cup c.keys
                  [] c.op = "FLUSHALL" -> Keys
                  [] c.op \in {"SET", "INCRBY"} -> deleted \ {c.key}
                  [] OTHER -> deleted
  /\ UNCHANGED <<now, snap, buf, pos, crashes, before>>

Execute(c) ==
  /\ Serving /\ Len(log) < MaxLog /\ Succeeds(c)
  /\ s' = Effect(c)
  /\ log' = Append(log, c)
  /\ buf' = IF snap # NoSnap THEN Append(buf, c) ELSE buf
  /\ deleted' = CASE c.op = "DEL" -> deleted \cup c.keys
                  [] c.op = "FLUSHALL" -> Keys
                  [] c.op \in {"SET", "INCRBY"} -> deleted \ {c.key}
                  [] OTHER -> deleted
  /\ UNCHANGED <<now, snap, pos, crashes, before>>

\* The sampler or a lookup removes an expired key; nothing is logged.
Sweep(k) ==
  /\ Serving \/ SlowReplay
  /\ k \in DOMAIN s.data /\ Expired(s.data[k], now)
  /\ s' = DeleteExpired(s, {k})
  /\ UNCHANGED <<now, log, snap, buf, pos, crashes, deleted, before>>

Tick ==
  /\ Serving \/ SlowReplay
  /\ now < work.until /\ now' = now + 1
  /\ UNCHANGED <<s, log, snap, buf, pos, crashes, deleted, before>>

-----------------------------------------------------------------------------
(***************************************************************************)
(* Rewrite.  Go maps are iterated in any order.                            *)
(***************************************************************************)
Orders(S) == {q \in [1 .. Cardinality(S) -> S] : IsInjective(q)}

\* Mutant: the last, shorter chunk is forgotten.
ChunksFull(q) ==
  [i \in 1 .. Len(q) \div ChunkSize |-> SubSeq(q, (i - 1) * ChunkSize + 1, i * ChunkSize)]

Chunks(q) ==
  [i \in 1 .. (Len(q) + ChunkSize - 1) \div ChunkSize |->
     SubSeq(q, (i - 1) * ChunkSize + 1, Min({i * ChunkSize, Len(q)}))]

ForEach(q, Op(_)) == FlattenSeq([i \in DOMAIN q |-> Op(q[i])])

\* Mutant: the remaining time is written in a coarser unit than PX.
SetCommandCoarse(k) ==
  LET e == snap.data[k]
      left == IF e.exp = 0 THEN 0 ELSE (e.exp - now) \div (2 * TicksPerMs)
  IN  <<[op |-> "SET", key |-> k, val |-> e.val, ttl |-> left]>>

\* Mutant: PX gets the deadline instead of the remaining time.
SetCommandAbsolute(k) ==
  LET e == snap.data[k]
  IN  <<[op |-> "SET", key |-> k, val |-> e.val, ttl |-> e.exp \div TicksPerMs]>>

\* The remaining time is cut down to milliseconds; PX 0 means no TTL when it is
\* replayed.
SetCommand(k) ==
  LET e == snap.data[k]
      left == IF e.exp = 0 THEN 0 ELSE (e.exp - now) \div TicksPerMs
  IN  <<[op |-> "SET", key |-> k, val |-> e.val, ttl |-> left]>>

PushCommands(k) ==
  ForEach(Chunks(snap.lists[k]),
          LAMBDA part : <<[op |-> "RPUSH", key |-> k, vals |-> part]>>)

HSetCommands(k, fields) ==
  LET pairs == [i \in DOMAIN fields |-> <<fields[i], snap.hashes[k][fields[i]]>>]
  IN  ForEach(Chunks(pairs), LAMBDA part : <<[op |-> "HSET", key |-> k, pairs |-> part]>>)

\* Hashes are written in the order of hashes, their fields in that of order.
SnapshotLog(strings, lists, hashes, order) ==
  ForEach(strings, SetCommand) \o ForEach(lists, PushCommands)
    \o ForEach(hashes, LAMBDA k : HSetCommands(k, order[k]))

\* Expired strings are left out.
SnapshotLogs ==
  LET kept == {k \in DOMAIN snap.data : snap.data[k].exp = 0 \/ snap.data[k].exp > now}
      fields == [k \in DOMAIN snap.hashes |-> Orders(DOMAIN snap.hashes[k])]
      orders == {f \in [DOMAIN snap.hashes -> UNION Range(fields)] :
                   \A k \in DOMAIN f : f[k] \in fields[k]}
  IN  {SnapshotLog(strings, lists, hashes, order) :
         strings \in Orders(kept), lists \in Orders(DOMAIN snap.lists),
         hashes \in Orders(DOMAIN snap.hashes), order \in orders}

RewriteBegin ==
  /\ Serving /\ snap = NoSnap
  /\ snap' = s /\ buf' = <<>>
  /\ UNCHANGED <<s, now, log, pos, crashes, deleted, before>>

RewriteEnd ==
  /\ Serving /\ snap # NoSnap
  /\ \E base \in SnapshotLogs : log' = base \o buf
  /\ snap' = NoSnap /\ buf' = <<>>
  /\ UNCHANGED <<s, now, pos, crashes, deleted, before>>

-----------------------------------------------------------------------------
(***************************************************************************)
(* Restart and replay.                                                     *)
(***************************************************************************)
TimeLeft(entry) == entry.exp = 0 \/ now < entry.exp

Crash ==
  /\ Serving /\ crashes < MaxCrashes /\ crashes' = crashes + 1
  /\ before' = [s EXCEPT !.data = RestrictValues(@, TimeLeft),
                         !.expiryKeys = {k \in @ : TimeLeft(s.data[k])}]
  /\ s' = Empty /\ pos' = 1
  /\ snap' = NoSnap /\ buf' = <<>>
  /\ UNCHANGED <<now, log, deleted>>

\* A command that fails is logged and skipped.
ReplayCommand ==
  /\ pos \in DOMAIN log /\ pos' = pos + 1
  /\ s' = IF Succeeds(log[pos]) THEN Effect(log[pos]) ELSE s
  /\ UNCHANGED <<now, log, snap, buf, crashes, deleted, before>>

\* Replay returns and the server accepts connections.
Replayed == pos = Len(log) + 1

Serve ==
  /\ Replayed /\ pos' = 0
  /\ UNCHANGED <<s, now, log, snap, buf, crashes, deleted, before>>

Next ==
  /\ UNCHANGED work
  /\ \/ \E c \in work.commands : Execute(c)
     \/ \E k \in Keys : Sweep(k)
     \/ Tick \/ RewriteBegin \/ RewriteEnd \/ Crash \/ ReplayCommand \/ Serve

Spec == Init /\ [][Next]_vars

-----------------------------------------------------------------------------
NoTTLs == \A c \in work.commands : "ttl" \in DOMAIN c => c.op = "SET" /\ c.ttl = 0

\* README.md:131 "the file is replayed to rebuild state": without TTLs and memory
\* limit, after any commands, rewrites and restarts, to the last list element.
RestartRebuilds == Replayed /\ NoTTLs /\ MaxMemory = 0 => s = before

\* With TTLs and without counters: what still had time to live is back with its
\* value, unless its deadline has passed meanwhile or is less than a millisecond
\* away; it has a deadline if it had one before, not earlier by a millisecond or more.
RestartKeepsLive ==
  Replayed =>
    /\ s.lists = before.lists /\ s.hashes = before.hashes
    /\ \A k \in DOMAIN before.data :
         \/ /\ k \in DOMAIN s.data /\ s.data[k].val = before.data[k].val
            /\ s.data[k].exp = 0 <=> before.data[k].exp = 0
            /\ s.data[k].exp = 0 \/ s.data[k].exp + TicksPerMs > before.data[k].exp
         \/ before.data[k].exp # 0 /\ before.data[k].exp < now + TicksPerMs

\* A replay starts the TTLs in the file anew (aof.go:518), and rewrites put what is
\* left of them there: whatever the number of both, no string is due later than the
\* longest TTL that clients set, counted from now.
TTLsBounded ==
  \A k \in DOMAIN s.data :
    s.data[k].exp # 0 =>
      \E c \in work.commands : "ttl" \in DOMAIN c /\ s.data[k].exp <= Deadline(c.ttl)

\* Nothing that was deleted or flushed comes back, whether the file was rewritten
\* before, after or meanwhile.
DeletedStaysDeleted == Replayed => DOMAIN s.data \cap deleted = {}
=============================================================================
