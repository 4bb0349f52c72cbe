-------------------------------- MODULE AOF --------------------------------
(***************************************************************************)
(* Append-only-file persistence of redis-glass: store/aof.go, the mutating *)
(* path of commands/handler.go (mutateAndLog) and the start and shutdown   *)
(* sequences of main.go.                                                   *)
(*                                                                         *)
(* A mutating command is an element of Ops and is issued at most once, so  *)
(* that "exactly once" can be told from "twice".  The store is a           *)
(* deterministic function of the commands applied to it, so its content is *)
(* represented by the sequence of those commands, and a file by the        *)
(* sequence of commands whose effect its replay has: the compacted form a  *)
(* rewrite gives to a snapshot stands for the commands behind the          *)
(* snapshot.  Clients are connection goroutines, Rewriters are the         *)
(* goroutines that call Rewrite (one per BGREWRITEAOF, and the ticker of   *)
(* StartAutoRewrite).  Faults is the set of I/O calls that may fail.       *)
(***************************************************************************)
EXTENDS Naturals, Sequences, Functions

CONSTANTS
  Clients,       \* connection goroutines
  Rewriters,     \* goroutines that may call Rewrite
  CheckedOps,    \* SET, INCR*, DECR*, *PUSH, HSET: the handler looks at the error
  UncheckedOps,  \* DEL, EXPIRE, HDEL, FLUSHALL: the handler drops it
  None,          \* "nobody", "no command"
  FsyncPolicy,   \* "everysec", "always" or "no"
  Faults,        \* the I/O calls the environment may fail
  MaxCrashes     \* bound: how often the process or the machine goes down

Ops == CheckedOps \cup UncheckedOps

FaultKinds == {"dump", "merge", "tmpsync", "closelive", "rename", "reopen",
               "flush", "fsync"}

ASSUME ConstantsAssumption ==
  /\ Clients \cap Rewriters = {}
  /\ CheckedOps \cap UncheckedOps = {}
  /\ None \notin Clients \cup Rewriters \cup Ops
  /\ FsyncPolicy \in {"everysec", "always", "no"}
  /\ Faults \subseteq FaultKinds
  /\ MaxCrashes \in Nat

VARIABLES
  store,          \* what memory holds
  file,           \* what replay of the file at a.path rebuilds
  synced,         \* length of the prefix of file known to be on the disk
  tmp,            \* content of a.path.rewrite.tmp
  mu,             \* holder of a.mu
  writer,         \* a.file and a.writer: usable, failed (bufio error is sticky), closed
  rewriting,      \* a.rewriting
  rewriteBuf,     \* a.rewriteBuf
  rewriteRunning, \* a.rewriteRunning
  cpc, req,       \* client: where it is, the command it executes
  rpc, snap,      \* rewriter: where it is, its snapshot
  phase,          \* "up", "stopping" (after a signal), "exited" or "down"
  crashes,        \* how often the process went down
  issued,         \* ghost: commands received so far
  acked,          \* ghost: commands answered with success, minus those a power
                  \* loss was allowed to take
  durable         \* ghost: commands promised to survive a power loss

fileVars    == <<file, synced, tmp>>
rewriteVars == <<rewriting, rewriteBuf, rewriteRunning, rpc, snap>>
clientVars  == <<cpc, req, issued, acked>>
runVars     == <<phase, crashes>>
vars == <<store, fileVars, mu, writer, rewriteVars, clientVars, runVars, durable>>

ClientSteps   == {"idle", "waiting", "mutated"}
RewriterSteps == {"idle", "called", "entered", "snapped", "dumped", "merged",
                  "tmpsynced", "closed", "renamed", "failed", "done"}

\* Steps of Rewrite at which the goroutine is between setting and clearing
\* rewriteRunning, and those at which it holds a.mu.
InRewrite == RewriterSteps \ {"idle", "called"}
HoldingMu == {"merged", "tmpsynced", "closed", "renamed"}

TypeOK ==
  /\ store \in Seq(Ops) /\ file \in Seq(Ops) /\ tmp \in Seq(Ops)
  /\ synced \in 0 .. Len(file)
  /\ mu \in Clients \cup Rewriters \cup {None}
  /\ writer \in {"ok", "sticky", "closed"}
  /\ rewriting \in BOOLEAN /\ rewriteRunning \in BOOLEAN
  /\ rewriteBuf \in Seq(Ops)
  /\ cpc \in [Clients -> ClientSteps]
  /\ req \in [Clients -> Ops \cup {None}]
  /\ \A c \in Clients : cpc[c] # "idle" => req[c] \in Ops
  /\ rpc \in [Rewriters -> RewriterSteps]
  /\ snap \in [Rewriters -> Seq(Ops)]
  /\ phase \in {"up", "stopping", "exited", "down"}
  /\ crashes \in Nat
  /\ issued \subseteq Ops /\ acked \subseteq Ops /\ durable \subseteq Ops

-----------------------------------------------------------------------------
Init ==
  /\ store = <<>> /\ file = <<>> /\ synced = 0 /\ tmp = <<>>
  /\ mu = None /\ writer = "ok"
  /\ rewriting = FALSE /\ rewriteBuf = <<>> /\ rewriteRunning = FALSE
  /\ cpc = [c \in Clients |-> "idle"]
  /\ req = [c \in Clients |-> None]
  /\ rpc = [r \in Rewriters |-> "idle"]
  /\ snap = [r \in Rewriters |-> <<>>]
  /\ phase = "up" /\ crashes = 0
  /\ issued = {} /\ acked = {} /\ durable = {}

Running == phase \in {"up", "stopping"}

(***************************************************************************)
(* Client goroutines.  mutateAndLog takes a.mu (WithLock), mutates the     *)
(* store, appends to the file (writeLocked) and unlocks.                   *)
(***************************************************************************)

\* The connection goroutine parsed command o and entered its handler.
Receive(c, o) ==
  /\ Running /\ cpc[c] = "idle" /\ o \notin issued
  /\ cpc' = [cpc EXCEPT ![c] = "waiting"]
  /\ req' = [req EXCEPT ![c] = o]
  /\ issued' = issued \cup {o}
  /\ UNCHANGED <<store, fileVars, mu, writer, rewriteVars, acked, runVars, durable>>

\* a.mu is taken, the mutation is refused (OOM, not an integer) or has nothing
\* to log (errSkipAOFLog), and a.mu is released.
MutateRejected(c) ==
  /\ Running /\ cpc[c] = "waiting" /\ mu = None
  /\ cpc' = [cpc EXCEPT ![c] = "idle"]
  /\ req' = [req EXCEPT ![c] = None]
  /\ UNCHANGED <<store, fileVars, mu, writer, rewriteVars, issued, acked,
                 runVars, durable>>

\* a.mu is taken and the store is mutated.
Mutate(c) ==
  /\ Running /\ cpc[c] = "waiting" /\ mu = None
  /\ mu' = c
  /\ store' = Append(store, req[c])
  /\ cpc' = [cpc EXCEPT ![c] = "mutated"]
  /\ UNCHANGED <<fileVars, writer, rewriteVars, req, issued, acked, runVars, durable>>

\* Mutant: the error of writeLocked is dropped.
UnlockAndReplyOK(c, ok) ==
  /\ mu' = None
  /\ cpc' = [cpc EXCEPT ![c] = "idle"]
  /\ req' = [req EXCEPT ![c] = None]
  /\ acked' = acked \cup {req[c]}

\* The handler releases a.mu and answers; ok is the outcome of writeLocked.
UnlockAndReply(c, ok) ==
  /\ mu' = None
  /\ cpc' = [cpc EXCEPT ![c] = "idle"]
  /\ req' = [req EXCEPT ![c] = None]
  /\ acked' = IF ok \/ req[c] \in UncheckedOps THEN acked \cup {req[c]} ELSE acked

\* Mutant: the entry is not mirrored for the rewrite in progress.
LogSucceedsUnmirrored(c) ==
  /\ Running /\ cpc[c] = "mutated" /\ writer = "ok"
  /\ file' = Append(file, req[c])
  /\ synced' = IF FsyncPolicy = "always" THEN Len(file) + 1 ELSE synced
  /\ durable' = IF FsyncPolicy = "always" THEN durable \cup {req[c]} ELSE durable
  /\ UnlockAndReply(c, TRUE)
  /\ UNCHANGED <<store, tmp, writer, rewriteVars, issued, runVars>>

\* writeLocked: the entry is written and flushed, fsynced under "always", and
\* mirrored for the rewrite in progress.
LogSucceeds(c) ==
  /\ Running /\ cpc[c] = "mutated" /\ writer = "ok"
  /\ file' = Append(file, req[c])
  /\ IF FsyncPolicy = "always"
       THEN /\ synced' = Len(file) + 1
            /\ durable' = durable \cup {req[c]}
       ELSE UNCHANGED <<synced, durable>>
  /\ rewriteBuf' = IF rewriting THEN Append(rewriteBuf, req[c]) ELSE rewriteBuf
  /\ UnlockAndReply(c, TRUE)
  /\ UNCHANGED <<store, tmp, writer, rewriting, rewriteRunning, rpc, snap,
                 issued, runVars>>

\* writeLocked: Write or Flush fails, so the entry reaches neither the file nor
\* the rewrite buffer.  A bufio.Writer keeps its first error for ever.
LogFlushFails(c) ==
  /\ Running /\ cpc[c] = "mutated"
  /\ (writer # "ok" \/ "flush" \in Faults)
  /\ writer' = IF writer = "ok" THEN "sticky" ELSE writer
  /\ UnlockAndReply(c, FALSE)
  /\ UNCHANGED <<store, fileVars, rewriteVars, issued, runVars, durable>>

\* writeLocked under "always": the entry is in the file, Sync fails, and the
\* early return skips the rewrite buffer.
LogFsyncFails(c) ==
  /\ Running /\ cpc[c] = "mutated" /\ writer = "ok"
  /\ FsyncPolicy = "always" /\ "fsync" \in Faults
  /\ file' = Append(file, req[c])
  /\ UnlockAndReply(c, FALSE)
  /\ UNCHANGED <<store, synced, tmp, writer, rewriteVars, issued, runVars, durable>>

-----------------------------------------------------------------------------
(***************************************************************************)
(* Background fsync, and the Sync of an orderly shutdown.                  *)
(***************************************************************************)
\* Mutant: Sync flushes and does not fsync.
SyncFlushesOnly == UNCHANGED <<synced, durable>>

SyncFile ==
  \/ /\ writer = "ok"
     /\ synced' = Len(file)
     /\ durable' = durable \cup acked
  \/ /\ writer # "ok" \/ "fsync" \in Faults
     /\ UNCHANGED <<synced, durable>>

FsyncTick ==
  /\ Running /\ FsyncPolicy = "everysec" /\ mu = None
  /\ SyncFile
  /\ UNCHANGED <<store, file, tmp, mu, writer, rewriteVars, clientVars, runVars>>

ShutdownSync ==
  /\ phase = "up" /\ mu = None
  /\ phase' = "stopping"
  /\ SyncFile
  /\ UNCHANGED <<store, file, tmp, mu, writer, rewriteVars, clientVars, crashes>>

-----------------------------------------------------------------------------
(***************************************************************************)
(* Rewrite, step by step.                                                  *)
(***************************************************************************)
At(r, step) == Running /\ rpc[r] = step
Goto(r, step) == rpc' = [rpc EXCEPT ![r] = step]

\* BGREWRITEAOF spawns the goroutine and answers; or the size ticker fires.
CallRewrite(r) ==
  /\ At(r, "idle") /\ Goto(r, "called")
  /\ UNCHANGED <<store, fileVars, mu, writer, rewriting, rewriteBuf,
                 rewriteRunning, snap, clientVars, runVars, durable>>

\* errRewriteAlreadyInProgress.
RewriteRefused(r) ==
  /\ At(r, "called") /\ rewriteRunning /\ Goto(r, "idle")
  /\ UNCHANGED <<store, fileVars, mu, writer, rewriting, rewriteBuf,
                 rewriteRunning, snap, clientVars, runVars, durable>>

\* Mutant: rewriteRunning is not looked at.
RewriteEnterUnguarded(r) ==
  /\ At(r, "called") /\ Goto(r, "entered")
  /\ rewriteRunning' = TRUE
  /\ UNCHANGED <<store, fileVars, mu, writer, rewriting, rewriteBuf, snap,
                 clientVars, runVars, durable>>

RewriteEnter(r) ==
  /\ At(r, "called") /\ ~rewriteRunning /\ Goto(r, "entered")
  /\ rewriteRunning' = TRUE
  /\ UNCHANGED <<store, fileVars, mu, writer, rewriting, rewriteBuf, snap,
                 clientVars, runVars, durable>>

\* Mutant: the store is copied without a.mu.
RewriteSnapshotUnlocked(r) ==
  /\ At(r, "entered") /\ Goto(r, "snapped")
  /\ rewriting' = TRUE /\ rewriteBuf' = <<>>
  /\ snap' = [snap EXCEPT ![r] = store]
  /\ UNCHANGED <<store, fileVars, mu, writer, rewriteRunning, clientVars,
                 runVars, durable>>

\* First critical section: start mirroring and copy the store.
RewriteSnapshot(r) ==
  /\ At(r, "entered") /\ mu = None /\ Goto(r, "snapped")
  /\ rewriting' = TRUE /\ rewriteBuf' = <<>>
  /\ snap' = [snap EXCEPT ![r] = store]
  /\ UNCHANGED <<store, fileVars, mu, writer, rewriteRunning, clientVars,
                 runVars, durable>>

\* Mutant: the temporary file is opened without O_TRUNC.
RewriteDumpAppends(r) ==
  /\ At(r, "snapped") /\ Goto(r, "dumped")
  /\ tmp' = tmp \o snap[r]
  /\ UNCHANGED <<store, file, synced, mu, writer, rewriting, rewriteBuf,
                 rewriteRunning, snap, clientVars, runVars, durable>>

\* The snapshot goes to the temporary file without any lock.
RewriteDump(r) ==
  /\ At(r, "snapped") /\ Goto(r, "dumped")
  /\ tmp' = snap[r]
  /\ UNCHANGED <<store, file, synced, mu, writer, rewriting, rewriteBuf,
                 rewriteRunning, snap, clientVars, runVars, durable>>

\* Opening or writing the temporary file fails.
RewriteDumpFails(r) ==
  /\ At(r, "snapped") /\ "dump" \in Faults /\ Goto(r, "failed")
  /\ UNCHANGED <<store, fileVars, mu, writer, rewriting, rewriteBuf,
                 rewriteRunning, snap, clientVars, runVars, durable>>

\* Mutant: the mirrored entries are reset before they are written.
RewriteMergeForgets(r) ==
  /\ At(r, "dumped") /\ mu = None /\ Goto(r, "merged")
  /\ mu' = r
  /\ rewriting' = FALSE /\ rewriteBuf' = <<>>
  /\ UNCHANGED <<store, fileVars, writer, rewriteRunning, snap, clientVars,
                 runVars, durable>>

\* Second critical section: append what was mirrored and stop mirroring.
RewriteMerge(r) ==
  /\ At(r, "dumped") /\ mu = None /\ Goto(r, "merged")
  /\ mu' = r
  /\ tmp' = tmp \o rewriteBuf
  /\ rewriting' = FALSE /\ rewriteBuf' = <<>>
  /\ UNCHANGED <<store, file, synced, writer, rewriteRunning, snap, clientVars,
                 runVars, durable>>

\* Appending fails; a.mu is released with rewriting still set.
RewriteMergeFails(r) ==
  /\ At(r, "dumped") /\ mu = None /\ "merge" \in Faults /\ Goto(r, "failed")
  /\ UNCHANGED <<store, fileVars, mu, writer, rewriting, rewriteBuf,
                 rewriteRunning, snap, clientVars, runVars, durable>>

\* Flush, fsync and close of the temporary file.
RewriteTmpSync(r) ==
  /\ At(r, "merged") /\ Goto(r, "tmpsynced")
  /\ UNCHANGED <<store, fileVars, mu, writer, rewriting, rewriteBuf,
                 rewriteRunning, snap, clientVars, runVars, durable>>

\* Mutant: the deferred Unlock is missing.
AbandonLocked(r) == Goto(r, "failed") /\ UNCHANGED mu

\* Leave the second critical section with an error; its deferred Unlock runs.
Abandon(r) == Goto(r, "failed") /\ mu' = None

RewriteTmpSyncFails(r) ==
  /\ At(r, "merged") /\ "tmpsync" \in Faults /\ Abandon(r)
  /\ UNCHANGED <<store, fileVars, writer, rewriting, rewriteBuf, rewriteRunning,
                 snap, clientVars, runVars, durable>>

RewriteCloseLive(r) ==
  /\ At(r, "tmpsynced") /\ writer # "closed" /\ Goto(r, "closed")
  /\ writer' = "closed"
  /\ UNCHANGED <<store, fileVars, mu, rewriting, rewriteBuf, rewriteRunning, snap,
                 clientVars, runVars, durable>>

\* os.File.Close gives up the handle even if it reports an error, and it reports
\* one when the handle was closed before.
RewriteCloseLiveFails(r) ==
  /\ At(r, "tmpsynced") /\ Abandon(r)
  /\ (writer = "closed" \/ "closelive" \in Faults)
  /\ writer' = "closed"
  /\ UNCHANGED <<store, fileVars, rewriting, rewriteBuf, rewriteRunning, snap,
                 clientVars, runVars, durable>>

\* os.Rename replaces the live file by the synced temporary file.
RewriteRename(r) ==
  /\ At(r, "closed") /\ Goto(r, "renamed")
  /\ file' = tmp /\ synced' = Len(tmp) /\ tmp' = <<>>
  /\ UNCHANGED <<store, mu, writer, rewriting, rewriteBuf, rewriteRunning, snap,
                 clientVars, runVars, durable>>

\* os.Rename fails; the original file is reopened if that works.
RewriteRenameFails(r) ==
  /\ At(r, "closed") /\ "rename" \in Faults /\ Abandon(r)
  /\ \/ writer' = "ok"
     \/ "reopen" \in Faults /\ UNCHANGED writer
  /\ UNCHANGED <<store, fileVars, rewriting, rewriteBuf, rewriteRunning, snap,
                 clientVars, runVars, durable>>

\* Mutant: the rewritten file is opened with O_TRUNC, like the temporary one.
RewriteReopenTruncates(r) ==
  /\ At(r, "renamed") /\ Goto(r, "done")
  /\ mu' = None /\ writer' = "ok" /\ file' = <<>>
  /\ UNCHANGED <<store, synced, tmp, rewriting, rewriteBuf, rewriteRunning, snap,
                 clientVars, runVars, durable>>

RewriteReopen(r) ==
  /\ At(r, "renamed") /\ Goto(r, "done")
  /\ mu' = None /\ writer' = "ok"
  /\ UNCHANGED <<store, fileVars, rewriting, rewriteBuf, rewriteRunning, snap,
                 clientVars, runVars, durable>>

RewriteReopenFails(r) ==
  /\ At(r, "renamed") /\ "reopen" \in Faults /\ Abandon(r)
  /\ UNCHANGED <<store, fileVars, writer, rewriting, rewriteBuf, rewriteRunning,
                 snap, clientVars, runVars, durable>>

\* Mutant: rewriting is left set on the error path.
RewriteCleanupStuck(r) ==
  /\ At(r, "failed") /\ mu = None /\ Goto(r, "done")
  /\ tmp' = <<>>
  /\ UNCHANGED <<store, file, synced, mu, writer, rewriting, rewriteBuf,
                 rewriteRunning, snap, clientVars, runVars, durable>>

\* Error path: stop mirroring if it is still on, remove the temporary file.
RewriteCleanup(r) ==
  /\ At(r, "failed") /\ mu = None /\ Goto(r, "done")
  /\ rewriting' = FALSE
  /\ rewriteBuf' = IF rewriting THEN <<>> ELSE rewriteBuf
  /\ tmp' = <<>>
  /\ UNCHANGED <<store, file, synced, mu, writer, rewriteRunning, snap,
                 clientVars, runVars, durable>>

\* The deferred function of Rewrite.
RewriteExit(r) ==
  /\ At(r, "done") /\ Goto(r, "idle")
  /\ rewriteRunning' = FALSE
  /\ snap' = [snap EXCEPT ![r] = <<>>]
  /\ UNCHANGED <<store, fileVars, mu, writer, rewriting, rewriteBuf, clientVars,
                 runVars, durable>>

Rewrite(r) ==
  \/ CallRewrite(r) \/ RewriteRefused(r) \/ RewriteEnter(r)
  \/ RewriteSnapshot(r)
  \/ RewriteDump(r) \/ RewriteDumpFails(r)
  \/ RewriteMerge(r) \/ RewriteMergeFails(r)
  \/ RewriteTmpSync(r) \/ RewriteTmpSyncFails(r)
  \/ RewriteCloseLive(r) \/ RewriteCloseLiveFails(r)
  \/ RewriteRename(r) \/ RewriteRenameFails(r)
  \/ RewriteReopen(r) \/ RewriteReopenFails(r)
  \/ RewriteCleanup(r) \/ RewriteExit(r)

-----------------------------------------------------------------------------
(***************************************************************************)
(* The process exits or is killed, the machine loses power, the process    *)
(* starts again.                                                           *)
(***************************************************************************)
LoseMemory ==
  /\ store' = <<>> /\ mu' = None /\ writer' = "closed"
  /\ rewriting' = FALSE /\ rewriteBuf' = <<>> /\ rewriteRunning' = FALSE
  /\ cpc' = [c \in Clients |-> "idle"]
  /\ req' = [c \in Clients |-> None]
  /\ rpc' = [r \in Rewriters |-> "idle"]
  /\ snap' = [r \in Rewriters |-> <<>>]
  /\ UNCHANGED issued

\* The process is gone; flushed bytes are with the operating system and survive.
Die ==
  /\ crashes < MaxCrashes
  /\ crashes' = crashes + 1
  /\ LoseMemory
  /\ UNCHANGED <<fileVars, acked, durable>>

Crash == Running /\ phase' = "down" /\ Die

\* os.Exit at the end of main: open connections and a running rewrite are not
\* waited for.
Exit == phase = "stopping" /\ phase' = "exited" /\ Die

\* Of the file, some prefix that includes the fsynced part survives.
PowerLoss ==
  /\ crashes < MaxCrashes
  /\ crashes' = crashes + 1
  /\ \E n \in synced .. Len(file) :
       /\ file' = SubSeq(file, 1, n)
       /\ synced' = n
  /\ acked' = durable
  /\ phase' = "down"
  /\ LoseMemory
  /\ UNCHANGED <<tmp, durable>>

\* NewAOF and Replay, before the server accepts connections.
Recover ==
  /\ ~Running
  /\ phase' = "up" /\ store' = file /\ writer' = "ok"
  /\ UNCHANGED <<fileVars, mu, rewriteVars, clientVars, crashes, durable>>

-----------------------------------------------------------------------------
Client(c) ==
  \/ \E o \in Ops : Receive(c, o)
  \/ MutateRejected(c) \/ Mutate(c)
  \/ LogSucceeds(c) \/ LogFlushFails(c) \/ LogFsyncFails(c)

Next ==
  \/ \E c \in Clients : Client(c)
  \/ \E r \in Rewriters : Rewrite(r)
  \/ FsyncTick \/ ShutdownSync
  \/ Crash \/ Exit \/ PowerLoss \/ Recover

Spec == Init /\ [][Next]_vars

\* Goroutines that can run do run.  sync.Mutex hands the lock to a waiter that
\* has starved for a millisecond, so taking a.mu is strongly fair.  Nothing
\* makes a client send, a rewrite start or the machine fail.
LockFree(r) ==
  \/ RewriteRefused(r) \/ RewriteEnter(r) \/ RewriteDump(r) \/ RewriteDumpFails(r)
  \/ RewriteTmpSync(r) \/ RewriteTmpSyncFails(r)
  \/ RewriteCloseLive(r) \/ RewriteCloseLiveFails(r)
  \/ RewriteRename(r) \/ RewriteRenameFails(r)
  \/ RewriteReopen(r) \/ RewriteReopenFails(r) \/ RewriteExit(r)

TakesLock(r) ==
  RewriteSnapshot(r) \/ RewriteMerge(r) \/ RewriteMergeFails(r) \/ RewriteCleanup(r)

Fairness ==
  /\ \A c \in Clients :
       /\ SF_vars(Mutate(c) \/ MutateRejected(c))
       /\ WF_vars(LogSucceeds(c) \/ LogFlushFails(c) \/ LogFsyncFails(c))
  /\ \A r \in Rewriters : WF_vars(LockFree(r)) /\ SF_vars(TakesLock(r))
  /\ SF_vars(FsyncTick)

FairSpec == Spec /\ Fairness

-----------------------------------------------------------------------------
(***************************************************************************)
(* Safety.                                                                 *)
(***************************************************************************)

\* a.mu is held by the goroutine that is inside a critical section: no handler
\* is between its mutation and its log entry while a rewrite copies the store
\* or swaps the file.
LockInv ==
  /\ \A c \in Clients : cpc[c] = "mutated" <=> mu = c
  /\ \A r \in Rewriters : rpc[r] \in HoldingMu <=> mu = r

\* rewriteRunning admits one rewrite at a time, so a rewrite never resets the
\* buffer or truncates the temporary file of another.
OneRewrite ==
  /\ \A r, s \in Rewriters : rpc[r] \in InRewrite /\ rpc[s] \in InRewrite => r = s
  /\ rewriteRunning <=> \E r \in Rewriters : rpc[r] \in InRewrite

\* Entries are mirrored exactly while some rewrite still wants them: on no error
\* path is a.rewriting left set, with the buffer growing for ever.
BufferingEnds ==
  /\ rewriting => \E r \in Rewriters : rpc[r] \in {"snapped", "dumped", "failed"}
  /\ \A r \in Rewriters : rpc[r] \in {"snapped", "dumped"} => rewriting

\* No I/O call on the live file fails.
LogIsReliable == Faults \cap {"flush", "fsync", "closelive", "reopen"} = {}

\* "Every command is represented exactly once": whenever nobody is inside a
\* critical section, replaying the file rebuilds what memory holds, however
\* rewrites, their failures, commands and restarts interleave.
ExactlyOnce == LogIsReliable /\ Running /\ mu = None => file = store

\* Why ExactlyOnce is kept: what memory holds is in the file, up to the entry
\* that the holder of a.mu is about to log, and what a rewrite has written plus
\* what it has mirrored is always the file that it is going to replace.
Recorded == IF mu \in Clients THEN Append(file, req[mu]) ELSE file

RewriteMatches(r) ==
  /\ rpc[r] = "snapped" => snap[r] \o rewriteBuf = file
  /\ rpc[r] = "dumped" => tmp \o rewriteBuf = file
  /\ rpc[r] \in {"merged", "tmpsynced", "closed"} => tmp = file

Consistent ==
  /\ store = Recorded
  /\ \A r \in Rewriters : RewriteMatches(r)
  /\ writer # "sticky"
  /\ writer = "closed" <=> \E r \in Rewriters : rpc[r] \in {"closed", "renamed"}

LosesNothing == LogIsReliable /\ Running => Consistent

\* A command whose handler looks at the error of mutateAndLog and that was
\* answered with success is in the file, whatever fails afterwards; only a power
\* loss takes it, and then only if it was not yet fsynced.
AckedOnDisk == acked \cap CheckedOps \subseteq Range(file)

\* What was promised to survive a power loss is in the fsynced part of the file,
\* also across the swap of a rewrite.
DurableForced == durable \cap CheckedOps \subseteq Range(SubSeq(file, 1, synced))

Before(s, a, b) == \E i, j \in DOMAIN s : i < j /\ s[i] = a /\ s[j] = b

\* Whatever fails, the file never holds a command twice, one that memory does
\* not know, or two commands in another order than memory executed them: a
\* command logged both in the snapshot and in the mirrored entries would be.
SubHistory ==
  /\ IsInjective(file)
  /\ Running => /\ Range(file) \subseteq Range(store)
                /\ \A a, b \in Ops : Before(file, a, b) => Before(store, a, b)

\* A rewrite that gets as far as the rename repairs the file: everything memory
\* held when it took its snapshot is back, log failures before it included.
SnapshotReachesDisk ==
  \A r \in Rewriters : rpc[r] = "renamed" =>
    Len(snap[r]) <= Len(file) /\ SubSeq(file, 1, Len(snap[r])) = snap[r]

-----------------------------------------------------------------------------
(***************************************************************************)
(* A statement of the documentation that does not hold.                    *)
(***************************************************************************)

\* aof.go:294 "every command is represented exactly once in the rewritten file".
\* A command whose fsync failed is in the old file and not in the new one.
RewriteKeepsCommands ==
  [][ \A r \in Rewriters : RewriteRename(r) => Range(file) \subseteq Range(file') ]_vars

-----------------------------------------------------------------------------
(***************************************************************************)
(* While the live file can be written and reopened, the file, the buffers  *)
(* and the locks together implement a log that is written in place.        *)
(***************************************************************************)
Log == INSTANCE DurableLog WITH
  Commands <- Ops, memory <- store, disk <- file, forced <- synced, up <- Running

\* Commands, rewrites, their failures, crashes and restarts look like steps of
\* the abstract log: in particular a rewrite never shows at all, or as an fsync.
ImplementsLog == Log!Init /\ [][Log!Next]_(Log!vars)

-----------------------------------------------------------------------------
(***************************************************************************)
(* Liveness.                                                               *)
(***************************************************************************)

\* Nobody waits for ever for a.mu: every command is answered.
CommandsEnd == \A c \in Clients : cpc[c] # "idle" ~> cpc[c] = "idle"

\* Every rewrite ends, also on its error paths, and gives up rewriteRunning.
RewritesEnd == \A r \in Rewriters : rpc[r] # "idle" ~> rpc[r] = "idle"

\* "everysec": an answered command is fsynced unless the process dies or the log
\* is dead, although rewrites keep a.mu busy.
EverysecForces ==
  \A o \in CheckedOps :
    o \in acked ~> o \in durable \/ ~Running \/ (writer # "ok" /\ mu = None)
=============================================================================
