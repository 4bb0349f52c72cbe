------------------------------ MODULE AOFProofs ------------------------------
(***************************************************************************)
(* Theorems about AOF, for any clients, rewriters, commands and fsync      *)
(* policy: first while the log and its fsyncs succeed, whatever fails in a *)
(* rewrite, then whatever call fails.                                      *)
(***************************************************************************)
EXTENDS AOF, SequenceTheorems, TLAPS

(***************************************************************************)
(* Typing.                                                                 *)
(***************************************************************************)

\* The empty history is a history.
LEMMA NoOps == <<>> \in Seq(Ops)
BY EmptySeq

\* A step of a connection goroutine keeps every variable in its type.
LEMMA ClientTypeOK ==
  ASSUME TypeOK, NEW c \in Clients, Client(c)
  PROVE  TypeOK'
<1> USE DEF TypeOK, ClientSteps, Ops, fileVars, rewriteVars, clientVars, runVars
<1>1. CASE \E o \in Ops : Receive(c, o)
  BY <1>1 DEF Receive
<1>2. CASE MutateRejected(c)
  BY <1>2 DEF MutateRejected
<1>3. CASE Mutate(c)
  BY <1>3 DEF Mutate
<1>4. CASE LogSucceeds(c)
  BY <1>4 DEF LogSucceeds, UnlockAndReply
<1>5. CASE LogFlushFails(c)
  BY <1>5 DEF LogFlushFails, UnlockAndReply
<1>6. CASE LogFsyncFails(c)
  BY <1>6 DEF LogFsyncFails, UnlockAndReply
<1>7. QED
  BY <1>1, <1>2, <1>3, <1>4, <1>5, <1>6 DEF Client

\* A step of Rewrite keeps every variable in its type.
LEMMA RewriteTypeOK ==
  ASSUME TypeOK, NEW r \in Rewriters, Rewrite(r)
  PROVE  TypeOK'
<1> USE DEF TypeOK, RewriterSteps, At, Goto, Abandon, fileVars, rewriteVars,
            clientVars, runVars
<1>1. CASE CallRewrite(r) \/ RewriteRefused(r) \/ RewriteEnter(r) \/ RewriteExit(r)
  BY <1>1, NoOps DEF CallRewrite, RewriteRefused, RewriteEnter, RewriteExit
<1>2. CASE RewriteSnapshot(r)
  BY <1>2, NoOps DEF RewriteSnapshot
<1>3. CASE RewriteDump(r) \/ RewriteDumpFails(r) \/ RewriteMergeFails(r)
  BY <1>3 DEF RewriteDump, RewriteDumpFails, RewriteMergeFails
<1>4. CASE RewriteMerge(r)
  BY <1>4, NoOps, ConcatProperties DEF RewriteMerge
<1>5. CASE RewriteTmpSync(r) \/ RewriteTmpSyncFails(r)
  BY <1>5 DEF RewriteTmpSync, RewriteTmpSyncFails
<1>6. CASE RewriteCloseLive(r) \/ RewriteCloseLiveFails(r)
  BY <1>6 DEF RewriteCloseLive, RewriteCloseLiveFails
<1>7. CASE RewriteRename(r)
  BY <1>7, NoOps DEF RewriteRename
<1>8. CASE RewriteRenameFails(r)
  BY <1>8 DEF RewriteRenameFails
<1>9. CASE RewriteReopen(r) \/ RewriteReopenFails(r)
  BY <1>9 DEF RewriteReopen, RewriteReopenFails
<1>10. CASE RewriteCleanup(r)
  BY <1>10, NoOps DEF RewriteCleanup
<1>11. QED
  BY <1>1, <1>2, <1>3, <1>4, <1>5, <1>6, <1>7, <1>8, <1>9, <1>10 DEF Rewrite

\* What a process forgets when it dies is well typed.
LEMMA MemoryLossTypeOK ==
  ASSUME LoseMemory
  PROVE  /\ store' \in Seq(Ops) /\ mu' = None /\ writer' = "closed"
         /\ rewriting' \in BOOLEAN /\ rewriteRunning' \in BOOLEAN
         /\ rewriteBuf' \in Seq(Ops)
         /\ cpc' \in [Clients -> ClientSteps] /\ \A c \in Clients : cpc'[c] = "idle"
         /\ req' \in [Clients -> Ops \cup {None}]
         /\ rpc' \in [Rewriters -> RewriterSteps]
         /\ snap' \in [Rewriters -> Seq(Ops)]
         /\ issued' = issued
BY NoOps DEF LoseMemory, ClientSteps, RewriterSteps

\* Every reachable state is well typed.
THEOREM TypeCorrect == Spec => []TypeOK
<1>1. Init => TypeOK
  <2> SUFFICES ASSUME Init PROVE TypeOK
    OBVIOUS
  <2>1. Len(file) = 0 /\ synced = 0 /\ file \in Seq(Ops)
    BY NoOps DEF Init
  <2>2. snap \in [Rewriters -> Seq(Ops)]
    BY NoOps DEF Init
  <2>3. /\ store \in Seq(Ops) /\ tmp \in Seq(Ops) /\ rewriteBuf \in Seq(Ops)
        /\ issued \subseteq Ops /\ acked \subseteq Ops /\ durable \subseteq Ops
    BY NoOps DEF Init
  <2>4. /\ cpc \in [Clients -> ClientSteps] /\ rpc \in [Rewriters -> RewriterSteps]
        /\ req \in [Clients -> Ops \cup {None}]
        /\ \A c \in Clients : cpc[c] = "idle"
    BY DEF Init, ClientSteps, RewriterSteps
  <2>5. /\ synced \in 0 .. Len(file) /\ crashes \in Nat
        /\ mu = None /\ writer = "ok" /\ phase = "up"
    BY <2>1 DEF Init
  <2>6. rewriting \in BOOLEAN /\ rewriteRunning \in BOOLEAN
    BY DEF Init
  <2>7. QED
    BY <2>1, <2>2, <2>3, <2>4, <2>5, <2>6 DEF TypeOK
<1>2. TypeOK /\ [Next]_vars => TypeOK'
  <2> SUFFICES ASSUME TypeOK, [Next]_vars
               PROVE  TypeOK'
    OBVIOUS
  <2> USE DEF TypeOK, fileVars, rewriteVars, clientVars, runVars
  <2>1. CASE \E c \in Clients : Client(c)
    BY <2>1, ClientTypeOK
  <2>2. CASE \E r \in Rewriters : Rewrite(r)
    BY <2>2, RewriteTypeOK
  <2>3. CASE FsyncTick \/ ShutdownSync
    BY <2>3 DEF FsyncTick, ShutdownSync, SyncFile
  <2>4. CASE Crash \/ Exit
    BY <2>4, NoOps, MemoryLossTypeOK DEF Crash, Exit, Die
  <2>5. CASE PowerLoss
    <3>1. PICK n \in synced .. Len(file) : file' = SubSeq(file, 1, n) /\ synced' = n
      BY <2>5 DEF PowerLoss
    <3>2. file' \in Seq(Ops) /\ synced' \in 0 .. Len(file')
      BY <3>1, SubSeqProperties
    <3>3. QED
      BY <2>5, <3>2, MemoryLossTypeOK DEF PowerLoss
  <2>6. CASE Recover
    BY <2>6 DEF Recover
  <2>7. CASE UNCHANGED vars
    BY <2>7 DEF vars
  <2>8. QED
    BY <2>1, <2>2, <2>3, <2>4, <2>5, <2>6, <2>7 DEF Next
<1>3. QED
  BY <1>1, <1>2, PTL DEF Spec

(***************************************************************************)
(* Mutual exclusion: LockInv, OneRewrite and BufferingEnds together.       *)
(***************************************************************************)
Exclusion == LockInv /\ OneRewrite /\ BufferingEnds

\* Clients change neither the state of a rewrite nor who may hold a.mu but
\* themselves.
LEMMA ClientExclusion ==
  ASSUME TypeOK, Exclusion, NEW c \in Clients, Client(c)
  PROVE  Exclusion'
<1> USE ConstantsAssumption
    DEF TypeOK, Exclusion, LockInv, OneRewrite, BufferingEnds, HoldingMu,
        ClientSteps, fileVars, rewriteVars, clientVars, runVars
<1>1. UNCHANGED <<rpc, rewriting, rewriteRunning>>
  BY DEF Client, Receive, MutateRejected, Mutate, LogSucceeds, LogFlushFails,
         LogFsyncFails
<1>2. OneRewrite' /\ BufferingEnds'
  BY <1>1
<1>3. LockInv'
  <2>1. CASE (\E o \in Ops : Receive(c, o)) \/ MutateRejected(c)
    BY <2>1, <1>1 DEF Receive, MutateRejected
  <2>2. CASE Mutate(c)
    BY <2>2, <1>1 DEF Mutate
  <2>3. CASE LogSucceeds(c) \/ LogFlushFails(c) \/ LogFsyncFails(c)
    <3>1. cpc[c] = "mutated" /\ mu = c /\ mu' = None
          /\ cpc' = [cpc EXCEPT ![c] = "idle"]
      BY <2>3 DEF LogSucceeds, LogFlushFails, LogFsyncFails, UnlockAndReply
    <3>2. QED
      BY <3>1, <1>1
  <2>4. QED
    BY <2>1, <2>2, <2>3 DEF Client
<1>4. QED
  BY <1>2, <1>3

\* A step of Rewrite.
LEMMA RewriteExclusion ==
  ASSUME TypeOK, Exclusion, NEW r \in Rewriters, Rewrite(r)
  PROVE  Exclusion'
<1> USE DEF At, Goto, Abandon
<1>1. /\ rpc' = [rpc EXCEPT ![r] = rpc'[r]] /\ rpc'[r] \in RewriterSteps
      /\ UNCHANGED cpc
  BY DEF TypeOK, RewriterSteps, clientVars, Rewrite, CallRewrite, RewriteRefused,
         RewriteEnter, RewriteSnapshot, RewriteDump, RewriteDumpFails, RewriteMerge,
         RewriteMergeFails, RewriteTmpSync, RewriteTmpSyncFails, RewriteCloseLive,
         RewriteCloseLiveFails, RewriteRename, RewriteRenameFails, RewriteReopen,
         RewriteReopenFails, RewriteCleanup, RewriteExit
<1>2. \A s \in Rewriters : s # r => rpc'[s] = rpc[s]
  BY <1>1 DEF TypeOK
<1>3. LockInv'
  <2>1. \/ rpc'[r] \in HoldingMu /\ mu = None /\ mu' = r
        \/ rpc'[r] \notin HoldingMu /\ mu = r /\ mu' = None
        \/ (rpc'[r] \in HoldingMu <=> rpc[r] \in HoldingMu) /\ mu' = mu
    BY DEF Exclusion, LockInv, HoldingMu, TypeOK, Rewrite, CallRewrite, RewriteRefused,
         RewriteEnter, RewriteSnapshot, RewriteDump, RewriteDumpFails, RewriteMerge,
         RewriteMergeFails, RewriteTmpSync, RewriteTmpSyncFails, RewriteCloseLive,
         RewriteCloseLiveFails, RewriteRename, RewriteRenameFails, RewriteReopen,
         RewriteReopenFails, RewriteCleanup, RewriteExit
  <2>2. QED
    BY <1>1, <1>2, <2>1, ConstantsAssumption DEF Exclusion, LockInv
<1>4. OneRewrite'
  <2>1. CASE CallRewrite(r) \/ RewriteRefused(r)
    <3>1. /\ rpc[r] \notin InRewrite /\ rpc'[r] \notin InRewrite
          /\ UNCHANGED rewriteRunning
      BY <2>1 DEF CallRewrite, RewriteRefused, TypeOK, InRewrite
    <3>2. QED
      BY <1>2, <3>1 DEF Exclusion, OneRewrite
  <2>2. CASE RewriteEnter(r)
    <3>1. rpc'[r] \in InRewrite /\ ~rewriteRunning /\ rewriteRunning'
      BY <2>2 DEF RewriteEnter, TypeOK, InRewrite, RewriterSteps
    <3>2. QED
      BY <1>2, <3>1 DEF Exclusion, OneRewrite
  <2>3. CASE RewriteExit(r)
    <3>1. rpc[r] \in InRewrite /\ rpc'[r] \notin InRewrite /\ rewriteRunning' = FALSE
      BY <2>3 DEF RewriteExit, TypeOK, InRewrite, RewriterSteps
    <3>2. QED
      BY <1>2, <3>1 DEF Exclusion, OneRewrite
  <2>4. CASE ~(CallRewrite(r) \/ RewriteRefused(r) \/ RewriteEnter(r) \/ RewriteExit(r))
    <3>1. /\ rpc[r] \in InRewrite /\ rpc'[r] \in InRewrite
          /\ UNCHANGED rewriteRunning
      BY <2>4 DEF TypeOK, InRewrite, RewriterSteps, Rewrite,
         RewriteSnapshot, RewriteDump, RewriteDumpFails, RewriteMerge,
         RewriteMergeFails, RewriteTmpSync, RewriteTmpSyncFails, RewriteCloseLive,
         RewriteCloseLiveFails, RewriteRename, RewriteRenameFails, RewriteReopen,
         RewriteReopenFails, RewriteCleanup
    <3>2. QED
      BY <1>2, <3>1 DEF Exclusion, OneRewrite
  <2>5. QED
    BY <2>1, <2>2, <2>3, <2>4
<1>5. BufferingEnds'
  <2>1. CASE RewriteMerge(r) \/ RewriteCleanup(r)
    <3>1. /\ rpc[r] \in InRewrite /\ rewriting' = FALSE
          /\ rpc'[r] \in {"merged", "done"}
      BY <2>1 DEF RewriteMerge, RewriteCleanup, TypeOK, InRewrite, RewriterSteps
    <3>2. QED
      BY <1>2, <3>1 DEF Exclusion, OneRewrite, BufferingEnds, InRewrite, RewriterSteps
  <2>2. CASE RewriteSnapshot(r)
    <3>1. rewriting' = TRUE /\ rpc'[r] = "snapped"
      BY <2>2 DEF RewriteSnapshot, TypeOK
    <3>2. QED
      BY <3>1 DEF BufferingEnds
  <2>3. CASE RewriteDump(r) \/ RewriteDumpFails(r) \/ RewriteMergeFails(r)
    <3>1. /\ rpc[r] \in {"snapped", "dumped"} /\ rpc'[r] \in {"dumped", "failed"}
          /\ UNCHANGED rewriting
      BY <2>3 DEF RewriteDump, RewriteDumpFails, RewriteMergeFails, TypeOK
    <3>2. QED
      BY <1>2, <3>1 DEF Exclusion, BufferingEnds
  <2>4. CASE ~(\/ RewriteMerge(r) \/ RewriteCleanup(r) \/ RewriteSnapshot(r)
              \/ RewriteDump(r) \/ RewriteDumpFails(r) \/ RewriteMergeFails(r))
    <3>1. /\ rpc[r] \notin {"snapped", "dumped", "failed"}
          /\ rpc'[r] \notin {"snapped", "dumped"}
          /\ UNCHANGED rewriting
      BY <2>4 DEF TypeOK, Rewrite, CallRewrite, RewriteRefused, RewriteEnter,
         RewriteTmpSync, RewriteTmpSyncFails, RewriteCloseLive,
         RewriteCloseLiveFails, RewriteRename, RewriteRenameFails, RewriteReopen,
         RewriteReopenFails, RewriteExit
    <3>2. QED
      BY <1>2, <3>1 DEF Exclusion, BufferingEnds
  <2>5. QED
    BY <2>1, <2>2, <2>3, <2>4
<1>6. QED
  BY <1>3, <1>4, <1>5 DEF Exclusion

\* A process that dies leaves no lock and no rewrite behind.
LEMMA MemoryLossExclusion ==
  ASSUME LoseMemory
  PROVE  Exclusion'
BY ConstantsAssumption
DEF LoseMemory, Exclusion, LockInv, OneRewrite, BufferingEnds, HoldingMu, InRewrite

\* Every step keeps the locks exclusive.
LEMMA ExclusionStep ==
  ASSUME TypeOK, Exclusion, [Next]_vars
  PROVE  Exclusion'
<1> USE DEF fileVars, rewriteVars, clientVars, runVars
<1>1. CASE \E c \in Clients : Client(c)
  BY <1>1, ClientExclusion
<1>2. CASE \E r \in Rewriters : Rewrite(r)
  BY <1>2, RewriteExclusion
<1>3. CASE Crash \/ Exit \/ PowerLoss
  BY <1>3, MemoryLossExclusion DEF Crash, Exit, Die, PowerLoss
<1>4. CASE FsyncTick \/ ShutdownSync \/ Recover \/ UNCHANGED vars
  <2>1. UNCHANGED <<cpc, rpc, mu, rewriting, rewriteRunning>>
    BY <1>4 DEF FsyncTick, ShutdownSync, Recover, vars
  <2>2. QED
    BY <2>1 DEF Exclusion, LockInv, OneRewrite, BufferingEnds
<1>5. QED
  BY <1>1, <1>2, <1>3, <1>4 DEF Next

\* One holder of a.mu, one rewrite at a time, and no buffer left behind on any
\* error path of Rewrite.
THEOREM MutualExclusion == Spec => []Exclusion
<1>1. Init => Exclusion
  BY ConstantsAssumption
  DEF Init, Exclusion, LockInv, OneRewrite, BufferingEnds, HoldingMu, InRewrite
<1>2. TypeOK /\ Exclusion /\ [Next]_vars => Exclusion'
  BY ExclusionStep
<1>3. QED
  BY <1>1, <1>2, TypeCorrect, PTL DEF Spec

\* rewriteRunning admits one rewrite at a time.
THEOREM RewritesExclude == Spec => []OneRewrite
<1>1. Exclusion => OneRewrite
  BY DEF Exclusion
<1>2. QED
  BY <1>1, MutualExclusion, PTL

\* Entries are mirrored only while a rewrite wants them.
THEOREM MirroringEnds == Spec => []BufferingEnds
<1>1. Exclusion => BufferingEnds
  BY DEF Exclusion
<1>2. QED
  BY <1>1, MutualExclusion, PTL

-----------------------------------------------------------------------------
(***************************************************************************)
(* Exactly once.                                                           *)
(***************************************************************************)

\* What a handler logs goes to the end of the snapshot plus the mirrored entries.
LEMMA ConcatAppend ==
  ASSUME NEW s \in Seq(Ops), NEW t \in Seq(Ops), NEW e \in Ops
  PROVE  s \o Append(t, e) = Append(s \o t, e)
<1>1. <<e>> \in Seq(Ops) /\ s \o t \in Seq(Ops)
  BY ConcatProperties
<1>2. Append(t, e) = t \o <<e>> /\ Append(s \o t, e) = (s \o t) \o <<e>>
  BY <1>1, AppendIsConcat
<1>3. QED
  BY <1>1, <1>2, ConcatAssociative

\* A handler logs what it has mutated, in the file and for a rewrite in progress.
LEMMA ClientConsistent ==
  ASSUME LogIsReliable, TypeOK, Exclusion, Consistent,
         NEW c \in Clients, Client(c)
  PROVE  Consistent'
<1> USE DEF fileVars, rewriteVars, clientVars, runVars
<1>1. CASE (\E o \in Ops : Receive(c, o)) \/ MutateRejected(c)
  <2>1. /\ UNCHANGED <<store, file, tmp, mu, writer, rewriteBuf, rpc, snap>>
        /\ mu # c
        /\ \A d \in Clients : d # c => req'[d] = req[d]
    BY <1>1, ConstantsAssumption
    DEF Receive, MutateRejected, TypeOK, Exclusion, LockInv
  <2>2. Recorded' = Recorded
    BY <2>1 DEF Recorded
  <2>3. QED
    BY <2>1, <2>2 DEF Consistent, RewriteMatches
<1>2. CASE Mutate(c)
  <2>1. /\ UNCHANGED <<file, tmp, writer, rewriteBuf, rpc, snap, req>>
        /\ mu = None /\ mu' = c /\ store' = Append(store, req[c])
    BY <1>2 DEF Mutate
  <2>2. store = file
    BY <2>1, ConstantsAssumption DEF Consistent, Recorded
  <2>3. store' = Recorded'
    BY <2>1, <2>2 DEF Recorded
  <2>4. QED
    BY <2>1, <2>3 DEF Consistent, RewriteMatches
<1>3. ASSUME cpc[c] = "mutated"
      PROVE  mu = c /\ writer = "ok" /\ \A r \in Rewriters : rpc[r] \notin HoldingMu
  <2>1. mu = c
    BY <1>3 DEF Exclusion, LockInv
  <2>2. \A r \in Rewriters : rpc[r] \notin HoldingMu
    BY <2>1, ConstantsAssumption DEF Exclusion, LockInv
  <2>3. writer # "closed"
    BY <2>2 DEF Consistent, HoldingMu
  <2>4. QED
    BY <2>1, <2>2, <2>3 DEF Consistent, TypeOK
<1>4. CASE LogSucceeds(c)
  <2>1. /\ cpc[c] = "mutated" /\ mu' = None /\ file' = Append(file, req[c])
        /\ rewriteBuf' = IF rewriting THEN Append(rewriteBuf, req[c]) ELSE rewriteBuf
        /\ UNCHANGED <<store, tmp, writer, rpc, snap>>
    BY <1>4 DEF LogSucceeds, UnlockAndReply
  <2>2. store' = Recorded'
    BY <1>3, <2>1, ConstantsAssumption DEF Consistent, Recorded
  <2>3. ASSUME NEW r \in Rewriters
        PROVE  RewriteMatches(r)'
    <3>1. rpc[r] \notin {"merged", "tmpsynced", "closed"}
      BY <1>3, <2>1 DEF HoldingMu
    <3>2. req[c] \in Ops /\ rewriteBuf \in Seq(Ops) /\ tmp \in Seq(Ops) /\ snap[r] \in Seq(Ops)
      BY <2>1 DEF TypeOK
    <3>3. CASE rpc[r] = "snapped"
      <4>1. rewriting /\ snap[r] \o rewriteBuf = file
        BY <3>3 DEF Exclusion, BufferingEnds, Consistent, RewriteMatches
      <4>2. snap[r] \o Append(rewriteBuf, req[c]) = Append(snap[r] \o rewriteBuf, req[c])
        BY <3>2, ConcatAppend
      <4>3. QED
        BY <2>1, <3>3, <4>1, <4>2 DEF RewriteMatches
    <3>4. CASE rpc[r] = "dumped"
      <4>1. rewriting /\ tmp \o rewriteBuf = file
        BY <3>4 DEF Exclusion, BufferingEnds, Consistent, RewriteMatches
      <4>2. tmp \o Append(rewriteBuf, req[c]) = Append(tmp \o rewriteBuf, req[c])
        BY <3>2, ConcatAppend
      <4>3. QED
        BY <2>1, <3>4, <4>1, <4>2 DEF RewriteMatches
    <3>5. CASE rpc[r] \notin {"snapped", "dumped"}
      BY <2>1, <3>1, <3>5 DEF RewriteMatches
    <3>6. QED
      BY <3>3, <3>4, <3>5
  <2>4. QED
    BY <2>1, <2>2, <2>3 DEF Consistent
<1>5. ~LogFlushFails(c) /\ ~LogFsyncFails(c)
  BY <1>3 DEF LogFlushFails, LogFsyncFails, LogIsReliable
<1>6. QED
  BY <1>1, <1>2, <1>4, <1>5 DEF Client

\* While r is inside Rewrite no other rewrite has anything to keep track of.
LEMMA OthersOutside ==
  ASSUME Exclusion, NEW r \in Rewriters, rpc[r] \in InRewrite,
         NEW s \in Rewriters, s # r
  PROVE  rpc[s] \notin InRewrite
BY DEF Exclusion, OneRewrite

\* Every stage of a rewrite keeps what it has written and mirrored equal to the
\* file it is going to replace.
LEMMA RewriteConsistent ==
  ASSUME LogIsReliable, TypeOK, Exclusion, Consistent,
         NEW r \in Rewriters, Rewrite(r)
  PROVE  Consistent'
<1> USE DEF At, Goto, Abandon, fileVars, rewriteVars, clientVars, runVars
<1> DEFINE Tracked == {"snapped", "dumped", "merged", "tmpsynced", "closed", "renamed"}
<1>1. rpc' = [rpc EXCEPT ![r] = rpc'[r]] /\ rpc'[r] \in RewriterSteps
  BY DEF TypeOK, RewriterSteps, Rewrite, CallRewrite, RewriteRefused,
         RewriteEnter, RewriteSnapshot, RewriteDump, RewriteDumpFails, RewriteMerge,
         RewriteMergeFails, RewriteTmpSync, RewriteTmpSyncFails, RewriteCloseLive,
         RewriteCloseLiveFails, RewriteRename, RewriteRenameFails, RewriteReopen,
         RewriteReopenFails, RewriteCleanup, RewriteExit
<1>2. \A s \in Rewriters : s # r => rpc'[s] = rpc[s]
  BY <1>1 DEF TypeOK
\* Outside the tracked steps nothing is demanded of r.
<1>3. CASE CallRewrite(r) \/ RewriteRefused(r) \/ RewriteEnter(r) \/ RewriteExit(r)
  <2>1. /\ rpc[r] \notin Tracked /\ rpc'[r] \notin Tracked
        /\ UNCHANGED <<store, file, tmp, mu, writer, rewriteBuf, req>>
        /\ \A s \in Rewriters : s # r => snap'[s] = snap[s]
    BY <1>3 DEF CallRewrite, RewriteRefused, RewriteEnter, RewriteExit, TypeOK
  <2>2. QED
    BY <1>2, <2>1 DEF Consistent, Recorded, RewriteMatches
<1>4. ASSUME rpc[r] \in InRewrite
      PROVE  \A s \in Rewriters : s # r => rpc'[s] \notin Tracked
  BY <1>2, <1>4, OthersOutside DEF InRewrite, RewriterSteps
<1>5. CASE RewriteSnapshot(r)
  <2>1. /\ rpc[r] \in InRewrite /\ rpc'[r] = "snapped" /\ mu = None
        /\ rewriteBuf' = <<>> /\ snap'[r] = store
        /\ UNCHANGED <<store, file, tmp, mu, writer, req>>
    BY <1>5 DEF RewriteSnapshot, TypeOK, InRewrite, RewriterSteps
  <2>2. Recorded' = Recorded /\ Recorded = file
    BY <2>1, ConstantsAssumption DEF Recorded
  <2>3. store \o <<>> = store
    BY ConcatEmptySeq DEF TypeOK
  <2>4. RewriteMatches(r)'
    BY <2>1, <2>2, <2>3 DEF Consistent, RewriteMatches
  <2>5. \A s \in Rewriters : RewriteMatches(s)'
    BY <1>4, <2>1, <2>4 DEF RewriteMatches
  <2>6. writer' = "closed" <=> \E s \in Rewriters : rpc'[s] \in {"closed", "renamed"}
    BY <1>2, <1>5, <2>1 DEF Consistent, RewriteSnapshot
  <2>7. QED
    BY <2>1, <2>2, <2>5, <2>6 DEF Consistent
\* The file stays as it is, and so does what is recorded in it.
<1>6. CASE \/ RewriteDump(r) \/ RewriteDumpFails(r) \/ RewriteMergeFails(r)
           \/ RewriteTmpSync(r) \/ RewriteTmpSyncFails(r) \/ RewriteCleanup(r)
           \/ RewriteMerge(r)
  <2>1. /\ rpc[r] \in InRewrite
        /\ rpc[r] \notin {"closed", "renamed"} /\ rpc'[r] \notin {"closed", "renamed"}
        /\ UNCHANGED <<store, file, writer, req, snap>>
    BY <1>6 DEF RewriteDump, RewriteDumpFails, RewriteMergeFails, RewriteTmpSync,
         RewriteTmpSyncFails, RewriteCleanup, RewriteMerge, TypeOK, InRewrite,
         RewriterSteps
  <2>2. UNCHANGED mu \/ (mu \notin Clients /\ mu' \notin Clients)
    BY <1>6, ConstantsAssumption
    DEF RewriteDump, RewriteDumpFails, RewriteMergeFails, RewriteTmpSync,
         RewriteTmpSyncFails, RewriteCleanup, RewriteMerge, Exclusion, LockInv,
         HoldingMu
  <2>3. Recorded' = Recorded
    BY <2>1, <2>2 DEF Recorded
  <2>4. RewriteMatches(r)'
    <3>1. CASE RewriteDump(r)
      BY <3>1, <2>1 DEF RewriteDump, RewriteMatches, Consistent, TypeOK
    <3>2. CASE RewriteTmpSync(r)
      BY <3>2, <2>1 DEF RewriteTmpSync, RewriteMatches, Consistent, TypeOK
    <3>3. CASE RewriteMerge(r)
      BY <3>3, <2>1 DEF RewriteMerge, RewriteMatches, Consistent, TypeOK
    <3>4. CASE \/ RewriteDumpFails(r) \/ RewriteMergeFails(r)
               \/ RewriteTmpSyncFails(r) \/ RewriteCleanup(r)
      <4>1. rpc'[r] \in {"failed", "done"}
        BY <3>4 DEF RewriteDumpFails, RewriteMergeFails, RewriteTmpSyncFails,
             RewriteCleanup, TypeOK
      <4>2. QED
        BY <4>1 DEF RewriteMatches
    <3>5. QED
      BY <1>6, <3>1, <3>2, <3>3, <3>4
  <2>5. \A s \in Rewriters : RewriteMatches(s)'
    BY <1>4, <2>1, <2>4 DEF RewriteMatches
  <2>6. writer' = "closed" <=> \E s \in Rewriters : rpc'[s] \in {"closed", "renamed"}
    BY <1>2, <2>1 DEF Consistent
  <2>7. QED
    BY <2>1, <2>3, <2>5, <2>6 DEF Consistent
\* With a.mu held, the live file is closed, replaced by its copy and reopened.
<1>7. CASE \/ RewriteCloseLive(r) \/ RewriteRename(r) \/ RewriteRenameFails(r)
           \/ RewriteReopen(r)
  <2>1. /\ rpc[r] \in {"tmpsynced", "closed", "renamed"} /\ rpc[r] \in HoldingMu
        /\ rpc[r] \in InRewrite /\ UNCHANGED <<store, req, snap>>
        /\ mu' \in {mu, None}
    BY <1>7 DEF RewriteCloseLive, RewriteRename, RewriteRenameFails, RewriteReopen,
         HoldingMu, InRewrite, RewriterSteps
  <2>2. mu \notin Clients /\ mu' \notin Clients
    BY <2>1, ConstantsAssumption DEF Exclusion, LockInv
  <2>3. Recorded = file /\ Recorded' = file'
    BY <2>2 DEF Recorded
  <2>4. file' = file /\ (rpc'[r] = "closed" => tmp' = file)
    BY <1>7 DEF RewriteCloseLive, RewriteRename, RewriteRenameFails, RewriteReopen,
         Consistent, RewriteMatches, TypeOK
  <2>5. /\ rpc'[r] \in {"closed", "renamed", "failed", "done"}
        /\ writer' \in {"ok", "closed"}
        /\ writer' = "closed" <=> rpc'[r] \in {"closed", "renamed"}
    BY <1>7 DEF RewriteCloseLive, RewriteRename, RewriteRenameFails, RewriteReopen,
         Consistent, TypeOK, LogIsReliable
  <2>6. \A s \in Rewriters : RewriteMatches(s)'
    BY <1>4, <2>1, <2>4, <2>5 DEF RewriteMatches
  <2>7. writer' = "closed" <=> \E s \in Rewriters : rpc'[s] \in {"closed", "renamed"}
    BY <1>4, <2>1, <2>5
  <2>8. QED
    BY <2>1, <2>3, <2>4, <2>5, <2>6, <2>7 DEF Consistent
<1>8. ~RewriteCloseLiveFails(r) /\ ~RewriteReopenFails(r)
  <2>1. ~RewriteReopenFails(r)
    BY DEF RewriteReopenFails, LogIsReliable
  <2>2. ASSUME RewriteCloseLiveFails(r) PROVE FALSE
    <3>1. rpc[r] = "tmpsynced" /\ writer = "closed"
      BY <2>2 DEF RewriteCloseLiveFails, LogIsReliable
    <3>2. PICK s \in Rewriters : rpc[s] \in {"closed", "renamed"}
      BY <3>1 DEF Consistent
    <3>3. QED
      BY <3>1, <3>2, OthersOutside DEF InRewrite, RewriterSteps
  <2>3. QED
    BY <2>1, <2>2
<1>9. QED
  BY <1>3, <1>5, <1>6, <1>7, <1>8 DEF Rewrite

\* A restarted process holds what the file holds and has no rewrite in progress.
LEMMA RecoverConsistent ==
  ASSUME TypeOK, Exclusion, Recover,
         mu = None, \A r \in Rewriters : rpc[r] = "idle"
  PROVE  Consistent'
BY ConstantsAssumption
DEF Recover, Consistent, Recorded, RewriteMatches, fileVars, rewriteVars

\* A process that is not running holds nothing.
Quiet == ~Running => mu = None /\ \A r \in Rewriters : rpc[r] = "idle"

\* Goroutines step only in a running process.
LEMMA QuietStep ==
  ASSUME Quiet, [Next]_vars
  PROVE  Quiet'
<1> USE DEF runVars, At
<1>1. CASE \E c \in Clients : Client(c)
  BY <1>1 DEF Client, Receive, MutateRejected, Mutate, LogSucceeds, LogFlushFails,
         LogFsyncFails, Quiet, Running
<1>2. CASE \E r \in Rewriters : Rewrite(r)
  BY <1>2 DEF Quiet, Running, Rewrite, CallRewrite, RewriteRefused,
         RewriteEnter, RewriteSnapshot, RewriteDump, RewriteDumpFails, RewriteMerge,
         RewriteMergeFails, RewriteTmpSync, RewriteTmpSyncFails, RewriteCloseLive,
         RewriteCloseLiveFails, RewriteRename, RewriteRenameFails, RewriteReopen,
         RewriteReopenFails, RewriteCleanup, RewriteExit
<1>3. CASE FsyncTick \/ ShutdownSync \/ Recover
  BY <1>3 DEF Quiet, Running, FsyncTick, ShutdownSync, Recover
<1>4. CASE Crash \/ Exit \/ PowerLoss
  BY <1>4 DEF Quiet, Crash, Exit, PowerLoss, Die, LoseMemory
<1>5. CASE UNCHANGED vars
  BY <1>5 DEF Quiet, Running, vars, rewriteVars
<1>6. QED
  BY <1>1, <1>2, <1>3, <1>4, <1>5 DEF Next

\* Every step keeps memory, file and rewrite consistent.
LEMMA LosesNothingStep ==
  ASSUME TypeOK, Exclusion, Quiet, LosesNothing, [Next]_vars
  PROVE  LosesNothing'
<1> SUFFICES ASSUME LogIsReliable, Running'
             PROVE  Consistent'
  BY DEF LosesNothing, LogIsReliable
<1>1. CASE \E c \in Clients : Client(c)
  <2>1. PICK c \in Clients : Client(c)
    BY <1>1
  <2>2. Consistent
    BY <2>1 DEF LosesNothing, Client, Receive, MutateRejected, Mutate, LogSucceeds,
         LogFlushFails, LogFsyncFails
  <2>3. QED
    BY <2>1, <2>2, ClientConsistent
<1>2. CASE \E r \in Rewriters : Rewrite(r)
  <2>1. PICK r \in Rewriters : Rewrite(r)
    BY <1>2
  <2>2. Running
    BY <2>1 DEF At, Rewrite, CallRewrite, RewriteRefused,
         RewriteEnter, RewriteSnapshot, RewriteDump, RewriteDumpFails, RewriteMerge,
         RewriteMergeFails, RewriteTmpSync, RewriteTmpSyncFails, RewriteCloseLive,
         RewriteCloseLiveFails, RewriteRename, RewriteRenameFails, RewriteReopen,
         RewriteReopenFails, RewriteCleanup, RewriteExit
  <2>3. QED
    BY <2>1, <2>2, RewriteConsistent DEF LosesNothing
<1>3. CASE FsyncTick \/ ShutdownSync \/ UNCHANGED vars
  <2>1. UNCHANGED <<store, file, tmp, mu, writer, rewriteBuf, rpc, snap, req>>
    BY <1>3 DEF FsyncTick, ShutdownSync, vars, fileVars, rewriteVars, clientVars
  <2>2. Running
    BY <1>3 DEF FsyncTick, ShutdownSync, vars, runVars, Running
  <2>3. QED
    BY <2>1, <2>2 DEF LosesNothing, Consistent, Recorded, RewriteMatches
<1>4. CASE Recover
  BY <1>4, RecoverConsistent DEF Quiet, Recover
<1>5. ~Crash /\ ~Exit /\ ~PowerLoss
  BY DEF Crash, Exit, PowerLoss, Running
<1>6. QED
  BY <1>1, <1>2, <1>3, <1>4, <1>5 DEF Next

\* The inductive invariant.
IInv == TypeOK /\ Exclusion /\ Quiet /\ LosesNothing

\* The inductive invariant holds in every reachable state.
THEOREM Inductive == Spec => []IInv
<1>1. Init => Quiet
  BY DEF Init, Quiet, Running
<1>2. Init => LosesNothing
  BY ConstantsAssumption
  DEF Init, LosesNothing, Consistent, Recorded, RewriteMatches
<1>3. TypeOK /\ Exclusion /\ Quiet /\ LosesNothing /\ [Next]_vars
        => Quiet' /\ LosesNothing'
  BY QuietStep, LosesNothingStep
<1>4. QED
  BY <1>1, <1>2, <1>3, TypeCorrect, MutualExclusion, PTL DEF Spec, IInv

\* Memory, file, temporary file and mirrored entries stay consistent.
THEOREM NothingIsLost == Spec => []LosesNothing
<1>1. IInv => LosesNothing
  BY DEF IInv
<1>2. QED
  BY <1>1, Inductive, PTL

\* Every command is in the file exactly once: with a log that can be written and
\* reopened, whenever nobody is inside a critical section the file rebuilds what
\* memory holds, whatever commands, rewrites and restarts came before.
THEOREM ExactlyOnceHolds == Spec => []ExactlyOnce
<1>1. IInv => ExactlyOnce
  BY ConstantsAssumption
  DEF IInv, LosesNothing, Consistent, Recorded, ExactlyOnce
<1>2. QED
  BY <1>1, Inductive, PTL

(***************************************************************************)
(* Refinement.                                                             *)
(***************************************************************************)

\* One step of the AOF is one step of the abstract log, or none.
LEMMA StepSimulation ==
  ASSUME LogIsReliable, IInv, [Next]_vars
  PROVE  [Log!Next]_(Log!vars)
<1> USE DEF Log!Next, Log!vars
<1>1. CASE \E c \in Clients : Client(c)
  <2>1. PICK c \in Clients : Client(c)
    BY <1>1
  <2>2. CASE (\E o \in Ops : Receive(c, o)) \/ MutateRejected(c)
    BY <2>2 DEF Receive, MutateRejected, fileVars, runVars, Running
  <2>3. CASE Mutate(c)
    <3>1. req[c] \in Ops /\ store = file /\ Running
      BY <2>3, ConstantsAssumption
      DEF Mutate, IInv, TypeOK, LosesNothing, Consistent, Recorded
    <3>2. Log!Execute(req[c])
      BY <2>3, <3>1 DEF Mutate, Log!Execute, fileVars, runVars, Running
    <3>3. QED
      BY <3>1, <3>2
  <2>4. CASE LogSucceeds(c)
    <3>1. Running /\ mu = c /\ store = Append(file, req[c]) /\ req[c] \in Ops
      BY <2>4 DEF LogSucceeds, IInv, Exclusion, LockInv, TypeOK, LosesNothing,
           Consistent, Recorded
    <3>2. store # file /\ Len(store) = Len(file) + 1
      BY <3>1, AppendProperties DEF IInv, TypeOK
    <3>3. Log!Log
      BY <2>4, <3>1, <3>2 DEF LogSucceeds, Log!Log, runVars, Running
    <3>4. QED
      BY <3>3
  <2>5. CASE LogFlushFails(c) \/ LogFsyncFails(c)
    <3>1. mu = c /\ Running /\ LosesNothing
      BY <2>5 DEF LogFlushFails, LogFsyncFails, IInv, Exclusion, LockInv
    <3>2. \A r \in Rewriters : rpc[r] \notin HoldingMu
      BY <3>1, ConstantsAssumption DEF IInv, Exclusion, LockInv
    <3>3. writer = "ok"
      BY <3>1, <3>2 DEF LosesNothing, Consistent, HoldingMu, IInv, TypeOK
    <3>4. QED
      BY <2>5, <3>3 DEF LogFlushFails, LogFsyncFails, LogIsReliable
  <2>6. QED
    BY <2>1, <2>2, <2>3, <2>4, <2>5 DEF Client
<1>2. CASE \E r \in Rewriters : Rewrite(r)
  <2>1. PICK r \in Rewriters : Rewrite(r)
    BY <1>2
  <2>2. CASE RewriteRename(r)
    <3>1. tmp = file /\ Running
      BY <2>2 DEF RewriteRename, At, IInv, LosesNothing, Consistent, RewriteMatches
    <3>2. Log!Force
      BY <2>2, <3>1 DEF RewriteRename, Log!Force, runVars, Running
    <3>3. QED
      BY <3>2
  <2>3. CASE ~RewriteRename(r)
    <3>1. UNCHANGED <<store, file, synced, phase>>
      BY <2>1, <2>3 DEF fileVars, runVars, Rewrite, CallRewrite, RewriteRefused,
         RewriteEnter, RewriteSnapshot, RewriteDump, RewriteDumpFails, RewriteMerge,
         RewriteMergeFails, RewriteTmpSync, RewriteTmpSyncFails, RewriteCloseLive,
         RewriteCloseLiveFails, RewriteRenameFails, RewriteReopen,
         RewriteReopenFails, RewriteCleanup, RewriteExit
    <3>2. QED
      BY <3>1 DEF Running
  <2>4. QED
    BY <2>2, <2>3
<1>3. CASE FsyncTick \/ ShutdownSync
  <2>1. Running /\ Running' /\ UNCHANGED <<store, file>>
    BY <1>3 DEF FsyncTick, ShutdownSync, Running, runVars
  <2>2. synced' = Len(file) \/ UNCHANGED synced
    BY <1>3 DEF FsyncTick, ShutdownSync, SyncFile
  <2>3. QED
    BY <2>1, <2>2 DEF Log!Force
<1>4. CASE Crash \/ Exit
  <2>1. Log!Crash
    BY <1>4 DEF Crash, Exit, Die, LoseMemory, Log!Crash, Running, fileVars
  <2>2. QED
    BY <2>1
<1>5. CASE PowerLoss
  <2>1. Log!PowerLoss
    BY <1>5 DEF PowerLoss, LoseMemory, Log!PowerLoss, Running
  <2>2. QED
    BY <2>1
<1>6. CASE Recover
  <2>1. Log!Restart
    BY <1>6 DEF Recover, Log!Restart, Running, fileVars
  <2>2. QED
    BY <2>1
<1>7. CASE UNCHANGED vars
  BY <1>7 DEF vars, fileVars, runVars, Running
<1>8. QED
  BY <1>1, <1>2, <1>3, <1>4, <1>5, <1>6, <1>7 DEF Next

\* The AOF implements a log that is written in place.
THEOREM Refinement ==
  ASSUME LogIsReliable
  PROVE  Spec => ImplementsLog
<1>1. Init => Log!Init
  BY DEF Init, Log!Init, Running
<1>2. IInv /\ [Next]_vars => [Log!Next]_(Log!vars)
  BY StepSimulation
<1>3. QED
  BY <1>1, <1>2, Inductive, PTL DEF Spec, ImplementsLog

-----------------------------------------------------------------------------
(***************************************************************************)
(* Whatever I/O call fails, the writes and fsyncs of the live file         *)
(* included: what the file may lack, and what it may not.                  *)
(***************************************************************************)

(***************************************************************************)
(* Histories and their parts.                                              *)
(***************************************************************************)

\* Every element of s is in t, and s has them in the order of t.
Embeds(s, t) ==
  /\ \A i \in DOMAIN s : \E k \in DOMAIN t : t[k] = s[i]
  /\ \A i, j \in DOMAIN s : i < j =>
       \A k, l \in DOMAIN t : t[k] = s[i] /\ t[l] = s[j] => k < l

\* p is how s begins.
Begins(p, s) == Len(p) <= Len(s) /\ \A i \in 1 .. Len(p) : s[i] = p[i]

\* Append adds one element at the end.
LEMMA AppendFacts ==
  ASSUME NEW s \in Seq(Ops), NEW e \in Ops
  PROVE  /\ Append(s, e) \in Seq(Ops) /\ Append(s, e) # <<>>
         /\ Len(Append(s, e)) = Len(s) + 1 /\ Len(s) \in Nat
         /\ DOMAIN s = 1 .. Len(s) /\ DOMAIN Append(s, e) = 1 .. Len(s) + 1
         /\ \A i \in 1 .. Len(s) : Append(s, e)[i] = s[i]
         /\ Append(s, e)[Len(s) + 1] = e
         /\ Range(Append(s, e)) = Range(s) \cup {e}
<1>1. /\ Append(s, e) \in Seq(Ops) /\ Len(Append(s, e)) = Len(s) + 1
      /\ Append(s, e) # <<>>
      /\ \A i \in 1 .. Len(s) : Append(s, e)[i] = s[i]
      /\ Append(s, e)[Len(s) + 1] = e
  BY AppendProperties
<1>2. /\ DOMAIN s = 1 .. Len(s) /\ DOMAIN Append(s, e) = 1 .. Len(s) + 1
      /\ Len(s) \in Nat
  BY <1>1, LenProperties
<1>3. Range(Append(s, e)) = Range(s) \cup {e}
  BY <1>1, <1>2 DEF Range
<1>4. QED
  BY <1>1, <1>2, <1>3

\* A history without repetitions is a part of itself.
LEMMA EmbedsItself ==
  ASSUME NEW t \in Seq(Ops), IsInjective(t)
  PROVE  Embeds(t, t)
BY LenProperties DEF Embeds, IsInjective

\* A part stays one when the history grows by a new element.
LEMMA EmbedsInGrown ==
  ASSUME NEW s \in Seq(Ops), NEW t \in Seq(Ops), Embeds(s, t),
         NEW e \in Ops, e \notin Range(t)
  PROVE  Embeds(s, Append(t, e))
<1>1. \A i \in DOMAIN s : s[i] # e
  BY DEF Embeds, Range
<1>2. \A k \in DOMAIN t : k \in DOMAIN Append(t, e) /\ Append(t, e)[k] = t[k]
  BY AppendFacts
<1>3. \A k \in DOMAIN Append(t, e) :
        Append(t, e)[k] # e => k \in DOMAIN t /\ Append(t, e)[k] = t[k]
  BY AppendFacts
<1>4. \A i \in DOMAIN s : \E k \in DOMAIN Append(t, e) : Append(t, e)[k] = s[i]
  BY <1>2 DEF Embeds
<1>5. ASSUME NEW i \in DOMAIN s, NEW j \in DOMAIN s, i < j,
             NEW k \in DOMAIN Append(t, e), NEW l \in DOMAIN Append(t, e),
             Append(t, e)[k] = s[i], Append(t, e)[l] = s[j]
      PROVE  k < l
  BY <1>1, <1>3, <1>5 DEF Embeds
<1>6. QED
  BY <1>4, <1>5 DEF Embeds

\* A part may be continued with the last element of the history.
LEMMA EmbedsLast ==
  ASSUME NEW s \in Seq(Ops), NEW t \in Seq(Ops), Embeds(s, t), IsInjective(t),
         NEW e \in Ops, t # <<>>, t[Len(t)] = e, e \notin Range(s)
  PROVE  Embeds(Append(s, e), t)
<1>1. Len(t) \in DOMAIN t /\ DOMAIN t = 1 .. Len(t) /\ Len(t) \in Nat
  BY EmptySeq, LenProperties
<1>2. \A k \in DOMAIN t : t[k] = e => k = Len(t)
  BY <1>1 DEF IsInjective
<1>3. \A i \in DOMAIN s : Append(s, e)[i] = s[i] /\ s[i] # e
  BY AppendFacts DEF Range
<1>4. \A i \in DOMAIN Append(s, e) : i \in DOMAIN s \/ i = Len(s) + 1
  BY AppendFacts
<1>5. Append(s, e)[Len(s) + 1] = e
  BY AppendFacts
<1>6. \A i \in DOMAIN Append(s, e) : \E k \in DOMAIN t : t[k] = Append(s, e)[i]
  BY <1>1, <1>3, <1>4, <1>5 DEF Embeds
<1>7. ASSUME NEW i \in DOMAIN Append(s, e), NEW j \in DOMAIN Append(s, e), i < j,
             NEW k \in DOMAIN t, NEW l \in DOMAIN t,
             t[k] = Append(s, e)[i], t[l] = Append(s, e)[j]
      PROVE  k < l
  <2>1. i \in DOMAIN s
    BY <1>7, AppendFacts
  <2>2. CASE j \in DOMAIN s
    BY <1>3, <1>7, <2>1, <2>2 DEF Embeds
  <2>3. CASE j = Len(s) + 1
    <3>1. l = Len(t) /\ k # Len(t)
      BY <1>1, <1>2, <1>3, <1>5, <1>7, <2>1, <2>3
    <3>2. QED
      BY <1>1, <3>1
  <2>4. QED
    BY <1>4, <2>2, <2>3
<1>8. QED
  BY <1>6, <1>7 DEF Embeds

\* A part repeats nothing, and whoever is in it is in the history.
LEMMA EmbedsFacts ==
  ASSUME NEW s \in Seq(Ops), NEW t \in Seq(Ops), Embeds(s, t)
  PROVE  /\ IsInjective(s)
         /\ Range(s) \subseteq Range(t)
         /\ \A a, b \in Ops : Before(s, a, b) => Before(t, a, b)
<1>1. DOMAIN s = 1 .. Len(s) /\ Len(s) \in Nat /\ DOMAIN t = 1 .. Len(t) /\ Len(t) \in Nat
  BY LenProperties
<1>2. ASSUME NEW i \in DOMAIN s, NEW j \in DOMAIN s, i < j
      PROVE  s[i] # s[j]
  <2>1. PICK k \in DOMAIN t : t[k] = s[i]
    BY DEF Embeds
  <2>2. s[i] = s[j] => k < k
    BY <1>2, <2>1 DEF Embeds
  <2>3. QED
    BY <1>1, <2>2
<1>3. IsInjective(s)
  BY <1>1, <1>2 DEF IsInjective
<1>4. Range(s) \subseteq Range(t)
  BY DEF Embeds, Range
<1>5. ASSUME NEW a \in Ops, NEW b \in Ops, Before(s, a, b)
      PROVE  Before(t, a, b)
  <2>1. PICK i \in DOMAIN s, j \in DOMAIN s : i < j /\ s[i] = a /\ s[j] = b
    BY <1>5 DEF Before
  <2>2. PICK k \in DOMAIN t, l \in DOMAIN t : t[k] = a /\ t[l] = b
    BY <2>1 DEF Embeds
  <2>3. k < l
    BY <2>1, <2>2 DEF Embeds
  <2>4. QED
    BY <2>2, <2>3 DEF Before
<1>6. QED
  BY <1>3, <1>4, <1>5

\* A history grows by a new element without repeating itself.
LEMMA GrowsInjective ==
  ASSUME NEW s \in Seq(Ops), IsInjective(s), NEW e \in Ops, e \notin Range(s),
         NEW t, t = Append(s, e)
  PROVE  IsInjective(t)
<1>1. \A i \in DOMAIN s : s[i] # e
  BY DEF Range
<1>2. \A i \in DOMAIN t : (i \in DOMAIN s /\ t[i] = s[i]) \/ (i = Len(s) + 1 /\ t[i] = e)
  BY AppendFacts
<1>3. QED
  BY <1>1, <1>2 DEF IsInjective

-----------------------------------------------------------------------------
(***************************************************************************)
(* The inductive invariant.                                                *)
(***************************************************************************)

\* The logs that agree with memory: what they hold memory has executed, in that
\* order, and they lack the command that is executed and not yet logged.
Logs ==
  {s \in Seq(Ops) :
     /\ Embeds(s, store)
     /\ \A c \in Clients : cpc[c] = "mutated" => req[c] \notin Range(s)}

\* No command is issued twice, and what is stored or logged was issued.
IssuedOnce ==
  /\ \A c \in Clients : cpc[c] # "idle" => req[c] \in issued
  /\ \A c, d \in Clients : cpc[c] # "idle" /\ cpc[d] # "idle" /\ c # d => req[c] # req[d]
  /\ Range(store) \cup Range(file) \subseteq issued

\* Memory executes no command twice, and the last one it executed is that of the
\* client that is inside its handler.
MemoryOnce ==
  /\ IsInjective(store)
  /\ \A c \in Clients : cpc[c] = "waiting" => req[c] \notin Range(store)
  /\ \A c \in Clients : cpc[c] = "mutated" => store # <<>> /\ store[Len(store)] = req[c]

\* The file agrees with memory.
FileOnce ==
  /\ IsInjective(file)
  /\ Running => file \in Logs
  /\ ~Running => \A c \in Clients : cpc[c] = "idle"

\* What a rewrite is going to put in place of the file: the snapshot and what has
\* been mirrored since, then the temporary file.
Successor(r) == IF rpc[r] \in {"snapped", "dumped"} THEN snap[r] \o rewriteBuf ELSE tmp

\* It agrees with memory and has everything that was answered.
Prepares(r) ==
  /\ rpc[r] \in {"snapped", "dumped", "merged", "tmpsynced", "closed"} =>
       Successor(r) \in Logs /\ acked \cap CheckedOps \subseteq Range(Successor(r))
  /\ rpc[r] = "dumped" => tmp = snap[r]
  /\ rpc[r] \in {"merged", "tmpsynced", "closed"} => Begins(snap[r], tmp)
  /\ rpc[r] = "renamed" => Begins(snap[r], file)

\* What was answered is in the file, and what was promised is in its fsynced part.
Kept ==
  /\ durable \subseteq acked
  /\ acked \cap CheckedOps \subseteq Range(file)
  /\ \A o \in durable \cap CheckedOps : \E i \in 1 .. synced : file[i] = o

Agreement == IssuedOnce /\ MemoryOnce /\ FileOnce

FaultInv == Agreement /\ (\A r \in Rewriters : Prepares(r)) /\ Kept

-----------------------------------------------------------------------------
(***************************************************************************)
(* Steps of a connection goroutine.                                        *)
(***************************************************************************)

\* While a process runs, a log that agrees with memory goes on doing so.
LEMMA ClientLogs ==
  ASSUME TypeOK, Exclusion, IssuedOnce, MemoryOnce, NEW c \in Clients, Client(c)
  PROVE  Logs \subseteq Logs'
<1> SUFFICES ASSUME NEW s \in Logs PROVE s \in Logs'
  OBVIOUS
<1>1. /\ s \in Seq(Ops) /\ Embeds(s, store)
      /\ \A d \in Clients : cpc[d] = "mutated" => req[d] \notin Range(s)
  BY DEF Logs
<1>2. CASE Mutate(c)
  <2>1. /\ cpc[c] = "waiting" /\ req[c] \in Ops /\ store' = Append(store, req[c])
        /\ \A d \in Clients : d # c => cpc'[d] = cpc[d]
        /\ req' = req /\ store \in Seq(Ops)
    BY <1>2 DEF Mutate, TypeOK
  <2>2. req[c] \notin Range(store)
    BY <2>1 DEF MemoryOnce
  <2>3. Embeds(s, store')
    BY <1>1, <2>1, <2>2, EmbedsInGrown
  <2>4. req[c] \notin Range(s)
    BY <1>1, <2>1, <2>2, EmbedsFacts
  <2>5. QED
    BY <1>1, <2>1, <2>3, <2>4 DEF Logs
<1>3. CASE ~Mutate(c)
  <2>1. /\ store' = store
        /\ \A d \in Clients : cpc'[d] = "mutated" => cpc[d] = "mutated" /\ req'[d] = req[d]
    BY <1>3 DEF TypeOK, Client, Receive, MutateRejected, LogSucceeds, LogFlushFails,
       LogFsyncFails, UnlockAndReply
  <2>2. QED
    BY <1>1, <2>1 DEF Logs
<1>4. QED
  BY <1>2, <1>3

\* Logging the command makes the log agree with memory after it.
LEMMA LoggedLogs ==
  ASSUME TypeOK, Exclusion, MemoryOnce, NEW c \in Clients, cpc[c] = "mutated",
         store' = store, cpc' = [cpc EXCEPT ![c] = "idle"],
         req' = [req EXCEPT ![c] = None],
         NEW s \in Logs
  PROVE  Append(s, req[c]) \in Logs'
<1>1. /\ s \in Seq(Ops) /\ Embeds(s, store) /\ req[c] \notin Range(s)
      /\ req[c] \in Ops /\ store \in Seq(Ops)
  BY DEF Logs, TypeOK
<1>2. IsInjective(store) /\ store # <<>> /\ store[Len(store)] = req[c]
  BY DEF MemoryOnce
<1>3. Embeds(Append(s, req[c]), store)
  BY <1>1, <1>2, EmbedsLast
<1>4. Append(s, req[c]) \in Seq(Ops)
  BY <1>1, AppendFacts
<1>5. \A d \in Clients : cpc'[d] # "mutated"
  <2>1. \A d \in Clients : cpc[d] = "mutated" => d = c
    BY DEF Exclusion, LockInv
  <2>2. QED
    BY <2>1 DEF TypeOK
<1>6. QED
  BY <1>3, <1>4, <1>5 DEF Logs

\* Handlers log what memory executes, or nothing.
LEMMA ClientAgreement ==
  ASSUME TypeOK, Exclusion, Agreement, NEW c \in Clients, Client(c)
  PROVE  Agreement'
<1> USE DEF Agreement
<1>1. Running /\ Running'
  BY DEF Client, Receive, MutateRejected, Mutate, LogSucceeds, LogFlushFails,
     LogFsyncFails, Running, runVars
<1>2. file \in Logs /\ file \in Seq(Ops) /\ store \in Seq(Ops) /\ Logs \subseteq Logs'
  BY <1>1, ClientLogs DEF FileOnce, TypeOK
<1>3. /\ \A d \in Clients : d # c => cpc'[d] = cpc[d] /\ req'[d] = req[d]
      /\ \A d \in Clients : cpc[d] \in ClientSteps
  BY DEF TypeOK, Client, Receive, MutateRejected, Mutate, LogSucceeds, LogFlushFails,
     LogFsyncFails, UnlockAndReply
<1>4. CASE \E o \in Ops : Receive(c, o)
  <2>1. PICK o \in Ops : Receive(c, o)
    BY <1>4
  <2>2. /\ cpc[c] = "idle" /\ o \notin issued /\ issued' = issued \cup {o}
        /\ cpc'[c] = "waiting" /\ req'[c] = o /\ store' = store /\ file' = file
    BY <2>1 DEF Receive, fileVars, TypeOK
  <2>3. IssuedOnce'
    BY <1>3, <2>2 DEF IssuedOnce
  <2>4. MemoryOnce'
    BY <1>3, <2>2 DEF IssuedOnce, MemoryOnce
  <2>5. FileOnce'
    BY <1>1, <1>2, <2>2 DEF FileOnce
  <2>6. QED
    BY <2>3, <2>4, <2>5
<1>5. CASE Mutate(c)
  <2>1. /\ cpc[c] = "waiting" /\ cpc'[c] = "mutated" /\ req' = req /\ req[c] \in Ops
        /\ issued' = issued /\ store' = Append(store, req[c]) /\ file' = file
    BY <1>5 DEF Mutate, fileVars, TypeOK
  <2>2. req[c] \notin Range(store) /\ req[c] \in issued
    BY <2>1 DEF IssuedOnce, MemoryOnce
  <2>3. /\ Range(store') = Range(store) \cup {req[c]} /\ store' # <<>>
        /\ store'[Len(store')] = req[c]
    BY <1>2, <2>1, AppendFacts
  <2>4. IssuedOnce'
    BY <1>3, <2>1, <2>2, <2>3 DEF IssuedOnce
  <2>5. \A d \in Clients : d # c => cpc'[d] # "mutated"
    BY <1>3, <1>5, ConstantsAssumption DEF Mutate, Exclusion, LockInv
  <2>6. IsInjective(store')
    BY <1>2, <2>1, <2>2, GrowsInjective DEF MemoryOnce
  <2>7. \A d \in Clients : cpc'[d] = "waiting" => req'[d] \notin Range(store')
    BY <1>3, <2>1, <2>3 DEF IssuedOnce, MemoryOnce
  <2>8. MemoryOnce'
    BY <2>1, <2>3, <2>5, <2>6, <2>7 DEF MemoryOnce
  <2>9. FileOnce'
    BY <1>1, <1>2, <2>1 DEF FileOnce
  <2>10. QED
    BY <2>4, <2>8, <2>9
<1>6. CASE MutateRejected(c) \/ LogFlushFails(c)
  <2>1. /\ cpc'[c] = "idle" /\ issued' = issued /\ store' = store /\ file' = file
    BY <1>6 DEF MutateRejected, LogFlushFails, UnlockAndReply, fileVars, TypeOK
  <2>2. IssuedOnce'
    BY <1>3, <2>1 DEF IssuedOnce
  <2>3. MemoryOnce'
    BY <1>3, <2>1 DEF MemoryOnce
  <2>4. FileOnce'
    BY <1>1, <1>2, <2>1 DEF FileOnce
  <2>5. QED
    BY <2>2, <2>3, <2>4
<1>7. CASE LogSucceeds(c) \/ LogFsyncFails(c)
  <2>1. /\ cpc[c] = "mutated" /\ cpc' = [cpc EXCEPT ![c] = "idle"]
        /\ req' = [req EXCEPT ![c] = None] /\ req[c] \in Ops
        /\ issued' = issued /\ store' = store /\ file' = Append(file, req[c])
    BY <1>7 DEF LogSucceeds, LogFsyncFails, UnlockAndReply, TypeOK
  <2>2. file' \in Logs'
    BY <1>2, <2>1, LoggedLogs
  <2>3. cpc'[c] = "idle"
    BY <2>1 DEF TypeOK
  <2>4. /\ Range(file') = Range(file) \cup {req[c]} /\ req[c] \in issued
        /\ req[c] \notin Range(file)
    BY <1>2, <2>1, AppendFacts DEF IssuedOnce, Logs
  <2>5. IssuedOnce'
    BY <1>3, <2>1, <2>3, <2>4 DEF IssuedOnce
  <2>6. MemoryOnce'
    BY <1>3, <2>1, <2>3 DEF MemoryOnce
  <2>7. IsInjective(file')
    BY <1>2, <2>1, <2>4, GrowsInjective DEF FileOnce
  <2>8. QED
    BY <1>1, <2>1, <2>2, <2>5, <2>6, <2>7 DEF FileOnce
<1>8. QED
  BY <1>4, <1>5, <1>6, <1>7 DEF Client

\* Handlers answer what they have logged: in the file, and for the rewrite that is
\* going to replace it.
LEMMA ClientPrepares ==
  ASSUME TypeOK, Exclusion, Agreement, NEW c \in Clients, Client(c),
         NEW r \in Rewriters, Prepares(r)
  PROVE  Prepares(r)'
<1>1. UNCHANGED <<rpc, snap, tmp, rewriting>>
  BY DEF Client, Receive, MutateRejected, Mutate, LogSucceeds, LogFlushFails,
     LogFsyncFails, fileVars, rewriteVars
<1>2. Logs \subseteq Logs'
  BY ClientLogs DEF Agreement
<1>3. cpc[c] = "mutated" => rpc[r] \notin HoldingMu
  BY ConstantsAssumption DEF Exclusion, LockInv
<1>4. CASE LogSucceeds(c)
  <2>1. /\ cpc[c] = "mutated" /\ cpc' = [cpc EXCEPT ![c] = "idle"]
        /\ req' = [req EXCEPT ![c] = None] /\ store' = store /\ req[c] \in Ops
        /\ acked' = acked \cup {req[c]}
        /\ rewriteBuf' = IF rewriting THEN Append(rewriteBuf, req[c]) ELSE rewriteBuf
    BY <1>4 DEF LogSucceeds, UnlockAndReply, TypeOK
  <2>2. CASE rpc[r] \in {"snapped", "dumped"}
    <3>1. rewriting
      BY <2>2 DEF Exclusion, BufferingEnds
    <3>2. /\ Successor(r) = snap[r] \o rewriteBuf
          /\ Successor(r)' = snap[r] \o Append(rewriteBuf, req[c])
      BY <1>1, <2>1, <2>2, <3>1 DEF Successor
    <3>3. snap[r] \in Seq(Ops) /\ rewriteBuf \in Seq(Ops)
      BY DEF TypeOK
    <3>4. Successor(r)' = Append(Successor(r), req[c]) /\ Successor(r) \in Seq(Ops)
      BY <2>1, <3>2, <3>3, ConcatAppend, ConcatProperties
    <3>5. Successor(r) \in Logs /\ acked \cap CheckedOps \subseteq Range(Successor(r))
      BY <2>2 DEF Prepares
    <3>6. Successor(r)' \in Logs'
      BY <2>1, <3>4, <3>5, LoggedLogs DEF Agreement
    <3>7. Range(Successor(r)') = Range(Successor(r)) \cup {req[c]}
      BY <2>1, <3>4, AppendFacts
    <3>8. acked' \cap CheckedOps \subseteq Range(Successor(r)')
      BY <2>1, <3>5, <3>7
    <3>9. QED
      BY <1>1, <2>2, <3>6, <3>8 DEF Prepares
  <2>3. CASE rpc[r] \notin {"snapped", "dumped"}
    BY <1>1, <1>3, <2>1, <2>3 DEF Prepares, HoldingMu
  <2>4. QED
    BY <2>2, <2>3
<1>5. CASE ~LogSucceeds(c)
  <2>1. /\ UNCHANGED rewriteBuf
        /\ acked' \cap CheckedOps = acked \cap CheckedOps
        /\ file' = file \/ cpc[c] = "mutated"
    BY <1>5, ConstantsAssumption
    DEF Client, Receive, MutateRejected, Mutate, LogFlushFails, LogFsyncFails,
        UnlockAndReply, fileVars, rewriteVars, Ops
  <2>2. Successor(r)' = Successor(r)
    BY <1>1, <2>1 DEF Successor
  <2>3. rpc[r] = "renamed" => file' = file
    BY <1>3, <2>1 DEF HoldingMu
  <2>4. QED
    BY <1>1, <1>2, <2>1, <2>2, <2>3 DEF Prepares
<1>6. QED
  BY <1>4, <1>5

\* Handlers answer with success what they have logged, or what they do not check.
LEMMA ClientKept ==
  ASSUME TypeOK, Kept, NEW c \in Clients, Client(c)
  PROVE  Kept'
<1>1. file \in Seq(Ops) /\ DOMAIN file = 1 .. Len(file) /\ Len(file) \in Nat /\ synced \in 0 .. Len(file)
  BY LenProperties DEF TypeOK
<1>2. CASE LogSucceeds(c) \/ LogFsyncFails(c)
  <2>1. /\ file' = Append(file, req[c]) /\ req[c] \in Ops
        /\ \/ durable' = durable /\ synced' = synced
           \/ durable' = durable \cup {req[c]} /\ synced' = Len(file) + 1
        /\ acked' \in {acked, acked \cup {req[c]}}
        /\ durable' \subseteq acked'
    BY <1>2 DEF LogSucceeds, LogFsyncFails, UnlockAndReply, TypeOK, Kept
  <2>2. /\ Range(file') = Range(file) \cup {req[c]}
        /\ \A i \in 1 .. Len(file) : file'[i] = file[i]
        /\ file'[Len(file) + 1] = req[c]
    BY <1>1, <2>1, AppendFacts
  <2>3. acked' \cap CheckedOps \subseteq Range(file')
    BY <2>1, <2>2 DEF Kept
  <2>4. \A o \in durable' \cap CheckedOps : \E i \in 1 .. synced' : file'[i] = o
    <3>1. ASSUME NEW o \in durable \cap CheckedOps
          PROVE  \E i \in 1 .. synced' : file'[i] = o
      <4>1. PICK i \in 1 .. synced : file[i] = o
        BY DEF Kept
      <4>2. i \in 1 .. synced' /\ i \in 1 .. Len(file)
        BY <1>1, <2>1
      <4>3. QED
        BY <2>2, <4>1, <4>2
    <3>2. CASE synced' = Len(file) + 1
      BY <1>1, <2>1, <2>2, <3>1, <3>2
    <3>3. QED
      BY <2>1, <3>1, <3>2
  <2>5. QED
    BY <2>1, <2>3, <2>4 DEF Kept
<1>3. CASE ~(LogSucceeds(c) \/ LogFsyncFails(c))
  <2>1. /\ UNCHANGED <<file, synced, durable>> /\ acked \subseteq acked'
        /\ acked' \cap CheckedOps = acked \cap CheckedOps
    BY <1>3, ConstantsAssumption
    DEF Client, Receive, MutateRejected, Mutate, LogFlushFails, UnlockAndReply,
        fileVars, Ops
  <2>2. QED
    BY <2>1 DEF Kept
<1>4. QED
  BY <1>2, <1>3

-----------------------------------------------------------------------------
(***************************************************************************)
(* Steps of a rewrite.                                                     *)
(***************************************************************************)

\* What a step of Rewrite leaves alone.
LEMMA RewriteFrame ==
  ASSUME TypeOK, NEW r \in Rewriters, Rewrite(r)
  PROVE  /\ UNCHANGED <<store, cpc, req, issued, acked, durable, phase>>
         /\ \A s \in Rewriters : s # r => rpc'[s] = rpc[s] /\ snap'[s] = snap[s]
         /\ Logs' = Logs /\ Running
         /\ ~RewriteRename(r) => UNCHANGED <<file, synced>>
<1> USE DEF At, Goto, Abandon, fileVars, rewriteVars, clientVars, runVars
<1>1. /\ UNCHANGED <<store, cpc, req, issued, acked, durable, phase>> /\ Running
      /\ ~RewriteRename(r) => UNCHANGED <<file, synced>>
  BY DEF Rewrite, CallRewrite, RewriteRefused, RewriteEnter, RewriteSnapshot, RewriteDump,
         RewriteDumpFails, RewriteMerge, RewriteMergeFails, RewriteTmpSync,
         RewriteTmpSyncFails, RewriteCloseLive, RewriteCloseLiveFails, RewriteRename,
         RewriteRenameFails, RewriteReopen, RewriteReopenFails, RewriteCleanup,
         RewriteExit
<1>2. \A s \in Rewriters : s # r => rpc'[s] = rpc[s] /\ snap'[s] = snap[s]
  BY DEF TypeOK, Rewrite, CallRewrite, RewriteRefused, RewriteEnter, RewriteSnapshot,
         RewriteDump, RewriteDumpFails, RewriteMerge, RewriteMergeFails, RewriteTmpSync,
         RewriteTmpSyncFails, RewriteCloseLive, RewriteCloseLiveFails, RewriteRename,
         RewriteRenameFails, RewriteReopen, RewriteReopenFails, RewriteCleanup,
         RewriteExit
<1>3. Logs' = Logs
  BY <1>1 DEF Logs
<1>4. QED
  BY <1>1, <1>2, <1>3

\* What a rewrite puts in place of the file agrees with memory.
LEMMA RewriteAgreement ==
  ASSUME TypeOK, Agreement, NEW r \in Rewriters, Prepares(r), Rewrite(r)
  PROVE  Agreement'
<1>1. /\ UNCHANGED <<store, cpc, req, issued, phase>> /\ Logs' = Logs /\ Running
  BY RewriteFrame
<1>2. MemoryOnce'
  BY <1>1 DEF Agreement, MemoryOnce
<1>3. CASE RewriteRename(r)
  <2>1. rpc[r] = "closed" /\ file' = tmp
    BY <1>3 DEF RewriteRename, At
  <2>2. tmp \in Logs
    BY <2>1 DEF Prepares, Successor
  <2>3. IsInjective(tmp) /\ Range(tmp) \subseteq Range(store)
    BY <2>2, EmbedsFacts DEF Logs, TypeOK
  <2>4. IssuedOnce'
    BY <1>1, <2>1, <2>3 DEF Agreement, IssuedOnce
  <2>5. FileOnce'
    BY <1>1, <2>1, <2>2, <2>3 DEF FileOnce, Running
  <2>6. QED
    BY <1>2, <2>4, <2>5 DEF Agreement
<1>4. CASE ~RewriteRename(r)
  <2>1. file' = file
    BY <1>4, RewriteFrame
  <2>2. QED
    BY <1>1, <1>2, <2>1 DEF Agreement, IssuedOnce, FileOnce, Running
<1>5. QED
  BY <1>3, <1>4

\* The replacement has what was answered, and so has the fsynced part of the file.
LEMMA RewriteKept ==
  ASSUME TypeOK, Kept, NEW r \in Rewriters, Prepares(r), Rewrite(r)
  PROVE  Kept'
<1>1. UNCHANGED <<acked, durable>>
  BY RewriteFrame
<1>2. CASE RewriteRename(r)
  <2>1. rpc[r] = "closed" /\ file' = tmp /\ synced' = Len(tmp)
    BY <1>2 DEF RewriteRename, At
  <2>2. acked \cap CheckedOps \subseteq Range(tmp)
    BY <2>1 DEF Prepares, Successor
  <2>3. DOMAIN tmp = 1 .. Len(tmp)
    BY LenProperties DEF TypeOK
  <2>4. \A o \in durable \cap CheckedOps : \E i \in 1 .. Len(tmp) : tmp[i] = o
    BY <2>2, <2>3 DEF Kept, Range
  <2>5. QED
    BY <1>1, <2>1, <2>2, <2>4 DEF Kept
<1>3. CASE ~RewriteRename(r)
  BY <1>1, <1>3, RewriteFrame DEF Kept
<1>4. QED
  BY <1>2, <1>3


\* The snapshot is memory, the temporary file the snapshot, with what was mirrored.
LEMMA RewritePrepares ==
  ASSUME TypeOK, Exclusion, Agreement, Kept,
         NEW r \in Rewriters, Prepares(r), Rewrite(r)
  PROVE  Prepares(r)'
<1> USE DEF At, Goto, Abandon
<1>1. UNCHANGED <<store, cpc, req, acked>> /\ Logs' = Logs /\ Running
  BY RewriteFrame
<1>2. snap[r] \in Seq(Ops) /\ rewriteBuf \in Seq(Ops) /\ store \in Seq(Ops) /\ file \in Seq(Ops)
  BY DEF TypeOK
<1>3. CASE RewriteSnapshot(r)
  <2>1. /\ rpc'[r] = "snapped" /\ snap'[r] = store /\ rewriteBuf' = <<>> /\ mu = None
    BY <1>3 DEF RewriteSnapshot, TypeOK
  <2>2. Successor(r)' = store
    BY <1>2, <2>1, ConcatEmptySeq DEF Successor
  <2>3. \A c \in Clients : cpc[c] # "mutated"
    BY <2>1, ConstantsAssumption DEF Exclusion, LockInv
  <2>4. store \in Logs
    BY <1>2, <2>3, EmbedsItself DEF Logs, Agreement, MemoryOnce
  <2>5. Range(file) \subseteq Range(store)
    BY <1>1, <1>2, EmbedsFacts DEF Agreement, FileOnce, Logs
  <2>6. acked \cap CheckedOps \subseteq Range(store)
    BY <2>5 DEF Kept
  <2>7. QED
    BY <1>1, <2>1, <2>2, <2>4, <2>6 DEF Prepares
<1>4. CASE RewriteDump(r)
  <2>1. /\ rpc[r] = "snapped" /\ rpc'[r] = "dumped" /\ snap' = snap /\ tmp' = snap[r]
        /\ UNCHANGED rewriteBuf
    BY <1>4 DEF RewriteDump, TypeOK
  <2>2. Successor(r)' = Successor(r)
    BY <2>1 DEF Successor
  <2>3. QED
    BY <1>1, <2>1, <2>2 DEF Prepares
<1>5. CASE RewriteMerge(r)
  <2>1. /\ rpc[r] = "dumped" /\ rpc'[r] = "merged" /\ snap' = snap
        /\ tmp' = tmp \o rewriteBuf
    BY <1>5 DEF RewriteMerge, TypeOK
  <2>2. tmp = snap[r]
    BY <2>1 DEF Prepares
  <2>3. Successor(r)' = Successor(r)
    BY <2>1, <2>2 DEF Successor
  <2>4. Begins(snap[r], tmp')
    BY <1>2, <2>1, <2>2, ConcatProperties, LenProperties DEF Begins
  <2>5. QED
    BY <1>1, <2>1, <2>3, <2>4 DEF Prepares
<1>6. CASE RewriteTmpSync(r) \/ RewriteCloseLive(r)
  <2>1. /\ rpc[r] \in {"merged", "tmpsynced"} /\ rpc'[r] \in {"tmpsynced", "closed"}
        /\ UNCHANGED <<snap, tmp>>
    BY <1>6 DEF RewriteTmpSync, RewriteCloseLive, TypeOK, fileVars
  <2>2. Successor(r)' = Successor(r)
    BY <2>1 DEF Successor
  <2>3. QED
    BY <1>1, <2>1, <2>2 DEF Prepares
<1>7. CASE RewriteRename(r)
  <2>1. /\ rpc[r] = "closed" /\ rpc'[r] = "renamed" /\ snap' = snap /\ file' = tmp
    BY <1>7 DEF RewriteRename, TypeOK
  <2>2. QED
    BY <2>1 DEF Prepares
<1>8. CASE ~(\/ RewriteSnapshot(r) \/ RewriteDump(r) \/ RewriteMerge(r)
             \/ RewriteTmpSync(r) \/ RewriteCloseLive(r) \/ RewriteRename(r))
  <2>1. rpc'[r] \in {"idle", "called", "entered", "failed", "done"}
    BY <1>8 DEF TypeOK, Rewrite, CallRewrite, RewriteRefused, RewriteEnter,
         RewriteDumpFails, RewriteMergeFails, RewriteTmpSyncFails,
         RewriteCloseLiveFails, RewriteRenameFails, RewriteReopen,
         RewriteReopenFails, RewriteCleanup, RewriteExit
  <2>2. QED
    BY <2>1 DEF Prepares
<1>9. QED
  BY <1>3, <1>4, <1>5, <1>6, <1>7, <1>8

\* A rewrite that another one's step finds in progress is undisturbed.
LEMMA OthersPrepare ==
  ASSUME TypeOK, Exclusion, NEW r \in Rewriters, Rewrite(r),
         NEW s \in Rewriters, s # r, Prepares(s)
  PROVE  Prepares(s)'
<1> USE DEF At, Goto, Abandon
<1>1. /\ rpc'[s] = rpc[s] /\ snap'[s] = snap[s] /\ acked' = acked /\ Logs' = Logs
  BY RewriteFrame
<1>2. CASE rpc[r] \in InRewrite
  <2>1. rpc[s] \notin InRewrite
    BY <1>2, OthersOutside
  <2>2. QED
    BY <1>1, <2>1 DEF Prepares, InRewrite, RewriterSteps
<1>3. CASE rpc[r] \notin InRewrite
  <2>1. UNCHANGED <<file, tmp, rewriteBuf>>
    BY <1>3 DEF InRewrite, RewriterSteps, fileVars,
         Rewrite, CallRewrite, RewriteRefused, RewriteEnter, RewriteSnapshot, RewriteDump,
         RewriteDumpFails, RewriteMerge, RewriteMergeFails, RewriteTmpSync,
         RewriteTmpSyncFails, RewriteCloseLive, RewriteCloseLiveFails, RewriteRename,
         RewriteRenameFails, RewriteReopen, RewriteReopenFails, RewriteCleanup,
         RewriteExit
  <2>2. Successor(s)' = Successor(s)
    BY <1>1, <2>1 DEF Successor
  <2>3. QED
    BY <1>1, <2>1, <2>2 DEF Prepares
<1>4. QED
  BY <1>2, <1>3

-----------------------------------------------------------------------------
(***************************************************************************)
(* Background fsync, the end of a process and its restart.                 *)
(***************************************************************************)

\* An fsync promises what was answered.
LEMMA SyncInv ==
  ASSUME TypeOK, FaultInv, FsyncTick \/ ShutdownSync
  PROVE  FaultInv'
<1>1. /\ UNCHANGED <<store, file, tmp, rewriteBuf, rpc, snap, cpc, req, issued, acked>>
      /\ Running /\ Running' /\ Logs' = Logs
  BY DEF FsyncTick, ShutdownSync, Running, Logs, rewriteVars, clientVars, runVars
<1>2. Agreement'
  BY <1>1 DEF FaultInv, Agreement, IssuedOnce, MemoryOnce, FileOnce
<1>3. \A r \in Rewriters : Prepares(r)'
  BY <1>1 DEF FaultInv, Prepares, Successor
<1>4. Kept'
  <2>1. CASE UNCHANGED <<synced, durable>>
    BY <1>1, <2>1 DEF FaultInv, Kept
  <2>2. CASE synced' = Len(file) /\ durable' = durable \cup acked
    <3>1. DOMAIN file = 1 .. Len(file)
      BY LenProperties DEF TypeOK
    <3>2. durable' = acked
      BY <2>2 DEF FaultInv, Kept
    <3>3. \A o \in acked \cap CheckedOps : \E i \in 1 .. Len(file) : file[i] = o
      BY <3>1 DEF FaultInv, Kept, Range
    <3>4. QED
      BY <1>1, <2>2, <3>2, <3>3 DEF FaultInv, Kept
  <2>3. QED
    BY <2>1, <2>2 DEF FsyncTick, ShutdownSync, SyncFile
<1>5. QED
  BY <1>2, <1>3, <1>4 DEF FaultInv

\* A process that dies takes its memory along, and a power loss the part of the
\* file that was not fsynced.
LEMMA DeathInv ==
  ASSUME TypeOK, FaultInv, Crash \/ Exit \/ PowerLoss
  PROVE  FaultInv'
<1>1. /\ store' = <<>> /\ issued' = issued /\ ~Running' /\ durable' = durable
      /\ \A c \in Clients : cpc'[c] = "idle"
      /\ \A r \in Rewriters : rpc'[r] = "idle"
  BY DEF Crash, Exit, PowerLoss, Die, LoseMemory, Running
<1>2. \A r \in Rewriters : Prepares(r)'
  BY <1>1 DEF Prepares
<1>3. MemoryOnce' /\ Range(store') = {}
  BY <1>1 DEF MemoryOnce, IsInjective, Range
<1>4. file \in Seq(Ops) /\ DOMAIN file = 1 .. Len(file) /\ Len(file) \in Nat
      /\ synced \in 0 .. Len(file)
  BY LenProperties DEF TypeOK
<1>5. CASE Crash \/ Exit
  <2>1. UNCHANGED <<file, synced, acked>>
    BY <1>5 DEF Crash, Exit, Die, fileVars
  <2>2. IssuedOnce'
    BY <1>1, <1>3, <2>1 DEF FaultInv, Agreement, IssuedOnce
  <2>3. FileOnce'
    BY <1>1, <2>1 DEF FaultInv, Agreement, FileOnce
  <2>4. Kept'
    BY <1>1, <2>1 DEF FaultInv, Kept
  <2>5. QED
    BY <1>2, <1>3, <2>2, <2>3, <2>4 DEF FaultInv, Agreement
<1>6. CASE PowerLoss
  <2>1. PICK n \in synced .. Len(file) : file' = SubSeq(file, 1, n) /\ synced' = n
    BY <1>6 DEF PowerLoss
  <2>2. /\ file' \in Seq(Ops) /\ Len(file') = n /\ DOMAIN file' = 1 .. n
        /\ \A i \in 1 .. n : file'[i] = file[i] /\ i \in DOMAIN file
    <3>1. /\ file' \in Seq(Ops) /\ Len(file') = n
          /\ \A i \in 1 .. n : file'[i] = file[i] /\ i \in DOMAIN file
      BY <1>4, <2>1, SubSeqProperties
    <3>2. QED
      BY <3>1, LenProperties
  <2>3. acked' = durable
    BY <1>6 DEF PowerLoss
  <2>4. Range(file') \subseteq Range(file)
    BY <2>2 DEF Range
  <2>5. IssuedOnce'
    BY <1>1, <1>3, <2>4 DEF FaultInv, Agreement, IssuedOnce
  <2>6. IsInjective(file')
    BY <2>2 DEF FaultInv, Agreement, FileOnce, IsInjective
  <2>7. \A o \in durable \cap CheckedOps : \E i \in 1 .. n : file'[i] = o
    <3>1. \A i \in 1 .. synced : i \in 1 .. n
      BY <1>4
    <3>2. QED
      BY <2>2, <3>1 DEF FaultInv, Kept
  <2>8. durable \cap CheckedOps \subseteq Range(file')
    BY <2>2, <2>7 DEF Range
  <2>9. Kept'
    BY <1>1, <2>1, <2>3, <2>7, <2>8 DEF Kept
  <2>10. FileOnce'
    BY <1>1, <2>6 DEF FileOnce
  <2>11. QED
    BY <1>2, <1>3, <2>5, <2>9, <2>10 DEF FaultInv, Agreement
<1>7. QED
  BY <1>5, <1>6

\* A restarted process remembers what the file says.
LEMMA RecoverInv ==
  ASSUME TypeOK, Quiet, FaultInv, Recover
  PROVE  FaultInv'
<1>1. /\ store' = file /\ ~Running
      /\ UNCHANGED <<file, synced, rpc, cpc, req, issued, acked, durable>>
  BY DEF Recover, fileVars, rewriteVars, clientVars
<1>2. /\ \A c \in Clients : cpc[c] = "idle"
      /\ \A r \in Rewriters : rpc[r] = "idle"
      /\ IsInjective(file) /\ file \in Seq(Ops)
  BY <1>1 DEF FaultInv, Agreement, FileOnce, Quiet, TypeOK
<1>3. file \in Logs'
  BY <1>1, <1>2, EmbedsItself DEF Logs
<1>4. IssuedOnce'
  BY <1>1 DEF FaultInv, Agreement, IssuedOnce
<1>5. MemoryOnce'
  BY <1>1, <1>2 DEF MemoryOnce
<1>6. FileOnce'
  BY <1>1, <1>2, <1>3 DEF FileOnce
<1>7. \A r \in Rewriters : Prepares(r)'
  BY <1>1, <1>2 DEF Prepares
<1>8. Kept'
  BY <1>1 DEF FaultInv, Kept
<1>9. QED
  BY <1>4, <1>5, <1>6, <1>7, <1>8 DEF FaultInv, Agreement

-----------------------------------------------------------------------------
(***************************************************************************)
(* The theorems.                                                           *)
(***************************************************************************)

\* Every step keeps the file a part of memory's history that has every answer.
LEMMA FaultStep ==
  ASSUME TypeOK, Exclusion, Quiet, FaultInv, [Next]_vars
  PROVE  FaultInv'
<1>1. ASSUME NEW c \in Clients, Client(c)
      PROVE  FaultInv'
  <2>1. Agreement'
    BY <1>1, ClientAgreement DEF FaultInv
  <2>2. \A r \in Rewriters : Prepares(r)'
    BY <1>1, ClientPrepares DEF FaultInv
  <2>3. Kept'
    BY <1>1, ClientKept DEF FaultInv
  <2>4. QED
    BY <2>1, <2>2, <2>3 DEF FaultInv
<1>2. ASSUME NEW r \in Rewriters, Rewrite(r)
      PROVE  FaultInv'
  <2>1. Agreement'
    BY <1>2, RewriteAgreement DEF FaultInv
  <2>2. Prepares(r)'
    BY <1>2, RewritePrepares DEF FaultInv
  <2>3. \A s \in Rewriters : s # r => Prepares(s)'
    BY <1>2, OthersPrepare DEF FaultInv
  <2>4. Kept'
    BY <1>2, RewriteKept DEF FaultInv
  <2>5. QED
    BY <2>1, <2>2, <2>3, <2>4 DEF FaultInv
<1>3. CASE UNCHANGED vars
  BY <1>3 DEF vars, fileVars, rewriteVars, clientVars, runVars, FaultInv, Agreement,
     IssuedOnce, MemoryOnce, FileOnce, Prepares, Successor, Kept, Logs, Running
<1>4. QED
  BY <1>1, <1>2, <1>3, SyncInv, DeathInv, RecoverInv DEF Next

\* The inductive invariant holds in every reachable state, whatever fails.
THEOREM FaultInductive == Spec => []FaultInv
<1>1. Init => FaultInv
  <2> SUFFICES ASSUME Init PROVE FaultInv
    OBVIOUS
  <2>1. /\ store = <<>> /\ file = <<>> /\ Range(store) = {} /\ Range(file) = {}
        /\ IsInjective(store) /\ IsInjective(file)
    BY DEF Init, Range, IsInjective
  <2>2. file \in Logs
    BY <2>1, NoOps DEF Logs, Embeds
  <2>3. /\ \A c \in Clients : cpc[c] = "idle"
        /\ \A r \in Rewriters : rpc[r] = "idle"
        /\ acked = {} /\ durable = {}
    BY DEF Init
  <2>4. Agreement
    BY <2>1, <2>2, <2>3 DEF Agreement, IssuedOnce, MemoryOnce, FileOnce
  <2>5. QED
    BY <2>3, <2>4 DEF FaultInv, Prepares, Kept
<1>2. TypeOK /\ Exclusion /\ Quiet /\ FaultInv /\ [Next]_vars => FaultInv'
  BY FaultStep
<1>3. IInv => TypeOK /\ Exclusion /\ Quiet
  BY DEF IInv
<1>4. QED
  BY <1>1, <1>2, <1>3, Inductive, PTL DEF Spec

\* A command that was answered with success is in the file, whatever write, fsync,
\* rename or rewrite failed before or fails afterwards.
THEOREM AckedStaysOnDisk == Spec => []AckedOnDisk
<1>1. FaultInv => AckedOnDisk
  BY DEF FaultInv, Kept, AckedOnDisk
<1>2. QED
  BY <1>1, FaultInductive, PTL

\* What was promised to survive a power loss is in the fsynced part of the file,
\* also after a rewrite has put another file in its place.
THEOREM DurableStaysForced == Spec => []DurableForced
<1>1. TypeOK /\ FaultInv => DurableForced
  <2> SUFFICES ASSUME TypeOK, FaultInv, NEW o \in durable \cap CheckedOps
               PROVE  o \in Range(SubSeq(file, 1, synced))
    BY DEF DurableForced
  <2>1. PICK i \in 1 .. synced : file[i] = o
    BY DEF FaultInv, Kept
  <2>2. /\ synced \in Nat /\ Len(file) \in Nat /\ synced <= Len(file)
        /\ \A j \in 1 .. synced : file[j] \in Ops
    BY LenProperties, ElementOfSeq DEF TypeOK
  <2>3. /\ SubSeq(file, 1, synced) \in Seq(Ops) /\ Len(SubSeq(file, 1, synced)) = synced
        /\ SubSeq(file, 1, synced)[i] = file[i]
    BY <2>2, SubSeqProperties
  <2>4. i \in DOMAIN SubSeq(file, 1, synced)
    BY <2>3, LenProperties
  <2>5. QED
    BY <2>1, <2>3, <2>4 DEF Range
<1>2. QED
  BY <1>1, FaultInductive, TypeCorrect, PTL

\* The file never holds a command twice, or two in another order than memory
\* executed them, whatever rewrites, failures and restarts came before.
THEOREM FileIsSubHistory == Spec => []SubHistory
<1>1. TypeOK /\ FaultInv => SubHistory
  <2> SUFFICES ASSUME TypeOK, FaultInv PROVE SubHistory
    OBVIOUS
  <2>1. IsInjective(file)
    BY DEF FaultInv, Agreement, FileOnce
  <2>2. ASSUME Running
        PROVE  /\ Range(file) \subseteq Range(store)
               /\ \A a, b \in Ops : Before(file, a, b) => Before(store, a, b)
    BY <2>2, EmbedsFacts DEF FaultInv, Agreement, FileOnce, Logs, TypeOK
  <2>3. QED
    BY <2>1, <2>2 DEF SubHistory
<1>2. QED
  BY <1>1, FaultInductive, TypeCorrect, PTL

\* A rewrite that renames its file has everything memory held at its snapshot on
\* disk, log failures before it included.
THEOREM SnapshotOnDisk == Spec => []SnapshotReachesDisk
<1>1. TypeOK /\ FaultInv => SnapshotReachesDisk
  <2> SUFFICES ASSUME TypeOK, FaultInv, NEW r \in Rewriters, rpc[r] = "renamed"
               PROVE  /\ Len(snap[r]) <= Len(file)
                      /\ SubSeq(file, 1, Len(snap[r])) = snap[r]
    BY DEF SnapshotReachesDisk
  <2> DEFINE p == snap[r]
             t == SubSeq(file, 1, Len(p))
  <2>1. Len(p) <= Len(file) /\ \A i \in 1 .. Len(p) : file[i] = p[i]
    BY DEF FaultInv, Prepares, Begins
  <2>2. p \in Seq(Ops) /\ Len(p) \in Nat /\ Len(file) \in Nat
    BY LenProperties DEF TypeOK
  <2>3. \A i \in 1 .. Len(p) : file[i] \in Ops
    BY <2>1, <2>2, ElementOfSeq
  <2>4. t \in Seq(Ops) /\ Len(t) = Len(p) /\ \A i \in 1 .. Len(p) : t[i] = file[i]
    BY <2>2, <2>3, SubSeqProperties
  <2> HIDE DEF t, p
  <2>5. t = p
    BY <2>1, <2>2, <2>4, SeqEqual
  <2>6. QED
    BY <2>1, <2>5 DEF t, p
<1>2. QED
  BY <1>1, FaultInductive, TypeCorrect, PTL
=============================================================================
