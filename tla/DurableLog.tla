----------------------------- MODULE DurableLog -----------------------------
(***************************************************************************)
(* What append-only persistence promises, with no file swap, no buffer and *)
(* no lock in sight: memory runs at most one command ahead of the disk,    *)
(* the disk only ever grows by that command, a crash costs the command in  *)
(* flight, a power loss costs at most what was not forced, and a restart   *)
(* finds in memory what is on the disk.                                    *)
(***************************************************************************)
EXTENDS Naturals, Sequences

CONSTANTS Commands

VARIABLES
  memory,  \* the commands memory reflects, in the order they were executed
  disk,    \* the commands a replay would execute
  forced,  \* how many of them survive a power loss
  up       \* the process serves clients

vars == <<memory, disk, forced, up>>

Init == memory = <<>> /\ disk = <<>> /\ forced = 0 /\ up = TRUE

Execute(o) ==
  /\ up /\ memory = disk
  /\ memory' = Append(memory, o)
  /\ UNCHANGED <<disk, forced, up>>

Log ==
  /\ up /\ memory # disk
  /\ disk' = memory
  /\ forced' \in {forced, Len(memory)}
  /\ UNCHANGED <<memory, up>>

\* An fsync, or a rewrite that replaces the file by a forced one.
Force ==
  /\ up
  /\ forced' = Len(disk)
  /\ UNCHANGED <<memory, disk, up>>

Crash == up /\ up' = FALSE /\ memory' = <<>> /\ UNCHANGED <<disk, forced>>

PowerLoss ==
  /\ \E n \in forced .. Len(disk) : disk' = SubSeq(disk, 1, n) /\ forced' = n
  /\ up' = FALSE /\ memory' = <<>>

Restart == ~up /\ up' = TRUE /\ memory' = disk /\ UNCHANGED <<disk, forced>>

Next ==
  \/ \E o \in Commands : Execute(o)
  \/ Log \/ Force \/ Crash \/ PowerLoss \/ Restart

Spec == Init /\ [][Next]_vars
=============================================================================
