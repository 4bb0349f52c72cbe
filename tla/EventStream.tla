---------------------------- MODULE EventStream ----------------------------
(***************************************************************************)
(* The live tail of commands: connections broadcast events to the channels *)
(* of whoever watches the dashboard (events/events.go Subscribe, broadcast *)
(* and the end of Record; monitor/dashboard.go serveMonitorStream).  One   *)
(* hold of subMu is one action: nothing blocks while it is held.  The      *)
(* atomic counter of subscribers changes outside of it.                    *)
(***************************************************************************)
EXTENDS Integers

CONSTANTS
  Conns,    \* goroutines that record commands
  Viewers,  \* dashboard connections; each may come and go any number of times
  Buffer    \* capacity of a subscriber's channel

StreamAssumption == Buffer \in Nat \ {0}

VARIABLES
  subs,      \* the subscribers in the map
  subCount,  \* their number, as Record sees it
  viewer,    \* where each viewer's goroutine is
  closed,    \* channels that have been closed
  buffered,  \* how many events are in each channel
  rec,       \* where each connection is in Record
  owed       \* ghost: the connections whose event a viewer must be offered

sub == <<subs, subCount, closed>>
vars == <<sub, viewer, buffered, rec, owed>>

At(v, stage) == viewer[v] = stage
Go(v, stage) == viewer' = [viewer EXCEPT ![v] = stage]

TypeOK ==
  /\ subs \subseteq Viewers /\ closed \subseteq Viewers
  /\ subCount \in Int
  /\ viewer \in [Viewers -> {"away", "added", "streaming", "removed"}]
  /\ buffered \in [Viewers -> 0 .. Buffer]
  /\ rec \in [Conns -> {"idle", "check", "send"}]
  /\ owed \in [Viewers -> SUBSET Conns]

Init ==
  /\ subs = {} /\ subCount = 0 /\ closed = {}
  /\ viewer = [v \in Viewers |-> "away"]
  /\ buffered = [v \in Viewers |-> 0] /\ rec = [c \in Conns |-> "idle"]
  /\ owed = [v \in Viewers |-> {}]

-----------------------------------------------------------------------------
\* A viewer.  Every visit has a channel of its own.

Subscribe(v) ==
  /\ At(v, "away") /\ Go(v, "added")
  /\ subs' = subs \cup {v} /\ closed' = closed \ {v}
  /\ UNCHANGED <<subCount, buffered, rec, owed>>

Count(v) ==
  /\ At(v, "added") /\ Go(v, "streaming")
  /\ subCount' = subCount + 1
  /\ UNCHANGED <<subs, closed, buffered, rec, owed>>

\* The select of serveMonitorStream takes an event and writes it to the page.
Receive(v) ==
  /\ At(v, "streaming") /\ buffered[v] > 0
  /\ buffered' = [buffered EXCEPT ![v] = @ - 1]
  /\ UNCHANGED <<sub, viewer, rec, owed>>

\* Mutant: the channel is closed first.
RemoveAndClose(v) ==
  /\ At(v, "streaming") /\ Go(v, "removed")
  /\ closed' = closed \cup {v} /\ owed' = [owed EXCEPT ![v] = {}]
  /\ UNCHANGED <<subs, subCount, buffered, rec>>

\* The page is closed, and the deferred unsubscribe begins; what the channel
\* still holds is of no use to anybody.
Remove(v) ==
  /\ At(v, "streaming") /\ Go(v, "removed")
  /\ subs' = subs \ {v} /\ owed' = [owed EXCEPT ![v] = {}]
  /\ buffered' = [buffered EXCEPT ![v] = 0]
  /\ UNCHANGED <<subCount, closed, rec>>

\* Mutant: the counter is set instead of decremented.
UncountAndCloseAll(v) ==
  /\ At(v, "removed") /\ Go(v, "away")
  /\ subCount' = 0 /\ closed' = closed \cup {v}
  /\ UNCHANGED <<subs, buffered, rec, owed>>

\* Nobody can reach the channel any more, so closing it is part of the step.
UncountAndClose(v) ==
  /\ At(v, "removed") /\ Go(v, "away")
  /\ subCount' = subCount - 1 /\ closed' = closed \cup {v}
  /\ UNCHANGED <<subs, buffered, rec, owed>>

-----------------------------------------------------------------------------
\* The end of Record.

RecordBegin(c) ==
  /\ rec[c] = "idle"
  /\ rec' = [rec EXCEPT ![c] = "check"]
  /\ UNCHANGED <<sub, viewer, buffered, owed>>

\* A viewer whose Subscribe has returned is owed the events checked from now on.
RecordCheck(c) ==
  /\ rec[c] = "check"
  /\ rec' = [rec EXCEPT ![c] = IF subCount > 0 THEN "send" ELSE "idle"]
  /\ owed' = [v \in Viewers |->
                owed[v] \cup {k \in {c} : At(v, "streaming")}]
  /\ UNCHANGED <<sub, viewer, buffered>>

HasRoom(v) == buffered[v] < Buffer

\* Mutant: a full channel blocks the sender.
BroadcastBlocks(c) ==
  /\ rec[c] = "send" /\ \A v \in subs : HasRoom(v)
  /\ rec' = [rec EXCEPT ![c] = "idle"]
  /\ buffered' = [v \in Viewers |->
                    IF v \in subs THEN buffered[v] + 1 ELSE buffered[v]]
  /\ owed' = [v \in Viewers |-> owed[v] \ {c}]
  /\ UNCHANGED <<sub, viewer>>

\* A send on a closed channel panics, even in a select with a default.
SendPanics == subs \cap closed # {}

Broadcast(c) ==
  /\ rec[c] = "send"
  /\ rec' = [rec EXCEPT ![c] = "idle"]
  /\ buffered' = [v \in Viewers |->
                    IF v \in subs /\ HasRoom(v) THEN buffered[v] + 1
                                                ELSE buffered[v]]
  /\ owed' = [v \in Viewers |-> owed[v] \ {c}]
  /\ UNCHANGED <<sub, viewer>>

Watch(v) ==
  Subscribe(v) \/ Count(v) \/ Receive(v) \/ Remove(v) \/ UncountAndClose(v)

Next ==
  \/ \E v \in Viewers : Watch(v)
  \/ \E c \in Conns : RecordBegin(c) \/ RecordCheck(c) \/ Broadcast(c)

Spec == Init /\ [][Next]_vars

-----------------------------------------------------------------------------
\* Properties

\* Nobody is sent to after its channel was closed: a channel in the map is open
\* (unsubscribe deletes before it closes).
SubscribedOpen == ~SendPanics

\* An event whose Record looks at the counter after Subscribe has returned is
\* on its way to that viewer: the counter never reads 0 under somebody who is
\* watching, whoever else comes and goes (Record, Subscribe, unsubscribe).
WatchersAreOffered ==
  \A v \in Viewers : owed[v] \subseteq {c \in Conns : rec[c] = "send"}
=============================================================================
