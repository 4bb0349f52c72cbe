------------------------------- MODULE Server -------------------------------
(***************************************************************************)
(* The connections of the RESP server (server/server.go) on top of the     *)
(* event stream: one goroutine per connection parses a request, checks the *)
(* authentication, runs the handler, records the command and flushes the   *)
(* reply.  Clients pipeline, stop reading or hang up as they like; parsing *)
(* and handlers may panic.  Requests and replies are classes; what a       *)
(* command does to the store is in Store and AOF.                          *)
(***************************************************************************)
EXTENDS Integers, FiniteSets, Sequences

CONSTANTS
  Conns, Viewers, Buffer,  \* as in EventStream
  RequireAuth,  \* a password is set
  Requests,     \* for each connection the kinds of requests it may send
  MaxRequests,  \* bound: how many a connection sends
  Window,       \* replies the network takes that the client has not read, for each
  Reading       \* connections whose client always reads on

Kinds ==
  {"PING", "AUTH", "WRONG",  \* AUTH with the password, and with another
   "CMD",       \* any other command
   "PANIC",     \* one whose handler panics before it replies (SCAN, COUNT overflow)
   "HUGE",      \* an array or bulk length that make refuses: the parser panics
   "BAD",       \* no array, or an empty one
   "GARBAGE"}   \* malformed RESP

VARIABLES
  conn,      \* where each connection's goroutine is
  authed,    \* ConnState.Authenticated
  sent,      \* what each client has sent
  taken,     \* how much of it has been parsed
  out,       \* replies in the bufio.Writer
  broken,    \* the writer has failed and keeps failing
  replies,   \* what has been flushed
  read,      \* how many of those the client has read
  hungUp,    \* clients that have closed their end
  connCount, cmdCount,  \* the counters in INFO
  subs, subCount, viewer, closed, buffered, rec, owed  \* EventStream

Stream == INSTANCE EventStream

ASSUME ServerAssumption ==
  /\ IsFiniteSet(Viewers) /\ Stream!StreamAssumption
  /\ RequireAuth \in BOOLEAN /\ Reading \subseteq Conns
  /\ Requests \in [Conns -> SUBSET Kinds] /\ MaxRequests \in [Conns -> Nat]
  /\ Window \in [Conns -> Nat]

clientVars == <<sent, read, hungUp>>
streamVars == <<subs, subCount, viewer, closed, buffered, rec, owed>>
countVars == <<connCount, cmdCount>>
vars == <<conn, authed, taken, out, broken, replies, clientVars, countVars,
          streamVars>>

Stages == {"none", "reading", "recording", "last", "ignoring", "closing", "gone"}
At(c, stage) == conn[c] = stage
Go(c, stage) == conn' = [conn EXCEPT ![c] = stage]
Request(c) == sent[c][taken[c]]

TypeOK ==
  /\ Stream!TypeOK
  /\ conn \in [Conns -> Stages] /\ authed \in [Conns -> BOOLEAN]
  /\ \A c \in Conns :
       /\ sent[c] \in Seq(Requests[c])
       /\ read[c] <= Len(replies[c]) /\ Len(replies[c]) - read[c] <= Window[c]
       /\ Len(out[c]) <= 1 /\ Len(replies[c]) + Len(out[c]) <= taken[c]
       /\ taken[c] <= Len(sent[c]) /\ Len(sent[c]) <= MaxRequests[c]
  /\ broken \subseteq hungUp /\ hungUp \subseteq Conns
  /\ connCount \in Nat /\ cmdCount \in Nat

Init ==
  /\ Stream!Init
  /\ conn = [c \in Conns |-> "none"]
  /\ authed = [c \in Conns |-> ~RequireAuth]
  /\ sent = [c \in Conns |-> <<>>] /\ taken = [c \in Conns |-> 0]
  /\ out = [c \in Conns |-> <<>>] /\ broken = {}
  /\ replies = [c \in Conns |-> <<>>] /\ read = [c \in Conns |-> 0]
  /\ hungUp = {} /\ connCount = 0 /\ cmdCount = 0

-----------------------------------------------------------------------------
\* Clients

ClientSends(c) ==
  /\ conn[c] # "none" /\ c \notin hungUp /\ Len(sent[c]) < MaxRequests[c]
  /\ \E k \in Requests[c] : sent' = [sent EXCEPT ![c] = Append(@, k)]
  /\ UNCHANGED <<conn, authed, taken, out, broken, replies, read, hungUp,
                 countVars, streamVars>>

ClientReads(c) ==
  /\ read[c] < Len(replies[c]) /\ read' = [read EXCEPT ![c] = @ + 1]
  /\ UNCHANGED <<conn, authed, taken, out, broken, replies, sent, hungUp,
                 countVars, streamVars>>

ClientHangsUp(c) ==
  /\ conn[c] # "none" /\ hungUp' = hungUp \cup {c} /\ c \notin hungUp
  /\ UNCHANGED <<conn, authed, taken, out, broken, replies, sent, read,
                 countVars, streamVars>>

-----------------------------------------------------------------------------
\* The server

Accept(c) ==
  /\ At(c, "none") /\ Go(c, "reading") /\ connCount' = connCount + 1
  /\ UNCHANGED <<authed, taken, out, broken, replies, clientVars, cmdCount,
                 streamVars>>

Reply(c, class) ==
  out' = IF c \in broken THEN out ELSE [out EXCEPT ![c] = Append(@, class)]

Take(c) ==
  /\ At(c, "reading") /\ taken[c] < Len(sent[c])
  /\ taken' = [taken EXCEPT ![c] = @ + 1]
  /\ UNCHANGED <<broken, replies, clientVars, connCount>>

\* Malformed input: an error, and the connection ends.
ParseFails(c) ==
  /\ Take(c) /\ Request(c)' = "GARBAGE"
  /\ Reply(c, "protocol error") /\ Go(c, "last") /\ UNCHANGED <<authed, cmdCount, streamVars>>

\* Whether these errors can be flushed, nobody looks.
ParseRefuses(c) ==
  /\ Take(c) /\ UNCHANGED <<authed, cmdCount, streamVars>>
  /\ Request(c)' \in {"BAD", "HUGE"}
  /\ Reply(c, IF Request(c)' = "BAD" THEN "unknown command" ELSE "internal error")
  /\ Go(c, "ignoring")

IsCommand(k) == k \notin {"GARBAGE", "BAD", "HUGE"}

OpenToAll(k) == k \in {"PING", "AUTH", "WRONG"}

ParseDenied(c) ==
  /\ Take(c) /\ IsCommand(Request(c)') /\ cmdCount' = cmdCount + 1
  /\ ~authed[c] /\ ~OpenToAll(Request(c)')
  /\ Reply(c, "NOAUTH") /\ Go(c, "ignoring")
  /\ UNCHANGED <<authed, streamVars>>

\* Mutant: at the end of the input the goroutine returns past the deferred calls.
ParseEOFLeaks(c) ==
  /\ At(c, "reading") /\ taken[c] = Len(sent[c]) /\ c \in hungUp
  /\ Go(c, "gone")
  /\ UNCHANGED <<authed, taken, out, broken, replies, clientVars, countVars,
                 streamVars>>

\* The end of the input, once all that was sent before it has been parsed.
ParseEOF(c) ==
  /\ At(c, "reading") /\ taken[c] = Len(sent[c]) /\ c \in hungUp
  /\ Go(c, "closing")
  /\ UNCHANGED <<authed, taken, out, broken, replies, clientVars, countVars,
                 streamVars>>

Result(k) ==
  CASE k = "PING" -> "PONG"
    [] k = "AUTH" -> IF RequireAuth THEN "OK" ELSE "no password"
    [] k = "WRONG" -> IF RequireAuth THEN "wrong password" ELSE "no password"
    [] OTHER -> "result"

Admitted(c) ==
  /\ Take(c) /\ IsCommand(Request(c)') /\ cmdCount' = cmdCount + 1
  /\ authed[c] \/ OpenToAll(Request(c)')

\* The handler writes its reply, and Record begins; a write error waits for it.
Handle(c) ==
  /\ Admitted(c) /\ Request(c)' # "PANIC"
  /\ Reply(c, Result(Request(c)'))
  /\ authed' = [authed EXCEPT ![c] = @ \/ Result(Request(c)') = "OK"]
  /\ Stream!RecordBegin(c) /\ Go(c, "recording")

HandlerPanics(c) ==
  /\ Admitted(c) /\ Request(c)' = "PANIC"
  /\ Reply(c, "internal error") /\ Go(c, "ignoring")
  /\ UNCHANGED <<authed, streamVars>>

RecordCheck(c) ==
  /\ Stream!RecordCheck(c)
  /\ UNCHANGED <<conn, authed, taken, out, broken, replies, clientVars, countVars>>

\* The reply is in the writer already if a send panics.
Broadcast(c) ==
  /\ Stream!Broadcast(c)
  /\ IF Stream!SendPanics
       THEN Reply(c, "internal error") /\ Go(c, "ignoring")
       ELSE UNCHANGED <<out, conn>>
  /\ UNCHANGED <<authed, taken, broken, replies, clientVars, countVars>>

Recorded(c) == rec[c] = "idle"

\* The stages in which a reply is in the writer and will be flushed.
Flushing(c) ==
  conn[c] \in {"last", "ignoring"} \/ (At(c, "recording") /\ Recorded(c))
AfterFlush(c) == IF At(c, "last") THEN "closing" ELSE "reading"

\* Mutant: the recover of readAndHandle forgets to flush.
FlushForgets(c) ==
  /\ Flushing(c) /\ c \notin broken
  /\ Len(replies[c]) - read[c] < Window[c]
  /\ IF At(c, "ignoring")
       THEN UNCHANGED replies
       ELSE replies' = [replies EXCEPT ![c] = @ \o out[c]]
  /\ out' = [out EXCEPT ![c] = <<>>] /\ Go(c, AfterFlush(c))
  /\ UNCHANGED <<authed, taken, broken, clientVars, countVars, streamVars>>

\* Mutant: what was flushed stays in the writer.
FlushKeeps(c) ==
  /\ Flushing(c) /\ c \notin broken
  /\ Len(replies[c]) - read[c] < Window[c]
  /\ replies' = [replies EXCEPT ![c] = @ \o out[c]] /\ Go(c, AfterFlush(c))
  /\ UNCHANGED <<authed, taken, out, broken, clientVars, countVars, streamVars>>

\* A flush waits while the client does not read.
Flush(c) ==
  /\ Flushing(c) /\ c \notin broken
  /\ Len(replies[c]) - read[c] < Window[c]
  /\ replies' = [replies EXCEPT ![c] = @ \o out[c]]
  /\ out' = [out EXCEPT ![c] = <<>>] /\ Go(c, AfterFlush(c))
  /\ UNCHANGED <<authed, taken, broken, clientVars, countVars, streamVars>>

FlushFails(c) ==
  /\ Flushing(c) /\ c \in hungUp
  /\ broken' = broken \cup {c} /\ out' = [out EXCEPT ![c] = <<>>]
  /\ Go(c, IF At(c, "ignoring") THEN "reading" ELSE "closing")
  /\ UNCHANGED <<authed, taken, replies, clientVars, countVars, streamVars>>

\* The deferred close of handleConn.
CloseConn(c) ==
  /\ At(c, "closing") /\ Go(c, "gone") /\ connCount' = connCount - 1
  /\ UNCHANGED <<authed, taken, out, broken, replies, clientVars, cmdCount,
                 streamVars>>

-----------------------------------------------------------------------------

Watch(v) ==
  /\ Stream!Watch(v)
  /\ UNCHANGED <<conn, authed, taken, out, broken, replies, clientVars, countVars>>

Serve(c) ==
  \/ ParseFails(c) \/ ParseRefuses(c) \/ ParseDenied(c) \/ ParseEOF(c)
  \/ Handle(c) \/ HandlerPanics(c) \/ RecordCheck(c) \/ Broadcast(c)
  \/ Flush(c) \/ FlushFails(c) \/ CloseConn(c)

Client(c) == ClientSends(c) \/ ClientReads(c) \/ ClientHangsUp(c)

Next ==
  \/ \E c \in Conns : Accept(c) \/ Serve(c) \/ Client(c)
  \/ \E v \in Viewers : Watch(v)

\* Goroutines run; nothing makes a viewer, or a client outside Reading, go on.
Fairness ==
  /\ \A c \in Conns : WF_vars(Serve(c))
  /\ \A c \in Reading : WF_vars(ClientReads(c))

Spec == Init /\ [][Next]_vars /\ Fairness

-----------------------------------------------------------------------------
\* Properties

\* What a client must be answered to the i-th of its requests, from what it has
\* sent alone.
Answer(c, i) ==
  LET k == sent[c][i]
      open == ~RequireAuth \/ \E j \in 1 .. i - 1 : sent[c][j] = "AUTH"
  IN  CASE k = "GARBAGE" -> "protocol error"
        [] k = "BAD" -> "unknown command"
        [] k = "HUGE" -> "internal error"
        [] ~open /\ k \in {"CMD", "PANIC"} -> "NOAUTH"
        [] open /\ k = "PANIC" -> "internal error"
        [] OTHER -> Result(k)

\* The replies of a connection are those to its requests, one each and in their
\* order, through pipelining, panics and refusals: a reply that is lost or doubled
\* would shift all that follow (readAndHandle).
RepliesMatch ==
  \A c \in Conns :
    /\ \A i \in 1 .. Len(replies[c]) : replies[c][i] = Answer(c, i)
    /\ At(c, "reading") /\ c \notin broken => Len(replies[c]) = taken[c]

\* INFO's counters are right whatever way connections come and go and commands end:
\* the connections a goroutine still serves, and the requests that got through
\* the parser on all of them (connCount, cmdCount).
CountersAgree ==
  /\ connCount = Cardinality({c \in Conns : conn[c] \notin {"none", "gone"}})
  /\ cmdCount = Cardinality(
       UNION {{c} \X {i \in 1 .. taken[c] : IsCommand(sent[c][i])} : c \in Conns})

\* The properties of the stream, with the events of real connections.
SubscribedOpen == Stream!SubscribedOpen
WatchersAreOffered == Stream!WatchersAreOffered

Ended(c) == conn[c] \in {"closing", "gone"}

\* A client that reads what it gets is answered, or its connection ends, whatever
\* other clients and slow dashboards do (Flush, broadcast).
RequestsAnswered ==
  \A c \in Reading :
    Len(replies[c]) < Len(sent[c]) ~> Len(replies[c]) = Len(sent[c]) \/ Ended(c)

\* When a client hangs up, its goroutine ends and is no longer counted, also if it
\* was waiting for the client to read.
ConnectionsEnd ==
  \A c \in Conns : c \in hungUp ~> At(c, "gone")
=============================================================================
