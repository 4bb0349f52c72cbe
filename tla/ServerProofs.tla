---------------------------- MODULE ServerProofs ----------------------------
(***************************************************************************)
(* Theorems about Server and the event stream below it, for any finite set *)
(* of viewers, and any connections, requests, windows and buffer size.     *)
(***************************************************************************)
EXTENDS Server, FiniteSetTheorems, SequenceTheorems, TLAPS

-----------------------------------------------------------------------------
(***************************************************************************)
(* The event stream.                                                       *)
(***************************************************************************)

\* The viewers the counter stands for: counted, and not yet uncounted.
Counted == {v \in Viewers : viewer[v] \in {"streaming", "removed"}}

CountMatches == subCount = Cardinality(Counted)

\* The map holds the viewers between the two critical sections of Subscribe and
\* unsubscribe.
MapMatches == subs = {v \in Viewers : viewer[v] \in {"added", "streaming"}}

\* Only a viewer that is away has a closed channel.
ClosedAway == \A v \in closed : viewer[v] = "away"

StreamInv ==
  Stream!TypeOK /\ CountMatches /\ MapMatches /\ ClosedAway /\ WatchersAreOffered

\* Finitely many viewers are counted.
LEMMA CountedFinite == IsFiniteSet(Counted) /\ Cardinality(Counted) \in Nat
<1>1. Counted \in SUBSET Viewers
  BY DEF Counted
<1> QED
  BY <1>1, FS_Subset, FS_CardinalityType, ServerAssumption

\* A viewer that is streaming keeps the counter above zero.
LEMMA StreamingCounted ==
  ASSUME StreamInv, NEW v \in Viewers, viewer[v] = "streaming"
  PROVE  subCount > 0
<1>1. v \in Counted
  BY DEF Counted
<1>2. Cardinality(Counted) # 0
  BY <1>1, CountedFinite, FS_EmptySet
<1> QED
  BY <1>2, CountedFinite DEF StreamInv, CountMatches

\* Nobody is subscribed to begin with.
LEMMA StreamInit ==
  ASSUME Stream!Init
  PROVE  StreamInv
<1>1. Counted = {}
  BY DEF Stream!Init, Counted
<1>2. CountMatches
  BY <1>1, FS_EmptySet DEF Stream!Init, CountMatches
<1>3. Stream!TypeOK
  BY ServerAssumption DEF Stream!Init, Stream!TypeOK, Stream!StreamAssumption
<1> QED
  BY <1>2, <1>3 DEF Stream!Init, StreamInv, MapMatches, ClosedAway,
                    WatchersAreOffered, Stream!WatchersAreOffered

\* A viewer's step keeps map, counter, channels and stages in line.
LEMMA WatchStep ==
  ASSUME StreamInv, NEW v \in Viewers, Stream!Watch(v)
  PROVE  StreamInv'
<1> USE DEF StreamInv, Stream!TypeOK, Stream!At, Stream!Go, Stream!sub,
            WatchersAreOffered, Stream!WatchersAreOffered
<1>1. CASE Stream!Subscribe(v)
  <2>1. Counted' = Counted
    BY <1>1 DEF Stream!Subscribe, Counted
  <2>2. CountMatches'
    BY <1>1, <2>1 DEF Stream!Subscribe, CountMatches
  <2>3. Stream!TypeOK' /\ ClosedAway' /\ WatchersAreOffered'
    BY <1>1 DEF Stream!Subscribe, ClosedAway
  <2>4. MapMatches'
    BY <1>1 DEF Stream!Subscribe, MapMatches
  <2> QED
    BY <2>2, <2>3, <2>4
<1>2. CASE Stream!Count(v)
  <2>1. Counted' = Counted \cup {v} /\ v \notin Counted
    BY <1>2 DEF Stream!Count, Counted
  <2>2. CountMatches'
    BY <1>2, <2>1, CountedFinite, FS_AddElement DEF Stream!Count, CountMatches
  <2>3. Stream!TypeOK'
    BY <1>2 DEF Stream!Count
  <2>4. MapMatches' /\ ClosedAway' /\ WatchersAreOffered'
    BY <1>2 DEF Stream!Count, MapMatches, ClosedAway
  <2> QED
    BY <2>2, <2>3, <2>4
<1>3. CASE Stream!Receive(v)
  <2>1. Counted' = Counted
    BY <1>3 DEF Stream!Receive, Counted
  <2>2. CountMatches'
    BY <1>3, <2>1 DEF Stream!Receive, CountMatches
  <2>3. Stream!TypeOK'
    BY <1>3, ServerAssumption DEF Stream!Receive, Stream!StreamAssumption
  <2>4. MapMatches' /\ ClosedAway' /\ WatchersAreOffered'
    BY <1>3 DEF Stream!Receive, MapMatches, ClosedAway
  <2> QED
    BY <2>2, <2>3, <2>4
<1>4. CASE Stream!Remove(v)
  <2>1. Counted' = Counted
    BY <1>4 DEF Stream!Remove, Counted
  <2>2. CountMatches'
    BY <1>4, <2>1 DEF Stream!Remove, CountMatches
  <2>3. Stream!TypeOK'
    BY <1>4, ServerAssumption DEF Stream!Remove, Stream!StreamAssumption
  <2>4. MapMatches' /\ ClosedAway' /\ WatchersAreOffered'
    BY <1>4 DEF Stream!Remove, MapMatches, ClosedAway
  <2> QED
    BY <2>2, <2>3, <2>4
<1>5. CASE Stream!UncountAndClose(v)
  <2>1. Counted' = Counted \ {v} /\ v \in Counted
    BY <1>5 DEF Stream!UncountAndClose, Counted
  <2>2. CountMatches'
    BY <1>5, <2>1, CountedFinite, FS_RemoveElement
       DEF Stream!UncountAndClose, CountMatches
  <2>3. Stream!TypeOK'
    BY <1>5 DEF Stream!UncountAndClose
  <2>4. MapMatches' /\ ClosedAway' /\ WatchersAreOffered'
    BY <1>5 DEF Stream!UncountAndClose, MapMatches, ClosedAway
  <2> QED
    BY <2>2, <2>3, <2>4
<1> QED
  BY <1>1, <1>2, <1>3, <1>4, <1>5 DEF Stream!Watch

\* Recording and broadcasting touch neither the map nor the counter, and an event
\* that is owed is the one its connection is sending.
LEMMA RecordStep ==
  ASSUME StreamInv, NEW c \in Conns,
         Stream!RecordBegin(c) \/ Stream!RecordCheck(c) \/ Stream!Broadcast(c)
  PROVE  StreamInv'
<1> USE DEF StreamInv, Stream!TypeOK, Stream!sub,
            WatchersAreOffered, Stream!WatchersAreOffered
<1>1. UNCHANGED <<subs, subCount, closed, viewer>>
  BY DEF Stream!RecordBegin, Stream!RecordCheck, Stream!Broadcast
<1>2. CountMatches' /\ MapMatches' /\ ClosedAway'
  BY <1>1 DEF MapMatches, CountMatches, ClosedAway, Counted
<1>3. CASE Stream!RecordBegin(c)
  BY <1>1, <1>2, <1>3 DEF Stream!RecordBegin
<1>4. CASE Stream!RecordCheck(c)
  <2>1. Stream!TypeOK'
    BY <1>1, <1>4 DEF Stream!RecordCheck
  <2>2. ASSUME NEW v \in Viewers, NEW k \in owed'[v]
        PROVE  k \in Conns /\ rec'[k] = "send"
    <3>1. CASE k \in owed[v]
      BY <1>4, <2>1, <3>1 DEF Stream!RecordCheck
    <3>2. CASE k = c /\ viewer[v] = "streaming"
      BY <1>4, <3>2, StreamingCounted DEF Stream!RecordCheck
    <3> QED
      BY <1>4, <2>2, <3>1, <3>2 DEF Stream!RecordCheck, Stream!At
  <2> QED
    BY <1>2, <2>1, <2>2
<1>5. CASE Stream!Broadcast(c)
  <2>1. Stream!TypeOK'
    BY <1>1, <1>5, ServerAssumption
       DEF Stream!Broadcast, Stream!HasRoom, Stream!StreamAssumption
  <2>2. WatchersAreOffered'
    BY <1>5 DEF Stream!Broadcast
  <2> QED
    BY <1>2, <2>1, <2>2
<1> QED
  BY <1>3, <1>4, <1>5

-----------------------------------------------------------------------------
(***************************************************************************)
(* The stream in the server.                                               *)
(***************************************************************************)

\* The steps of the server that have no part in the stream.
LEMMA StreamUntouched ==
  ASSUME NEW c \in Conns,
         \/ Accept(c) \/ Client(c) \/ ParseFails(c) \/ ParseRefuses(c)
         \/ ParseDenied(c) \/ ParseEOF(c) \/ HandlerPanics(c)
         \/ Flush(c) \/ FlushFails(c) \/ CloseConn(c)
  PROVE  UNCHANGED streamVars
BY DEF Accept, Client, ClientSends, ClientReads, ClientHangsUp, ParseFails,
       ParseRefuses, ParseDenied, ParseEOF, HandlerPanics, Flush, FlushFails,
       CloseConn

\* The server drives the stream by the stream's own actions only.
LEMMA StreamNext ==
  ASSUME StreamInv, [Next]_vars
  PROVE  StreamInv'
<1>1. ASSUME UNCHANGED streamVars
      PROVE  StreamInv'
  BY <1>1 DEF streamVars, StreamInv, Stream!TypeOK, MapMatches, CountMatches, Counted,
              ClosedAway, WatchersAreOffered, Stream!WatchersAreOffered
<1>2. ASSUME NEW c \in Conns, Accept(c) \/ Serve(c) \/ Client(c)
      PROVE  StreamInv'
  BY <1>1, <1>2, StreamUntouched, RecordStep DEF Serve, Handle, RecordCheck, Broadcast
<1>3. ASSUME NEW v \in Viewers, Watch(v)
      PROVE  StreamInv'
  BY <1>3, WatchStep DEF Watch
<1>4. UNCHANGED vars => UNCHANGED streamVars
  BY DEF vars
<1> QED
  BY <1>1, <1>2, <1>3, <1>4 DEF Next

\* The invariant of the stream is one of the server.
LEMMA StreamInvariant == Spec => []StreamInv
<1>1. Init => StreamInv
  BY StreamInit DEF Init
<1>2. StreamInv /\ [Next]_vars => StreamInv'
  BY StreamNext
<1> QED
  BY <1>1, <1>2, PTL DEF Spec

\* A channel in the map is open.
LEMMA MapOpen ==
  ASSUME StreamInv
  PROVE  SubscribedOpen
BY DEF StreamInv, MapMatches, ClosedAway, SubscribedOpen, Stream!SubscribedOpen,
       Stream!SendPanics

\* No connection sends to a closed channel, whoever closes the dashboard while
\* commands are reported (Subscribe, unsubscribe, broadcast).
THEOREM NeverSendsToClosed == Spec => []SubscribedOpen
<1>1. StreamInv => SubscribedOpen
  BY MapOpen
<1> QED
  BY <1>1, StreamInvariant, PTL

\* Whoever watches is offered every event recorded from then on: the counter that
\* lets Record skip the broadcast is never 0 under a viewer (Record, Subscribe).
THEOREM WatchersOffered == Spec => []WatchersAreOffered
<1>1. StreamInv => WatchersAreOffered
  BY DEF StreamInv
<1> QED
  BY <1>1, StreamInvariant, PTL

-----------------------------------------------------------------------------
(***************************************************************************)
(* The replies.                                                            *)
(***************************************************************************)

Replies ==
  {"PONG", "OK", "no password", "wrong password", "result", "NOAUTH",
   "protocol error", "unknown command", "internal error"}

\* The types the argument needs.
ReplyTypes ==
  /\ conn \in [Conns -> Stages] /\ authed \in [Conns -> BOOLEAN]
  /\ sent \in [Conns -> Seq(Kinds)] /\ taken \in [Conns -> Nat]
  /\ out \in [Conns -> Seq(Replies)] /\ replies \in [Conns -> Seq(Replies)]

\* A correct AUTH is among the first n requests, or none is needed.
Opened(c, n) == ~RequireAuth \/ \E j \in 1 .. n : sent[c][j] = "AUTH"

\* The reply to the request in hand waits in the writer; in between nothing does.
Pending(c) ==
  CASE conn[c] \in {"none", "reading"} ->
         out[c] = <<>> /\ Len(replies[c]) = taken[c]
    [] conn[c] \in {"recording", "last", "ignoring"} ->
         /\ taken[c] > 0 /\ out[c] = <<Answer(c, taken[c])>>
         /\ Len(replies[c]) = taken[c] - 1
    [] OTHER -> TRUE

\* The replies flushed so far are right, and so is the one on its way, unless the
\* client is gone and the writer broken.
Answered(c) ==
  /\ taken[c] <= Len(sent[c]) /\ Len(replies[c]) <= taken[c]
  /\ authed[c] <=> Opened(c, taken[c])
  /\ \A i \in 1 .. Len(replies[c]) : replies[c][i] = Answer(c, i)
  /\ c \in broken \/ Pending(c)

ReplyInv == ReplyTypes /\ \A c \in Conns : Answered(c)

\* A connection that a step does not concern stays answered.
LEMMA UntouchedAnswered ==
  ASSUME NEW c \in Conns, Answered(c),
         conn'[c] = conn[c], authed'[c] = authed[c], sent'[c] = sent[c],
         taken'[c] = taken[c], out'[c] = out[c], replies'[c] = replies[c],
         c \in broken => c \in broken'
  PROVE  Answered(c)'
<1>1. \A i : Answer(c, i)' = Answer(c, i)
  BY DEF Answer
<1>2. Pending(c) => Pending(c)'
  BY <1>1 DEF Pending
<1>3. Opened(c, taken[c])' <=> Opened(c, taken[c])
  BY DEF Opened
<1> QED
  BY <1>1, <1>2, <1>3 DEF Answered

\* Taking a request, putting its answer into the writer and going on to a stage
\* with a flush.
LEMMA TakenAnswered ==
  ASSUME NEW c \in Conns, NEW class, NEW stage, ReplyTypes, Answered(c),
         Take(c), Reply(c, class), Go(c, stage),
         stage \in {"recording", "last", "ignoring"},
         class = Answer(c, taken[c] + 1),
         authed'[c] <=> authed[c] \/ sent[c][taken[c] + 1] = "AUTH"
  PROVE  Answered(c)'
<1>1. /\ conn[c] = "reading" /\ conn'[c] = stage
      /\ taken[c] \in Nat /\ taken'[c] = taken[c] + 1
      /\ taken[c] < Len(sent[c]) /\ sent' = sent /\ broken' = broken
      /\ replies' = replies /\ Len(replies[c]) \in Nat
  BY LenProperties DEF ReplyTypes, Take, At, Go, clientVars
<1>2. \A i : Answer(c, i)' = Answer(c, i)
  BY <1>1 DEF Answer
<1>3. authed'[c] <=> Opened(c, taken[c])'
  BY <1>1 DEF Opened, Answered
<1>4. ASSUME c \notin broken  PROVE Pending(c)'
  <2>1. out[c] = <<>> /\ Len(replies[c]) = taken[c]
    BY <1>1, <1>4 DEF Answered, Pending
  <2>2. out'[c] = <<class>>
    BY <1>4, <2>1 DEF Reply, ReplyTypes
  <2>3. taken'[c] > 0 /\ Len(replies'[c]) = taken'[c] - 1 /\ out'[c] = <<Answer(c, taken[c])'>>
    BY <1>1, <1>2, <2>1, <2>2
  <2> QED
    BY <1>1, <2>3 DEF Pending
<1>5. taken'[c] <= Len(sent'[c]) /\ Len(replies'[c]) <= taken'[c]
  BY <1>1 DEF Answered, ReplyTypes
<1>6. \A i \in 1 .. Len(replies'[c]) : replies'[c][i] = Answer(c, i)'
  BY <1>1, <1>2 DEF Answered
<1> QED
  BY <1>1, <1>3, <1>4, <1>5, <1>6 DEF Answered

\* The answer by the kind of the request, for a connection that is open or not.
LEMMA AnswerCases ==
  ASSUME NEW c \in Conns, NEW i \in Nat, NEW k \in Kinds, sent[c][i + 1] = k
  PROVE  /\ k = "GARBAGE" => Answer(c, i + 1) = "protocol error"
         /\ k = "BAD" => Answer(c, i + 1) = "unknown command"
         /\ k = "HUGE" => Answer(c, i + 1) = "internal error"
         /\ k = "PANIC" /\ Opened(c, i) => Answer(c, i + 1) = "internal error"
         /\ k \in {"CMD", "PANIC"} /\ ~Opened(c, i) => Answer(c, i + 1) = "NOAUTH"
         /\ OpenToAll(k) => Answer(c, i + 1) = Result(k)
         /\ k = "CMD" /\ Opened(c, i) => Answer(c, i + 1) = Result(k)
<1>1. (i + 1) - 1 = i
  OBVIOUS
<1> DEFINE open == ~RequireAuth \/ \E j \in 1 .. (i + 1) - 1 : sent[c][j] = "AUTH"
<1>2. open <=> Opened(c, i)
  BY <1>1 DEF Opened
<1>3. Answer(c, i + 1) =
        CASE k = "GARBAGE" -> "protocol error"
          [] k = "BAD" -> "unknown command"
          [] k = "HUGE" -> "internal error"
          [] ~open /\ k \in {"CMD", "PANIC"} -> "NOAUTH"
          [] open /\ k = "PANIC" -> "internal error"
          [] OTHER -> Result(k)
  BY DEF Answer
<1> HIDE DEF open
<1>4. CASE k = "GARBAGE"
  BY <1>3, <1>4 DEF OpenToAll
<1>5. CASE k = "BAD"
  BY <1>3, <1>5 DEF OpenToAll
<1>6. CASE k = "HUGE"
  BY <1>3, <1>6 DEF OpenToAll
<1>7. CASE k = "PANIC"
  BY <1>2, <1>3, <1>7 DEF OpenToAll
<1>8. CASE k = "CMD"
  BY <1>2, <1>3, <1>8 DEF OpenToAll
<1>9. CASE OpenToAll(k)
  BY <1>3, <1>9 DEF OpenToAll
<1> QED
  BY <1>4, <1>5, <1>6, <1>7, <1>8, <1>9 DEF Kinds, OpenToAll

\* Every request the parser or a handler ends gets its answer.
LEMMA RequestAnswered ==
  ASSUME NEW c \in Conns, ReplyTypes, Answered(c),
         \/ ParseFails(c) \/ ParseRefuses(c) \/ ParseDenied(c)
         \/ Handle(c) \/ HandlerPanics(c)
  PROVE  Answered(c)'
<1> DEFINE k == sent[c][taken[c] + 1]
<1>1. Take(c) /\ taken[c] \in Nat /\ Request(c)' = k /\ k \in Kinds
  <2>1. Take(c)
    BY DEF ParseFails, ParseRefuses, ParseDenied, Handle, HandlerPanics, Admitted
  <2>2. taken[c] \in Nat /\ taken[c] < Len(sent[c]) /\ taken'[c] = taken[c] + 1
        /\ sent' = sent /\ sent[c] \in Seq(Kinds)
    BY <2>1 DEF Take, ReplyTypes, clientVars
  <2>3. k \in Kinds
    BY <2>2, ElementOfSeq
  <2> QED
    BY <2>1, <2>2, <2>3 DEF Request
<1>2. authed[c] <=> Opened(c, taken[c])
  BY DEF Answered
<1> HIDE DEF k
<1>3. CASE ParseFails(c)
  BY <1>1, <1>3, AnswerCases, TakenAnswered DEF k, ParseFails
<1>4. CASE ParseRefuses(c)
  BY <1>1, <1>4, AnswerCases, TakenAnswered DEF k, ParseRefuses
<1>5. CASE ParseDenied(c)
  <2>1. k \in {"CMD", "PANIC"}
    BY <1>1, <1>5 DEF ParseDenied, IsCommand, OpenToAll, Kinds
  <2> QED
    BY <1>1, <1>2, <1>5, <2>1, AnswerCases, TakenAnswered DEF k, ParseDenied
<1>6. CASE HandlerPanics(c)
  BY <1>1, <1>2, <1>6, AnswerCases, TakenAnswered
     DEF k, HandlerPanics, Admitted, OpenToAll
<1>7. CASE Handle(c)
  <2>1. Result(k) = Answer(c, taken[c] + 1)
    <3>1. OpenToAll(k) \/ (k = "CMD" /\ authed[c])
      BY <1>1, <1>7 DEF Handle, Admitted, IsCommand, OpenToAll, Kinds
    <3> QED
      BY <1>1, <1>2, <3>1, AnswerCases DEF k
  <2>2. authed'[c] <=> authed[c] \/ Result(k) = "OK"
    BY <1>1, <1>7 DEF Handle, ReplyTypes
  <2>3. Result(k) = "OK" <=> k = "AUTH" /\ RequireAuth
    BY <1>1 DEF Result, Kinds
  <2>4. RequireAuth \/ authed[c]
    BY <1>2 DEF Opened
  <2> QED
    BY <1>1, <1>7, <2>1, <2>2, <2>3, <2>4, TakenAnswered DEF k, Handle
<1> QED
  BY <1>3, <1>4, <1>5, <1>6, <1>7

\* Flushing appends the pending answer, and a failed flush appends nothing.
LEMMA FlushAnswered ==
  ASSUME NEW c \in Conns, ReplyTypes, Answered(c), Flush(c) \/ FlushFails(c)
  PROVE  Answered(c)'
<1>1. sent' = sent /\ taken' = taken /\ authed' = authed
  BY DEF Flush, FlushFails, clientVars
<1>2. \A i : Answer(c, i)' = Answer(c, i)
  BY <1>1 DEF Answer
<1>3. Opened(c, taken[c])' <=> Opened(c, taken[c])
  BY <1>1 DEF Opened
<1>4. CASE FlushFails(c)
  <2>1. replies' = replies /\ c \in broken'
    BY <1>4 DEF FlushFails
  <2> QED
    BY <1>1, <1>2, <1>3, <2>1 DEF Answered
<1>5. CASE Flush(c)
  <2>1. conn[c] \in {"recording", "last", "ignoring"} /\ c \notin broken
    BY <1>5 DEF Flush, Flushing, At
  <2>2. /\ taken[c] > 0 /\ out[c] = <<Answer(c, taken[c])>>
        /\ Len(replies[c]) = taken[c] - 1
    BY <2>1 DEF Answered, Pending
  <2>3. /\ replies'[c] = Append(replies[c], Answer(c, taken[c]))
        /\ out'[c] = <<>> /\ conn'[c] \in {"reading", "closing"}
        /\ broken' = broken /\ replies[c] \in Seq(Replies) /\ taken[c] \in Nat
    <3>1. replies'[c] = replies[c] \o out[c]
      BY <1>5 DEF Flush, ReplyTypes
    <3>2. out[c] \in Seq(Replies) /\ replies[c] \in Seq(Replies)
      BY DEF ReplyTypes
    <3>3. replies[c] \o <<Answer(c, taken[c])>> = Append(replies[c], Answer(c, taken[c]))
      BY <2>2, <3>2
    <3> QED
      BY <1>5, <2>2, <3>1, <3>2, <3>3 DEF Flush, Go, AfterFlush, ReplyTypes
  <2>4. /\ Len(replies'[c]) = taken[c]
        /\ \A i \in 1 .. Len(replies'[c]) : replies'[c][i] = Answer(c, i)
    BY <2>2, <2>3 DEF Answered
  <2>5. Pending(c)'
    BY <1>1, <2>3, <2>4 DEF Pending
  <2> QED
    BY <1>1, <1>2, <1>3, <2>3, <2>4, <2>5 DEF Answered
<1> QED
  BY <1>4, <1>5

\* Steps of connection c leave the other connections alone.
LEMMA OthersUntouched ==
  ASSUME ReplyTypes, NEW c \in Conns, Accept(c) \/ Serve(c) \/ Client(c),
         NEW d \in Conns, d # c
  PROVE  /\ conn'[d] = conn[d] /\ authed'[d] = authed[d] /\ sent'[d] = sent[d]
         /\ taken'[d] = taken[d] /\ out'[d] = out[d] /\ replies'[d] = replies[d]
         /\ d \in broken => d \in broken'
<1> USE DEF ReplyTypes, Go, clientVars
<1>1. CASE Accept(c) \/ Client(c)
  BY <1>1 DEF Accept, Client, ClientSends, ClientReads, ClientHangsUp
<1>2. CASE ParseFails(c) \/ ParseRefuses(c) \/ ParseDenied(c) \/ ParseEOF(c)
  BY <1>2 DEF ParseFails, ParseRefuses, ParseDenied, ParseEOF, Take, Reply
<1>3. CASE Handle(c) \/ HandlerPanics(c)
  BY <1>3 DEF Handle, HandlerPanics, Admitted, Take, Reply
<1>4. CASE RecordCheck(c) \/ Broadcast(c)
  BY <1>4 DEF RecordCheck, Broadcast, Reply
<1>5. CASE Flush(c) \/ FlushFails(c) \/ CloseConn(c)
  BY <1>5 DEF Flush, FlushFails, CloseConn
<1> QED
  BY <1>1, <1>2, <1>3, <1>4, <1>5 DEF Serve

\* The types are kept.
LEMMA ReplyTypesKept ==
  ASSUME ReplyTypes, NEW c \in Conns, Accept(c) \/ Serve(c) \/ Client(c)
  PROVE  ReplyTypes'
<1>1. conn' \in [Conns -> Stages]
  BY DEF ReplyTypes, Stages, Go, AfterFlush, Accept, Client, ClientSends, ClientReads,
         ClientHangsUp, Serve, ParseFails, ParseRefuses, ParseDenied, ParseEOF, Handle,
         HandlerPanics, RecordCheck, Broadcast, Flush, FlushFails, CloseConn
<1>2. authed' \in [Conns -> BOOLEAN]
  BY DEF ReplyTypes, Accept, Client, ClientSends, ClientReads,
         ClientHangsUp, Serve, ParseFails, ParseRefuses, ParseDenied, ParseEOF, Handle,
         HandlerPanics, RecordCheck, Broadcast, Flush, FlushFails, CloseConn
<1>3. sent' \in [Conns -> Seq(Kinds)]
  <2>1. CASE ClientSends(c)
    <3>1. PICK k \in Requests[c] : sent' = [sent EXCEPT ![c] = Append(@, k)]
      BY <2>1 DEF ClientSends
    <3>2. k \in Kinds
      BY ServerAssumption
    <3> QED
      BY <3>1, <3>2, AppendProperties DEF ReplyTypes
  <2>2. CASE UNCHANGED sent
    BY <2>2 DEF ReplyTypes
  <2> QED
    BY <2>1, <2>2 DEF clientVars, Accept, Client, ClientReads,
         ClientHangsUp, Serve, ParseFails, ParseRefuses, ParseDenied, ParseEOF, Handle,
         HandlerPanics, Admitted, Take, RecordCheck, Broadcast, Flush, FlushFails,
         CloseConn
<1>4. taken' \in [Conns -> Nat]
  <2>1. CASE Take(c)
    BY <2>1 DEF Take, ReplyTypes
  <2>2. CASE UNCHANGED taken
    BY <2>2 DEF ReplyTypes
  <2> QED
    BY <2>1, <2>2
       DEF Accept, Client, ClientSends, ClientReads, ClientHangsUp, Serve, ParseFails,
           ParseRefuses, ParseDenied, ParseEOF, Handle, HandlerPanics, Admitted,
           RecordCheck, Broadcast, Flush, FlushFails, CloseConn
<1>5. out' \in [Conns -> Seq(Replies)]
  <2>1. ASSUME NEW class \in Replies, Reply(c, class)
        PROVE  out' \in [Conns -> Seq(Replies)]
    BY <2>1, AppendProperties DEF Reply, ReplyTypes
  <2>2. \A k \in Kinds : Result(k) \in Replies
    BY DEF Result, Kinds, Replies
  <2>3. CASE Handle(c)
    <3>1. Request(c)' \in Kinds
      <4>1. taken[c] \in Nat /\ taken[c] < Len(sent[c]) /\ taken'[c] = taken[c] + 1
            /\ sent' = sent /\ sent[c] \in Seq(Kinds)
        BY <2>3 DEF Handle, Admitted, Take, ReplyTypes, clientVars
      <4> QED
        BY <4>1, ElementOfSeq DEF Request
    <3> QED
      BY <2>1, <2>2, <2>3, <3>1 DEF Handle
  <2>4. CASE ParseFails(c) \/ ParseDenied(c) \/ HandlerPanics(c) \/ Broadcast(c)
    BY <2>1, <2>4
       DEF ParseFails, ParseDenied, HandlerPanics, Broadcast, ReplyTypes, Replies
  <2>5. CASE ParseRefuses(c)
    <3>1. (IF Request(c)' = "BAD" THEN "unknown command" ELSE "internal error") \in Replies
      BY DEF Replies
    <3> QED
      BY <2>1, <2>5, <3>1 DEF ParseRefuses
  <2>6. CASE Flush(c) \/ FlushFails(c)
    <3>1. out' = [out EXCEPT ![c] = <<>>]
      BY <2>6 DEF Flush, FlushFails
    <3>2. <<>> \in Seq(Replies)
      OBVIOUS
    <3> QED
      BY <3>1, <3>2 DEF ReplyTypes
  <2>7. CASE UNCHANGED out
    BY <2>7 DEF ReplyTypes
  <2> QED
    BY <2>3, <2>4, <2>5, <2>6, <2>7
       DEF Accept, Client, ClientSends, ClientReads, ClientHangsUp, Serve, ParseEOF,
           RecordCheck, CloseConn
<1>6. replies' \in [Conns -> Seq(Replies)]
  <2>1. CASE Flush(c)
    <3>1. replies[c] \o out[c] \in Seq(Replies)
      BY ConcatProperties DEF ReplyTypes
    <3> QED
      BY <2>1, <3>1 DEF Flush, ReplyTypes
  <2>2. CASE UNCHANGED replies
    BY <2>2 DEF ReplyTypes
  <2> QED
    BY <2>1, <2>2 DEF Accept, Client, ClientSends, ClientReads,
         ClientHangsUp, Serve, ParseFails, ParseRefuses, ParseDenied, ParseEOF, Handle,
         HandlerPanics, Admitted, Take, RecordCheck, Broadcast, FlushFails, CloseConn
<1> QED
  BY <1>1, <1>2, <1>3, <1>4, <1>5, <1>6 DEF ReplyTypes

\* A connection's own steps keep it answered.
LEMMA OwnStepAnswered ==
  ASSUME StreamInv, ReplyTypes, NEW c \in Conns, Answered(c),
         Accept(c) \/ Serve(c) \/ Client(c)
  PROVE  Answered(c)'
<1>1. CASE ParseFails(c) \/ ParseRefuses(c) \/ ParseDenied(c) \/ Handle(c) \/ HandlerPanics(c)
  BY <1>1, RequestAnswered
<1>2. CASE Flush(c) \/ FlushFails(c)
  BY <1>2, FlushAnswered
<1>3. CASE RecordCheck(c) \/ Broadcast(c) \/ ClientReads(c) \/ ClientHangsUp(c)
  <2>1. ~Stream!SendPanics
    BY MapOpen DEF SubscribedOpen, Stream!SubscribedOpen
  <2> QED
    BY <1>3, <2>1, UntouchedAnswered
       DEF RecordCheck, Broadcast, ClientReads, ClientHangsUp, clientVars
<1>4. CASE Accept(c) \/ ParseEOF(c) \/ CloseConn(c)
  <2>1. UNCHANGED <<authed, sent, taken, out, replies, broken>>
    BY <1>4 DEF Accept, ParseEOF, CloseConn, clientVars
  <2>2. \A i : Answer(c, i)' = Answer(c, i)
    BY <2>1 DEF Answer
  <2>3. Opened(c, taken[c])' <=> Opened(c, taken[c])
    BY <2>1 DEF Opened
  <2>4. Pending(c) => Pending(c)'
    BY <1>4, <2>1 DEF Accept, ParseEOF, CloseConn, At, Go, Pending, ReplyTypes
  <2> QED
    BY <2>1, <2>2, <2>3, <2>4 DEF Answered
<1>5. CASE ClientSends(c)
  <2>1. UNCHANGED <<conn, authed, taken, out, replies, broken>>
    BY <1>5 DEF ClientSends
  <2>2. PICK k \in Requests[c] : sent' = [sent EXCEPT ![c] = Append(@, k)]
    BY <1>5 DEF ClientSends
  <2>3. /\ Len(sent'[c]) = Len(sent[c]) + 1 /\ Len(sent[c]) \in Nat
        /\ \A i \in 1 .. Len(sent[c]) : sent'[c][i] = sent[c][i]
    <3>1. sent[c] \in Seq(Kinds) /\ k \in Kinds
      BY ServerAssumption DEF ReplyTypes
    <3>2. sent'[c] = Append(sent[c], k)
      BY <2>2 DEF ReplyTypes
    <3> QED
      BY <3>1, <3>2, AppendProperties, LenProperties
  <2>4. \A i \in 1 .. Len(sent[c]) : Answer(c, i)' = Answer(c, i)
    <3> TAKE i \in 1 .. Len(sent[c])
    <3>1. sent'[c][i] = sent[c][i]
      BY <2>3
    <3>2. (\E j \in 1 .. i - 1 : sent'[c][j] = "AUTH")
             <=> (\E j \in 1 .. i - 1 : sent[c][j] = "AUTH")
      BY <2>3
    <3> QED
      BY <3>1, <3>2 DEF Answer
  <2>5. taken[c] \in Nat /\ taken[c] <= Len(sent[c]) /\ Len(replies[c]) <= taken[c]
        /\ Len(replies[c]) \in Nat
    BY LenProperties DEF Answered, ReplyTypes
  <2>6. Opened(c, taken[c])' <=> Opened(c, taken[c])
    <3>1. \A j \in 1 .. taken[c] : sent'[c][j] = sent[c][j]
      BY <2>3, <2>5
    <3> QED
      BY <2>1, <3>1 DEF Opened
  <2>7. Pending(c) => Pending(c)'
    BY <2>1, <2>3, <2>4, <2>5 DEF Pending
  <2>8. \A i \in 1 .. Len(replies'[c]) : replies'[c][i] = Answer(c, i)'
    BY <2>1, <2>4, <2>5 DEF Answered
  <2> QED
    BY <2>1, <2>3, <2>5, <2>6, <2>7, <2>8 DEF Answered
<1> QED
  BY <1>1, <1>2, <1>3, <1>4, <1>5 DEF Serve, Client

\* Nothing is sent, taken or answered to begin with.
LEMMA ReplyInit == Init => ReplyInv
<1> SUFFICES ASSUME Init PROVE ReplyInv
  OBVIOUS
<1>1. ReplyTypes
  BY ServerAssumption DEF Init, ReplyTypes, Stages
<1>2. ASSUME NEW c \in Conns  PROVE Answered(c)
  <2>1. /\ conn[c] = "none" /\ sent[c] = <<>> /\ taken[c] = 0 /\ out[c] = <<>>
        /\ replies[c] = <<>> /\ authed[c] = ~RequireAuth
    BY <1>2 DEF Init
  <2>2. Pending(c)
    BY <2>1 DEF Pending
  <2>3. authed[c] <=> Opened(c, taken[c])
    <3>1. ~(\E j \in 1 .. taken[c] : sent[c][j] = "AUTH")
      BY <2>1
    <3> QED
      BY <2>1, <3>1, Zenon DEF Opened
  <2> QED
    BY <2>1, <2>2, <2>3 DEF Answered
<1> QED
  BY <1>1, <1>2 DEF ReplyInv

\* Every step keeps the replies in line with the requests.
LEMMA ReplyNext ==
  ASSUME StreamInv, ReplyInv, [Next]_vars
  PROVE  ReplyInv'
<1>1. ASSUME NEW c \in Conns, Accept(c) \/ Serve(c) \/ Client(c)
      PROVE  ReplyInv'
  <2>1. ReplyTypes'
    BY <1>1, ReplyTypesKept DEF ReplyInv
  <2>2. ASSUME NEW d \in Conns, d # c  PROVE Answered(d)'
    BY <1>1, <2>2, OthersUntouched, UntouchedAnswered DEF ReplyInv
  <2>3. Answered(c)'
    BY <1>1, OwnStepAnswered DEF ReplyInv
  <2> QED
    BY <2>1, <2>2, <2>3 DEF ReplyInv
<1>2. ASSUME UNCHANGED <<conn, authed, sent, taken, out, broken, replies>>
      PROVE  ReplyInv'
  BY <1>2, UntouchedAnswered DEF ReplyInv, ReplyTypes
<1>3. ASSUME NEW v \in Viewers, Watch(v)
      PROVE  ReplyInv'
  BY <1>2, <1>3 DEF Watch, clientVars
<1>4. CASE UNCHANGED vars
  BY <1>2, <1>4 DEF vars, clientVars
<1> QED
  BY <1>1, <1>3, <1>4 DEF Next

\* The replies are right in every state.
LEMMA ReplyInvariant == Spec => []ReplyInv
<1>1. StreamInv /\ ReplyInv /\ [Next]_vars => ReplyInv'
  BY ReplyNext
<1> QED
  BY ReplyInit, <1>1, StreamInvariant, PTL DEF Spec

\* The replies of a connection answer its requests one by one and in order, for any
\* number of connections, pipelined requests and panics, as no send of the event
\* stream can panic behind a reply already written (readAndHandle, Record).
THEOREM RepliesInOrder == Spec => []RepliesMatch
<1>1. ReplyInv => RepliesMatch
  BY DEF ReplyInv, Answered, Pending, RepliesMatch, At
<1> QED
  BY <1>1, ReplyInvariant, PTL

-----------------------------------------------------------------------------
(***************************************************************************)
(* The counters.                                                           *)
(***************************************************************************)

Served == {c \in Conns : conn[c] \notin {"none", "gone"}}

\* The requests of a connection that got through the parser.
Mine(c) == {i \in 1 .. taken[c] : IsCommand(sent[c][i])}
Commands == UNION {{c} \X Mine(c) : c \in Conns}

\* However many connections there may be, finitely many have come so far.
CountInv ==
  /\ IsFiniteSet(Served) /\ connCount = Cardinality(Served)
  /\ IsFiniteSet(Commands) /\ cmdCount = Cardinality(Commands)

\* A connection is counted from Accept to CloseConn.
LEMMA ServedCounted ==
  ASSUME StreamInv, ReplyTypes, CountInv, NEW c \in Conns,
         Accept(c) \/ Serve(c) \/ Client(c)
  PROVE  IsFiniteSet(Served)' /\ connCount' = Cardinality(Served)'
<1> USE DEF ReplyTypes, Go, At
<1>1. CASE Accept(c)
  <2>1. Served' = Served \cup {c} /\ c \notin Served /\ connCount' = connCount + 1
    BY <1>1 DEF Accept, Served
  <2> QED
    BY <2>1, FS_AddElement DEF CountInv
<1>2. CASE CloseConn(c)
  <2>1. Served' = Served \ {c} /\ c \in Served /\ connCount' = connCount - 1
    BY <1>2 DEF CloseConn, Served
  <2> QED
    BY <2>1, FS_RemoveElement DEF CountInv
<1>3. ASSUME connCount' = connCount,
             \/ conn' = conn
             \/ \E stage \in Stages \ {"none", "gone"} : Go(c, stage) /\ c \in Served
      PROVE  IsFiniteSet(Served)' /\ connCount' = Cardinality(Served)'
  <2>1. Served' = Served
    BY <1>3 DEF Served
  <2> QED
    BY <1>3, <2>1 DEF CountInv
<1>4. CASE Client(c)
  BY <1>3, <1>4 DEF Client, ClientSends, ClientReads, ClientHangsUp, countVars
<1>5. CASE ParseFails(c) \/ ParseRefuses(c) \/ ParseDenied(c) \/ ParseEOF(c)
  BY <1>3, <1>5
     DEF ParseFails, ParseRefuses, ParseDenied, ParseEOF, Take, Served, Stages, countVars
<1>6. CASE Handle(c) \/ HandlerPanics(c)
  BY <1>3, <1>6 DEF Handle, HandlerPanics, Admitted, Take, Served, Stages
<1>7. CASE RecordCheck(c) \/ Broadcast(c)
  <2>1. ~Stream!SendPanics
    BY MapOpen DEF SubscribedOpen, Stream!SubscribedOpen
  <2> QED
    BY <1>3, <1>7, <2>1 DEF RecordCheck, Broadcast, countVars
<1>8. CASE Flush(c) \/ FlushFails(c)
  BY <1>3, <1>8 DEF Flush, FlushFails, Flushing, AfterFlush, Served, Stages, countVars
<1> QED
  BY <1>1, <1>2, <1>4, <1>5, <1>6, <1>7, <1>8 DEF Serve

\* A command is counted when its request has been parsed.
LEMMA CommandsCounted ==
  ASSUME ReplyInv, CountInv, NEW c \in Conns, Accept(c) \/ Serve(c) \/ Client(c)
  PROVE  IsFiniteSet(Commands)' /\ cmdCount' = Cardinality(Commands)'
<1>1. /\ taken[c] \in Nat /\ taken[c] <= Len(sent[c])
      /\ \A d \in Conns : d # c => Mine(d)' = Mine(d)
  <2>1. taken[c] \in Nat /\ taken[c] <= Len(sent[c])
    BY DEF ReplyInv, ReplyTypes, Answered
  <2>2. ASSUME NEW d \in Conns, d # c  PROVE Mine(d)' = Mine(d)
    BY <2>2, OthersUntouched DEF ReplyInv, Mine
  <2> QED
    BY <2>1, <2>2
<1>2. ASSUME cmdCount' = cmdCount, Mine(c)' = Mine(c)
      PROVE  IsFiniteSet(Commands)' /\ cmdCount' = Cardinality(Commands)'
  <2>1. Commands' = Commands
    BY <1>1, <1>2 DEF Commands
  <2> QED
    BY <1>2, <2>1 DEF CountInv
<1>3. ASSUME UNCHANGED <<taken, sent, cmdCount>>
      PROVE  IsFiniteSet(Commands)' /\ cmdCount' = Cardinality(Commands)'
  BY <1>2, <1>3 DEF Mine
<1>4. ASSUME Take(c)
      PROVE  Mine(c)' = IF IsCommand(Request(c)') THEN Mine(c) \cup {taken[c] + 1}
                                                  ELSE Mine(c)
  <2>1. sent' = sent /\ taken'[c] = taken[c] + 1
    BY <1>4 DEF Take, clientVars, ReplyInv, ReplyTypes
  <2>2. 1 .. taken'[c] = 1 .. taken[c] \cup {taken[c] + 1}
    BY <1>1, <2>1
  <2>3. Request(c)' = sent[c][taken[c] + 1]
    BY <2>1 DEF Request
  <2> QED
    BY <2>1, <2>2, <2>3 DEF Mine
<1>5. ASSUME Take(c), IsCommand(Request(c)'), cmdCount' = cmdCount + 1
      PROVE  IsFiniteSet(Commands)' /\ cmdCount' = Cardinality(Commands)'
  <2>1. Mine(c)' = Mine(c) \cup {taken[c] + 1}
    BY <1>4, <1>5
  <2>2. taken[c] + 1 \notin Mine(c)
    BY <1>1 DEF Mine
  <2>3. Commands' = Commands \cup {<<c, taken[c] + 1>>}
    BY <1>1, <2>1 DEF Commands
  <2>4. <<c, taken[c] + 1>> \notin Commands
    BY <2>2 DEF Commands
  <2> QED
    BY <1>5, <2>3, <2>4, FS_AddElement DEF CountInv
<1>6. CASE ParseFails(c) \/ ParseRefuses(c)
  <2>1. ~IsCommand(Request(c)') /\ Take(c) /\ cmdCount' = cmdCount
    BY <1>6 DEF ParseFails, ParseRefuses, IsCommand
  <2> QED
    BY <1>2, <1>4, <2>1
<1>7. CASE ParseDenied(c) \/ Handle(c) \/ HandlerPanics(c)
  BY <1>5, <1>7 DEF ParseDenied, Handle, HandlerPanics, Admitted
<1>8. CASE ClientSends(c)
  <2>1. taken' = taken /\ cmdCount' = cmdCount
    BY <1>8 DEF ClientSends, countVars
  <2>2. \A i \in 1 .. taken[c] : sent'[c][i] = sent[c][i]
    <3>1. PICK k \in Requests[c] : sent' = [sent EXCEPT ![c] = Append(@, k)]
      BY <1>8 DEF ClientSends
    <3>2. sent[c] \in Seq(Kinds) /\ k \in Kinds /\ sent'[c] = Append(sent[c], k)
      BY <3>1, ServerAssumption DEF ReplyInv, ReplyTypes
    <3> QED
      BY <1>1, <3>2, AppendProperties
  <2>3. Mine(c)' = Mine(c)
    BY <2>1, <2>2 DEF Mine
  <2> QED
    BY <1>2, <2>1, <2>3
<1>9. CASE \/ Accept(c) \/ ClientReads(c) \/ ClientHangsUp(c) \/ ParseEOF(c)
           \/ RecordCheck(c) \/ Broadcast(c) \/ Flush(c) \/ FlushFails(c) \/ CloseConn(c)
  BY <1>3, <1>9
     DEF Accept, ClientReads, ClientHangsUp, ParseEOF, RecordCheck, Broadcast, Flush,
         FlushFails, CloseConn, clientVars, countVars
<1> QED
  BY <1>6, <1>7, <1>8, <1>9 DEF Serve, Client

\* Every step keeps both counters right.
LEMMA CountNext ==
  ASSUME StreamInv, ReplyInv, CountInv, [Next]_vars
  PROVE  CountInv'
<1>1. ASSUME NEW c \in Conns, Accept(c) \/ Serve(c) \/ Client(c)
      PROVE  CountInv'
  BY <1>1, ServedCounted, CommandsCounted DEF CountInv, ReplyInv
<1>2. ASSUME UNCHANGED <<conn, sent, taken, connCount, cmdCount>>
      PROVE  CountInv'
  BY <1>2 DEF CountInv, Served, Commands, Mine
<1>3. ASSUME NEW v \in Viewers, Watch(v)
      PROVE  CountInv'
  BY <1>2, <1>3 DEF Watch, clientVars, countVars
<1>4. CASE UNCHANGED vars
  BY <1>2, <1>4 DEF vars, clientVars, countVars
<1> QED
  BY <1>1, <1>3, <1>4 DEF Next

\* Nobody has come and nothing was parsed.
LEMMA CountInit == Init => CountInv
<1> SUFFICES ASSUME Init PROVE CountInv
  OBVIOUS
<1>1. Served = {}
  BY DEF Init, Served
<1>2. \A c \in Conns : Mine(c) = {}
  BY DEF Init, Mine
<1>3. Commands = {}
  BY <1>2 DEF Commands
<1> QED
  BY <1>1, <1>3, FS_EmptySet DEF Init, CountInv

\* INFO is right whatever connections do: each is counted from Accept until
\* handleConn's deferred calls have run, and each command once, whether it is
\* answered, refused or panics (connCount, cmdCount).
THEOREM CountersRight == Spec => []CountersAgree
<1>1. StreamInv /\ ReplyInv /\ CountInv /\ [Next]_vars => CountInv'
  BY CountNext
<1>2. CountInv => CountersAgree
  BY DEF CountInv, CountersAgree, Served, Commands, Mine
<1> QED
  BY CountInit, <1>1, <1>2, StreamInvariant, ReplyInvariant, PTL DEF Spec

-----------------------------------------------------------------------------
(***************************************************************************)
(* Types and bounds.                                                       *)
(***************************************************************************)

\* What a client can do is bounded, and so is what the server holds for it.
Bounded(c) ==
  /\ sent[c] \in Seq(Requests[c]) /\ Len(sent[c]) <= MaxRequests[c]
  /\ read[c] <= Len(replies[c]) /\ Len(replies[c]) - read[c] <= Window[c]
  /\ c \in broken \/ conn[c] \in {"closing", "gone"} => out[c] = <<>>

BoundInv ==
  /\ read \in [Conns -> Nat] /\ broken \subseteq hungUp /\ hungUp \subseteq Conns
  /\ \A c \in Conns : Bounded(c)

\* Steps of another connection.
LEMMA OthersBounded ==
  ASSUME ReplyTypes, BoundInv, NEW c \in Conns, Accept(c) \/ Serve(c) \/ Client(c),
         NEW d \in Conns, d # c
  PROVE  Bounded(d)'
<1>1. read'[d] = read[d]
  BY DEF Accept, Client, ClientSends, ClientReads, ClientHangsUp, Serve, ParseFails,
         ParseRefuses, ParseDenied, ParseEOF, Handle, HandlerPanics, Admitted, Take,
         RecordCheck, Broadcast, Flush, FlushFails, CloseConn, clientVars, BoundInv
<1>2. d \in broken' => d \in broken
  BY DEF Accept, Client, ClientSends, ClientReads, ClientHangsUp, Serve, ParseFails,
         ParseRefuses, ParseDenied, ParseEOF, Handle, HandlerPanics, Admitted, Take,
         RecordCheck, Broadcast, Flush, FlushFails, CloseConn
<1> QED
  BY <1>1, <1>2, OthersUntouched DEF BoundInv, Bounded

\* A client's own steps.
LEMMA ClientBounded ==
  ASSUME ReplyInv, BoundInv, NEW c \in Conns, Client(c)
  PROVE  BoundInv'
<1>1. ASSUME NEW d \in Conns, d # c  PROVE Bounded(d)'
  BY <1>1, OthersBounded DEF ReplyInv
<1>2. CASE ClientSends(c)
  <2>1. PICK k \in Requests[c] : sent' = [sent EXCEPT ![c] = Append(@, k)]
    BY <1>2 DEF ClientSends
  <2>2. sent[c] \in Seq(Requests[c]) /\ Len(sent[c]) < MaxRequests[c]
    BY <1>2 DEF ClientSends, BoundInv, Bounded
  <2>3. sent'[c] = Append(sent[c], k)
    BY <2>1 DEF ReplyInv, ReplyTypes
  <2>4. sent'[c] \in Seq(Requests[c]) /\ Len(sent'[c]) <= MaxRequests[c]
    BY <2>2, <2>3, AppendProperties, LenProperties, ServerAssumption
  <2>5. UNCHANGED <<conn, out, broken, replies, read, hungUp>>
    BY <1>2 DEF ClientSends
  <2> QED
    BY <1>1, <2>4, <2>5 DEF BoundInv, Bounded
<1>3. CASE ClientReads(c)
  <2>1. /\ read[c] < Len(replies[c]) /\ read' = [read EXCEPT ![c] = @ + 1]
        /\ UNCHANGED <<conn, out, broken, replies, sent, hungUp>>
    BY <1>3 DEF ClientReads
  <2>2. read[c] \in Nat /\ Len(replies[c]) \in Nat
    BY LenProperties DEF BoundInv, ReplyInv, ReplyTypes
  <2>3. read' \in [Conns -> Nat] /\ read'[c] = read[c] + 1
    BY <2>1, <2>2 DEF BoundInv
  <2>4. Bounded(c)'
    BY <2>1, <2>2, <2>3, ServerAssumption DEF BoundInv, Bounded
  <2> QED
    BY <1>1, <2>1, <2>3, <2>4 DEF BoundInv
<1>4. CASE ClientHangsUp(c)
  BY <1>4 DEF ClientHangsUp, BoundInv, Bounded
<1> QED
  BY <1>2, <1>3, <1>4 DEF Client

\* The server's steps for a connection: what it has flushed only grows by a flush,
\* and then by one.
LEMMA ServerBounded ==
  ASSUME StreamInv, ReplyInv, BoundInv, NEW c \in Conns, Accept(c) \/ Serve(c)
  PROVE  BoundInv'
<1>1. ASSUME NEW d \in Conns, d # c  PROVE Bounded(d)'
  BY <1>1, OthersBounded DEF ReplyInv
<1>2. UNCHANGED <<sent, read, hungUp>>
  BY DEF Accept, Serve, ParseFails, ParseRefuses, ParseDenied, ParseEOF, Handle,
         HandlerPanics, Admitted, Take, RecordCheck, Broadcast, Flush, FlushFails,
         CloseConn, clientVars
<1>3. ASSUME broken' = broken, replies' = replies,
             c \in broken' \/ conn'[c] \in {"closing", "gone"} => out'[c] = <<>>
      PROVE  BoundInv'
  BY <1>1, <1>2, <1>3 DEF BoundInv, Bounded
<1>4. ASSUME NEW class, NEW stage \in {"recording", "last", "ignoring"},
             Take(c), Reply(c, class), Go(c, stage)
      PROVE  BoundInv'
  <2>1. broken' = broken /\ replies' = replies /\ conn'[c] = stage
    BY <1>4 DEF Take, Go, ReplyInv, ReplyTypes
  <2>2. c \in broken => out'[c] = <<>>
    BY <1>4 DEF Reply, BoundInv, Bounded
  <2> QED
    BY <1>3, <2>1, <2>2
<1>5. CASE ParseFails(c) \/ ParseRefuses(c) \/ ParseDenied(c)
  BY <1>4, <1>5 DEF ParseFails, ParseRefuses, ParseDenied
<1>6. CASE Handle(c) \/ HandlerPanics(c)
  BY <1>4, <1>6 DEF Handle, HandlerPanics, Admitted
<1>7. CASE RecordCheck(c) \/ Broadcast(c)
  <2>1. ~Stream!SendPanics
    BY MapOpen DEF SubscribedOpen, Stream!SubscribedOpen
  <2> QED
    BY <1>3, <1>7, <2>1 DEF RecordCheck, Broadcast, BoundInv, Bounded
<1>8. CASE Accept(c) \/ ParseEOF(c) \/ CloseConn(c)
  <2>1. UNCHANGED <<broken, replies, out>>
    BY <1>8 DEF Accept, ParseEOF, CloseConn
  <2>2. c \in broken \/ conn[c] \in {"none", "reading", "closing"} => out[c] = <<>>
    BY DEF ReplyInv, Answered, Pending, BoundInv, Bounded
  <2>3. conn[c] \in {"none", "reading", "closing"}
    BY <1>8 DEF Accept, ParseEOF, CloseConn, At
  <2> QED
    BY <1>3, <2>1, <2>2, <2>3
<1>9. CASE Flush(c)
  <2>1. /\ c \notin broken /\ broken' = broken
        /\ Len(replies[c]) - read[c] < Window[c]
    BY <1>9 DEF Flush
  <2>2. replies'[c] = replies[c] \o out[c] /\ out'[c] = <<>>
    BY <1>9 DEF Flush, ReplyInv, ReplyTypes
  <2>3. Len(out[c]) = 1
    <3>1. conn[c] \in {"recording", "last", "ignoring"}
      BY <1>9 DEF Flush, Flushing, At
    <3>2. out[c] = <<Answer(c, taken[c])>>
      BY <2>1, <3>1 DEF ReplyInv, Answered, Pending
    <3> QED
      BY <3>2
  <2>4. Len(replies'[c]) = Len(replies[c]) + 1 /\ Len(replies[c]) \in Nat
    <3>1. replies[c] \in Seq(Replies) /\ out[c] \in Seq(Replies)
      BY DEF ReplyInv, ReplyTypes
    <3>2. Len(replies[c] \o out[c]) = Len(replies[c]) + Len(out[c])
      BY <3>1, ConcatProperties
    <3>3. Len(replies[c]) \in Nat
      BY <3>1, LenProperties
    <3> QED
      BY <2>2, <2>3, <3>2, <3>3
  <2>5. read[c] \in Nat /\ Window[c] \in Nat
    BY ServerAssumption DEF BoundInv
  <2>6. Bounded(c)'
    BY <1>2, <2>1, <2>2, <2>4, <2>5 DEF BoundInv, Bounded
  <2> QED
    BY <1>1, <1>2, <2>1, <2>6 DEF BoundInv
<1>10. CASE FlushFails(c)
  <2>1. /\ c \in hungUp /\ broken' = broken \cup {c} /\ replies' = replies
        /\ out' = [out EXCEPT ![c] = <<>>]
    BY <1>10 DEF FlushFails
  <2>2. Bounded(c)'
    BY <1>2, <2>1 DEF BoundInv, Bounded, ReplyInv, ReplyTypes
  <2> QED
    BY <1>1, <1>2, <2>1, <2>2 DEF BoundInv
<1> QED
  BY <1>5, <1>6, <1>7, <1>8, <1>9, <1>10 DEF Serve

\* Every step keeps the bounds.
LEMMA BoundNext ==
  ASSUME StreamInv, ReplyInv, BoundInv, [Next]_vars
  PROVE  BoundInv'
<1>1. ASSUME NEW c \in Conns, Accept(c) \/ Serve(c) \/ Client(c)
      PROVE  BoundInv'
  BY <1>1, ClientBounded, ServerBounded
<1>2. ASSUME UNCHANGED <<conn, sent, out, broken, replies, read, hungUp>>
      PROVE  BoundInv'
  BY <1>2 DEF BoundInv, Bounded
<1>3. ASSUME NEW v \in Viewers, Watch(v)
      PROVE  BoundInv'
  BY <1>2, <1>3 DEF Watch, clientVars
<1>4. CASE UNCHANGED vars
  BY <1>2, <1>4 DEF vars, clientVars
<1> QED
  BY <1>1, <1>3, <1>4 DEF Next

\* Nothing has been sent or read.
LEMMA BoundInit == Init => BoundInv
<1> SUFFICES ASSUME Init PROVE BoundInv
  OBVIOUS
<1>1. read \in [Conns -> Nat] /\ broken \subseteq hungUp /\ hungUp \subseteq Conns
  BY DEF Init
<1>2. ASSUME NEW c \in Conns  PROVE Bounded(c)
  <2>1. /\ sent[c] = <<>> /\ replies[c] = <<>> /\ read[c] = 0 /\ out[c] = <<>>
        /\ MaxRequests[c] \in Nat /\ Window[c] \in Nat
    BY <1>2, ServerAssumption DEF Init
  <2>2. <<>> \in Seq(Requests[c]) /\ Len(<<>>) = 0
    OBVIOUS
  <2> QED
    BY <2>1, <2>2 DEF Bounded
<1> QED
  BY <1>1, <1>2 DEF BoundInv

\* The types of the variables, with what the code bounds: one reply at a time waits
\* in a writer, replies never overtake requests, and a server that flushes after
\* each command never runs ahead of a client by more than the network takes.
THEOREM ServerTypeCorrect == Spec => []TypeOK
<1>1. StreamInv /\ ReplyInv /\ BoundInv /\ [Next]_vars => BoundInv'
  BY BoundNext
<1>2. StreamInv /\ ReplyInv /\ CountInv /\ [Next]_vars => CountInv'
  BY CountNext
<1>3. StreamInv /\ ReplyInv /\ CountInv /\ BoundInv => TypeOK
  <2> SUFFICES ASSUME StreamInv, ReplyInv, CountInv, BoundInv PROVE TypeOK
    OBVIOUS
  <2>1. connCount \in Nat /\ cmdCount \in Nat
    BY FS_CardinalityType DEF CountInv
  <2>2. ASSUME NEW c \in Conns
        PROVE  Len(out[c]) <= 1 /\ Len(replies[c]) + Len(out[c]) <= taken[c]
    <3>1. /\ Len(replies[c]) \in Nat /\ taken[c] \in Nat
          /\ Len(replies[c]) <= taken[c] /\ conn[c] \in Stages
      BY LenProperties DEF ReplyInv, ReplyTypes, Answered
    <3>2. CASE out[c] = <<>>
      BY <3>1, <3>2
    <3>3. CASE out[c] # <<>>
      <4>1. Pending(c) /\ conn[c] \notin {"closing", "gone"}
        BY <3>3 DEF BoundInv, Bounded, ReplyInv, Answered
      <4>2. out[c] = <<Answer(c, taken[c])>> /\ Len(replies[c]) = taken[c] - 1
        BY <3>1, <3>3, <4>1 DEF Pending, Stages
      <4> QED
        BY <3>1, <4>2
    <3> QED
      BY <3>2, <3>3
  <2> QED
    BY <2>1, <2>2
       DEF TypeOK, StreamInv, ReplyInv, ReplyTypes, Answered, BoundInv, Bounded
<1> QED
  BY CountInit, BoundInit, <1>1, <1>2, <1>3, StreamInvariant, ReplyInvariant, PTL DEF Spec
=============================================================================
