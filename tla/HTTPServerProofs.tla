-------------------------- MODULE HTTPServerProofs --------------------------
(***************************************************************************)
(* Theorems about HTTPServer, for every set of connections and of posts.   *)
(***************************************************************************)
EXTENDS HTTPServer, FiniteSetTheorems, TLAPS

-----------------------------------------------------------------------------
(* Counting                                                                *)

(* The handlers that count are finitely many, at most one per connection.  *)
LEMMA CountedBound ==
    ASSUME NEW S \in SUBSET Conns
    PROVE  IsFiniteSet(S) /\ Cardinality(S) \in 0 .. Cardinality(Conns)
  <1>1. IsFiniteSet(S) /\ Cardinality(S) <= Cardinality(Conns)
    BY ConnsAssumption, FS_Subset
  <1>2. Cardinality(S) \in Nat /\ Cardinality(Conns) \in Nat
    BY <1>1, ConnsAssumption, FS_CardinalityType
  <1> QED  BY <1>1, <1>2

(* The map and the count follow the handlers in every step.                *)
LEMMA CountStep ==
    TypeOK /\ HandlersCount /\ [Next]_vars =>
        HandlersCount' /\ activeConns' \in 0 .. Cardinality(Conns)
<1> SUFFICES ASSUME TypeOK, HandlersCount, [Next]_vars
             PROVE  HandlersCount'
  <2>1. Counted' \in SUBSET Conns
    BY DEF Counted
  <2> QED  BY <2>1, CountedBound DEF HandlersCount
<1> USE DEF TypeOK, SSEPCs, SSEAt, SSEGoTo, sseVars
<1>1. ASSUME NEW k \in Conns, Register(k)
      PROVE  HandlersCount'
  <2>1. InMap' = InMap \cup {k} /\ Counted' = Counted
    BY <1>1 DEF Register, InMap, Counted
  <2> QED  BY <1>1, <2>1 DEF Register, HandlersCount
<1>2. ASSUME NEW k \in Conns, Count(k)
      PROVE  HandlersCount'
  <2>1. InMap' = InMap /\ Counted' = Counted \cup {k} /\ k \notin Counted
    BY <1>2 DEF Count, InMap, Counted
  <2>2. IsFiniteSet(Counted)
    BY CountedBound DEF Counted
  <2>3. Cardinality(Counted') = Cardinality(Counted) + 1
    BY <2>1, <2>2, FS_AddElement
  <2> QED  BY <1>2, <2>1, <2>3 DEF Count, HandlersCount
<1>3. ASSUME NEW k \in Conns, Uncount(k)
      PROVE  HandlersCount'
  <2>1. InMap' = InMap /\ Counted' = Counted \ {k} /\ k \in Counted
    BY <1>3 DEF Uncount, InMap, Counted
  <2>2. IsFiniteSet(Counted)
    BY CountedBound DEF Counted
  <2>3. Cardinality(Counted') = Cardinality(Counted) - 1
    BY <2>1, <2>2, FS_RemoveElement
  <2> QED  BY <1>3, <2>1, <2>3 DEF Uncount, HandlersCount
<1>4. ASSUME NEW k \in Conns, Remove(k)
      PROVE  HandlersCount'
  <2>1. InMap' = InMap \ {k} /\ Counted' = Counted
    BY <1>4 DEF Remove, InMap, Counted
  <2> QED  BY <1>4, <2>1 DEF Remove, HandlersCount
<1>5. ASSUME NEW k \in Conns, CloseDone(k)
      PROVE  HandlersCount'
  <2>1. InMap' = InMap /\ Counted' = Counted
    BY <1>5 DEF CloseDone, InMap, Counted
  <2> QED  BY <1>5, <2>1 DEF CloseDone, HandlersCount
<1>6. ASSUME NEW k \in Conns,
             \/ BeginGreeting(k) \/ EndGreeting(k) \/ BeginHeartbeat(k)
             \/ EndHeartbeat(k) \/ SSEPanics(k) \/ StreamDone(k)
      PROVE  HandlersCount'
  <2>1. PICK l \in {"greet", "greeting", "loop", "beat", "remove"} :
          /\ sse[k] \in {"greet", "greeting", "loop", "beat", "remove"}
          /\ sse' = [sse EXCEPT ![k] = l]
          /\ UNCHANGED <<clients, activeConns>>
    BY <1>6 DEF BeginGreeting, EndGreeting, BeginHeartbeat, EndHeartbeat,
                SSEPanics, StreamDone
  <2>2. InMap' = InMap /\ Counted' = Counted
    BY <2>1 DEF InMap, Counted
  <2> QED  BY <2>1, <2>2 DEF HandlersCount
<1>7. ASSUME UNCHANGED sseVars
      PROVE  HandlersCount'
  BY <1>7 DEF HandlersCount, InMap, Counted
<1>8. ASSUME NEW k \in Conns, Network(k)
      PROVE  UNCHANGED sseVars
  BY <1>8 DEF Network, ConnBreaks, ContextDone, ClientReads
<1>9. ASSUME NEW p \in Posts, PostArrives(p) \/ HandleMessage(p)
      PROVE  UNCHANGED sseVars
  BY <1>9 DEF PostArrives, HandleMessage, ServesPost, ReadRequest, WriteError,
     HandlerReturns, WriteReply, Snapshot, NextClient, BeginEvent, EndEvent,
     PostReturns, PostPanics
<1>10. ASSUME ListenFails \/ Shutdown \/ Serve \/ Exit \/ UNCHANGED vars
       PROVE  UNCHANGED sseVars
  BY <1>10 DEF ListenFails, Shutdown, Serve, ShutdownReturns, ShutdownExpires,
     Exit, ServeGoTo, vars
<1> QED
  BY <1>1, <1>2, <1>3, <1>4, <1>5, <1>6, <1>7, <1>8, <1>9, <1>10 DEF Next,
     HandleSSE, ServesStream

-----------------------------------------------------------------------------
(* Writes                                                                  *)

Writers == Conns \cup Posts
Streams == [Conns -> Seq({Greeting} \cup Posts)]

(* The end of a write takes one stream from what its post is owed.         *)
LEMMA LeaveWriteEffect ==
    ASSUME TypeOK, NEW w \in Writers, NEW k \in Conns, LeaveWrite(w, k)
    PROVE  /\ mixed' \subseteq Writers \X Conns
           /\ owed' \in [Posts -> SUBSET Conns]
           /\ w \in Conns => owed' = owed
           /\ w \in Posts => owed' = [owed EXCEPT ![w] = @ \ {k}]
  BY ConnsAssumption DEF LeaveWrite, TypeOK, Writers

LEMMA BeginWriteEffect ==
    ASSUME TypeOK, NEW w \in Writers, NEW k \in Conns, BeginWrite(w, k)
    PROVE  mixed' \subseteq Writers \X Conns /\ UNCHANGED <<events, owed>>
  <1>1. Writing(k) \subseteq Writers
    BY DEF Writing, Writers
  <1>2. \A ws \in SUBSET Writers : Marks(k, ws) \subseteq Writers \X Conns
    BY DEF Marks
  <1>3. \/ mixed' = mixed \cup Marks(k, Writing(k) \cup {w})
        \/ mixed' = mixed \cup {<<w, k>>}
        \/ mixed' = mixed
    BY DEF BeginWrite
  <1>4. /\ mixed \subseteq Writers \X Conns
        /\ Marks(k, Writing(k) \cup {w}) \subseteq Writers \X Conns
        /\ <<w, k>> \in Writers \X Conns
    BY <1>1, <1>2 DEF TypeOK, Writers
  <1>5. UNCHANGED <<events, owed>>
    BY DEF BeginWrite
  <1> QED  BY <1>3, <1>4, <1>5

(* A write lands on the stream it is for or on one of the map.             *)
LEMMA EndWriteEffect ==
    ASSUME TypeOK, NEW w \in Writers, NEW k \in Conns,
           NEW e \in {Greeting, Beat} \cup Posts, clients \subseteq Conns,
           EndWrite(w, k, e)
    PROVE  /\ events' \in Streams
           /\ gone' \subseteq Conns /\ gone \subseteq gone' /\ broken' = broken
           /\ \/ UNCHANGED events
              \/ e # Beat /\ \E j \in clients \cup {k} :
                    /\ Len(events[j]) < StreamCap
                    /\ events' = [events EXCEPT ![j] = Append(events[j], e)]
           /\ LeaveWrite(w, k)
  <1>1. LeaveWrite(w, k)
    BY DEF EndWrite
  <1>2. /\ gone' \subseteq Conns /\ gone \subseteq gone' /\ broken' = broken
    BY DEF EndWrite, WriteLands, WriteFails, WriteUndefined, TypeOK, connVars
  <1>3. \/ UNCHANGED events
        \/ \E j \in clients \cup {k} : Put(j, e)
    BY DEF EndWrite, WriteLands, WriteFails, WriteUndefined
  <1>4. \/ UNCHANGED events
        \/ e # Beat /\ \E j \in clients \cup {k} :
              /\ Len(events[j]) < StreamCap
              /\ events' = [events EXCEPT ![j] = Append(events[j], e)]
    BY <1>3 DEF Put
  <1>5. events' \in Streams
    <2>1. events \in Streams
      BY DEF TypeOK, Streams
    <2>2. ASSUME NEW j \in Conns, e # Beat,
                 events' = [events EXCEPT ![j] = Append(events[j], e)]
          PROVE  events' \in Streams
      <3>1. events[j] \in Seq({Greeting} \cup Posts) /\ e \in {Greeting} \cup Posts
        BY <2>1, <2>2 DEF Streams
      <3>2. Append(events[j], e) \in Seq({Greeting} \cup Posts)
        BY <3>1
      <3> QED  BY <2>1, <2>2, <3>2 DEF Streams
    <2> QED  BY <1>4, <2>1, <2>2
  <1> QED  BY <1>1, <1>2, <1>4, <1>5

-----------------------------------------------------------------------------
(* The inductive invariant                                                 *)

(* What a post is asked for decides whether it is for the streams.         *)
LEMMA BroadcastsKept ==
    ASSUME NEW p \in Posts, req'[p] = req[p]
    PROVE  Broadcasts(p)' <=> Broadcasts(p)
  BY DEF Broadcasts, RunsHandler, Answer

LEMMA InvInit == Init => IndInv
<1> SUFFICES ASSUME Init
             PROVE  IndInv
  OBVIOUS
<1>1. Counted = {} /\ InMap = {}
  BY DEF Init, Counted, InMap
<1>2. HandlersCount
  BY <1>1, FS_EmptySet DEF Init, HandlersCount
<1>3. activeConns \in 0 .. Cardinality(Conns)
  BY CountedBound DEF Init
<1>4. TypeOK
  BY <1>3 DEF Init, TypeOK, SSEPCs, PostPCs
<1>5. StreamsBegin /\ PostHolds /\ OwedIsUp
  BY DEF Init, StreamsBegin, PostHolds, Holds, OwedIsUp, OwedUp,
        InBroadcast
<1> QED  BY <1>2, <1>4, <1>5 DEF IndInv

(* A step of the handler of connection k.                                  *)
LEMMA SSEMoves ==
    ASSUME IndInv, NEW k \in Conns, NEW m \in SSEPCs \ {"idle"},
           sse' = [sse EXCEPT ![k] = m],
           clients' \subseteq Conns, activeConns' \in 0 .. Cardinality(Conns),
           UNCHANGED <<postVars, serve, owed>>,
           gone \subseteq gone', gone' \subseteq Conns,
           broken \subseteq broken', broken' \subseteq Conns,
           mixed' \subseteq Writers \X Conns, events' \in Streams,
           \A j \in Conns \ {k} : sse[j] = "idle" => events'[j] = events[j],
           \/ sse[k] \notin {"loop", "beat"} \/ m \in {"loop", "beat"}
           \/ k \in gone' \cup broken'
    PROVE  TypeOK' /\ StreamsBegin' /\ PostHolds' /\ OwedIsUp'
  <1>1. \A j \in Conns : sse'[j] = IF j = k THEN m ELSE sse[j]
    BY DEF IndInv, TypeOK
  <1>2. TypeOK'
    BY DEF IndInv, TypeOK, postVars, Writers, Streams
  <1>3. StreamsBegin'
    BY <1>1 DEF IndInv, StreamsBegin
  <1>4. PostHolds'
    BY <1>1, BroadcastsKept DEF IndInv, TypeOK, PostHolds, Holds, postVars
  <1>5. \A p \in Posts : \A j \in owed[p] :
           sse'[j] \in {"loop", "beat"} \/ j \in gone' \cup broken'
    BY <1>1 DEF IndInv, TypeOK, OwedIsUp, OwedUp
  <1>6. OwedIsUp'
    BY <1>5, BroadcastsKept DEF IndInv, TypeOK, OwedIsUp, OwedUp, postVars
  <1> QED  BY <1>2, <1>3, <1>4, <1>6

(* Every step of the handler of a connection is such a step.               *)
LEMMA SSEStep ==
    ASSUME IndInv, HandlersCount', activeConns' \in 0 .. Cardinality(Conns),
           NEW k \in Conns, Register(k) \/ HandleSSE(k)
    PROVE  TypeOK' /\ StreamsBegin' /\ PostHolds' /\ OwedIsUp'
<1>1. clients' \subseteq Conns
  BY DEF HandlersCount, InMap
<1>2. k \in Writers /\ clients \subseteq Conns
      /\ mixed \subseteq Writers \X Conns /\ events \in Streams
      /\ gone \subseteq Conns /\ broken \subseteq Conns
  BY DEF Writers, IndInv, TypeOK, Streams
<1>3. \A j \in Conns : sse[j] = "idle" => j \notin clients
  BY DEF IndInv, HandlersCount, InMap
<1> USE DEF SSEAt, SSEGoTo, connVars, writeVars
<1>4. CASE Register(k)
  BY <1>1, <1>2, <1>4, SSEMoves DEF Register, SSEPCs
<1>5. CASE Count(k)
  BY <1>1, <1>2, <1>5, SSEMoves DEF Count, SSEPCs
<1>6. CASE BeginGreeting(k)
  <2>1. mixed' \subseteq Writers \X Conns /\ UNCHANGED <<events, owed>>
    BY <1>2, <1>6, BeginWriteEffect DEF BeginGreeting, IndInv
  <2> QED  BY <1>1, <1>2, <1>6, <2>1, SSEMoves DEF BeginGreeting, SSEPCs
<1>7. CASE BeginHeartbeat(k)
  <2>1. mixed' \subseteq Writers \X Conns /\ UNCHANGED <<events, owed>>
    BY <1>2, <1>7, BeginWriteEffect DEF BeginHeartbeat, IndInv
  <2> QED  BY <1>1, <1>2, <1>7, <2>1, SSEMoves DEF BeginHeartbeat, SSEPCs
<1>8. CASE EndGreeting(k) \/ EndHeartbeat(k)
  <2>1. PICK e \in {Greeting, Beat} : EndWrite(k, k, e)
    BY <1>8 DEF EndGreeting, EndHeartbeat
  <2>2. /\ events' \in Streams
        /\ gone' \subseteq Conns /\ gone \subseteq gone' /\ broken' = broken
        /\ \/ UNCHANGED events
           \/ \E j \in clients \cup {k} :
                 events' = [events EXCEPT ![j] = Append(events[j], e)]
        /\ LeaveWrite(k, k)
    BY <1>2, <2>1, EndWriteEffect DEF IndInv
  <2>3. mixed' \subseteq Writers \X Conns /\ owed' = owed
    BY <1>2, <2>2, LeaveWriteEffect DEF IndInv
  <2>4. \A j \in Conns \ {k} : sse[j] = "idle" => events'[j] = events[j]
    BY <1>2, <1>3, <2>2 DEF Streams
  <2>5. sse' = [sse EXCEPT ![k] = "loop"] /\ UNCHANGED <<postVars, serve>>
    BY <1>8 DEF EndGreeting, EndHeartbeat
  <2> QED  BY <1>1, <1>2, <2>2, <2>3, <2>4, <2>5, SSEMoves DEF SSEPCs
<1>9. CASE SSEPanics(k)
  <2>1. /\ LeaveWrite(k, k) /\ UNCHANGED events
        /\ sse' = [sse EXCEPT ![k] = "remove"]
        /\ broken' = broken \cup {k}
        /\ UNCHANGED <<gone, postVars, serve>>
    BY <1>9 DEF SSEPanics, PanicInWrite
  <2>2. mixed' \subseteq Writers \X Conns /\ owed' = owed
    BY <1>2, <2>1, LeaveWriteEffect DEF IndInv
  <2> QED  BY <1>1, <1>2, <2>1, <2>2, SSEMoves DEF SSEPCs
<1>10. CASE StreamDone(k)
  BY <1>1, <1>2, <1>10, SSEMoves DEF StreamDone, SSEPCs
<1>11. CASE Remove(k)
  BY <1>1, <1>2, <1>11, SSEMoves DEF Remove, SSEPCs
<1>12. CASE CloseDone(k)
  BY <1>1, <1>2, <1>12, SSEMoves DEF CloseDone, SSEPCs
<1>13. CASE Uncount(k)
  <2>1. Marks(k, Writing(k)) \subseteq Writers \X Conns
    BY DEF Marks, Writing, Writers
  <2> QED  BY <1>1, <1>2, <1>13, <2>1, SSEMoves DEF Uncount, SSEPCs
<1> QED
  BY <1>4, <1>5, <1>6, <1>7, <1>8, <1>9, <1>10, <1>11, <1>12, <1>13
     DEF HandleSSE, ServesStream

(* A step of the handler of post p: the other posts keep what they have.   *)
OthersKeep(p) ==
    /\ UNCHANGED <<sseVars, broken, serve>>
    /\ gone \subseteq gone' /\ gone' \subseteq Conns
    /\ mixed' \subseteq Writers \X Conns /\ events' \in Streams
    /\ \A j \in Conns : sse[j] = "idle" => events'[j] = events[j]
    /\ post' \in [Posts -> PostPCs] /\ req' \in [Posts -> Bodies \cup {None}]
    /\ todo' \in [Posts -> SUBSET Conns]
    /\ target' \in [Posts -> Conns \cup {None}]
    /\ owed' \in [Posts -> SUBSET Conns]
    /\ posted' \in {posted, posted \cup {p}}
    /\ aborted' \in {aborted, aborted \cup {p}}
    /\ \A q \in Posts \ {p} :
          /\ post'[q] = post[q] /\ req'[q] = req[q] /\ todo'[q] = todo[q]
          /\ target'[q] = target[q] /\ owed'[q] = owed[q]

LEMMA PostMoves ==
    ASSUME IndInv, NEW p \in Posts, OthersKeep(p), Holds(p)', OwedUp(p)'
    PROVE  TypeOK' /\ StreamsBegin' /\ PostHolds' /\ OwedIsUp'
  <1> USE DEF OthersKeep
  <1>1. TypeOK'
    BY DEF IndInv, TypeOK, sseVars, Writers, Streams
  <1>2. StreamsBegin'
    BY DEF IndInv, StreamsBegin, sseVars
  <1>3. \A q \in Posts \ {p} : /\ q \in posted' <=> q \in posted
                               /\ q \in aborted' <=> q \in aborted
    OBVIOUS
  <1>4. \A q \in Posts \ {p} : Holds(q)'
    BY <1>3, BroadcastsKept DEF IndInv, TypeOK, PostHolds, Holds, sseVars
  <1>5. \A q \in Posts \ {p} : OwedUp(q)'
    BY <1>3, BroadcastsKept DEF IndInv, TypeOK, OwedIsUp, OwedUp, sseVars
  <1> QED  BY <1>1, <1>2, <1>4, <1>5 DEF PostHolds, OwedIsUp

(* Every step of the handler of a post is such a step.                     *)
LEMMA PostStep ==
    ASSUME IndInv, NEW p \in Posts, PostArrives(p) \/ HandleMessage(p)
    PROVE  OthersKeep(p) /\ TypeOK' /\ StreamsBegin' /\ PostHolds' /\ OwedIsUp'
<1>1. /\ Holds(p) /\ OwedUp(p) /\ p \in Writers
      /\ clients \subseteq Conns /\ gone \subseteq Conns
      /\ mixed \subseteq Writers \X Conns /\ events \in Streams
      /\ \A k \in Conns : sse[k] = "idle" => k \notin clients
      /\ \A k \in Conns : sse[k] \in {"loop", "beat"} => k \in clients
  BY DEF IndInv, TypeOK, PostHolds, OwedIsUp, HandlersCount, InMap, Writers, Streams
<1>2. /\ post \in [Posts -> PostPCs] /\ req \in [Posts -> Bodies \cup {None}]
      /\ todo \in [Posts -> SUBSET Conns] /\ target \in [Posts -> Conns \cup {None}]
      /\ owed \in [Posts -> SUBSET Conns]
  BY DEF IndInv, TypeOK
<1>3. req'[p] = req[p] => (Broadcasts(p)' <=> Broadcasts(p))
  BY BroadcastsKept
<1> USE DEF PostAt, PostGoTo, connVars, writeVars, sseVars, InBroadcast
<1>4. CASE PostArrives(p)
  <2>1. OthersKeep(p)
    BY <1>1, <1>2, <1>4 DEF PostArrives, OthersKeep, PostPCs
  <2>2. Holds(p)'
    BY <1>1, <1>2, <1>4 DEF PostArrives, Holds
  <2>3. OwedUp(p)'
    BY <1>1, <1>2, <1>4 DEF PostArrives, OwedUp
  <2> QED  BY <2>1, <2>2, <2>3, PostMoves
<1>5. CASE ReadRequest(p)
  <2>1. OthersKeep(p)
    BY <1>1, <1>2, <1>5 DEF ReadRequest, OthersKeep, PostPCs
  <2>2. /\ post[p] = "read" /\ req'[p] = req[p]
        /\ \/ ~Broadcasts(p) /\ post'[p] = "refuse"
           \/ Broadcasts(p) /\ post'[p] \in {"handler", "reply"}
    BY <1>2, <1>5 DEF ReadRequest
  <2>3. Holds(p)' /\ OwedUp(p)'
    BY <1>1, <1>3, <1>5, <2>2 DEF ReadRequest, Holds, OwedUp
  <2> QED  BY <2>1, <2>3, PostMoves
<1>6. CASE WriteError(p)
  <2>1. OthersKeep(p)
    BY <1>1, <1>2, <1>6 DEF WriteError, OthersKeep, PostPCs
  <2>2. Holds(p)' /\ OwedUp(p)'
    BY <1>1, <1>2, <1>3, <1>6 DEF WriteError, Holds, OwedUp
  <2> QED  BY <2>1, <2>2, PostMoves
<1>7. CASE HandlerReturns(p)
  <2>1. /\ post[p] = "handler"
        /\ \/ post' = [post EXCEPT ![p] = "crashed"] /\ aborted' = aborted \cup {p}
           \/ post' = [post EXCEPT ![p] = "reply"] /\ UNCHANGED aborted
        /\ UNCHANGED <<sseVars, connVars, writeVars, req, todo, target, posted, serve>>
    BY <1>7 DEF HandlerReturns
  <2>2. OthersKeep(p)
    BY <1>1, <1>2, <2>1 DEF OthersKeep, PostPCs
  <2>3. Holds(p)' /\ OwedUp(p)'
    BY <1>1, <1>2, <1>3, <2>1 DEF Holds, OwedUp
  <2> QED  BY <2>2, <2>3, PostMoves
<1>8. CASE WriteReply(p)
  <2>1. OthersKeep(p)
    BY <1>1, <1>2, <1>8 DEF WriteReply, OthersKeep, PostPCs
  <2>2. Holds(p)' /\ OwedUp(p)'
    BY <1>1, <1>2, <1>3, <1>8 DEF WriteReply, Holds, OwedUp
  <2> QED  BY <2>1, <2>2, PostMoves
<1>9. CASE Snapshot(p)
  <2>1. OthersKeep(p)
    BY <1>1, <1>2, <1>9 DEF Snapshot, OthersKeep, PostPCs
  <2>2. Holds(p)' /\ OwedUp(p)'
    BY <1>1, <1>2, <1>3, <1>9 DEF Snapshot, Holds, OwedUp
  <2> QED  BY <2>1, <2>2, PostMoves
<1>10. CASE NextClient(p)
  <2>1. PICK k \in todo[p] :
          \/ /\ Done(k) /\ todo' = [todo EXCEPT ![p] = todo[p] \ {k}]
             /\ UNCHANGED <<target, post>>
          \/ /\ target' = [target EXCEPT ![p] = k]
             /\ post' = [post EXCEPT ![p] = "checked"] /\ UNCHANGED todo
    BY <1>10 DEF NextClient
  <2>2. /\ post[p] = "next" /\ k \in Conns
        /\ UNCHANGED <<sseVars, connVars, writeVars, req, posted, aborted, serve>>
    BY <1>2, <1>10 DEF NextClient
  <2>3. OthersKeep(p)
    BY <1>1, <1>2, <2>1, <2>2 DEF OthersKeep, PostPCs
  <2>4. Holds(p)'
    BY <1>1, <1>2, <1>3, <2>1, <2>2 DEF Holds
  <2>5. OwedUp(p)'
    BY <1>1, <1>2, <1>3, <2>1, <2>2 DEF OwedUp, Done
  <2> QED  BY <2>3, <2>4, <2>5, PostMoves
<1>11. CASE BeginEvent(p)
  <2>1. target[p] \in Conns
    BY <1>1, <1>2, <1>11 DEF BeginEvent, Holds
  <2>2. mixed' \subseteq Writers \X Conns /\ UNCHANGED <<events, owed>>
    BY <1>1, <1>11, <2>1, BeginWriteEffect DEF BeginEvent, IndInv
  <2>3. OthersKeep(p)
    BY <1>1, <1>2, <1>11, <2>2 DEF BeginEvent, OthersKeep, PostPCs
  <2>4. Holds(p)' /\ OwedUp(p)'
    BY <1>1, <1>2, <1>3, <1>11, <2>2 DEF BeginEvent, Holds, OwedUp
  <2> QED  BY <2>3, <2>4, PostMoves
<1>12. CASE EndEvent(p)
  <2>1. target[p] \in Conns /\ target[p] \in todo[p]
    BY <1>1, <1>2, <1>12 DEF EndEvent, Holds
  <2>2. /\ events' \in Streams
        /\ gone' \subseteq Conns /\ gone \subseteq gone' /\ broken' = broken
        /\ \/ UNCHANGED events
           \/ \E j \in clients \cup {target[p]} :
                 events' = [events EXCEPT ![j] = Append(events[j], p)]
        /\ LeaveWrite(p, target[p])
    BY <1>1, <1>12, <2>1, EndWriteEffect DEF EndEvent, IndInv
  <2>3. mixed' \subseteq Writers \X Conns
        /\ owed' = [owed EXCEPT ![p] = owed[p] \ {target[p]}]
    BY <1>1, <2>1, <2>2, LeaveWriteEffect DEF IndInv
  <2>4. \A j \in Conns : sse[j] = "idle" => events'[j] = events[j]
    BY <1>1, <2>1, <2>2 DEF Streams, Holds
  <2>5. /\ post[p] = "writing" /\ post' = [post EXCEPT ![p] = "next"]
        /\ todo' = [todo EXCEPT ![p] = todo[p] \ {target[p]}]
        /\ target' = [target EXCEPT ![p] = None]
        /\ UNCHANGED <<sseVars, req, posted, aborted, serve>>
    BY <1>12 DEF EndEvent
  <2>6. OthersKeep(p)
    BY <1>1, <1>2, <2>2, <2>3, <2>4, <2>5 DEF OthersKeep, PostPCs
  <2>7. Holds(p)'
    BY <1>1, <1>2, <1>3, <2>5 DEF Holds
  <2>8. OwedUp(p)'
    BY <1>1, <1>2, <1>3, <2>2, <2>3, <2>5 DEF OwedUp
  <2> QED  BY <2>6, <2>7, <2>8, PostMoves
<1>13. CASE PostPanics(p)
  <2>1. target[p] \in Conns
    BY <1>1, <1>2, <1>13 DEF PostPanics, Holds
  <2>2. LeaveWrite(p, target[p]) /\ UNCHANGED events
    BY <1>13 DEF PostPanics, PanicInWrite
  <2>3. mixed' \subseteq Writers \X Conns
        /\ owed' = [owed EXCEPT ![p] = owed[p] \ {target[p]}]
    BY <1>1, <2>1, <2>2, LeaveWriteEffect DEF IndInv
  <2>4. /\ post[p] = "writing" /\ post' = [post EXCEPT ![p] = "panicked"]
        /\ aborted' \in {aborted, aborted \cup {p}}
        /\ todo' = [todo EXCEPT ![p] = {}]
        /\ target' = [target EXCEPT ![p] = None]
        /\ UNCHANGED <<sseVars, gone, broken, req, posted, serve>>
    BY <1>13 DEF PostPanics
  <2>5. OthersKeep(p)
    BY <1>1, <1>2, <2>2, <2>3, <2>4 DEF OthersKeep, PostPCs
  <2>6. Holds(p)' /\ OwedUp(p)'
    BY <1>1, <1>2, <1>3, <2>3, <2>4 DEF Holds, OwedUp
  <2> QED  BY <2>5, <2>6, PostMoves
<1>14. CASE PostReturns(p)
  <2>1. OthersKeep(p)
    BY <1>1, <1>2, <1>14 DEF PostReturns, OthersKeep, PostPCs
  <2>2. Holds(p)' /\ OwedUp(p)'
    BY <1>1, <1>2, <1>3, <1>14 DEF PostReturns, Holds, OwedUp
  <2> QED  BY <2>1, <2>2, PostMoves
<1> QED
  BY <1>4, <1>5, <1>6, <1>7, <1>8, <1>9, <1>10, <1>11, <1>12, <1>13, <1>14
     DEF HandleMessage, ServesPost

(* The network and Serve leave the handlers where they are.                *)
LEMMA OutsideStep ==
    ASSUME IndInv,
           \/ \E k \in Conns : Network(k)
           \/ ListenFails \/ Shutdown \/ Serve \/ Exit \/ UNCHANGED vars
    PROVE  TypeOK' /\ StreamsBegin' /\ PostHolds' /\ OwedIsUp'
<1>1. /\ UNCHANGED <<sse, postVars, owed>>
      /\ gone \subseteq gone' /\ broken \subseteq broken'
  BY DEF Network, ConnBreaks, ContextDone, ClientReads, ListenFails, Shutdown,
     Serve, ShutdownReturns, ShutdownExpires, Exit, ServeGoTo, vars, sseVars,
     connVars, writeVars
<1>2. TypeOK'
  <2>1. CASE \E k \in Conns : ClientReads(k)
    <3>1. PICK k \in Conns : ClientReads(k)
      BY <2>1
    <3>2. events[k] \in Seq({Greeting} \cup Posts) /\ events[k] # <<>>
      BY <3>1 DEF ClientReads, IndInv, TypeOK
    <3>3. Tail(events[k]) \in Seq({Greeting} \cup Posts)
      BY <3>2
    <3> QED  BY <3>1, <3>3 DEF ClientReads, IndInv, TypeOK, sseVars, connVars, postVars
  <2>2. CASE \E k \in Conns : ConnBreaks(k) \/ ContextDone(k)
    BY <2>2 DEF ConnBreaks, ContextDone, IndInv, TypeOK, sseVars, writeVars, postVars
  <2>3. CASE ListenFails \/ Shutdown \/ Serve \/ Exit \/ UNCHANGED vars
    BY <2>3 DEF ListenFails, Shutdown, Serve, ShutdownReturns, ShutdownExpires,
       Exit, ServeGoTo, vars, IndInv, TypeOK, sseVars, connVars, writeVars, postVars
  <2> QED  BY <2>1, <2>2, <2>3 DEF Network
<1>3. StreamsBegin'
  <2>1. \A j \in Conns : events[j] = <<>> => events'[j] = events[j]
    BY DEF Network, ConnBreaks, ContextDone, ClientReads, ListenFails, Shutdown,
       Serve, ShutdownReturns, ShutdownExpires, Exit, ServeGoTo, vars, sseVars,
       connVars, writeVars, IndInv, TypeOK
  <2> QED  BY <1>1, <2>1 DEF IndInv, StreamsBegin
<1>4. PostHolds'
  BY <1>1, BroadcastsKept DEF IndInv, PostHolds, Holds, postVars
<1>5. OwedIsUp'
  BY <1>1, BroadcastsKept DEF IndInv, OwedIsUp, OwedUp, postVars
<1> QED  BY <1>2, <1>3, <1>4, <1>5

LEMMA InvStep == IndInv /\ [Next]_vars => IndInv'
<1> SUFFICES ASSUME IndInv, [Next]_vars
             PROVE  IndInv'
  OBVIOUS
<1>1. HandlersCount' /\ activeConns' \in 0 .. Cardinality(Conns)
  BY CountStep DEF IndInv
<1> QED  BY <1>1, SSEStep, PostStep, OutsideStep DEF Next, IndInv

LEMMA Safety == Spec => []IndInv
  BY InvInit, InvStep, PTL DEF Spec

-----------------------------------------------------------------------------
(* The theorems                                                            *)

(* Type correctness of the server.                                         *)
THEOREM TypeCorrect == Spec => []TypeOK
<1>1. IndInv => TypeOK
  BY DEF IndInv
<1> QED  BY <1>1, Safety, PTL

(* Between the steps of no handler /health counts the registered clients.  *)
THEOREM HealthIsRight == Spec => []HealthAgrees
<1>1. IndInv => HealthAgrees
  <2> SUFFICES ASSUME IndInv, \A k \in Conns : sse[k] \notin {"count", "close", "uncount"}
               PROVE  activeConns = Cardinality(clients)
    BY DEF HealthAgrees, Health
  <2>1. InMap = Counted
    BY DEF InMap, Counted
  <2> QED  BY <2>1 DEF IndInv, HandlersCount
<1> QED  BY <1>1, Safety, PTL

(* A broadcast leaves out no stream but the ones that ended or broke.      *)
THEOREM BroadcastsReach == Spec => []AnswersReachStreams
<1>1. IndInv => AnswersReachStreams
  BY DEF IndInv, OwedIsUp, OwedUp, AnswersReachStreams
<1> QED  BY <1>1, Safety, PTL

-----------------------------------------------------------------------------
(* The refinement of EventService                                          *)

View == <<Up, Greeted, events, Alive, AtServer, todo, posted, aborted, Answered>>

LEMMA ServiceInit == Init => Service!Init
  BY DEF Init, Service!Init, Up, Greeted, Alive, AtServer, Answered, Handling

(* What clients see of a step that leaves the posts alone ...              *)
LEMMA PostsUnseen ==
    ASSUME IndInv, UNCHANGED postVars
    PROVE  UNCHANGED <<AtServer, todo, posted, aborted, Answered>>
  BY BroadcastsKept DEF postVars, AtServer, Answered, IndInv, TypeOK

(* ... of a step of the handler of one connection ...                      *)
LEMMA StreamSeen ==
    ASSUME IndInv, NEW k \in Conns, NEW m \in SSEPCs, sse' = [sse EXCEPT ![k] = m],
           UNCHANGED serve
    PROVE  /\ Greeted' = IF m \in {"idle", "count", "greet", "greeting"}
                         THEN Greeted \ {k} ELSE Greeted \cup {k}
           /\ Alive' = Alive
           /\ clients' = clients => Up' = Up
  BY DEF IndInv, TypeOK, Greeted, Up, Alive

(* ... and of a step of the handler of one post.                           *)
LEMMA PostSeen ==
    ASSUME IndInv, NEW p \in Posts, OthersKeep(p)
    PROVE  /\ UNCHANGED <<Up, Greeted, Alive>>
           /\ AtServer' = IF post'[p] \in Handling
                          THEN AtServer \cup {p} ELSE AtServer \ {p}
           /\ Answered' = IF /\ post'[p] \in {"next", "checked", "writing",
                                              "returned", "panicked"}
                             /\ Broadcasts(p)'
                          THEN Answered \cup {p} ELSE Answered \ {p}
  <1>1. UNCHANGED <<Up, Greeted, Alive>>
    BY DEF OthersKeep, sseVars, Up, Greeted, Alive
  <1>2. AtServer' = IF post'[p] \in Handling
                    THEN AtServer \cup {p} ELSE AtServer \ {p}
    BY DEF OthersKeep, AtServer
  <1>3. \A q \in Posts \ {p} : Broadcasts(q)' <=> Broadcasts(q)
    BY BroadcastsKept DEF OthersKeep
  <1> QED  BY <1>1, <1>2, <1>3 DEF OthersKeep, Answered

(* Every step of the server is one that its clients expect of a service,   *)
(* or one that they do not see.                                            *)
LEMMA SSERefines ==
    ASSUME IndInv, NEW k \in Conns, Register(k) \/ HandleSSE(k)
    PROVE  Service!Next \/ UNCHANGED View
<1>1. /\ UNCHANGED serve /\ Alive
      /\ UNCHANGED <<AtServer, todo, posted, aborted, Answered>>
  BY PostsUnseen DEF HandleSSE, ServesStream, Register, Count, BeginGreeting,
     EndGreeting, BeginHeartbeat, EndHeartbeat, SSEPanics, StreamDone, Remove,
     CloseDone, Uncount, SSEAt
<1>2. k \in Writers /\ clients \subseteq Conns /\ clients = InMap /\ sse[k] \in SSEPCs
  BY DEF Writers, IndInv, TypeOK, HandlersCount
<1>3. Up = clients /\ Up' = clients'
  BY <1>1 DEF Up, Alive
<1> USE DEF SSEAt, SSEGoTo, writeVars, SSEPCs
<1>4. CASE Register(k)
  <2>1. Greeted' = Greeted /\ k \notin Greeted \cup clients /\ Alive'
    BY <1>1, <1>2, <1>4, StreamSeen DEF Register, Greeted, InMap
  <2>2. events[k] = <<>> /\ UNCHANGED events
    BY <1>4 DEF Register, IndInv, StreamsBegin
  <2>3. Service!Accepts(k)
    BY <1>1, <1>3, <1>4, <2>1, <2>2 DEF Register, Service!Accepts, Service!postVars
  <2> QED  BY <2>3 DEF Service!Next
<1>5. CASE Count(k) \/ BeginGreeting(k) \/ BeginHeartbeat(k) \/ StreamDone(k)
           \/ CloseDone(k) \/ Uncount(k)
  <2>1. PICK m \in SSEPCs :
          /\ sse' = [sse EXCEPT ![k] = m] /\ UNCHANGED <<clients, events>>
          /\ \/ sse[k] \in {"count", "greet"} /\ m \in {"greet", "greeting"}
             \/ /\ sse[k] \in {"loop", "close", "uncount"}
                /\ m \in {"beat", "remove", "uncount", "ended"}
    BY <1>5 DEF Count, BeginGreeting, BeginHeartbeat, StreamDone, CloseDone,
                Uncount, BeginWrite
  <2>2. UNCHANGED <<Up, Greeted, Alive>>
    BY <1>1, <2>1, StreamSeen DEF Greeted
  <2> QED  BY <1>1, <2>1, <2>2 DEF View
<1>6. CASE EndGreeting(k)
  <2>1. EndWrite(k, k, Greeting) /\ UNCHANGED clients /\ sse[k] = "greeting"
        /\ sse' = [sse EXCEPT ![k] = "loop"]
    BY <1>6 DEF EndGreeting
  <2>2. Greeted' = Greeted \cup {k} /\ k \in clients \ Greeted /\ UNCHANGED <<Up, Alive>>
    BY <1>1, <1>2, <2>1, StreamSeen DEF Greeted, InMap
  <2>3. \/ UNCHANGED events
        \/ \E j \in clients : /\ Len(events[j]) < StreamCap
                              /\ events' = [events EXCEPT ![j] = Append(events[j], Greeting)]
    BY <1>2, <2>1, <2>2, EndWriteEffect DEF IndInv
  <2>4. Service!Greets(k)
    BY <1>1, <1>3, <2>2, <2>3 DEF Service!Greets, Service!Write, Service!HasRoom,
       Service!postVars
  <2> QED  BY <2>4 DEF Service!Next
<1>7. CASE EndHeartbeat(k)
  <2>1. EndWrite(k, k, Beat) /\ UNCHANGED clients /\ sse[k] = "beat"
        /\ sse' = [sse EXCEPT ![k] = "loop"]
    BY <1>7 DEF EndHeartbeat
  <2>2. UNCHANGED <<Up, Greeted, Alive>>
    BY <1>1, <2>1, StreamSeen DEF Greeted
  <2>3. UNCHANGED events
    BY <1>2, <2>1, EndWriteEffect DEF IndInv
  <2> QED  BY <1>1, <2>2, <2>3 DEF View
<1>8. CASE SSEPanics(k)
  <2>1. UNCHANGED <<clients, events>> /\ sse[k] \in {"greeting", "beat"}
        /\ sse' = [sse EXCEPT ![k] = "remove"]
    BY <1>8 DEF SSEPanics, PanicInWrite
  <2>2. Greeted' = Greeted \cup {k} /\ k \in clients /\ UNCHANGED <<Up, Alive>>
    BY <1>1, <1>2, <2>1, StreamSeen DEF InMap
  <2>3. CASE k \in Greeted
    BY <1>1, <2>1, <2>2, <2>3 DEF View
  <2>4. CASE k \notin Greeted
    <3>1. Service!Greets(k)
      BY <1>1, <1>3, <2>1, <2>2, <2>4 DEF Service!Greets, Service!postVars
    <3> QED  BY <3>1 DEF Service!Next
  <2> QED  BY <2>3, <2>4
<1>9. CASE Remove(k)
  <2>1. clients' = clients \ {k} /\ UNCHANGED events /\ sse[k] = "remove"
        /\ sse' = [sse EXCEPT ![k] = "close"]
    BY <1>9 DEF Remove
  <2>2. UNCHANGED <<Greeted, Alive>> /\ k \in clients
    BY <1>1, <1>2, <2>1, StreamSeen DEF Greeted, InMap
  <2>3. Service!Drops(k)
    BY <1>1, <1>3, <2>1, <2>2 DEF Service!Drops, Service!postVars
  <2> QED  BY <2>3 DEF Service!Next
<1> QED
  BY <1>4, <1>5, <1>6, <1>7, <1>8, <1>9 DEF HandleSSE, ServesStream

LEMMA PostRefines ==
    ASSUME IndInv, NEW p \in Posts, PostArrives(p) \/ HandleMessage(p)
    PROVE  Service!Next \/ UNCHANGED View
<1>1. /\ Alive /\ Holds(p) /\ OthersKeep(p) /\ p \in Writers
      /\ clients \subseteq Conns /\ Up = clients
  BY PostStep DEF PostArrives, HandleMessage, ServesPost, ReadRequest, WriteError,
     HandlerReturns, WriteReply, Snapshot, NextClient, BeginEvent, EndEvent,
     PostReturns, PostPanics, PostAt, IndInv, TypeOK, PostHolds, Writers, Up
<1>2. /\ UNCHANGED <<Up, Greeted, Alive>>
      /\ AtServer' = IF post'[p] \in Handling
                     THEN AtServer \cup {p} ELSE AtServer \ {p}
      /\ Answered' = IF /\ post'[p] \in {"next", "checked", "writing",
                                         "returned", "panicked"}
                        /\ Broadcasts(p)'
                     THEN Answered \cup {p} ELSE Answered \ {p}
  BY <1>1, PostSeen
<1>3. /\ p \in AtServer <=> post[p] \in Handling
      /\ p \in Answered <=> /\ post[p] \in {"next", "checked", "writing",
                                            "returned", "panicked"}
                            /\ Broadcasts(p)
  BY DEF AtServer, Answered
<1>4. req'[p] = req[p] => (Broadcasts(p)' <=> Broadcasts(p))
  BY BroadcastsKept
<1>5. /\ post \in [Posts -> PostPCs] /\ todo \in [Posts -> SUBSET Conns]
      /\ posted \subseteq Posts /\ aborted \subseteq Posts
      /\ todo = [todo EXCEPT ![p] = todo[p]]
  BY DEF IndInv, TypeOK
<1> USE DEF PostAt, PostGoTo, writeVars, Handling, InBroadcast, Holds
<1>6. CASE PostArrives(p)
  <2>1. /\ AtServer' = AtServer \cup {p} /\ UNCHANGED Answered
        /\ UNCHANGED <<events, todo, posted, aborted>>
    BY <1>2, <1>3, <1>5, <1>6 DEF PostArrives
  <2>2. Service!Arrives(p)
    BY <1>1, <1>2, <2>1 DEF Service!Arrives, Service!streamVars
  <2> QED  BY <2>2 DEF Service!Next
<1>7. CASE ReadRequest(p) \/ BeginEvent(p)
  <2>1. /\ UNCHANGED <<events, todo, posted, aborted, req>>
        /\ \/ post[p] = "read" /\ post'[p] \in {"refuse", "handler", "reply"}
           \/ post[p] = "checked" /\ post'[p] = "writing"
    BY <1>5, <1>7 DEF ReadRequest, BeginEvent, BeginWrite
  <2>2. UNCHANGED <<AtServer, Answered>>
    BY <1>1, <1>2, <1>3, <1>4, <2>1
  <2> QED  BY <1>2, <2>1, <2>2 DEF View
<1>8. CASE WriteError(p)
  <2>1. /\ post[p] = "refuse" /\ post'[p] = "returned" /\ posted' = posted \cup {p}
        /\ UNCHANGED <<events, todo, aborted, req>>
    BY <1>5, <1>8 DEF WriteError
  <2>2. AtServer' = AtServer \ {p} /\ UNCHANGED Answered /\ p \in AtServer \ posted
    BY <1>1, <1>2, <1>3, <1>4, <2>1
  <2>3. Service!Refuses(p)
    BY <1>1, <1>2, <2>1, <2>2 DEF Service!Refuses, Service!streamVars
  <2> QED  BY <2>3 DEF Service!Next
<1>9. CASE HandlerReturns(p)
  <2>1. /\ post[p] = "handler" /\ UNCHANGED <<events, todo, posted, req>>
        /\ \/ post'[p] = "reply" /\ UNCHANGED aborted
           \/ post'[p] = "crashed" /\ aborted' = aborted \cup {p}
    BY <1>5, <1>9 DEF HandlerReturns
  <2>2. UNCHANGED Answered /\ todo[p] = {} /\ p \in AtServer /\ p \notin posted
    BY <1>1, <1>2, <1>3, <2>1
  <2>3. CASE post'[p] = "reply"
    BY <1>2, <2>1, <2>2, <2>3 DEF View
  <2>4. CASE post'[p] = "crashed"
    <3>1. todo' = [todo EXCEPT ![p] = {}]
      BY <1>5, <2>1, <2>2
    <3>2. AtServer' = AtServer \ {p} /\ aborted' = aborted \cup {p}
      BY <1>2, <2>1, <2>4
    <3>3. Service!Aborts(p)
      BY <1>1, <1>2, <2>1, <2>2, <3>1, <3>2 DEF Service!Aborts, Service!streamVars
    <3> QED  BY <3>3 DEF Service!Next
  <2> QED  BY <2>1, <2>3, <2>4
<1>10. CASE WriteReply(p)
  <2>1. /\ post[p] = "reply" /\ post'[p] = "snapshot"
        /\ UNCHANGED <<events, todo, aborted, req>>
        /\ posted' = posted \cup {p} \/ UNCHANGED posted
    BY <1>5, <1>10 DEF WriteReply
  <2>2. /\ UNCHANGED <<AtServer, Answered>> /\ p \in AtServer
        /\ p \notin posted \cup aborted
    BY <1>1, <1>2, <1>3, <2>1
  <2>3. CASE UNCHANGED posted
    BY <1>2, <2>1, <2>2, <2>3 DEF View
  <2>4. CASE posted' = posted \cup {p}
    <3>1. Service!Responds(p)
      BY <1>1, <1>2, <2>1, <2>2, <2>4 DEF Service!Responds, Service!streamVars
    <3> QED  BY <3>1 DEF Service!Next
  <2> QED  BY <2>1, <2>3, <2>4
<1>11. CASE Snapshot(p)
  <2>1. /\ post[p] = "snapshot" /\ post'[p] = "next"
        /\ todo' = [todo EXCEPT ![p] = clients]
        /\ UNCHANGED <<events, posted, aborted, req>>
    BY <1>5, <1>11 DEF Snapshot
  <2>2. /\ AtServer' = AtServer \ {p} /\ Answered' = Answered \cup {p}
        /\ p \in AtServer
    BY <1>1, <1>2, <1>3, <1>4, <2>1
  <2>3. Service!Answers(p)
    BY <1>1, <1>2, <2>1, <2>2 DEF Service!Answers, Service!streamVars
  <2> QED  BY <2>3 DEF Service!Next
<1>12. CASE NextClient(p)
  <2>1. /\ post[p] = "next" /\ post'[p] \in {"next", "checked"}
        /\ UNCHANGED <<events, posted, aborted, req>>
    BY <1>5, <1>12 DEF NextClient
  <2>2. UNCHANGED <<AtServer, Answered>>
    BY <1>1, <1>2, <1>3, <1>4, <2>1
  <2>3. \/ UNCHANGED todo
        \/ \E k \in todo[p] : todo' = [todo EXCEPT ![p] = todo[p] \ {k}]
    BY <1>12 DEF NextClient
  <2>4. CASE UNCHANGED todo
    BY <1>2, <2>1, <2>2, <2>4 DEF View
  <2>5. ASSUME NEW k \in todo[p], todo' = [todo EXCEPT ![p] = todo[p] \ {k}]
        PROVE  Service!Next
    <3>1. Service!Sends(p, k) /\ k \in Conns
      BY <1>1, <1>2, <1>5, <2>1, <2>2, <2>5 DEF Service!Sends
    <3> QED  BY <3>1 DEF Service!Next
  <2> QED  BY <2>3, <2>4, <2>5
<1>13. CASE EndEvent(p)
  <2>1. /\ post[p] = "writing" /\ post'[p] = "next"
        /\ todo' = [todo EXCEPT ![p] = todo[p] \ {target[p]}]
        /\ EndWrite(p, target[p], p) /\ UNCHANGED <<posted, aborted, req>>
    BY <1>5, <1>13 DEF EndEvent
  <2>2. target[p] \in todo[p] /\ target[p] \in Conns
    BY <1>1, <1>5, <2>1
  <2>3. UNCHANGED <<AtServer, Answered>>
    BY <1>1, <1>2, <1>3, <1>4, <2>1
  <2>4. \/ UNCHANGED events
        \/ \E j \in clients \cup {target[p]} :
              /\ Len(events[j]) < StreamCap
              /\ events' = [events EXCEPT ![j] = Append(events[j], p)]
    BY <1>1, <2>1, <2>2, EndWriteEffect DEF IndInv
  <2>5. Service!Sends(p, target[p])
    BY <1>1, <1>2, <2>1, <2>2, <2>3, <2>4 DEF Service!Sends, Service!Write,
       Service!HasRoom
  <2> QED  BY <2>2, <2>5 DEF Service!Next
<1>14. CASE PostPanics(p)
  <2>1. /\ post[p] = "writing" /\ post'[p] = "panicked"
        /\ aborted' = IF p \in posted THEN aborted ELSE aborted \cup {p}
        /\ todo' = [todo EXCEPT ![p] = {}] /\ UNCHANGED <<events, posted, req>>
    BY <1>5, <1>14 DEF PostPanics, PanicInWrite
  <2>2. AtServer' = AtServer \ {p} /\ UNCHANGED Answered /\ p \in Answered
    BY <1>1, <1>2, <1>3, <1>4, <2>1
  <2>3. Service!Aborts(p)
    BY <1>1, <1>2, <2>1, <2>2 DEF Service!Aborts, Service!streamVars
  <2> QED  BY <2>3 DEF Service!Next
<1>15. CASE PostReturns(p)
  <2>1. /\ post[p] = "next" /\ post'[p] = "returned" /\ posted' = posted \cup {p}
        /\ UNCHANGED <<events, todo, aborted, req>>
    BY <1>5, <1>15 DEF PostReturns
  <2>2. UNCHANGED <<AtServer, Answered>> /\ p \in Answered /\ p \notin aborted
    BY <1>1, <1>2, <1>3, <1>4, <2>1
  <2>3. CASE p \in posted
    <3>1. posted' = posted
      BY <2>1, <2>3
    <3> QED  BY <1>2, <2>1, <2>2, <3>1 DEF View
  <2>4. CASE p \notin posted
    <3>1. Service!Responds(p)
      BY <1>1, <1>2, <2>1, <2>2, <2>4 DEF Service!Responds, Service!streamVars
    <3> QED  BY <3>1 DEF Service!Next
  <2> QED  BY <2>3, <2>4
<1> QED
  BY <1>6, <1>7, <1>8, <1>9, <1>10, <1>11, <1>12, <1>13, <1>14, <1>15
     DEF HandleMessage, ServesPost

LEMMA OutsideRefines ==
    ASSUME IndInv,
           \/ \E k \in Conns : Network(k)
           \/ ListenFails \/ Shutdown \/ Serve \/ Exit \/ UNCHANGED vars
    PROVE  Service!Next \/ UNCHANGED View
<1>1. UNCHANGED <<sseVars, postVars>>
  BY DEF Network, ConnBreaks, ContextDone, ClientReads, ListenFails, Shutdown,
     Serve, ShutdownReturns, ShutdownExpires, Exit, ServeGoTo, vars
<1>2. UNCHANGED <<Greeted, AtServer, todo, posted, aborted, Answered>>
  BY <1>1, PostsUnseen DEF sseVars, Greeted
<1>3. ASSUME NEW k \in Conns, ClientReads(k)
      PROVE  Service!Next
  <2>1. UNCHANGED <<Up, Alive>>
    BY <1>1, <1>3 DEF ClientReads, sseVars, Up, Alive
  <2>2. Service!Reads(k)
    BY <1>2, <1>3, <2>1 DEF ClientReads, Service!Reads, Service!postVars
  <2> QED  BY <2>2 DEF Service!Next
<1>4. CASE Exit
  <2>1. Alive /\ ~Alive' /\ Up' = {} /\ UNCHANGED events
    BY <1>4 DEF Exit, ServeGoTo, Alive, Up, writeVars
  <2>2. Service!Down
    BY <1>2, <2>1 DEF Service!Down, Service!postVars
  <2> QED  BY <2>2 DEF Service!Next
<1>5. CASE \/ \E k \in Conns : ConnBreaks(k) \/ ContextDone(k)
           \/ ListenFails \/ Shutdown \/ Serve \/ UNCHANGED vars
  <2>1. UNCHANGED <<Alive, events>>
    BY <1>5 DEF ConnBreaks, ContextDone, ListenFails, Shutdown, Listening, Serve,
       ShutdownReturns, ShutdownExpires, ServeGoTo, vars, writeVars, Alive
  <2>2. UNCHANGED Up
    BY <1>1, <2>1 DEF Up, sseVars
  <2> QED  BY <1>2, <2>1, <2>2 DEF View
<1> QED  BY <1>3, <1>4, <1>5 DEF Network

(* The server gives its clients the service that HTTPClient relies on.     *)
THEOREM ServesClients == Spec => ImplementsService
<1>1. IndInv /\ [Next]_vars => [Service!Next]_(Service!vars)
  <2>1. IndInv /\ [Next]_vars => Service!Next \/ UNCHANGED View
    BY SSERefines, PostRefines, OutsideRefines DEF Next
  <2>2. UNCHANGED View => UNCHANGED Service!vars
    BY DEF View, Service!vars, Service!streamVars, Service!postVars
  <2> QED  BY <2>1, <2>2
<1> QED  BY <1>1, ServiceInit, Safety, PTL DEF Spec, ImplementsService, Service!Spec
=============================================================================
