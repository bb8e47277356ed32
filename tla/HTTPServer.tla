----------------------------- MODULE HTTPServer -----------------------------
(***************************************************************************)
(* The HTTP server of pkg/server/http_server.go.  Every SSE connection has *)
(* a handler (handleSSE) that greets it and then sends heartbeats; every   *)
(* post has one (handleMessage) that answers the request and then writes   *)
(* the answer to every connection of the clients map.  Nothing orders the  *)
(* writes of the several handlers to one connection: net/http leaves open  *)
(* what becomes of writes that overlap, or that come after the handler of  *)
(* the connection has returned.                                            *)
(*                                                                         *)
(* Tools, resources and prompts are registered before serving.  Requests   *)
(* with the wrong HTTP method change nothing and are left out.             *)
(***************************************************************************)
EXTENDS Naturals, Sequences, FiniteSets, Dispatch

CONSTANTS
    Conns,            \* one per GET of /sse
    Posts,            \* one per POST to /message
    Bodies,           \* what a request may ask for
    HandlerOutcomes,  \* how the registered handlers may end
    StreamCap,        \* events a connection buffers before a write blocks
    None

Malformed == "malformed"  \* too long, not JSON, or not JSON-RPC 2.0

ASSUME ConnsAssumption == IsFiniteSet(Conns) /\ Conns \cap Posts = {}
ASSUME BodiesAssumption ==
    Bodies \subseteq [method : Methods \cup {Malformed}, params : {"ok", "bad"},
                      name : STRING \cup {None}]
ASSUME OutcomeAssumption == HandlerOutcomes \subseteq Outcomes
ASSUME CapAssumption == StreamCap \in Nat \ {0}
ASSUME NoneAssumption == None \notin Conns \cup Posts \cup Bodies

VARIABLES
    sse,          \* sse[k]: where the handler of connection k is
    clients,      \* the clients map
    activeConns,  \* the atomic counter that /health reports
    gone,         \* the connections whose request context is done
    broken,       \* the connections whose writes fail
    events,       \* events[k]: what the client of k has not read yet
    mixed,        \* writes <<w, k>> whose outcome is undefined
    post,         \* post[p]: where the handler of post p is
    req,          \* req[p]: what it was asked for
    todo,         \* todo[p]: the snapshot, less what is behind the handler
    target,       \* target[p]: the connection it is at
    posted,       \* the posts that have got their response
    aborted,      \* the posts whose connection was closed without one
    serve,        \* how far Serve is
    owed          \* history: owed[p]: the streams still entitled to the answer

sseVars   == <<sse, clients, activeConns>>
connVars  == <<gone, broken>>
writeVars == <<events, mixed, owed>>
postVars  == <<post, req, todo, target, posted, aborted>>
vars == <<sseVars, connVars, writeVars, postVars, serve>>

Init ==
    /\ sse = [k \in Conns |-> "idle"]
    /\ clients = {} /\ activeConns = 0
    /\ gone = {} /\ broken = {}
    /\ events = [k \in Conns |-> <<>>]
    /\ mixed = {}
    /\ post = [p \in Posts |-> "idle"]
    /\ req = [p \in Posts |-> None]
    /\ todo = [p \in Posts |-> {}]
    /\ target = [p \in Posts |-> None]
    /\ posted = {} /\ aborted = {}
    /\ serve = "listening"
    /\ owed = [p \in Posts |-> {}]

Alive == serve # "exited"
Listening == serve = "listening"

-----------------------------------------------------------------------------
(* Writes to a connection.  Writer w is a post, or the connection itself   *)
(* for its own handler.                                                    *)

Greeting == "greeting"
Beat == "beat"

Writing(k) == {p \in Posts : post[p] = "writing" /\ target[p] = k}
              \cup {j \in {k} : sse[j] \in {"greeting", "beat"}}
Marks(k, ws) == {<<w, k>> : w \in ws}

(* A write that begins while another is under way, or after the handler    *)
(* has returned, is outside what net/http defines.                         *)
BeginWrite(w, k) ==
    /\ mixed' = CASE Writing(k) # {} -> mixed \cup Marks(k, Writing(k) \cup {w})
                  [] Writing(k) = {} /\ sse[k] = "ended" -> mixed \cup {<<w, k>>}
                  [] OTHER -> mixed
    /\ UNCHANGED <<events, owed>>

(* Once written to, or at an undefined write, a stream is owed no more.    *)
LeaveWrite(w, k) ==
    /\ mixed' = mixed \ {<<w, k>>}
    /\ owed' = IF w \in Posts THEN [owed EXCEPT ![w] = @ \ {k}] ELSE owed

(* A heartbeat is a comment, which no reader of events sees.               *)
Put(j, e) ==
    /\ Len(events[j]) < StreamCap
    /\ events' = IF e = Beat THEN events ELSE [events EXCEPT ![j] = Append(@, e)]

(* A write by itself blocks until there is room, and fails on a broken     *)
(* connection, which ends the context of its request.                      *)
WriteLands(w, k, e) ==
    /\ <<w, k>> \notin mixed /\ k \notin broken
    /\ Put(k, e) /\ UNCHANGED connVars

WriteFails(w, k) ==
    /\ <<w, k>> \notin mixed /\ k \in broken
    /\ gone' = gone \cup {k}
    /\ UNCHANGED <<broken, events>>

(* Undefined: it lands, is lost, or, the buffer having been handed on to a *)
(* later request, lands on another connection.                             *)
WriteUndefined(w, k, e) ==
    /\ <<w, k>> \in mixed
    /\ (\E j \in clients \cup {k} : Put(j, e)) \/ UNCHANGED events
    /\ UNCHANGED connVars

EndWrite(w, k, e) ==
    /\ WriteLands(w, k, e) \/ WriteFails(w, k) \/ WriteUndefined(w, k, e)
    /\ LeaveWrite(w, k)

(* Or it panics; net/http recovers and closes the connection of the        *)
(* request whose handler it is.                                            *)
PanicInWrite(w, k) ==
    /\ <<w, k>> \in mixed
    /\ LeaveWrite(w, k)
    /\ UNCHANGED events

-----------------------------------------------------------------------------
(* handleSSE                                                               *)

SSEAt(k, l) == sse[k] = l /\ Alive
SSEGoTo(k, l) == sse' = [sse EXCEPT ![k] = l]

Register(k) ==
    /\ SSEAt(k, "idle") /\ Listening
    /\ clients' = clients \cup {k}
    /\ SSEGoTo(k, "count")
    /\ UNCHANGED <<activeConns, connVars, writeVars, postVars, serve>>

(* Faulty: the counter is forgotten where the client is registered.        *)
CountForgotten(k) ==
    /\ SSEAt(k, "count")
    /\ SSEGoTo(k, "greet")
    /\ UNCHANGED <<clients, activeConns, connVars, writeVars, postVars, serve>>

Count(k) ==
    /\ SSEAt(k, "count")
    /\ activeConns' = activeConns + 1
    /\ SSEGoTo(k, "greet")
    /\ UNCHANGED <<clients, connVars, writeVars, postVars, serve>>

BeginGreeting(k) ==
    /\ SSEAt(k, "greet")
    /\ BeginWrite(k, k) /\ SSEGoTo(k, "greeting")
    /\ UNCHANGED <<clients, activeConns, connVars, postVars, serve>>

EndGreeting(k) ==
    /\ SSEAt(k, "greeting")
    /\ EndWrite(k, k, Greeting) /\ SSEGoTo(k, "loop")
    /\ UNCHANGED <<clients, activeConns, postVars, serve>>

(* HeartbeatInterval is positive, as in DefaultHTTPServerConfig: otherwise *)
(* NewTicker panics, and no stream outlives its greeting.                  *)
BeginHeartbeat(k) ==
    /\ SSEAt(k, "loop")
    /\ BeginWrite(k, k) /\ SSEGoTo(k, "beat")
    /\ UNCHANGED <<clients, activeConns, connVars, postVars, serve>>

EndHeartbeat(k) ==
    /\ SSEAt(k, "beat")
    /\ EndWrite(k, k, Beat) /\ SSEGoTo(k, "loop")
    /\ UNCHANGED <<clients, activeConns, postVars, serve>>

(* The deferred function runs on a panic too.                              *)
SSEPanics(k) ==
    /\ SSEAt(k, "greeting") \/ SSEAt(k, "beat")
    /\ PanicInWrite(k, k) /\ SSEGoTo(k, "remove")
    /\ broken' = broken \cup {k}
    /\ UNCHANGED <<clients, activeConns, gone, postVars, serve>>

(* Faulty: the loop serves its heartbeats and nothing else.                *)
StreamDoneIgnored(k) == FALSE

StreamDone(k) ==
    /\ SSEAt(k, "loop") /\ k \in gone
    /\ SSEGoTo(k, "remove")
    /\ UNCHANGED <<clients, activeConns, connVars, writeVars, postVars, serve>>

Remove(k) ==
    /\ SSEAt(k, "remove")
    /\ clients' = clients \ {k}
    /\ SSEGoTo(k, "close")
    /\ UNCHANGED <<activeConns, connVars, writeVars, postVars, serve>>

CloseDone(k) ==
    /\ SSEAt(k, "close")
    /\ SSEGoTo(k, "uncount")
    /\ UNCHANGED <<clients, activeConns, connVars, writeVars, postVars, serve>>

(* Faulty: the deferred function leaves the counter alone.                 *)
UncountForgotten(k) ==
    /\ SSEAt(k, "uncount")
    /\ SSEGoTo(k, "ended")
    /\ mixed' = mixed \cup Marks(k, Writing(k))
    /\ UNCHANGED <<clients, activeConns, events, owed, connVars, postVars,
                   serve>>

(* The last deferred step; the handler returns, and a write that is under  *)
(* way is no longer inside it.                                             *)
Uncount(k) ==
    /\ SSEAt(k, "uncount")
    /\ activeConns' = activeConns - 1
    /\ SSEGoTo(k, "ended")
    /\ mixed' = mixed \cup Marks(k, Writing(k))
    /\ UNCHANGED <<clients, events, owed, connVars, postVars, serve>>

ServesStream(k) ==
    \/ Count(k) \/ BeginGreeting(k) \/ EndGreeting(k)
    \/ BeginHeartbeat(k) \/ EndHeartbeat(k) \/ StreamDone(k)
    \/ Remove(k) \/ CloseDone(k) \/ Uncount(k)
HandleSSE(k) == ServesStream(k) \/ SSEPanics(k)

(* client.done, which the broadcasts look at.                              *)
Done(k) == sse[k] \in {"uncount", "ended"}

Health == activeConns

-----------------------------------------------------------------------------
(* The network and the deadlines of net/http (external)                    *)

Open(k) == sse[k] \notin {"idle", "ended"}

(* The client has left, or WriteTimeout, counted from the request, is over.*)
ConnBreaks(k) ==
    /\ Open(k) /\ k \notin broken /\ Alive
    /\ broken' = broken \cup {k}
    /\ UNCHANGED <<sseVars, gone, writeVars, postVars, serve>>

(* The server notices on the reading side: an end of file, or ReadTimeout. *)
ContextDone(k) ==
    /\ Open(k) /\ k \notin gone /\ Alive
    /\ gone' = gone \cup {k}
    /\ UNCHANGED <<sseVars, broken, writeVars, postVars, serve>>

ClientReads(k) ==
    /\ events[k] # <<>>
    /\ events' = [events EXCEPT ![k] = Tail(@)]
    /\ UNCHANGED <<sseVars, connVars, mixed, owed, postVars, serve>>

Network(k) == ConnBreaks(k) \/ ContextDone(k) \/ ClientReads(k)

-----------------------------------------------------------------------------
(* handleMessage and broadcastToSSE                                        *)

PostAt(p, l) == post[p] = l /\ Alive
PostGoTo(p, l) == post' = [post EXCEPT ![p] = l]

PostArrives(p) ==
    /\ PostAt(p, "idle") /\ Listening
    /\ PostGoTo(p, "read")
    /\ \E b \in Bodies : req' = [req EXCEPT ![p] = b]
    /\ owed' = [owed EXCEPT ![p] = {k \in Conns : sse[k] \in {"loop", "beat"}}]
    /\ UNCHANGED <<sseVars, connVars, events, mixed, todo, target, posted,
                   aborted, serve>>

(* A request is for the streams when it is well-formed and gets an answer. *)
Broadcasts(p) == /\ req[p].method # Malformed
                 /\ RunsHandler(req[p]) \/ Answer(req[p]) # "none"

(* The body is read and decoded, and handleRequest looks the handler up.   *)
ReadRequest(p) ==
    /\ PostAt(p, "read")
    /\ PostGoTo(p, CASE ~Broadcasts(p) -> "refuse"
                     [] Broadcasts(p) /\ RunsHandler(req[p]) -> "handler"
                     [] OTHER -> "reply")
    /\ UNCHANGED <<sseVars, connVars, writeVars, req, todo, target, posted, aborted,
                   serve>>

(* Faulty: no return after writeError.                                     *)
WriteErrorFallsThrough(p) ==
    /\ PostAt(p, "refuse")
    /\ PostGoTo(p, "reply")
    /\ UNCHANGED <<sseVars, connVars, writeVars, req, todo, target, posted, aborted,
                   serve>>

(* writeError, or the 204 of a notification, and the handler returns.      *)
WriteError(p) ==
    /\ PostAt(p, "refuse")
    /\ PostGoTo(p, "returned")
    /\ posted' = posted \cup {p}
    /\ UNCHANGED <<sseVars, connVars, writeVars, req, todo, target, aborted,
                   serve>>

HandlerReturns(p) ==
    /\ PostAt(p, "handler")
    /\ \E o \in HandlerOutcomes :
          IF AnswerOf(req[p], o) = "panic"
          THEN PostGoTo(p, "crashed") /\ aborted' = aborted \cup {p}
          ELSE PostGoTo(p, "reply") /\ UNCHANGED aborted
    /\ UNCHANGED <<sseVars, connVars, writeVars, req, todo, target, posted,
                   serve>>

(* w.Write buffers the response: a long one leaves at once, another when   *)
(* the handler returns.                                                    *)
WriteReply(p) ==
    /\ PostAt(p, "reply")
    /\ PostGoTo(p, "snapshot")
    /\ posted' = posted \cup {p} \/ UNCHANGED posted
    /\ UNCHANGED <<sseVars, connVars, writeVars, req, todo, target, aborted,
                   serve>>

Snapshot(p) ==
    /\ PostAt(p, "snapshot")
    /\ todo' = [todo EXCEPT ![p] = clients]
    /\ PostGoTo(p, "next")
    /\ UNCHANGED <<sseVars, connVars, writeVars, req, target, posted, aborted,
                   serve>>

(* The look at client.done; the write comes a step later.                  *)
NextClient(p) ==
    /\ PostAt(p, "next")
    /\ \E k \in todo[p] :
          IF Done(k)
          THEN todo' = [todo EXCEPT ![p] = @ \ {k}] /\ UNCHANGED <<target, post>>
          ELSE /\ target' = [target EXCEPT ![p] = k]
               /\ PostGoTo(p, "checked") /\ UNCHANGED todo
    /\ UNCHANGED <<sseVars, connVars, writeVars, req, posted, aborted,
                   serve>>

BeginEvent(p) ==
    /\ PostAt(p, "checked")
    /\ BeginWrite(p, target[p]) /\ PostGoTo(p, "writing")
    /\ UNCHANGED <<sseVars, connVars, req, todo, target, posted, aborted,
                   serve>>

(* Faulty: the first write that fails ends the broadcast.                  *)
EndEventGivesUp(p) ==
    /\ PostAt(p, "writing")
    /\ EndWrite(p, target[p], p) /\ PostGoTo(p, "next")
    /\ todo' = [todo EXCEPT ![p] = IF target[p] \in broken THEN {}
                                   ELSE @ \ {target[p]}]
    /\ target' = [target EXCEPT ![p] = None]
    /\ UNCHANGED <<sseVars, req, posted, aborted, serve>>

(* Faulty: a write that only ends when the client has made room.           *)
EndEventNoDeadline(p) ==
    /\ PostAt(p, "writing") /\ target[p] \notin broken
    /\ EndWrite(p, target[p], p) /\ PostGoTo(p, "next")
    /\ todo' = [todo EXCEPT ![p] = @ \ {target[p]}]
    /\ target' = [target EXCEPT ![p] = None]
    /\ UNCHANGED <<sseVars, req, posted, aborted, serve>>

EndEvent(p) ==
    /\ PostAt(p, "writing")
    /\ EndWrite(p, target[p], p) /\ PostGoTo(p, "next")
    /\ todo' = [todo EXCEPT ![p] = @ \ {target[p]}]
    /\ target' = [target EXCEPT ![p] = None]
    /\ UNCHANGED <<sseVars, req, posted, aborted, serve>>

PostPanics(p) ==
    /\ PostAt(p, "writing")
    /\ PanicInWrite(p, target[p]) /\ PostGoTo(p, "panicked")
    /\ aborted' = IF p \in posted THEN aborted ELSE aborted \cup {p}
    /\ todo' = [todo EXCEPT ![p] = {}]
    /\ target' = [target EXCEPT ![p] = None]
    /\ UNCHANGED <<sseVars, connVars, req, posted, serve>>

PostReturns(p) ==
    /\ PostAt(p, "next") /\ todo[p] = {}
    /\ PostGoTo(p, "returned")
    /\ posted' = posted \cup {p}
    /\ UNCHANGED <<sseVars, connVars, writeVars, req, todo, target, aborted,
                   serve>>

ServesPost(p) ==
    \/ ReadRequest(p) \/ WriteError(p) \/ HandlerReturns(p)
    \/ WriteReply(p) \/ Snapshot(p) \/ NextClient(p) \/ BeginEvent(p)
    \/ EndEvent(p) \/ PostReturns(p)
HandleMessage(p) == ServesPost(p) \/ PostPanics(p)

-----------------------------------------------------------------------------
(* Serve                                                                   *)

ServeGoTo(l) ==
    /\ serve' = l
    /\ UNCHANGED <<sseVars, connVars, writeVars, postVars>>

(* ListenAndServe fails at once: there has been no request.                *)
ListenFails ==
    /\ Listening /\ \A k \in Conns : sse[k] = "idle"
    /\ \A p \in Posts : post[p] = "idle"
    /\ ServeGoTo("failed")

(* The context of Serve is done.                                           *)
Shutdown == Listening /\ ServeGoTo("shutdown")

Finished(p) == post[p] \in {"returned", "crashed", "panicked"}
Busy == \/ \E k \in Conns : Open(k)
        \/ \E p \in Posts : ~Finished(p) /\ post[p] # "idle"

ShutdownReturns == serve = "shutdown" /\ ~Busy /\ ServeGoTo("stopped")
ShutdownExpires == serve = "shutdown" /\ ServeGoTo("expired")

Serve == ShutdownReturns \/ ShutdownExpires

(* Serve has returned, and its caller may end the process.                 *)
Exit == serve \in {"failed", "stopped", "expired"} /\ ServeGoTo("exited")

-----------------------------------------------------------------------------
Next ==
    \/ \E k \in Conns : Register(k) \/ HandleSSE(k) \/ Network(k)
    \/ \E p \in Posts : PostArrives(p) \/ HandleMessage(p)
    \/ ListenFails \/ Shutdown \/ Serve \/ Exit

Spec == Init /\ [][Next]_vars

(* Every handler runs, registered handlers return, the select of handleSSE *)
(* picks at random among its ready cases, and WriteTimeout is set.  No     *)
(* panic is owed to anyone.                                                *)
FairSpec ==
    /\ Spec
    /\ \A k \in Conns : /\ WF_vars(ServesStream(k)) /\ SF_vars(StreamDone(k))
                        /\ WF_vars(ConnBreaks(k))
    /\ \A p \in Posts : WF_vars(ServesPost(p))

-----------------------------------------------------------------------------
(* Properties                                                              *)

SSEPCs == {"idle", "count", "greet", "greeting", "loop", "beat", "remove",
           "close", "uncount", "ended"}
PostPCs == {"idle", "read", "refuse", "handler", "reply", "snapshot",
            "next", "checked", "writing", "returned", "crashed", "panicked"}

(* Every variable keeps its type.                                          *)
TypeOK ==
    /\ sse \in [Conns -> SSEPCs] /\ clients \subseteq Conns
    /\ activeConns \in 0 .. Cardinality(Conns)
    /\ gone \subseteq Conns /\ broken \subseteq Conns
    /\ events \in [Conns -> Seq({Greeting} \cup Posts)]
    /\ mixed \subseteq (Conns \cup Posts) \X Conns
    /\ post \in [Posts -> PostPCs] /\ req \in [Posts -> Bodies \cup {None}]
    /\ todo \in [Posts -> SUBSET Conns]
    /\ target \in [Posts -> Conns \cup {None}]
    /\ posted \subseteq Posts /\ aborted \subseteq Posts
    /\ serve \in {"listening", "shutdown", "failed", "stopped", "expired", "exited"}
    /\ owed \in [Posts -> SUBSET Conns]

(* Whenever no handler is between the map and the counter, what /health    *)
(* reports is the number of registered clients.                            *)
HealthAgrees ==
    (\A k \in Conns : sse[k] \notin {"count", "close", "uncount"}) =>
        Health = Cardinality(clients)

(* A stream that was greeted before a request arrived has been sent its    *)
(* answer when the handler returns ("tolerating individual write           *)
(* failures"), unless that very stream has ended or broken, or the write   *)
(* overlapped with another one.                                            *)
AnswersReachStreams ==
    \A p \in Posts : post[p] = "returned" /\ Broadcasts(p) =>
                         owed[p] \subseteq gone \cup broken

(* A client that is slow, or gone, holds no answer up for ever: no post is *)
(* handled for ever, it gets its response or panics.                       *)
PostsReturn ==
    \A p \in Posts : []<>(Alive => post[p] = "idle" \/ Finished(p))

(* No connection leaks: one whose writes fail does not stay in the map or  *)
(* the count for ever.                                                     *)
BrokenStreamsEnd == \A k \in Conns : []<>(k \in broken /\ Alive => sse[k] = "ended")

-----------------------------------------------------------------------------
(* What makes the safety properties inductive                              *)

(* The map and the count follow where the handlers are.                    *)
InMap   == {k \in Conns : sse[k] \in {"count", "greet", "greeting", "loop",
                                      "beat", "remove"}}
Counted == {k \in Conns : sse[k] \in {"greet", "greeting", "loop", "beat",
                                      "remove", "close", "uncount"}}
HandlersCount == clients = InMap /\ activeConns = Cardinality(Counted)

(* Nothing is written to a stream before its handler has begun.            *)
StreamsBegin == \A k \in Conns : sse[k] = "idle" => events[k] = <<>>

(* What a post holds at each point of handleMessage.                       *)
InBroadcast == {"next", "checked", "writing"}
Holds(p) ==
    /\ todo[p] # {} => post[p] \in InBroadcast
    /\ \A k \in todo[p] : sse[k] # "idle"
    /\ post[p] \in {"checked", "writing"} => target[p] \in todo[p]
    /\ post[p] = "refuse" => ~Broadcasts(p)
    /\ post[p] \in {"handler", "reply", "snapshot", "panicked"} \cup InBroadcast
          => Broadcasts(p)
    /\ post[p] \in {"idle", "read", "refuse", "handler", "reply"}
          => p \notin posted
    /\ p \in aborted => post[p] \in {"crashed", "panicked"}
PostHolds == \A p \in Posts : Holds(p)

(* A stream that is owed an answer is up or has ended or broken, and as    *)
(* long as the broadcast lasts it is still to come.                        *)
OwedUp(p) ==
    /\ \A k \in owed[p] : sse[k] \in {"loop", "beat"} \/ k \in gone \cup broken
    /\ post[p] \in InBroadcast => owed[p] \subseteq todo[p] \cup gone \cup broken
    /\ post[p] = "returned" /\ Broadcasts(p) => owed[p] \subseteq gone \cup broken
OwedIsUp == \A p \in Posts : OwedUp(p)

IndInv == TypeOK /\ HandlersCount /\ StreamsBegin /\ PostHolds /\ OwedIsUp

-----------------------------------------------------------------------------
(* Refinement                                                              *)

(* The streams that clients see: a post is handled once its snapshot is    *)
(* taken, refused or aborted.                                              *)
Handling == {"read", "refuse", "handler", "reply", "snapshot"}
AtServer == {p \in Posts : post[p] \in Handling}
Answered == {p \in Posts : /\ post[p] \in {"next", "checked", "writing",
                                          "returned", "panicked"}
                           /\ Broadcasts(p)}
Up       == IF Alive THEN clients ELSE {}
Greeted  == {k \in Conns : sse[k] \notin {"idle", "count", "greet", "greeting"}}

Service == INSTANCE EventService WITH
    Streams  <- Conns,
    Cap      <- StreamCap,
    answerOf <- [p \in Posts |-> {p}],
    up       <- Up,
    greeted  <- Greeted,
    srvUp    <- Alive,
    atServer <- AtServer,
    toSend   <- todo,
    answered <- Answered

(* The server gives its clients the service that HTTPClient is checked on. *)
ImplementsService == Service!Spec
=============================================================================
