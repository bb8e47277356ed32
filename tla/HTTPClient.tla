----------------------------- MODULE HTTPClient -----------------------------
(***************************************************************************)
(* HTTP clients of pkg/client/http_client.go on one server.  A client      *)
(* holds one SSE stream, read by a goroutine of its own; its calls POST    *)
(* their request and take the reply from the stream.  Unlike the stdio     *)
(* client it has no goroutine that owns the response channels: Close       *)
(* closes them, while the reader may be about to send on one.              *)
(*                                                                         *)
(* A member of Calls is one invocation of an API method (sendRequest and   *)
(* parseResult) by the client Owner[c].  Close may come at any time, and,  *)
(* with EarlyCalls, calls before Connect: their answers find no stream.    *)
(*                                                                         *)
(* The server is any EventService: it answers what was posted in any       *)
(* order, sends every answer to every open stream, one stream at a time,   *)
(* and may lose a stream, refuse a request without an event, abort one, or *)
(* go down.  HTTPServer shows that pkg/server/http_server.go is such a     *)
(* service.                                                                *)
(***************************************************************************)
EXTENDS Naturals, Sequences, FiniteSets, Functions, Protocol

CONSTANTS
    Clients,
    Calls,
    Owner,        \* Owner[c]: the client that makes call c
    Cancellable,  \* the calls whose own context can be done
    EarlyCalls,   \* whether calls are made before Connect has succeeded too
    AnswerKinds,  \* the kinds of answers this server gives
    StreamCap,    \* events a stream holds before its writer blocks
    None

ASSUME ClientsAssumption == IsFiniteSet(Clients) /\ IsFiniteSet(Calls)
ASSUME OwnerAssumption == Owner \in [Calls -> Clients] /\ Cancellable \subseteq Calls
ASSUME EarlyAssumption == EarlyCalls \in BOOLEAN
ASSUME AnswerAssumption == AnswerKinds \subseteq {"result", "error"}
ASSUME CapAssumption == StreamCap \in Nat \ {0}

VARIABLES
    nextID,    \* nextID[k]: the atomic counter of client k
    id,        \* id[c]: the request ID of c, 0 until allocated
    pc,        \* pc[c]: where the goroutine of c is
    status,    \* status[c]: why the call ends
    got,       \* got[c]: the reply received from the channel
    pending,   \* the pending maps; a key is a client and an ID
    buf,       \* buf[c]: the one slot of the channel made by c
    closed,    \* the calls whose channel is closed
    conn,      \* conn[k]: how far Connect has gone
    reader,    \* reader[k]: where readSSE is; sseDone is closed once "exited"
    inHand,    \* inHand[k]: the reply looked up and not delivered
    cut,       \* the clients whose stream's context is done
    closer,    \* closer[k]: how far Close has gone
    panicked,  \* the clients whose process has panicked
    cancelled, \* the calls whose own context is done
    up, greeted, events, srvUp,  \* the server: see EventService
    atServer, toSend, posted, aborted, answered,
    matched    \* history: calls whose reply a reader found in pending

callVars == <<nextID, id, pc, status, got>>
chanVars == <<pending, buf, closed>>
readVars == <<reader, inHand, matched>>
connVars == <<conn, cut, closer, panicked>>
srvVars  == <<up, greeted, events, srvUp, atServer, toSend, posted, aborted, answered>>
vars == <<callVars, chanVars, readVars, connVars, cancelled, srvVars>>

-----------------------------------------------------------------------------
(* Replies.  "call" is whose request a reply answers: it is not in the     *)
(* event and no action of a client reads it.                               *)

Replies == [kind : {"result", "error"}, id : IDs, call : Calls]
Endpoint == [kind |-> "endpoint", id |-> NilID, call |-> None]
Reply(c, kind) == [kind |-> kind, id |-> WireID(id[c]), call |-> c]
Found == [to : Calls, line : Replies]

ASSUME NoneAssumption == None \notin Calls /\ None \notin Replies /\ None \notin Found

Server == INSTANCE EventService WITH
    Streams  <- Clients,
    Posts    <- Calls,
    Cap      <- StreamCap,
    Greeting <- Endpoint,
    answerOf <- [c \in Calls |-> {Reply(c, kind) : kind \in AnswerKinds}]

Key(c) == <<Owner[c], NormalizeID(GoID(id[c]))>>

Init ==
    /\ nextID = [k \in Clients |-> 0]
    /\ id = [c \in Calls |-> 0]
    /\ pc = [c \in Calls |-> "idle"]
    /\ status = [c \in Calls |-> "none"]
    /\ got = [c \in Calls |-> None]
    /\ pending = [x \in {} |-> None]
    /\ buf = [c \in Calls |-> None]
    /\ closed = {}
    /\ conn = [k \in Clients |-> "idle"]
    /\ reader = [k \in Clients |-> "off"]
    /\ inHand = [k \in Clients |-> None]
    /\ closer = [k \in Clients |-> "open"]
    /\ cut = {} /\ panicked = {} /\ cancelled = {}
    /\ matched = {}
    /\ Server!Init

-----------------------------------------------------------------------------
(* Connect: the cancellable context, then the GET, then the reader         *)

Connect(k) ==
    /\ conn[k] = "idle" /\ k \notin panicked
    /\ conn' = [conn EXCEPT ![k] = "connecting"]
    /\ UNCHANGED <<callVars, chanVars, readVars, cut, closer, panicked,
                   cancelled, srvVars>>

ConnectOk(k) ==
    /\ conn[k] = "connecting" /\ k \in up
    /\ conn' = [conn EXCEPT ![k] = "open"]
    /\ reader' = [reader EXCEPT ![k] = "scan"]
    /\ UNCHANGED <<callVars, chanVars, inHand, matched, cut, closer, panicked,
                   cancelled, srvVars>>

(* No server, one that answers the GET with a status other than 200, or a  *)
(* context that is done.                                                   *)
ConnectFails(k) ==
    /\ conn[k] = "connecting" /\ (k \notin up \/ k \in cut)
    /\ conn' = [conn EXCEPT ![k] = "failed"]
    /\ cut' = cut \cup {k}
    /\ UNCHANGED <<callVars, chanVars, readVars, closer, panicked, cancelled,
                   srvVars>>

(* The stream's context ends: the context given to Connect, or the timeout *)
(* of the http.Client, which bounds the reading of the body too.  An event *)
(* longer than the reader accepts ends the stream just so.                 *)
CutStream(k) ==
    /\ conn[k] \in {"connecting", "open"} /\ k \notin cut
    /\ cut' = cut \cup {k}
    /\ UNCHANGED <<callVars, chanVars, readVars, conn, closer, panicked,
                   cancelled, srvVars>>

-----------------------------------------------------------------------------
(* sendRequest                                                             *)

At(c, l) == pc[c] = l /\ Owner[c] \notin panicked
GoTo(c, l) == pc' = [pc EXCEPT ![c] = l]
EndWith(c, s, l) == GoTo(c, l) /\ status' = [status EXCEPT ![c] = s]

MayCall(k) == conn[k] = "open" \/ EarlyCalls

(* Faulty: the counter is read and not advanced.                           *)
SendRequestSharesID(c) ==
    /\ At(c, "idle") /\ MayCall(Owner[c])
    /\ id' = [id EXCEPT ![c] = nextID[Owner[c]] + 1]
    /\ GoTo(c, "register")
    /\ UNCHANGED <<nextID, status, got, chanVars, readVars, connVars, cancelled,
                   srvVars>>

SendRequest(c) ==
    /\ At(c, "idle") /\ MayCall(Owner[c])
    /\ nextID' = [nextID EXCEPT ![Owner[c]] = @ + 1]
    /\ id' = [id EXCEPT ![c] = nextID[Owner[c]] + 1]
    /\ GoTo(c, "register")
    /\ UNCHANGED <<status, got, chanVars, readVars, connVars, cancelled, srvVars>>

(* NewRequest fails on arguments that do not marshal.                      *)
NewRequestFails(c) ==
    /\ At(c, "register")
    /\ EndWith(c, "invalid", "returned")
    /\ UNCHANGED <<nextID, id, got, chanVars, readVars, connVars, cancelled,
                   srvVars>>

RegisterPending(c) ==
    /\ At(c, "register")
    /\ pending' = [x \in DOMAIN pending \cup {Key(c)} |->
                     IF x = Key(c) THEN c ELSE pending[x]]
    /\ GoTo(c, "post")
    /\ UNCHANGED <<nextID, id, status, got, buf, closed, readVars, connVars,
                   cancelled, srvVars>>

(* httpClient.Do: the request reaches the server ...                       *)
Post(c) ==
    /\ At(c, "post") /\ Server!Arrives(c)
    /\ GoTo(c, "posting")
    /\ UNCHANGED <<nextID, id, status, got, chanVars, readVars, connVars,
                   cancelled>>

(* ... and Do returns with its status, ...                                 *)
PostReturns(c) ==
    /\ At(c, "posting") /\ c \in posted
    /\ GoTo(c, "wait")
    /\ UNCHANGED <<nextID, id, status, got, chanVars, readVars, connVars,
                   cancelled, srvVars>>

(* ... or with an error: no server, a broken response, a context that is   *)
(* done, ...                                                               *)
PostFails(c) ==
    /\ At(c, "post") \/ At(c, "posting")
    /\ ~srvUp \/ c \in aborted \cup cancelled
    /\ EndWith(c, "postFailed", "cleanup")
    /\ UNCHANGED <<nextID, id, got, chanVars, readVars, connVars, cancelled,
                   srvVars>>

(* ... or the client's timeout.                                            *)
PostTimesOut(c) ==
    /\ At(c, "post") \/ At(c, "posting")
    /\ EndWith(c, "timedOut", "cleanup")
    /\ UNCHANGED <<nextID, id, got, chanVars, readVars, connVars, cancelled,
                   srvVars>>

(* The select: whichever of its ready cases the runtime picks.             *)
AwaitReply(c) ==
    /\ At(c, "wait") /\ buf[c] # None
    /\ got' = [got EXCEPT ![c] = buf[c]]
    /\ buf' = [buf EXCEPT ![c] = None]
    /\ EndWith(c, "reply", "cleanup")
    /\ UNCHANGED <<nextID, id, pending, closed, readVars, connVars, cancelled,
                   srvVars>>

AwaitFails(c, s) ==
    /\ At(c, "wait")
    /\ EndWith(c, s, "cleanup")
    /\ UNCHANGED <<nextID, id, got, chanVars, readVars, connVars, cancelled,
                   srvVars>>

(* Faulty: a select that gives up on a stream that is still there.         *)
AwaitSSEDoneEarly(c) == AwaitFails(c, "streamClosed")

AwaitClosed(c)  == c \in closed /\ buf[c] = None /\ AwaitFails(c, "chanClosed")
AwaitCtx(c)     == c \in cancelled /\ AwaitFails(c, "ctxDone")
AwaitSSEDone(c) == reader[Owner[c]] = "exited" /\ AwaitFails(c, "streamClosed")

(* Faulty: no deferred delete.                                             *)
DeletePendingForgotten(c) ==
    /\ At(c, "cleanup")
    /\ GoTo(c, IF status[c] = "reply" THEN "parse" ELSE "returned")
    /\ UNCHANGED <<nextID, id, status, got, chanVars, readVars, connVars,
                   cancelled, srvVars>>

DeletePending(c) ==
    /\ At(c, "cleanup")
    /\ pending' = Restrict(pending, DOMAIN pending \ {Key(c)})
    /\ GoTo(c, IF status[c] = "reply" THEN "parse" ELSE "returned")
    /\ UNCHANGED <<nextID, id, status, got, buf, closed, readVars, connVars,
                   cancelled, srvVars>>

(* parseResult, in the API method; Initialize sends nothing more.          *)
ParseResult(c) ==
    /\ At(c, "parse")
    /\ EndWith(c, IF got[c].kind = "result" THEN "ok" ELSE "rpcError", "returned")
    /\ UNCHANGED <<nextID, id, got, chanVars, readVars, connVars, cancelled,
                   srvVars>>

CallStep(c) ==
    \/ SendRequest(c) \/ NewRequestFails(c) \/ RegisterPending(c)
    \/ Post(c) \/ PostReturns(c) \/ PostFails(c) \/ PostTimesOut(c)
    \/ AwaitReply(c) \/ AwaitClosed(c) \/ AwaitCtx(c) \/ AwaitSSEDone(c)
    \/ DeletePending(c) \/ ParseResult(c)

(* The caller's context is done.                                           *)
CtxDone(c) ==
    /\ c \in Cancellable \ cancelled /\ pc[c] # "returned"
    /\ cancelled' = cancelled \cup {c}
    /\ UNCHANGED <<callVars, chanVars, readVars, connVars, srvVars>>

-----------------------------------------------------------------------------
(* readSSE                                                                 *)

ReaderAt(k, l) == reader[k] = l /\ k \notin panicked
Event(k) == Head(events[k])
EventKey(k) == <<k, NormalizeID(Event(k).id)>>
ReadsEvent(k) == ReaderAt(k, "scan") /\ Server!Reads(k)

(* The announced endpoint is the one the client was configured with.       *)
ReadsEndpoint(k) ==
    /\ ReadsEvent(k) /\ Event(k).kind = "endpoint"
    /\ UNCHANGED <<callVars, chanVars, readVars, connVars, cancelled>>

(* The lookup, under the read lock.  The channel is used after the unlock. *)
EventMatched(k) ==
    /\ ReadsEvent(k) /\ Event(k).kind # "endpoint"
    /\ EventKey(k) \in DOMAIN pending
    /\ inHand' = [inHand EXCEPT ![k] =
                    [to |-> pending[EventKey(k)], line |-> Event(k)]]
    /\ matched' = matched \cup {pending[EventKey(k)]}
    /\ reader' = [reader EXCEPT ![k] = "deliver"]
    /\ UNCHANGED <<callVars, chanVars, connVars, cancelled>>

EventSkipped(k) ==
    /\ ReadsEvent(k) /\ Event(k).kind # "endpoint"
    /\ EventKey(k) \notin DOMAIN pending
    /\ UNCHANGED <<callVars, chanVars, readVars, connVars, cancelled>>

(* Faulty: an unbuffered channel, which only a caller in its select takes. *)
DeliverUnbuffered(k) ==
    /\ ReaderAt(k, "deliver") /\ inHand[k].to \notin closed
    /\ buf' = IF pc[inHand[k].to] = "wait"
              THEN [buf EXCEPT ![inHand[k].to] = inHand[k].line] ELSE buf
    /\ reader' = [reader EXCEPT ![k] = "scan"]
    /\ inHand' = [inHand EXCEPT ![k] = None]
    /\ UNCHANGED <<callVars, pending, closed, matched, connVars, cancelled,
                   srvVars>>

(* The send does not block: a full channel drops the reply ...             *)
Deliver(k) ==
    /\ ReaderAt(k, "deliver") /\ inHand[k].to \notin closed
    /\ buf' = IF buf[inHand[k].to] = None
              THEN [buf EXCEPT ![inHand[k].to] = inHand[k].line] ELSE buf
    /\ reader' = [reader EXCEPT ![k] = "scan"]
    /\ inHand' = [inHand EXCEPT ![k] = None]
    /\ UNCHANGED <<callVars, pending, closed, matched, connVars, cancelled,
                   srvVars>>

(* ... and a closed channel panics, which ends the process.                *)
DeliverPanics(k) ==
    /\ ReaderAt(k, "deliver") /\ inHand[k].to \in closed
    /\ panicked' = panicked \cup {k}
    /\ UNCHANGED <<callVars, chanVars, readVars, conn, cut, closer, cancelled,
                   srvVars>>

(* Faulty: readSSE returns without closing sseDone.                        *)
StreamEndsSilently(k) == FALSE

(* The body ends or fails: readSSE closes it and sseDone.                  *)
StreamEnds(k) ==
    /\ ReaderAt(k, "scan")
    /\ k \in cut \/ (k \notin up /\ events[k] = <<>>)
    /\ reader' = [reader EXCEPT ![k] = "exited"]
    /\ UNCHANGED <<callVars, chanVars, inHand, matched, connVars, cancelled,
                   srvVars>>

ReadSSE(k) == ReadsEndpoint(k) \/ EventMatched(k) \/ EventSkipped(k)
              \/ Deliver(k) \/ DeliverPanics(k) \/ StreamEnds(k)

-----------------------------------------------------------------------------
(* Close, at any time: cancel the stream, then close every channel and     *)
(* empty the map                                                           *)

(* sseCancel is nil before Connect and shared without a lock: a Close that *)
(* overlaps Connect may or may not see it.  A stream it does not cancel    *)
(* stays open.                                                             *)
CloseStream(k) ==
    /\ closer[k] = "open" /\ k \notin panicked
    /\ closer' = [closer EXCEPT ![k] = "cancelled"]
    /\ \/ conn[k] # "idle" /\ cut' = cut \cup {k}
       \/ conn[k] \in {"idle", "connecting"} /\ UNCHANGED cut
    /\ UNCHANGED <<callVars, chanVars, readVars, conn, panicked, cancelled,
                   srvVars>>

(* Faulty: the keys closed for the channels.                               *)
CloseChannelsByKey(k) ==
    /\ closer[k] = "cancelled" /\ k \notin panicked
    /\ closer' = [closer EXCEPT ![k] = "closed"]
    /\ closed' = closed \cup {x \in DOMAIN pending : x[1] = k}
    /\ pending' = Restrict(pending, {x \in DOMAIN pending : x[1] # k})
    /\ UNCHANGED <<callVars, buf, readVars, conn, cut, panicked, cancelled,
                   srvVars>>

CloseChannels(k) ==
    /\ closer[k] = "cancelled" /\ k \notin panicked
    /\ closer' = [closer EXCEPT ![k] = "closed"]
    /\ closed' = closed \cup {pending[x] : x \in {y \in DOMAIN pending : y[1] = k}}
    /\ pending' = Restrict(pending, {x \in DOMAIN pending : x[1] # k})
    /\ UNCHANGED <<callVars, buf, readVars, conn, cut, panicked, cancelled,
                   srvVars>>

-----------------------------------------------------------------------------
(* The server.  It sees a stream once its client is connecting.  Once a    *)
(* POST is over its response reaches nobody: to respond to it changes      *)
(* nothing, to refuse it or to break it off is to send no more of it.      *)

ServerAccepts(k) == conn[k] = "connecting" /\ k \notin cut /\ Server!Accepts(k)

ServerStep ==
    /\ \/ Server!Down
       \/ \E k \in Clients : ServerAccepts(k) \/ Server!Greets(k) \/ Server!Drops(k)
       \/ \E c \in Calls : \/ Server!Answers(c)
                           \/ \E k \in Clients : Server!Sends(c, k)
                           \/ /\ pc[c] = "posting"
                              /\ Server!Responds(c) \/ Server!Refuses(c) \/ Server!Aborts(c)
    /\ UNCHANGED <<callVars, chanVars, readVars, connVars, cancelled>>

-----------------------------------------------------------------------------
Next ==
    \/ \E k \in Clients : \/ Connect(k) \/ ConnectOk(k) \/ ConnectFails(k)
                          \/ CutStream(k) \/ ReadSSE(k)
                          \/ CloseStream(k) \/ CloseChannels(k)
    \/ \E c \in Calls : CallStep(c) \/ CtxDone(c)
    \/ ServerStep

Spec == Init /\ [][Next]_vars

(* The Go scheduler runs every goroutine that can run, and the timeout of  *)
(* the http.Client (30 seconds unless configured) fires: on a POST, and on *)
(* the stream.  Nothing obliges the server.                                *)
Running(c) == CallStep(c) /\ pc[c] # "idle"
FairSpec ==
    /\ Spec
    /\ \A c \in Calls : WF_vars(Running(c))
    /\ \A k \in Clients : /\ WF_vars(ReadSSE(k)) /\ WF_vars(CutStream(k))
                          /\ WF_vars(CloseChannels(k))

-----------------------------------------------------------------------------
(* Type invariant                                                          *)

PCs == {"idle", "register", "post", "posting", "wait", "cleanup", "parse",
        "returned"}
Statuses == {"none", "invalid", "postFailed", "timedOut", "reply", "chanClosed",
             "ctxDone", "streamClosed", "ok", "rpcError"}

(* Every variable keeps its type.                                          *)
TypeOK ==
    /\ nextID \in [Clients -> Nat] /\ id \in [Calls -> Nat]
    /\ pc \in [Calls -> PCs] /\ status \in [Calls -> Statuses]
    /\ got \in [Calls -> Replies \cup {None}]
    /\ DOMAIN pending \subseteq Clients \X IDs
    /\ pending \in [DOMAIN pending -> Calls]
    /\ buf \in [Calls -> Replies \cup {None}] /\ closed \subseteq Calls
    /\ conn \in [Clients -> {"idle", "connecting", "open", "failed"}]
    /\ reader \in [Clients -> {"off", "scan", "deliver", "exited"}]
    /\ inHand \in [Clients -> Found \cup {None}]
    /\ \A k \in Clients : reader[k] = "deliver" => inHand[k] # None
    /\ closer \in [Clients -> {"open", "cancelled", "closed"}]
    /\ cut \subseteq Clients /\ panicked \subseteq Clients
    /\ cancelled \subseteq Calls
    /\ up \subseteq Clients /\ greeted \subseteq Clients /\ srvUp \in BOOLEAN
    /\ events \in [Clients -> Seq(Replies \cup {Endpoint})]
    /\ atServer \subseteq Calls /\ posted \subseteq Calls
    /\ aborted \subseteq Calls /\ answered \subseteq Calls
    /\ toSend \in [Calls -> SUBSET Clients] /\ matched \subseteq Calls

-----------------------------------------------------------------------------
(* Safety                                                                  *)

(* Every call is made by the same client.                                  *)
Alone == \A c, d \in Calls : Owner[c] = Owner[d]

(* A call only ever receives the answer to its own request.  It holds for  *)
(* a client that has its server to itself.                                 *)
OwnReply == \A c \in Calls : got[c] # None => got[c].call = c

(* All shared state of a client is protected ("Concurrency-safe"): no      *)
(* reader ever finds the channel it is about to use closed.                *)
NoSendOnClosed ==
    \A k \in Clients : reader[k] = "deliver" => inHand[k].to \notin closed

InFlight == {"post", "posting", "wait", "cleanup"}

(* The pending map holds calls in flight under their own client and ID,    *)
(* and lacks one only because its client was closed.                       *)
PendingAccounts ==
    /\ \A x \in DOMAIN pending : /\ pc[pending[x]] \in InFlight
                                 /\ x = Key(pending[x])
    /\ \A c \in Calls : pc[c] \in InFlight =>
          Key(c) \in DOMAIN pending \/ closer[Owner[c]] = "closed"

(* A reply that was found to belong to a call is not lost while the call   *)
(* lasts: it is about to be delivered or sits in the call's channel.       *)
NoLostReply ==
    \A c \in matched :
        pc[c] \in {"post", "posting", "wait"} =>
            \/ buf[c] # None
            \/ \E k \in Clients : reader[k] = "deliver" /\ inHand[k].to = c

-----------------------------------------------------------------------------
(* What makes the safety properties inductive                              *)

(* Two calls of one client never have the same ID.                         *)
UniqueIDs ==
    /\ \A c \in Calls : /\ id[c] <= nextID[Owner[c]]
                        /\ pc[c] # "idle" => id[c] # 0
    /\ \A c, d \in Calls : Owner[c] = Owner[d] /\ id[c] = id[d] /\ id[c] # 0 => c = d

(* A request is posted once; what the server sends for it is its answer.   *)
Sent == atServer \cup posted \cup aborted \cup answered
PostedOnce ==
    /\ \A c \in Sent : pc[c] \notin {"idle", "register", "post"}
    /\ \A c \in Calls : toSend[c] # {} => c \in answered
    /\ atServer \cap answered = {}

(* An answer, wherever it is, carries the ID of its request.               *)
Genuine(l) == l.call \in answered /\ l.id = WireID(id[l.call])
AnswersFollowIDs ==
    /\ \A k \in Clients : /\ \A l \in Range(events[k]) : l # Endpoint => Genuine(l)
                          /\ inHand[k] # None => Genuine(inHand[k].line)
    /\ \A c \in Calls : /\ buf[c] # None => Genuine(buf[c])
                        /\ got[c] # None => Genuine(got[c])

(* What a reader found was in flight; a channel is closed by Close only.   *)
ReaderHolds ==
    /\ \A k \in Clients : reader[k] # "off" => conn[k] = "open"
    /\ \A c \in matched : pc[c] \notin {"idle", "register"}
    /\ \A c \in closed : closer[Owner[c]] = "closed"

(* With one client, a reply found under an ID belongs to the call found.   *)
BelongsTo(l, c) == l # None => l.call = c
RepliesOwned ==
    /\ \A k \in Clients : inHand[k] # None => BelongsTo(inHand[k].line, inHand[k].to)
    /\ \A c \in Calls : BelongsTo(buf[c], c) /\ BelongsTo(got[c], c)

IndInv ==
    /\ TypeOK /\ UniqueIDs /\ PostedOnce /\ AnswersFollowIDs /\ ReaderHolds
    /\ PendingAccounts /\ NoLostReply /\ (Alone => RepliesOwned)

-----------------------------------------------------------------------------
(* Refinement: what a client with its server to itself promises            *)

Outcome(c) ==
    CASE pc[c] = "idle"                          -> "idle"
      [] pc[c] # "idle" /\ pc[c] # "returned"    -> "open"
      [] pc[c] = "returned" /\ status[c] = "invalid" -> "rejected"
      [] pc[c] = "returned" /\ status[c] \in {"ok", "rpcError"} -> "answered"
      [] OTHER                                   -> "failed"

Outcomes == [c \in Calls |-> Outcome(c)]
Returns  == [c \in Calls |-> IF Outcome(c) = "answered" THEN got[c].call ELSE None]

Broken == ~srvUp \/ \E k \in Clients :
             k \in cut \/ reader[k] = "exited" \/ closer[k] # "open"
GivenUp == cancelled \cup aborted \cup {c \in Calls : status[c] = "timedOut"}

Promise == INSTANCE RequestReply WITH
    outcome  <- Outcomes,
    reply    <- Returns,
    sent     <- Sent,
    answered <- answered,
    broken   <- Broken,
    gaveUp   <- GivenUp

(* Every behaviour of the client is one its callers were promised.         *)
KeepsPromise == Promise!Spec

(* What makes the refinement inductive: a call that fails has a reason to. *)
Reason(c) ==
    CASE status[c] = "postFailed"   -> ~srvUp \/ c \in aborted \cup cancelled
      [] status[c] = "timedOut"     -> TRUE
      [] status[c] = "chanClosed"   -> closer[Owner[c]] = "closed"
      [] status[c] = "ctxDone"      -> c \in cancelled
      [] status[c] = "streamClosed" -> reader[Owner[c]] = "exited"
      [] OTHER                      -> status[c] = "reply" /\ got[c] # None
Reasons ==
    \A c \in Calls :
        /\ pc[c] \in {"idle", "register", "post", "posting", "wait"} =>
              status[c] = "none"
        /\ pc[c] = "cleanup" => Reason(c)
        /\ pc[c] = "parse" => status[c] = "reply" /\ got[c] # None

-----------------------------------------------------------------------------
(* Liveness                                                                *)

Invoked(c)  == pc[c] \notin {"idle", "returned"}
Returned(c) == pc[c] = "returned" \/ Owner[c] \in panicked

(* Every call returns once its client is connected, whatever the server    *)
(* does: the timeout bounds its POST, and the life of the stream it waits  *)
(* on.  Without a stream nothing bounds the wait for an answer.            *)
EveryCallReturns ==
    \A c \in Calls :
        Invoked(c) /\ conn[Owner[c]] = "open" ~> Returned(c)
=============================================================================
