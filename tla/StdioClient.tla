---------------------------- MODULE StdioClient ----------------------------
(***************************************************************************)
(* The stdio client of pkg/client/stdio_client.go: callers that share one  *)
(* server process, the goroutine that reads its replies, and Close.        *)
(*                                                                         *)
(* Every API method (Initialize, ListTools, CallTool, ...) is sendRequest  *)
(* followed by parseResult; Initialize also sends a notification when its  *)
(* reply is good.  A member of Calls is ONE invocation of such a method,   *)
(* running in a goroutine of its own.  The interleaving points are the     *)
(* lock acquisitions, the pipe operations and the selects of the source.   *)
(*                                                                         *)
(* The server process is external: it reads lines in order, answers what   *)
(* it has read in any order, may write lines that are no replies, and may  *)
(* die at any moment.                                                      *)
(***************************************************************************)
EXTENDS Naturals, Sequences, FiniteSets, Functions, Protocol

CONSTANTS
    Calls,       \* invocations of API methods
    InitCalls,   \* the ones that are Initialize
    Cancellable, \* the ones whose context can be done
    PipeCap,     \* lines an OS pipe holds before a writer blocks
    MaxNoise,    \* bound on the lines a server writes that answer nothing new
    NoiseKinds,  \* which of those lines this server writes
    LateStart,   \* whether Start may be called once Close has begun
    None         \* no call, no line

ASSUME CallsAssumption ==
    IsFiniteSet(Calls) /\ InitCalls \subseteq Calls /\ Cancellable \subseteq Calls
ASSUME BoundAssumption == PipeCap \in Nat \ {0} /\ MaxNoise \in Nat
ASSUME NoiseAssumption ==
    NoiseKinds \subseteq {"junk", "stray", "duplicate", "oversized"}
ASSUME StartAssumption == LateStart \in BOOLEAN

VARIABLES
    nextID,     \* the atomic counter
    id,         \* id[c]: the request ID of c, 0 until allocated
    pc,         \* pc[c]: where the goroutine of c is
    status,     \* status[c]: why the call ends
    got,        \* got[c]: the reply line received from the channel
    pending,    \* the map from normalised ID to response channel
    buf,        \* buf[c]: the one slot of the channel made by c
    closed,     \* the calls whose channel is closed
    stdinMu,    \* the holder of the stdin mutex
    stdin,      \* the client's end of the server's stdin
    stdout,     \* the client's end of the server's stdout
    reader,     \* where readLoop is
    inHand,     \* the reply readLoop has looked up and not delivered
    closer,     \* how far Close has gone; done is closed unless "open"
    cancelled,  \* the calls whose context is done
    srv,        \* the server process
    toServer,   \* lines in the stdin pipe
    toClient,   \* lines in the stdout pipe
    received,   \* calls whose request the server has read and not answered
    answered,   \* history: calls the server has answered
    matched,    \* history: calls whose reply readLoop found in pending
    noise       \* lines written by the server that answer nothing new

callVars == <<nextID, id, pc, status, got>>
readVars == <<reader, inHand, matched>>
pipeVars == <<toServer, toClient>>
envVars  == <<received, answered, noise>>
procVars == <<stdin, stdout, srv, closer>>
vars == <<callVars, pending, buf, closed, stdinMu, readVars, cancelled,
          procVars, pipeVars, envVars>>

-----------------------------------------------------------------------------
(* The key of a call in the pending map.                                   *)
Key(c) == NormalizeID(GoID(id[c]))

(* Lines.  "call" is whose request a reply answers: it is not on the wire  *)
(* and no action of the client reads it.                                   *)

ReplyKinds == {"result", "error", "oversized"}
ServerLines == [kind : ReplyKinds \cup {"junk", "stray"}, id : IDs,
                call : Calls \cup {None}]
ClientLines == [kind : {"request", "initialized"}, id : IDs, call : Calls]
Found == [to : Calls, line : ServerLines]  \* what readLoop looked up

ASSUME NoneAssumption ==
    None \notin Calls /\ None \notin ServerLines /\ None \notin Found

Reply(c, kind, i) == [kind |-> kind, id |-> i, call |-> c]
Junk     == [kind |-> "junk", id |-> NilID, call |-> None]
Stray(n) == [kind |-> "stray", id |-> [type |-> "string", val |-> n],
             call |-> None]

RequestLine(c) == [kind |-> "request", id |-> WireID(id[c]), call |-> c]
InitializedLine(c) == [kind |-> "initialized", id |-> NilID, call |-> c]

EmptyMap == [k \in {} |-> None]

-----------------------------------------------------------------------------
Init ==
    /\ nextID = 0
    /\ id = [c \in Calls |-> 0]
    /\ pc = [c \in Calls |-> "idle"]
    /\ status = [c \in Calls |-> "none"]
    /\ got = [c \in Calls |-> None]
    /\ pending = EmptyMap
    /\ buf = [c \in Calls |-> None]
    /\ closed = {}
    /\ stdinMu = None
    /\ stdin = "nil" /\ stdout = "nil"
    /\ reader = "off" /\ inHand = None
    /\ closer = "open"
    /\ cancelled = {}
    /\ srv = "absent"
    /\ toServer = <<>> /\ toClient = <<>>
    /\ received = {} /\ answered = {} /\ matched = {} /\ noise = 0

-----------------------------------------------------------------------------
(* Start                                                                   *)

(* Start is called once.  The code does not insist on it: a second Start,  *)
(* or one after a Start that failed, would start a second readLoop on the  *)
(* same pending map, which is not modelled.                                *)
MayStart == stdin = "nil" /\ (closer = "open" \/ LateStart)

Start ==
    /\ MayStart
    /\ stdin' = "open" /\ stdout' = "open" /\ srv' = "up" /\ reader' = "scan"
    /\ UNCHANGED <<callVars, pending, buf, closed, stdinMu, inHand, matched,
                   closer, cancelled, pipeVars, envVars>>

(* cmd.Start fails: the pipes made for it are closed, no goroutine starts. *)
StartFails ==
    /\ MayStart
    /\ stdin' = "closed" /\ stdout' = "closed"
    /\ UNCHANGED <<callVars, pending, buf, closed, stdinMu, readVars, srv,
                   closer, cancelled, pipeVars, envVars>>

-----------------------------------------------------------------------------
(* sendRequest                                                             *)

GoTo(c, l) == pc' = [pc EXCEPT ![c] = l]
EndWith(c, s, l) == GoTo(c, l) /\ status' = [status EXCEPT ![c] = s]

(* Faulty: the counter is read and not advanced.                           *)
SendRequestSharesID(c) ==
    /\ pc[c] = "idle" /\ stdin # "nil"
    /\ id' = [id EXCEPT ![c] = nextID + 1]
    /\ GoTo(c, "register")
    /\ UNCHANGED <<nextID, status, got, pending, buf, closed, stdinMu, readVars,
                   cancelled, procVars, pipeVars, envVars>>

(* A call before Start would use a nil stdin: callers start the client     *)
(* first.                                                                  *)
SendRequest(c) ==
    /\ pc[c] = "idle" /\ stdin # "nil"
    /\ nextID' = nextID + 1
    /\ id' = [id EXCEPT ![c] = nextID + 1]
    /\ GoTo(c, "register")
    /\ UNCHANGED <<status, got, pending, buf, closed, stdinMu, readVars,
                   cancelled, procVars, pipeVars, envVars>>

(* NewRequest fails on arguments that do not marshal: only the callers'    *)
(* own arguments can, never the fixed parameters of Initialize.            *)
NewRequestFails(c) ==
    /\ pc[c] = "register" /\ c \notin InitCalls
    /\ EndWith(c, "invalid", "returned")
    /\ UNCHANGED <<nextID, id, got, pending, buf, closed, stdinMu, readVars,
                   cancelled, procVars, pipeVars, envVars>>

RegisterPending(c) ==
    /\ pc[c] = "register"
    /\ pending' = [k \in DOMAIN pending \cup {Key(c)} |->
                     IF k = Key(c) THEN c ELSE pending[k]]
    /\ GoTo(c, "lock")
    /\ UNCHANGED <<nextID, id, status, got, buf, closed, stdinMu, readVars,
                   cancelled, procVars, pipeVars, envVars>>

LockStdin(c) ==
    /\ pc[c] \in {"lock", "notifyLock"}
    /\ stdinMu = None
    /\ stdinMu' = c
    /\ GoTo(c, IF pc[c] = "lock" THEN "write" ELSE "notify")
    /\ UNCHANGED <<nextID, id, status, got, pending, buf, closed, readVars,
                   cancelled, procVars, pipeVars, envVars>>

CanWrite == stdin = "open" /\ srv = "up" /\ Len(toServer) < PipeCap
WriteFails == stdin # "open" \/ srv # "up"

WriteStdin(c) ==
    /\ pc[c] = "write" /\ CanWrite
    /\ toServer' = Append(toServer, RequestLine(c))
    /\ GoTo(c, "unlock")
    /\ UNCHANGED <<nextID, id, status, got, pending, buf, closed, stdinMu,
                   readVars, cancelled, procVars, toClient, envVars>>

(* The reply may be there before the caller is.                            *)
UnlockStdin(c) ==
    /\ pc[c] = "unlock"
    /\ stdinMu' = None
    /\ GoTo(c, "wait")
    /\ UNCHANGED <<nextID, id, status, got, pending, buf, closed, readVars,
                   cancelled, procVars, pipeVars, envVars>>

(* Faulty: the error path returns before the unlock.                       *)
WriteStdinFailsLocked(c) ==
    /\ pc[c] = "write" /\ WriteFails
    /\ EndWith(c, "writeFailed", "cleanup")
    /\ UNCHANGED <<nextID, id, got, pending, buf, closed, stdinMu, readVars,
                   cancelled, procVars, pipeVars, envVars>>

WriteStdinFails(c) ==
    /\ pc[c] = "write" /\ WriteFails
    /\ stdinMu' = None
    /\ EndWith(c, "writeFailed", "cleanup")
    /\ UNCHANGED <<nextID, id, got, pending, buf, closed, readVars,
                   cancelled, procVars, pipeVars, envVars>>

(* The select: whichever of its ready cases the runtime picks.             *)
AwaitReply(c) ==
    /\ pc[c] = "wait" /\ buf[c] # None
    /\ got' = [got EXCEPT ![c] = buf[c]]
    /\ buf' = [buf EXCEPT ![c] = None]
    /\ EndWith(c, "reply", "cleanup")
    /\ UNCHANGED <<nextID, id, pending, closed, stdinMu, readVars,
                   cancelled, procVars, pipeVars, envVars>>

AwaitFails(c, s) ==
    /\ pc[c] = "wait"
    /\ EndWith(c, s, "cleanup")
    /\ UNCHANGED <<nextID, id, got, pending, buf, closed, stdinMu, readVars,
                   cancelled, procVars, pipeVars, envVars>>

(* Faulty: a select without the context; one that takes done too early.    *)
AwaitCtxMissing(c) == FALSE
AwaitDoneEarly(c) == AwaitFails(c, "clientClosed")

AwaitClosed(c) == c \in closed /\ buf[c] = None /\ AwaitFails(c, "chanClosed")
AwaitCtx(c)    == c \in cancelled /\ AwaitFails(c, "ctxDone")
AwaitDone(c)   == closer # "open" /\ AwaitFails(c, "clientClosed")

(* Faulty: no deferred delete.                                             *)
DeletePendingForgotten(c) ==
    /\ pc[c] = "cleanup"
    /\ GoTo(c, IF status[c] = "reply" THEN "parse" ELSE "returned")
    /\ UNCHANGED <<nextID, id, status, got, pending, buf, closed, stdinMu,
                   readVars, cancelled, procVars, pipeVars, envVars>>

(* The deferred delete, run as sendRequest returns to the API method.      *)
DeletePending(c) ==
    /\ pc[c] = "cleanup"
    /\ pending' = Restrict(pending, DOMAIN pending \ {Key(c)})
    /\ GoTo(c, IF status[c] = "reply" THEN "parse" ELSE "returned")
    /\ UNCHANGED <<nextID, id, status, got, buf, closed, stdinMu, readVars,
                   cancelled, procVars, pipeVars, envVars>>

-----------------------------------------------------------------------------
(* The API methods, once sendRequest has returned a reply                  *)

ParseOk(c) ==
    /\ pc[c] = "parse" /\ got[c].kind = "result"
    /\ IF c \in InitCalls
       THEN GoTo(c, "notifyLock") /\ UNCHANGED status
       ELSE EndWith(c, "ok", "returned")
    /\ UNCHANGED <<nextID, id, got, pending, buf, closed, stdinMu, readVars,
                   cancelled, procVars, pipeVars, envVars>>

(* Faulty: Initialize goes on after an error reply.                        *)
ParseErrorIgnored(c) ==
    /\ pc[c] = "parse" /\ got[c].kind = "error"
    /\ IF c \in InitCalls
       THEN GoTo(c, "notifyLock") /\ UNCHANGED status
       ELSE EndWith(c, "rpcError", "returned")
    /\ UNCHANGED <<nextID, id, got, pending, buf, closed, stdinMu, readVars,
                   cancelled, procVars, pipeVars, envVars>>

ParseError(c) ==
    /\ pc[c] = "parse" /\ got[c].kind = "error"
    /\ EndWith(c, "rpcError", "returned")
    /\ UNCHANGED <<nextID, id, got, pending, buf, closed, stdinMu, readVars,
                   cancelled, procVars, pipeVars, envVars>>

(* Initialize's notification: a failing write is ignored.                  *)
Notify(c) ==
    /\ pc[c] = "notify"
    /\ \/ CanWrite /\ toServer' = Append(toServer, InitializedLine(c))
       \/ WriteFails /\ UNCHANGED toServer
    /\ stdinMu' = None
    /\ EndWith(c, "ok", "returned")
    /\ UNCHANGED <<nextID, id, got, pending, buf, closed, readVars,
                   cancelled, procVars, toClient, envVars>>

(* The caller's context expires or is cancelled, at any moment.            *)
CtxDone(c) ==
    /\ c \in Cancellable \ cancelled /\ pc[c] # "returned"
    /\ cancelled' = cancelled \cup {c}
    /\ UNCHANGED <<callVars, pending, buf, closed, stdinMu, readVars,
                   procVars, pipeVars, envVars>>

CallStep(c) ==
    \/ SendRequest(c) \/ NewRequestFails(c) \/ RegisterPending(c)
    \/ LockStdin(c) \/ WriteStdin(c) \/ WriteStdinFails(c) \/ UnlockStdin(c)
    \/ AwaitReply(c) \/ AwaitClosed(c) \/ AwaitCtx(c) \/ AwaitDone(c)
    \/ DeletePending(c) \/ ParseOk(c) \/ ParseError(c) \/ Notify(c)

-----------------------------------------------------------------------------
(* readLoop                                                                *)

LineKey == NormalizeID(Head(toClient).id)
Scanned == reader = "scan" /\ toClient # <<>> /\ toClient' = Tail(toClient)

(* The lookup, under the read lock.  The channel is used after the unlock. *)
ScanMatched ==
    /\ Scanned
    /\ Head(toClient).kind # "oversized"
    /\ LineKey \in DOMAIN pending
    /\ inHand' = [to |-> pending[LineKey], line |-> Head(toClient)]
    /\ matched' = matched \cup {pending[LineKey]}
    /\ reader' = "deliver"
    /\ UNCHANGED <<callVars, pending, buf, closed, stdinMu, cancelled,
                   procVars, toServer, envVars>>

ScanSkipped ==
    /\ Scanned
    /\ Head(toClient).kind # "oversized"
    /\ LineKey \notin DOMAIN pending
    /\ UNCHANGED <<callVars, pending, buf, closed, stdinMu, readVars,
                   cancelled, procVars, toServer, envVars>>

(* Faulty: an unbuffered channel, which only a caller in its select takes. *)
DeliverUnbuffered ==
    /\ reader = "deliver"
    /\ buf' = IF pc[inHand.to] = "wait"
              THEN [buf EXCEPT ![inHand.to] = inHand.line] ELSE buf
    /\ reader' = "scan" /\ inHand' = None
    /\ UNCHANGED <<callVars, pending, closed, stdinMu, matched, cancelled,
                   procVars, pipeVars, envVars>>

(* The send does not block: a full channel drops the reply.                *)
Deliver ==
    /\ reader = "deliver"
    /\ buf' = IF buf[inHand.to] = None
              THEN [buf EXCEPT ![inHand.to] = inHand.line] ELSE buf
    /\ reader' = "scan" /\ inHand' = None
    /\ UNCHANGED <<callVars, pending, closed, stdinMu, matched, cancelled,
                   procVars, pipeVars, envVars>>

(* Scan returns false: a line longer than the scanner's buffer, the end of *)
(* the stream, or a stdout that Wait has closed.  After the close, lines   *)
(* the scanner had buffered may still be scanned.                          *)
ScanTooLong ==
    /\ Scanned
    /\ Head(toClient).kind = "oversized"
    /\ reader' = "drain"
    /\ UNCHANGED <<callVars, pending, buf, closed, stdinMu, inHand, matched,
                   cancelled, procVars, toServer, envVars>>

ScanEnd ==
    /\ reader = "scan"
    /\ stdout = "closed" \/ (srv = "exited" /\ toClient = <<>>)
    /\ reader' = "drain"
    /\ UNCHANGED <<callVars, pending, buf, closed, stdinMu, inHand, matched,
                   cancelled, procVars, pipeVars, envVars>>

(* Faulty: the keys closed for the channels; the map emptied, none closed. *)
DrainClosesKeys ==
    /\ reader = "drain"
    /\ closed' = closed \cup DOMAIN pending
    /\ pending' = EmptyMap
    /\ reader' = "exited"
    /\ UNCHANGED <<callVars, buf, stdinMu, inHand, matched, cancelled,
                   procVars, pipeVars, envVars>>

DrainLeavesOpen ==
    /\ reader = "drain"
    /\ pending' = EmptyMap
    /\ reader' = "exited"
    /\ UNCHANGED <<callVars, buf, closed, stdinMu, inHand, matched, cancelled,
                   procVars, pipeVars, envVars>>

(* The deferred function: close every registered channel, empty the map.   *)
Drain ==
    /\ reader = "drain"
    /\ closed' = closed \cup Range(pending)
    /\ pending' = EmptyMap
    /\ reader' = "exited"
    /\ UNCHANGED <<callVars, buf, stdinMu, inHand, matched, cancelled,
                   procVars, pipeVars, envVars>>

ReadLoop == ScanMatched \/ ScanSkipped \/ Deliver \/ ScanTooLong \/ ScanEnd
            \/ Drain

-----------------------------------------------------------------------------
(* Close: the body of closeOnce, entered once.  Kill has taken effect when *)
(* Wait returns; Wait also closes the stdout pipe.                         *)

CloseRest == UNCHANGED <<callVars, pending, buf, closed, stdinMu, readVars,
                         cancelled, pipeVars, envVars>>

(* Faulty: Close closes the channels of the pending calls itself.          *)
CloseDoneClosesChannels ==
    /\ closer = "open" /\ closer' = "done"
    /\ closed' = closed \cup Range(pending) /\ pending' = EmptyMap
    /\ UNCHANGED <<stdin, stdout, srv, callVars, buf, stdinMu, readVars,
                   cancelled, pipeVars, envVars>>

CloseDone ==
    /\ closer = "open" /\ closer' = "done"
    /\ UNCHANGED <<stdin, stdout, srv>> /\ CloseRest

CloseStdin ==
    /\ closer = "done" /\ closer' = "stdinClosed"
    /\ stdin' = IF stdin = "nil" THEN "nil" ELSE "closed"
    /\ UNCHANGED <<stdout, srv>> /\ CloseRest

CloseKill ==
    /\ closer = "stdinClosed"
    /\ closer' = IF srv = "absent" THEN "closed" ELSE "killed"
    /\ srv' = IF srv = "absent" THEN "absent" ELSE "exited"
    /\ UNCHANGED <<stdin, stdout>> /\ CloseRest

CloseWait ==
    /\ closer = "killed" /\ closer' = "closed"
    /\ stdout' = "closed"
    /\ UNCHANGED <<stdin, srv>> /\ CloseRest

CloseRun == CloseStdin \/ CloseKill \/ CloseWait

-----------------------------------------------------------------------------
(* The server process (external)                                           *)

ServerRest == UNCHANGED <<callVars, pending, buf, closed, stdinMu, readVars,
                          cancelled, stdin, stdout, closer>>

ServerRead ==
    /\ srv = "up" /\ toServer # <<>>
    /\ toServer' = Tail(toServer)
    /\ received' = IF Head(toServer).kind = "request"
                   THEN received \cup {Head(toServer).call} ELSE received
    /\ UNCHANGED <<srv, toClient, answered, noise>> /\ ServerRest

ServerWrites(line) ==
    /\ srv = "up" /\ Len(toClient) < PipeCap
    /\ toClient' = Append(toClient, line)

ServerReply(c) ==
    /\ c \in received
    /\ \E kind \in {"result", "error"} :
          ServerWrites(Reply(c, kind, WireID(id[c])))
    /\ received' = received \ {c}
    /\ answered' = answered \cup {c}
    /\ UNCHANGED <<srv, toServer, noise>> /\ ServerRest

(* A reply longer than the client accepts on one line.                     *)
ServerReplyOversized(c) ==
    /\ c \in received /\ "oversized" \in NoiseKinds
    /\ ServerWrites(Reply(c, "oversized", WireID(id[c])))
    /\ received' = received \ {c}
    /\ answered' = answered \cup {c}
    /\ UNCHANGED <<srv, toServer, noise>> /\ ServerRest

ServerNoise ==
    /\ noise < MaxNoise
    /\ \/ "junk" \in NoiseKinds /\ ServerWrites(Junk)
       \/ "stray" \in NoiseKinds /\ ServerWrites(Stray(nextID))
       \/ /\ "duplicate" \in NoiseKinds
          /\ \E c \in answered :
                ServerWrites(Reply(c, "result", WireID(id[c])))
    /\ noise' = noise + 1
    /\ UNCHANGED <<srv, toServer, received, answered>> /\ ServerRest

ServerExit ==
    /\ srv = "up" /\ srv' = "exited"
    /\ UNCHANGED <<pipeVars, envVars>> /\ ServerRest

Server == ServerRead \/ ServerNoise \/ ServerExit
          \/ \E c \in Calls : ServerReply(c) \/ ServerReplyOversized(c)

-----------------------------------------------------------------------------
Next ==
    \/ Start \/ StartFails
    \/ \E c \in Calls : CallStep(c) \/ CtxDone(c)
    \/ ReadLoop
    \/ CloseDone \/ CloseRun
    \/ Server

Spec == Init /\ [][Next]_vars

(* The Go scheduler runs every goroutine that can run.  Nothing obliges a  *)
(* caller to call, a context to expire, Close to be called, or the server  *)
(* to read, to answer or to exit.                                          *)
Running(c) == CallStep(c) /\ pc[c] # "idle"
ClientFairness ==
    /\ \A c \in Calls : WF_vars(Running(c))
    /\ WF_vars(ReadLoop)
    /\ WF_vars(CloseRun)

FairSpec == Spec /\ ClientFairness

-----------------------------------------------------------------------------
(* Type invariant                                                          *)

PCs == {"idle", "register", "lock", "write", "unlock", "wait", "cleanup",
        "parse", "notifyLock", "notify", "returned"}
Statuses == {"none", "invalid", "writeFailed", "reply", "chanClosed",
             "ctxDone", "clientClosed", "ok", "rpcError"}

(* Every variable keeps its type.                                          *)
TypeOK ==
    /\ nextID \in Nat
    /\ id \in [Calls -> Nat]
    /\ pc \in [Calls -> PCs]
    /\ status \in [Calls -> Statuses]
    /\ got \in [Calls -> ServerLines \cup {None}]
    /\ DOMAIN pending \subseteq IDs /\ pending \in [DOMAIN pending -> Calls]
    /\ buf \in [Calls -> ServerLines \cup {None}]
    /\ closed \subseteq Calls
    /\ stdinMu \in Calls \cup {None}
    /\ stdin \in {"nil", "open", "closed"}
    /\ stdout \in {"nil", "open", "closed"}
    /\ reader \in {"off", "scan", "deliver", "drain", "exited"}
    /\ inHand \in Found \cup {None}
    /\ reader = "deliver" => inHand # None
    /\ closer \in {"open", "done", "stdinClosed", "killed", "closed"}
    /\ cancelled \subseteq Calls
    /\ srv \in {"absent", "up", "exited"}
    /\ toServer \in Seq(ClientLines) /\ toClient \in Seq(ServerLines)
    /\ received \subseteq Calls /\ answered \subseteq Calls
    /\ matched \subseteq Calls
    /\ noise \in Nat

-----------------------------------------------------------------------------
(* Safety                                                                  *)

(* A call only ever receives the answer to its own request, whatever the   *)
(* order of the replies, the calls that gave up and the IDs in flight.     *)
OwnReply == \A c \in Calls : got[c] # None => got[c].call = c

(* readLoop uses a channel after it has released the lock it found it      *)
(* under: the channel is never closed by then (the send would panic).      *)
NoSendOnClosed == reader = "deliver" => inHand.to \notin closed

(* A reply that was found to belong to a waiting call is not lost: it is   *)
(* about to be delivered or sits in the channel the call waits on.         *)
NoLostReply ==
    \A c \in matched :
        pc[c] \in {"lock", "write", "unlock", "wait"} =>
            buf[c] # None \/ (reader = "deliver" /\ inHand.to = c)

InFlight == {"lock", "write", "unlock", "wait", "cleanup"}

(* The pending map holds the calls in flight, each under its own ID, and   *)
(* nothing else: no entry outlives its call, and one is missing only       *)
(* because readLoop has ended.                                             *)
PendingAccounts ==
    /\ \A k \in DOMAIN pending : /\ pc[pending[k]] \in InFlight
                                 /\ k = Key(pending[k])
    /\ \A c \in Calls : pc[c] \in InFlight =>
          Key(c) \in DOMAIN pending \/ reader = "exited"

(* Initialize tells the server it is initialized only after that server    *)
(* accepted the handshake.                                                 *)
HandshakeOrder ==
    \A l \in Range(toServer) :
        l.kind = "initialized" =>
            /\ l.call \in answered
            /\ got[l.call] # None /\ got[l.call].kind = "result"

-----------------------------------------------------------------------------
(* What makes the safety properties inductive                              *)

(* IDs are allocated once, and no action but SendRequest changes one.      *)
UniqueIDs ==
    /\ \A c \in Calls : id[c] <= nextID /\ (pc[c] # "idle" => id[c] # 0)
    /\ \A c, d \in Calls : id[c] = id[d] /\ id[c] # 0 => c = d

(* An answer carries the ID of the request it answers; only a line that is *)
(* an answer has a numeric ID.                                             *)
TrueLine(l) ==
    IF l.kind \in ReplyKinds
    THEN l.call \in answered /\ l.id = WireID(id[l.call])
    ELSE l.id.type \in {"string", "nil"}

AnswerTo(c, l) ==
    /\ l.call = c /\ c \in answered
    /\ l.kind \in {"result", "error"} /\ TrueLine(l)

AnswersFollowIDs ==
    /\ \A c \in received \cup answered : pc[c] \notin {"idle", "register"}
    /\ \A l \in Range(toServer) : pc[l.call] \notin {"idle", "register"}
    /\ \A l \in Range(toClient) : TrueLine(l)
    /\ inHand # None => AnswerTo(inHand.to, inHand.line)
    /\ \A c \in Calls : /\ buf[c] # None => AnswerTo(c, buf[c])
                        /\ got[c] # None => AnswerTo(c, got[c])

(* Channels are closed by the last act of readLoop and by nothing else.    *)
ReaderOwnsChannels ==
    /\ stdin = "nil" => reader = "off"
    /\ closed # {} => reader = "exited"
    /\ matched \subseteq answered

(* What a call holds when it goes on.                                      *)
CallHolds ==
    /\ \A c \in Calls :
          /\ pc[c] = "cleanup" /\ status[c] = "reply" => got[c] # None
          /\ pc[c] \in {"parse", "notifyLock", "notify"} => got[c] # None
          /\ pc[c] \in {"notifyLock", "notify"} => got[c].kind = "result"
    /\ \A l \in Range(toServer) :
          l.kind = "initialized" => pc[l.call] = "returned"

IndInv ==
    /\ TypeOK /\ UniqueIDs /\ AnswersFollowIDs /\ ReaderOwnsChannels
    /\ CallHolds /\ PendingAccounts /\ NoLostReply /\ HandshakeOrder

-----------------------------------------------------------------------------
(* Refinement: what a client promises its callers                          *)

Outcome(c) ==
    CASE pc[c] = "idle"                          -> "idle"
      [] pc[c] # "idle" /\ pc[c] # "returned"    -> "open"
      [] pc[c] = "returned" /\ status[c] = "invalid" -> "rejected"
      [] pc[c] = "returned" /\ status[c] \in {"ok", "rpcError"} -> "answered"
      [] OTHER                                   -> "failed"

(* A request counts as sent once its line is in the server's pipe.         *)
Sent == {c \in Calls : \/ c \in received \cup answered
                       \/ RequestLine(c) \in Range(toServer)}

Outcomes == [c \in Calls |-> Outcome(c)]
Replies  == [c \in Calls |-> IF Outcome(c) = "answered" THEN got[c].call ELSE None]

Broken == \/ srv = "exited" \/ stdin = "closed" \/ closer # "open"
          \/ reader \in {"drain", "exited"}

Promise == INSTANCE RequestReply WITH
    outcome  <- Outcomes,
    reply    <- Replies,
    sent     <- Sent,
    answered <- answered,
    broken   <- Broken,
    gaveUp   <- cancelled

(* Every behaviour of the client is one its callers were promised: a call  *)
(* ends once, with the answer to its own request, or fails for a reason.   *)
KeepsPromise == Promise!Spec

(* What makes the refinement inductive: a request is written once and read *)
(* once, by a server that answers it once ...                              *)
Unwritten == {"idle", "register", "lock", "write"}
Once(q) == \A i, j \in DOMAIN q :
              /\ q[i].kind = "request" /\ q[j].kind = "request"
              /\ q[i].call = q[j].call
              => i = j
RequestsOnce ==
    /\ \A l \in Range(toServer) : l.kind = "request" =>
          /\ l = RequestLine(l.call) /\ pc[l.call] \notin Unwritten
          /\ l.call \notin received \cup answered
    /\ Once(toServer)
    /\ \A c \in received \cup answered : pc[c] \notin Unwritten
    /\ received \cap answered = {}

(* ... and a call that fails has a reason to.                              *)
Reason(c) ==
    CASE status[c] = "writeFailed"  -> stdin # "open" \/ srv = "exited"
      [] status[c] = "chanClosed"   -> reader = "exited"
      [] status[c] = "ctxDone"      -> c \in cancelled
      [] status[c] = "clientClosed" -> closer # "open"
      [] OTHER                      -> status[c] = "reply"
Reasons ==
    /\ \A c \in Calls :
          /\ pc[c] # "idle" => stdin # "nil"
          /\ pc[c] = "cleanup" => Reason(c)
    /\ stdin = "nil" => srv = "absent"
    /\ stdin = "open" => srv # "absent"

-----------------------------------------------------------------------------
(* Liveness.  A call stays invoked until it returns, so one that is again  *)
(* and again not invoked returns.                                          *)

Invoked(c)  == pc[c] \notin {"idle", "returned"}
Returned(c) == pc[c] = "returned"

(* Registered once readLoop has ended, and waiting: no one reads the reply *)
(* and no one closes the channel.  This happens when a line too long for   *)
(* the scanner has ended readLoop and the server lives on.  Then only the  *)
(* call's context, or Close, makes it return.                              *)
Unheard(c) == pc[c] = "wait" /\ reader = "exited" /\ Key(c) \in DOMAIN pending

(* When the server process dies every call returns, those in flight and    *)
(* those made later, unless nobody listens for it any more.                *)
ExitReleasesCalls ==
    \A c \in Calls : []<>(srv = "exited" => ~Invoked(c) \/ Unheard(c))

(* Close releases every call, wherever it is blocked.                      *)
CloseReleasesCalls ==
    \A c \in Calls : []<>(closer # "open" => ~Invoked(c))

(* The premise of the next three: a server that reads its input as long    *)
(* as it lives.                                                            *)
ServerReads == WF_vars(ServerRead)

(* A call whose context is done returns, wherever it is.                   *)
CancelledCallReturns ==
    ServerReads =>
        \A c \in Calls : []<>(c \in cancelled => ~Invoked(c))

(* An answer makes its call return, be it one the client cannot read: no   *)
(* reply gets stuck behind a blocked writer or a call that left, and only  *)
(* an answer to a call that nobody listens for is lost.                    *)
AnsweredCallReturns ==
    ServerReads =>
        \A c \in Calls : []<>(c \in answered => Returned(c) \/ Unheard(c))

(* Every call returns, if only by its timeout (Config.Timeout: "Timeout is *)
(* the request timeout duration").                                         *)
EveryCallReturns ==
    ServerReads => \A c \in Calls : []<>~Invoked(c)
=============================================================================
