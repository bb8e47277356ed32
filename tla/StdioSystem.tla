---------------------------- MODULE StdioSystem ----------------------------
(***************************************************************************)
(* A StdioClient and the StdioServer it starts, joined by the two pipes.   *)
(* The server takes the place of the process that StdioClient leaves open: *)
(* it reads, dispatches, answers and ends as StdioServer does, or crashes. *)
(***************************************************************************)
EXTENDS StdioClient

CONSTANTS Body, Tools, BadSchemas, Resources, Prompts, HandlerOutcomes

VARIABLES ctxDone, spc, line, answer, reads, replies

serverVars == <<ctxDone, spc, line, answer, reads, replies>>
allVars == <<vars, serverVars>>

Srv == INSTANCE StdioServer WITH pc <- spc, MaxLines <- 0

ASSUME BodyAssumption ==
    Body \in [Calls -> [method : Srv!Methods, params : {"ok", "bad"},
                        name : STRING \cup {None}]]
ASSUME OutcomeAssumption == HandlerOutcomes \subseteq Srv!Outcomes

(* NoiseKinds says which lines, besides answers a client accepts, the      *)
(* server may write: handlers with huge results make oversized ones.       *)
ASSUME HugeAssumption == "huge" \in HandlerOutcomes => "oversized" \in NoiseKinds

SysInit ==
    /\ Init
    /\ ctxDone = FALSE /\ spc = "check" /\ line = None /\ answer = "none"
    /\ reads = <<>> /\ replies = <<>>

-----------------------------------------------------------------------------
(* Steps of the client, and of the process that runs the server            *)

ByClient(A) == A /\ UNCHANGED serverVars

(* What StdioClient sees of the server's loop: the requests it has read    *)
(* and the answers it has written.                                         *)
Reads ==
    /\ Srv!ScanLine
    /\ received' = IF line'.kind = "request"
                   THEN received \cup {line'.call} ELSE received
    /\ UNCHANGED <<stdin, answered, noise>>

Writes ==
    /\ Srv!WriteResponse
    /\ received' = received \ {line.call}
    /\ answered' = answered \cup {line.call}
    /\ UNCHANGED <<stdin, noise>>

Computes ==
    /\ Srv!CheckContext \/ Srv!ScanEOF \/ Srv!HandleRequest
       \/ Srv!HandlerReturns \/ Srv!Exit
    /\ UNCHANGED envVars

ClientUnchanged ==
    UNCHANGED <<callVars, pending, buf, closed, stdinMu, readVars, cancelled,
                stdout, closer>>

(* No write of the server fails (Srv!WriteResponseFails): the client lets  *)
(* go of the server's output only when that process has ended, ReaderStays *)
(* below.                                                                  *)
ServeStep == (Reads \/ Writes \/ Computes) /\ ClientUnchanged

SignalServer == Srv!CancelContext /\ UNCHANGED envVars /\ ClientUnchanged

SysNext ==
    \/ ByClient(Start \/ StartFails)
    \/ \E c \in Calls : ByClient(CallStep(c) \/ CtxDone(c))
    \/ ByClient(ReadLoop)
    \/ ByClient(CloseDone \/ CloseRun)
    \/ ByClient(ServerExit)
    \/ ServeStep \/ SignalServer

(* Both processes are scheduled, and registered handlers return.           *)
SysSpec ==
    /\ SysInit /\ [][SysNext]_allVars
    /\ \A c \in Calls : WF_allVars(ByClient(Running(c)))
    /\ WF_allVars(ByClient(ReadLoop))
    /\ WF_allVars(ByClient(CloseRun))
    /\ WF_allVars(ServeStep)

-----------------------------------------------------------------------------
(* The server behaves as StdioClient assumes a server does: every safety   *)
(* property of the client holds of the two together.                       *)
ServerIsWhatClientAssumes == Spec

(* What makes both provable: the server works on a request it has read and *)
(* not answered, under the ID the client gave it, and the client holds its *)
(* end of the server's output while the server lives.                      *)
Working == {"handle", "handler", "write"}
ServesReceived ==
    /\ spc \in Working =>
          /\ line \in ClientLines
          /\ line.kind = "request" => line = RequestLine(line.call) /\ line.call \in received
    /\ spc = "write" /\ answer = "hugeResult" => "oversized" \in NoiseKinds
ReaderStays ==
    /\ srv = "up" => stdout = "open"
    /\ closer = "killed" => srv = "exited"
SysInv ==
    /\ IndInv /\ RequestsOnce /\ Reasons
    /\ Srv!LoopInv /\ ServesReceived /\ ReaderStays

(* The answers a client is given are the ones the server's loop produced,  *)
(* in the order of the requests that reached it.                           *)
ServedInOrder == Srv!RepliesMatchRequests

(* When a huge result has ended readLoop, the server may fill the pipe     *)
(* nobody reads; once it is held there, the callers that have yet to write *)
(* wait for it, and not even their context makes them return.              *)
HeldUp(c) == /\ reader = "exited" /\ Srv!HeldByReader
             /\ pc[c] \in {"lock", "write", "notifyLock", "notify"}

(* Every call ends, whatever happens to the server, the context or the     *)
(* client, but for what follows a result too long for the client: a call   *)
(* made later is answered unheard, or held up before it is even written.   *)
(* No other writer waits for a reader that waits for it.  (A call that is  *)
(* invoked stays so until it returns.)                                     *)
SystemReleasesCalls ==
    \A c \in Calls : []<>(~Invoked(c) \/ Unheard(c) \/ HeldUp(c))
=============================================================================
