---------------------------- MODULE StdioServer ----------------------------
(***************************************************************************)
(* The stdio server of pkg/server/stdio_server.go: one goroutine that      *)
(* scans a line of stdin, dispatches it, runs the handler, writes the      *)
(* reply to stdout, and looks at its context between two lines.  Tools,    *)
(* resources and prompts are registered before Serve is called.            *)
(*                                                                         *)
(* The process that calls Serve exits when Serve returns.                  *)
(***************************************************************************)
EXTENDS Naturals, Sequences, FiniteSets, Protocol, Dispatch

CONSTANTS
    Calls,            \* one per line that may be sent to the server
    Body,             \* Body[c]: what the request of c asks for
    HandlerOutcomes,  \* how the registered handlers may end
    PipeCap,          \* lines a pipe holds before a writer blocks
    MaxLines,         \* bound on the lines the peer sends
    None

ASSUME BodyAssumption ==
    Body \in [Calls -> [method : Methods, params : {"ok", "bad"},
                        name : STRING \cup {None}]]
ASSUME OutcomeAssumption == HandlerOutcomes \subseteq Outcomes
ASSUME CapAssumption == PipeCap \in Nat \ {0} /\ MaxLines \in Nat

VARIABLES
    srv,       \* the process: "absent", "up" or "exited"
    stdin,     \* the writer's end of stdin: "nil", "open" or "closed"
    stdout,    \* the reader's end of stdout: "nil", "open" or "closed"
    toServer,  \* lines in the stdin pipe
    toClient,  \* lines in the stdout pipe
    ctxDone,   \* whether the context given to Serve is done
    pc,        \* where the loop of Serve is
    line,      \* the line being served
    answer,    \* the code of the answer to be written
    reads,     \* history: the lines scanned
    replies    \* history: the replies given to stdout, which may refuse them

pipes == <<toServer, toClient>>
ends  == <<stdin, stdout>>
vars == <<srv, ends, pipes, ctxDone, pc, line, answer, reads, replies>>

-----------------------------------------------------------------------------
(* Lines.  "junk" does not parse as JSON, "blank" is empty, "oversized" is *)
(* longer than the scanner's buffer.  A request has an ID or, when it is a *)
(* notification, none.                                                     *)

(* The body of a line, as handleRequest sees it.                           *)
BodyOf(l) == IF l.kind = "initialized"
             THEN [method |-> Initialized, params |-> "ok", name |-> None]
             ELSE Body[l.call]

(* Faulty: the reply has no ID.                                            *)
ReplyToLosesID(l, code) ==
    [kind |-> IF code = "result" THEN "result" ELSE "error",
     id   |-> NilID, call |-> l.call]

(* A reply echoes the ID it answers; "call" is the request it answers.     *)
ReplyTo(l, code) ==
    [kind |-> CASE code = "result"     -> "result"
                [] code = "hugeResult" -> "oversized"
                [] OTHER               -> "error",
     id   |-> IF code = "parseError" THEN NilID ELSE l.id,
     call |-> l.call]

Init ==
    /\ srv = "absent" /\ stdin = "nil" /\ stdout = "nil"
    /\ toServer = <<>> /\ toClient = <<>>
    /\ ctxDone = FALSE
    /\ pc = "check" /\ line = None /\ answer = "none"
    /\ reads = <<>> /\ replies = <<>>

-----------------------------------------------------------------------------
(* Serve                                                                   *)

Serving(l) == srv = "up" /\ pc = l
Quiet == UNCHANGED <<srv, ends, ctxDone>>

CheckContext ==
    /\ Serving("check")
    /\ pc' = IF ctxDone THEN "returned" ELSE "scan"
    /\ UNCHANGED <<pipes, line, answer, reads, replies>> /\ Quiet

ScanLine ==
    /\ Serving("scan") /\ toServer # <<>>
    /\ toServer' = Tail(toServer)
    /\ line' = Head(toServer)
    /\ reads' = Append(reads, line')
    /\ pc' = CASE line'.kind = "oversized" -> "returned"
               [] line'.kind = "blank"     -> "check"
               [] line'.kind = "junk"      -> "write"
               [] OTHER                    -> "handle"
    /\ answer' = IF line'.kind = "junk" THEN "parseError" ELSE "none"
    /\ UNCHANGED <<toClient, replies>> /\ Quiet

(* Faulty: the loop goes on at the end of the input.                       *)
ScanEOFContinues ==
    /\ Serving("scan") /\ toServer = <<>> /\ stdin = "closed"
    /\ pc' = "check"
    /\ UNCHANGED <<pipes, line, answer, reads, replies>> /\ Quiet

ScanEOF ==
    /\ Serving("scan") /\ toServer = <<>> /\ stdin = "closed"
    /\ pc' = "returned"
    /\ UNCHANGED <<pipes, line, answer, reads, replies>> /\ Quiet

(* Faulty: only the answers of registered handlers are written.            *)
HandleRequestForgetsReply ==
    /\ Serving("handle")
    /\ pc' = IF RunsHandler(BodyOf(line)) THEN "handler" ELSE "check"
    /\ UNCHANGED <<pipes, line, answer, reads, replies>> /\ Quiet

(* handleRequest, up to the call of a registered handler.                  *)
HandleRequest ==
    /\ Serving("handle")
    /\ IF RunsHandler(BodyOf(line))
       THEN pc' = "handler" /\ UNCHANGED answer
       ELSE /\ answer' = Answer(BodyOf(line))
            /\ pc' = IF answer' = "none" THEN "check" ELSE "write"
    /\ UNCHANGED <<pipes, line, reads, replies>> /\ Quiet

(* Faulty: the outcome taken for an answer.                                *)
HandlerReturnsRaw ==
    /\ Serving("handler")
    /\ answer' \in HandlerOutcomes /\ pc' = "write"
    /\ UNCHANGED <<srv, pipes, ends, ctxDone, line, reads, replies>>

(* The handler (external) ends; nothing recovers from a panic.             *)
HandlerReturns ==
    /\ Serving("handler")
    /\ \E o \in HandlerOutcomes :
          IF AnswerOf(BodyOf(line), o) = "panic"
          THEN srv' = "exited" /\ pc' = "panicked" /\ UNCHANGED answer
          ELSE /\ answer' = AnswerOf(BodyOf(line), o)
               /\ pc' = "write" /\ UNCHANGED srv
    /\ UNCHANGED <<pipes, ends, ctxDone, line, reads, replies>>

(* The write waits while the pipe is full and somebody might still read.   *)
WriteResponse ==
    /\ Serving("write") /\ stdout = "open" /\ Len(toClient) < PipeCap
    /\ toClient' = Append(toClient, ReplyTo(line, answer))
    /\ replies' = Append(replies, ReplyTo(line, answer))
    /\ pc' = "check"
    /\ UNCHANGED <<toServer, line, answer, reads>> /\ Quiet

(* Faulty: a write that fails is tried again.                              *)
WriteResponseRetries ==
    /\ Serving("write") /\ stdout = "closed"
    /\ UNCHANGED vars

(* Nobody will read.  The error is ignored and the loop goes on; but if    *)
(* the writer is os.Stdout itself, the runtime ends the process (SIGPIPE). *)
WriteResponseFails ==
    /\ Serving("write") /\ stdout = "closed"
    /\ srv' \in {"up", "exited"}
    /\ replies' = Append(replies, ReplyTo(line, answer))
    /\ pc' = "check"
    /\ UNCHANGED <<ends, pipes, ctxDone, line, answer, reads>>

(* Serve has returned: the process ends.                                   *)
Exit ==
    /\ Serving("returned")
    /\ srv' = "exited"
    /\ UNCHANGED <<ends, pipes, ctxDone, pc, line, answer, reads, replies>>

Serve == CheckContext \/ ScanLine \/ ScanEOF \/ HandleRequest
         \/ HandlerReturns \/ WriteResponse \/ WriteResponseFails \/ Exit

(* Whoever owns the context cancels it: a signal handler of the process.   *)
CancelContext ==
    /\ srv = "up" /\ ~ctxDone
    /\ ctxDone' = TRUE
    /\ UNCHANGED <<srv, ends, pipes, pc, line, answer, reads, replies>>

-----------------------------------------------------------------------------
(* A peer that writes lines of any shape, reads replies while it likes,    *)
(* and closes its ends of the two pipes in either order, with replies      *)
(* unread or not (external).  It sends each call once.                     *)

CallsIn(q) == {q[i].call : i \in 1 .. Len(q)}

Launch ==
    /\ srv = "absent" /\ srv' = "up" /\ stdin' = "open" /\ stdout' = "open"
    /\ UNCHANGED <<pipes, ctxDone, pc, line, answer, reads, replies>>

PeerSends(c, kind, i) ==
    /\ srv = "up" /\ stdin = "open" /\ Len(toServer) < PipeCap
    /\ c \notin CallsIn(toServer) \cup CallsIn(reads)
    /\ Len(toServer) + Len(reads) < MaxLines
    /\ toServer' = Append(toServer, [kind |-> kind, id |-> i, call |-> c])
    /\ UNCHANGED <<srv, ends, toClient, ctxDone, pc, line, answer, reads,
                   replies>>

PeerReads ==
    /\ toClient # <<>> /\ stdout = "open"
    /\ toClient' = Tail(toClient)
    /\ UNCHANGED <<srv, ends, toServer, ctxDone, pc, line, answer, reads,
                   replies>>

PeerHangsUp ==
    /\ stdin = "open" /\ stdin' = "closed"
    /\ UNCHANGED <<srv, stdout, pipes, ctxDone, pc, line, answer, reads,
                   replies>>

PeerStopsReading ==
    /\ stdout = "open" /\ stdout' = "closed"
    /\ UNCHANGED <<srv, stdin, pipes, ctxDone, pc, line, answer, reads,
                   replies>>

NoRequests == {"junk", "blank", "oversized"}
RequestIDs == {NilID, WireID(1), [type |-> "string", val |-> 1]}

Peer ==
    \/ Launch \/ PeerReads \/ PeerHangsUp \/ PeerStopsReading
    \/ \E c \in Calls : \/ \E kind \in NoRequests : PeerSends(c, kind, NilID)
                        \/ \E i \in RequestIDs : PeerSends(c, "request", i)

Next == Serve \/ CancelContext \/ Peer

Spec == Init /\ [][Next]_vars

(* The serving goroutine runs and handlers return.  The peer owes nothing: *)
(* it need not read, nor close what it does not read.                      *)
FairSpec == Spec /\ WF_vars(Serve)

-----------------------------------------------------------------------------
(* Properties                                                              *)

Lines == [kind : NoRequests \cup {"request", "initialized"}, id : IDs, call : Calls]
Replies == [kind : {"result", "oversized", "error"}, id : IDs, call : Calls]

(* Every variable keeps its type.                                          *)
LoopTypes ==
    /\ pc \in {"check", "scan", "handle", "handler", "write", "returned",
               "panicked"}
    /\ line \in Lines \cup {None}
    /\ answer \in Codes \cup {"none"}
    /\ reads \in Seq(Lines) /\ replies \in Seq(Replies)
TypeOK ==
    /\ srv \in {"absent", "up", "exited"}
    /\ stdin \in {"nil", "open", "closed"}
    /\ stdout \in {"nil", "open", "closed"}
    /\ toServer \in Seq(Lines) /\ toClient \in Seq(Replies)
    /\ ctxDone \in BOOLEAN
    /\ LoopTypes

(* The lines that are answered: what is no JSON, and every request but the *)
(* initialized notification.                                               *)
Owed(l) == \/ l.kind = "junk"
           \/ l.kind = "request" /\ Body[l.call].method # Initialized

(* How many of the first i lines are, and how many lines are done with.    *)
Due(q, i) == Cardinality({j \in 1 .. i : Owed(q[j])})
Served == IF pc \in {"handle", "handler", "write", "panicked"}
          THEN Len(reads) - 1 ELSE Len(reads)

(* Replies go out once each, in the order of the requests, under their     *)
(* IDs, and no served request is left without one.                         *)
Answers(r, l) == r.call = l.call /\ r.id = IF l.kind = "junk" THEN NilID ELSE l.id
RepliesMatchRequests ==
    /\ Len(replies) = Due(reads, Served)
    /\ \A i \in 1 .. Served : Owed(reads[i]) => Answers(replies[Due(reads, i)], reads[i])

(* What makes this inductive: the loop holds the line it read last, and    *)
(* what it is about to write is owed to it.                                *)
Holding ==
    /\ pc \in {"handle", "handler", "write", "panicked"} =>
          reads # <<>> /\ line = reads[Len(reads)]
    /\ pc \in {"handle", "handler"} => line.kind \in {"request", "initialized"}
    /\ pc = "handler" => RunsHandler(BodyOf(line))
    /\ pc = "write" => /\ Owed(line) /\ answer # "none"
                       /\ line.kind = "junk" <=> answer = "parseError"
LoopInv == LoopTypes /\ Holding /\ RepliesMatchRequests

(* The writer of a reply waits for a peer that neither reads what fills    *)
(* the pipe nor closes its end of it.                                      *)
HeldByReader ==
    Serving("write") /\ stdout = "open" /\ Len(toClient) >= PipeCap

(* When the peer hangs up, Serve goes through what it was sent and the     *)
(* process ends, replies unread or refused notwithstanding.  The only      *)
(* thing that keeps it up with a closed stdin is a peer that holds on to a *)
(* full stdout; when that peer reads or lets go, the process ends too.     *)
HangUpEndsServer == []<>(srv = "up" /\ stdin = "closed" => HeldByReader)

(* Cancelling the context ends Serve, if the peer reads what it is sent.   *)
CancelEndsServer ==
    WF_vars(PeerReads) => (srv = "up" /\ ctxDone) ~> (srv = "exited")
=============================================================================
