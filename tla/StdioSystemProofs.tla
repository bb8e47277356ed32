------------------------- MODULE StdioSystemProofs -------------------------
(***************************************************************************)
(* Theorems about StdioSystem: the server is one that StdioClient assumes, *)
(* so the client's theorems hold of the two together; and requests that    *)
(* reach the server through the client's pipe are answered in order.       *)
(***************************************************************************)
EXTENDS StdioSystem, StdioClientProofs

SrvProofs == INSTANCE StdioServerProofs WITH pc <- spc, MaxLines <- 0

-----------------------------------------------------------------------------
(* StdioServerProofs speaks of the server that StdioSystem runs.           *)

LEMMA SameAssumptions ==
    /\ Srv!BodyAssumption /\ Srv!OutcomeAssumption /\ Srv!CapAssumption
    /\ SrvProofs!BodyAssumption /\ SrvProofs!OutcomeAssumption /\ SrvProofs!CapAssumption
<1>1. Srv!Methods = SrvProofs!Methods /\ Srv!Outcomes = SrvProofs!Outcomes
  BY DEF Srv!Methods, SrvProofs!Methods, Srv!Outcomes, SrvProofs!Outcomes,
     Srv!Listing, SrvProofs!Listing, Srv!Invoking, SrvProofs!Invoking,
     Srv!Initialized, SrvProofs!Initialized
<1>2. 0 \in Nat
  OBVIOUS
<1> QED
  BY <1>1, <1>2, BodyAssumption, OutcomeAssumption, BoundAssumption
  DEF BodyAssumption, OutcomeAssumption, BoundAssumption,
      Srv!BodyAssumption, Srv!OutcomeAssumption, Srv!CapAssumption,
      SrvProofs!BodyAssumption, SrvProofs!OutcomeAssumption, SrvProofs!CapAssumption

LEMMA SameLines ==
    /\ Srv!Lines = SrvProofs!Lines /\ Srv!Replies = SrvProofs!Replies
    /\ ClientLines \subseteq Srv!Lines /\ Srv!Replies \subseteq ServerLines
  BY DEF Srv!Lines, SrvProofs!Lines, Srv!Replies, SrvProofs!Replies, Srv!NoRequests,
     SrvProofs!NoRequests, Srv!IDs, SrvProofs!IDs, Srv!IDTypes, SrvProofs!IDTypes,
     ClientLines, ServerLines, ReplyKinds, IDs, IDTypes

LEMMA SameRequests ==
    /\ \A l : Srv!BodyOf(l) = SrvProofs!BodyOf(l)
    /\ \A b : /\ Srv!RunsHandler(b) <=> SrvProofs!RunsHandler(b)
              /\ Srv!Answer(b) = SrvProofs!Answer(b)
              /\ \A o : Srv!AnswerOf(b, o) = SrvProofs!AnswerOf(b, o)
    /\ \A l, a : Srv!ReplyTo(l, a) = SrvProofs!ReplyTo(l, a)
    /\ \A l : Srv!Owed(l) <=> SrvProofs!Owed(l)
    /\ \A l, r : Srv!Answers(r, l) <=> SrvProofs!Answers(r, l)
<1>1. \A b : /\ Srv!RunsHandler(b) <=> SrvProofs!RunsHandler(b)
             /\ Srv!Answer(b) = SrvProofs!Answer(b)
  BY DEF Srv!RunsHandler, SrvProofs!RunsHandler, Srv!Answer, SrvProofs!Answer,
     Srv!Lists, SrvProofs!Lists, Srv!Table, SrvProofs!Table, Srv!Invoking, SrvProofs!Invoking, Srv!Listing,
     SrvProofs!Listing, Srv!Initialized, SrvProofs!Initialized
<1>2. \A b, o : Srv!AnswerOf(b, o) = SrvProofs!AnswerOf(b, o)
  BY DEF Srv!AnswerOf, SrvProofs!AnswerOf
<1>3. \A l : Srv!BodyOf(l) = SrvProofs!BodyOf(l) /\ (Srv!Owed(l) <=> SrvProofs!Owed(l))
  BY DEF Srv!BodyOf, SrvProofs!BodyOf, Srv!Owed, SrvProofs!Owed, Srv!Initialized,
     SrvProofs!Initialized
<1>4. \A l, a : Srv!ReplyTo(l, a) = SrvProofs!ReplyTo(l, a)
  BY DEF Srv!ReplyTo, SrvProofs!ReplyTo, Srv!NilID, SrvProofs!NilID
<1>5. \A l, r : Srv!Answers(r, l) <=> SrvProofs!Answers(r, l)
  BY DEF Srv!Answers, SrvProofs!Answers, Srv!NilID, SrvProofs!NilID
<1> QED  BY <1>1, <1>2, <1>3, <1>4, <1>5

LEMMA SameInv == Srv!LoopInv <=> SrvProofs!LoopInv
<1>1. Srv!LoopTypes <=> SrvProofs!LoopTypes
  BY SameLines DEF Srv!LoopTypes, SrvProofs!LoopTypes, Srv!Codes, SrvProofs!Codes
<1>2. Srv!Holding <=> SrvProofs!Holding
  BY SameRequests DEF Srv!Holding, SrvProofs!Holding
<1>3. Srv!RepliesMatchRequests <=> SrvProofs!RepliesMatchRequests
  <2>1. Srv!Served = SrvProofs!Served
    BY DEF Srv!Served, SrvProofs!Served
  <2>2. \A q, i : Srv!Due(q, i) = SrvProofs!Due(q, i)
    <3> TAKE q, i
    <3>1. {j \in 1 .. i : Srv!Owed(q[j])} = {j \in 1 .. i : SrvProofs!Owed(q[j])}
      BY SameRequests
    <3>2. \A S : Srv!Cardinality(S) = SrvProofs!Cardinality(S)
      BY DEF Srv!Cardinality, SrvProofs!Cardinality
    <3> QED  BY <3>1, <3>2 DEF Srv!Due, SrvProofs!Due
  <2> QED  BY <2>1, <2>2, SameRequests DEF Srv!RepliesMatchRequests, SrvProofs!RepliesMatchRequests
<1> QED  BY <1>1, <1>2, <1>3 DEF Srv!LoopInv, SrvProofs!LoopInv

LEMMA SameServe == Srv!Serve => SrvProofs!Serve
<1>1. Srv!CheckContext \/ Srv!ScanEOF \/ Srv!Exit => SrvProofs!Serve
  BY DEF Srv!CheckContext, Srv!ScanEOF, Srv!Exit, Srv!Serving, Srv!Quiet, Srv!pipes, Srv!ends,
     SrvProofs!ends, SrvProofs!CheckContext, SrvProofs!ScanEOF, SrvProofs!Exit, SrvProofs!Serving,
     SrvProofs!Quiet, SrvProofs!pipes, SrvProofs!Serve
<1>2. Srv!ScanLine => SrvProofs!Serve
  BY DEF Srv!ScanLine, Srv!Serving, Srv!Quiet, Srv!ends, SrvProofs!ends,
     SrvProofs!ScanLine, SrvProofs!Serving, SrvProofs!Quiet, SrvProofs!Serve
<1>3. Srv!HandleRequest \/ Srv!HandlerReturns => SrvProofs!Serve
  BY SameRequests
  DEF Srv!HandleRequest, Srv!HandlerReturns, Srv!Serving, Srv!Quiet, Srv!pipes, Srv!ends,
     SrvProofs!ends, SrvProofs!HandleRequest, SrvProofs!HandlerReturns, SrvProofs!Serving,
     SrvProofs!Quiet, SrvProofs!pipes, SrvProofs!Serve
<1>4. Srv!WriteResponse \/ Srv!WriteResponseFails => SrvProofs!Serve
  BY SameRequests
  DEF Srv!WriteResponse, Srv!WriteResponseFails, Srv!Serving, Srv!Quiet, Srv!pipes, Srv!ends,
     SrvProofs!WriteResponse, SrvProofs!WriteResponseFails, SrvProofs!pipes, SrvProofs!ends,
     SrvProofs!Serving, SrvProofs!Quiet, SrvProofs!Serve
<1> QED  BY <1>1, <1>2, <1>3, <1>4 DEF Srv!Serve

(* So the loop keeps its invariant here too.                               *)
LEMMA LoopInitially == SysInit => Srv!LoopInv
<1>1. SysInit => SrvProofs!Init
  BY DEF SysInit, Init, SrvProofs!Init
<1>2. SrvProofs!Init => SrvProofs!LoopInv
  BY SameAssumptions, SrvProofs!LoopInit
<1> QED  BY <1>1, <1>2, SameInv

LEMMA LoopStep ==
    ASSUME Srv!LoopInv, toServer \in Seq(ClientLines),
           \/ Srv!Serve
           \/ UNCHANGED <<spc, line, answer, reads, replies>>
    PROVE  Srv!LoopInv'
<1>1. SrvProofs!LoopInv /\ toServer \in Seq(SrvProofs!Lines)
  <2>1. ClientLines \subseteq SrvProofs!Lines
    BY SameLines
  <2> QED  BY <2>1, SameInv
<1>2. SrvProofs!LoopInv' => Srv!LoopInv'
  BY SameInv, PTL
<1>3. CASE Srv!Serve
  <2>1. SrvProofs!Serve
    BY <1>3, SameServe
  <2>2. SrvProofs!LoopInv'
    BY <1>1, <2>1, SameAssumptions, SrvProofs!ServeKeeps
  <2> QED  BY <1>2, <2>2
<1>4. CASE UNCHANGED <<spc, line, answer, reads, replies>>
  <2>1. SrvProofs!LoopInv'
    BY <1>1, <1>4, SameAssumptions, SrvProofs!IdleKeeps
  <2> QED  BY <1>2, <2>1
<1> QED  BY <1>3, <1>4

-----------------------------------------------------------------------------
(* Every step of the system is one that StdioClient allows its server.     *)

LEMMA ReadRefines == Reads /\ ClientUnchanged => ServerRead
  BY DEF Reads, ClientUnchanged, Srv!ScanLine, Srv!Serving, Srv!Quiet, Srv!ends, ServerRead,
     ServerRest, procVars

(* What the loop writes is a reply to a request that the client sent.      *)
LEMMA WriteRefines ==
    ASSUME SysInv, Writes, ClientUnchanged
    PROVE  \E c \in Calls : ServerReply(c) \/ ServerReplyOversized(c)
<1> DEFINE c == line.call
<1>1. /\ spc = "write" /\ srv = "up" /\ Len(toClient) < PipeCap
      /\ toClient' = Append(toClient, Srv!ReplyTo(line, answer))
      /\ received' = received \ {c} /\ answered' = answered \cup {c}
      /\ UNCHANGED <<srv, toServer, stdin, noise>>
  BY DEF Writes, Srv!WriteResponse, Srv!Serving, Srv!Quiet, Srv!ends
<1>2. line \in ClientLines /\ Srv!Owed(line) /\ (line.kind = "junk" <=> answer = "parseError")
  BY <1>1 DEF SysInv, ServesReceived, Working, Srv!LoopInv, Srv!Holding
<1>3. line.kind = "request" /\ c \in Calls /\ answer # "parseError"
  BY <1>2 DEF ClientLines, Srv!Owed
<1>4. line = RequestLine(c) /\ c \in received /\ line.id = WireID(id[c])
  <2>1. line = RequestLine(c) /\ c \in received
    BY <1>1, <1>3 DEF SysInv, ServesReceived, Working
  <2> QED  BY <2>1 DEF RequestLine
<1>5. ServerRest
  BY <1>1 DEF ServerRest, ClientUnchanged
<1>6. CASE answer = "hugeResult"
  <2>1. Srv!ReplyTo(line, answer) = Reply(c, "oversized", WireID(id[c]))
    BY <1>4, <1>6 DEF Srv!ReplyTo, Reply
  <2>2. "oversized" \in NoiseKinds
    BY <1>1, <1>6 DEF SysInv, ServesReceived
  <2>3. ServerReplyOversized(c)
    BY <1>1, <1>4, <1>5, <2>1, <2>2 DEF ServerReplyOversized, ServerWrites
  <2> QED  BY <1>3, <2>3
<1>7. CASE answer # "hugeResult"
  <2>1. \E kind \in {"result", "error"} :
           Srv!ReplyTo(line, answer) = Reply(c, kind, WireID(id[c]))
    <3>1. CASE answer = "result"
      <4>1. Srv!ReplyTo(line, answer) = Reply(c, "result", WireID(id[c]))
        BY <1>4, <3>1 DEF Srv!ReplyTo, Reply
      <4> QED  BY <4>1
    <3>2. CASE answer # "result"
      <4>1. Srv!ReplyTo(line, answer) = Reply(c, "error", WireID(id[c]))
        BY <1>3, <1>4, <1>7, <3>2 DEF Srv!ReplyTo, Reply
      <4> QED  BY <4>1
    <3> QED  BY <3>1, <3>2
  <2>2. ServerReply(c)
    BY <1>1, <1>4, <1>5, <2>1 DEF ServerReply, ServerWrites
  <2> QED  BY <1>3, <2>2
<1> QED  BY <1>6, <1>7

(* The client sees nothing of the rest, but that the process ends.         *)
LEMMA ComputeRefines ==
    Computes /\ ClientUnchanged => ServerExit \/ UNCHANGED vars
<1> USE DEF ClientUnchanged, Srv!Serving, Srv!Quiet, Srv!pipes, Srv!ends, ServerExit, ServerRest,
            vars, procVars, pipeVars
<1>1. Srv!CheckContext /\ UNCHANGED envVars /\ ClientUnchanged => UNCHANGED vars
  BY DEF Srv!CheckContext
<1>2. Srv!ScanEOF /\ UNCHANGED envVars /\ ClientUnchanged => UNCHANGED vars
  BY DEF Srv!ScanEOF
<1>3. Srv!HandleRequest /\ UNCHANGED envVars /\ ClientUnchanged => UNCHANGED vars
  BY DEF Srv!HandleRequest
<1>4. Srv!HandlerReturns /\ UNCHANGED envVars /\ ClientUnchanged
      => ServerExit \/ UNCHANGED vars
  BY DEF Srv!HandlerReturns
<1>5. Srv!Exit /\ UNCHANGED envVars /\ ClientUnchanged => ServerExit
  BY DEF Srv!Exit
<1> QED  BY <1>1, <1>2, <1>3, <1>4, <1>5 DEF Computes

LEMMA StepRefines == SysInv /\ [SysNext]_allVars => [Next]_vars
<1> SUFFICES ASSUME SysInv, [SysNext]_allVars
             PROVE  [Next]_vars
  OBVIOUS
<1>1. CASE ServeStep
  <2>1. CASE Reads
    BY <1>1, <2>1, ReadRefines DEF ServeStep, Next, Server
  <2>2. CASE Writes
    <3>1. Server
      BY <1>1, <2>2, WriteRefines DEF ServeStep, Server
    <3> QED  BY <3>1 DEF Next
  <2>3. CASE Computes
    BY <1>1, <2>3, ComputeRefines DEF ServeStep, Next, Server
  <2> QED  BY <1>1, <2>1, <2>2, <2>3 DEF ServeStep
<1>2. CASE SignalServer
  BY <1>2 DEF SignalServer, Srv!CancelContext, Srv!pipes, Srv!ends, ClientUnchanged,
     vars, procVars, pipeVars
<1>3. CASE UNCHANGED allVars
  BY <1>3 DEF allVars
<1>4. ASSUME NEW c \in Calls, ByClient(CallStep(c) \/ CtxDone(c))
      PROVE  Next
  BY <1>4 DEF ByClient, Next
<1>5. CASE ByClient(Start \/ StartFails) \/ ByClient(ReadLoop)
           \/ ByClient(CloseDone \/ CloseRun) \/ ByClient(ServerExit)
  BY <1>5 DEF ByClient, Next, Server
<1> QED  BY <1>1, <1>2, <1>3, <1>4, <1>5 DEF SysNext

-----------------------------------------------------------------------------
(* The invariant of the system                                             *)

(* No step of the client takes a request from the server's hands or gives  *)
(* it another ID.                                                          *)
LEMMA ClientFrames ==
    ASSUME SysInv, SysNext, ~ServeStep
    PROVE  /\ UNCHANGED <<spc, line, answer, reads, replies, received>>
           /\ \A c \in received : id'[c] = id[c]
<1> USE DEF SysInv, IndInv, TypeOK
<1>1. \A c \in received : c \in Calls /\ pc[c] # "idle"
  BY DEF RequestsOnce, Unwritten
<1>2. ASSUME NEW d \in Calls, ByClient(CallStep(d) \/ CtxDone(d))
      PROVE  /\ UNCHANGED <<spc, line, answer, reads, replies, received>>
             /\ \A c \in received : id'[c] = id[c]
  <2>1. CASE SendRequest(d)
    BY <1>1, <1>2, <2>1 DEF ByClient, serverVars, SendRequest, envVars
  <2>2. CASE \/ NewRequestFails(d) \/ RegisterPending(d)
             \/ LockStdin(d) \/ WriteStdin(d) \/ WriteStdinFails(d) \/ UnlockStdin(d)
             \/ AwaitReply(d) \/ AwaitClosed(d) \/ AwaitCtx(d) \/ AwaitDone(d)
             \/ DeletePending(d) \/ ParseOk(d) \/ ParseError(d) \/ Notify(d) \/ CtxDone(d)
    <3>1. UNCHANGED <<id, received>>
      BY <2>2 DEF NewRequestFails, RegisterPending, LockStdin, WriteStdin, WriteStdinFails,
         UnlockStdin, AwaitReply, AwaitClosed, AwaitCtx, AwaitDone, AwaitFails,
         DeletePending, ParseOk, ParseError, Notify, CtxDone, callVars, envVars
    <3> QED  BY <1>2, <3>1 DEF ByClient, serverVars
  <2> QED  BY <1>2, <2>1, <2>2 DEF ByClient, CallStep
<1>3. CASE ByClient(Start \/ StartFails) \/ ByClient(ReadLoop)
           \/ ByClient(CloseDone \/ CloseRun) \/ ByClient(ServerExit)
  <2>1. UNCHANGED <<id, received>>
    BY <1>3 DEF ByClient, Start, StartFails, ReadLoop, ScanMatched, ScanSkipped, Deliver,
       ScanTooLong, ScanEnd, Drain, CloseDone, CloseRun, CloseStdin, CloseKill, CloseWait,
       CloseRest, ServerExit, ServerRest, callVars, envVars
  <2> QED  BY <1>3, <2>1 DEF ByClient, serverVars
<1>4. CASE SignalServer
  BY <1>4 DEF SignalServer, Srv!CancelContext, ClientUnchanged, callVars, envVars
<1> QED  BY <1>2, <1>3, <1>4 DEF SysNext

LEMMA ReceivedStep ==
    ASSUME SysInv, [SysNext]_allVars
    PROVE  ServesReceived'
<1> USE DEF Srv!Serving
<1>1. CASE (SysNext /\ ~ServeStep) \/ UNCHANGED allVars
  <2>1. /\ UNCHANGED <<spc, line, answer, received>>
        /\ \A c \in received : id'[c] = id[c]
    <3>1. CASE UNCHANGED allVars
      BY <3>1 DEF allVars, serverVars, vars, callVars, envVars
    <3> QED  BY <1>1, <3>1, ClientFrames
  <2>2. \A c \in received : RequestLine(c)' = RequestLine(c)
    BY <2>1 DEF RequestLine
  <2> QED  BY <2>1, <2>2 DEF SysInv, ServesReceived, Working
<1>2. CASE Reads /\ ClientUnchanged
  <2> DEFINE l == Head(toServer)
  <2>1. /\ line' = l /\ answer' # "hugeResult" /\ toServer # <<>> /\ UNCHANGED id
        /\ received' = IF l.kind = "request" THEN received \cup {l.call} ELSE received
    BY <1>2 DEF Reads, Srv!ScanLine, ClientUnchanged, callVars
  <2>2. l \in Range(toServer) /\ l \in ClientLines
    <3>1. toServer \in Seq(ClientLines)
      BY DEF SysInv, IndInv, TypeOK
    <3> QED  BY <2>1, <3>1, RangeTail, RangeType DEF Range
  <2>3. l.kind = "request" => l = RequestLine(l.call)
    BY <2>2 DEF SysInv, RequestsOnce
  <2> HIDE DEF l
  <2> QED  BY <2>1, <2>2, <2>3 DEF ServesReceived, RequestLine
<1>3. CASE Writes /\ ClientUnchanged
  BY <1>3 DEF Writes, Srv!WriteResponse, ServesReceived, Working
<1>4. CASE Computes /\ ClientUnchanged
  <2>1. UNCHANGED <<line, received, id>>
    BY <1>4 DEF Computes, Srv!CheckContext, Srv!ScanEOF, Srv!HandleRequest, Srv!HandlerReturns,
       Srv!Exit, ClientUnchanged, callVars, envVars
  <2>2. \/ spc' \notin Working
        \/ /\ spc \in Working
           /\ spc' = "write" /\ answer' = "hugeResult" => "huge" \in HandlerOutcomes
    <3>1. CASE Srv!CheckContext \/ Srv!ScanEOF \/ Srv!Exit
      BY <3>1 DEF Srv!CheckContext, Srv!ScanEOF, Srv!Exit, Working
    <3>2. CASE Srv!HandleRequest
      <4>1. spc \in Working /\ \/ spc' = "handler"
                               \/ answer' = Srv!Answer(Srv!BodyOf(line))
        BY <3>2 DEF Srv!HandleRequest, Working
      <4>2. CASE answer' = Srv!Answer(Srv!BodyOf(line)) /\ answer' = "hugeResult" /\ spc' = "write"
        <5> DEFINE b == Srv!BodyOf(line)
        <5>1. line \in ClientLines
          BY <4>1 DEF SysInv, ServesReceived
        <5>2. b.method \in Srv!Methods
          <6>1. line.call \in Calls
            BY <5>1 DEF ClientLines
          <6> QED  BY <6>1, SameAssumptions
                   DEF Srv!BodyOf, Srv!BodyAssumption, Srv!Methods, Srv!Initialized
        <5> HIDE DEF b
        <5>3. Srv!Answer(b) # "hugeResult"
          BY <5>2 DEF Srv!Answer, Srv!Lists, Srv!Methods, Srv!Listing, Srv!Invoking, Srv!Initialized
        <5> QED  BY <4>2, <5>3 DEF b
      <4> QED  BY <4>1, <4>2
    <3>3. CASE Srv!HandlerReturns
      <4>1. spc \in Working
        BY <3>3 DEF Srv!HandlerReturns, Working
      <4>2. CASE spc' = "write" /\ answer' = "hugeResult"
        <5>1. PICK o \in HandlerOutcomes : Srv!AnswerOf(Srv!BodyOf(line), o) = "hugeResult"
          BY <3>3, <4>2 DEF Srv!HandlerReturns
        <5>2. o \in Srv!Outcomes
          BY SameAssumptions DEF Srv!OutcomeAssumption
        <5>3. o = "huge"
          BY <5>1, <5>2 DEF Srv!AnswerOf, Srv!Outcomes
        <5> QED  BY <4>1, <5>3
      <4> QED  BY <4>1, <4>2
    <3> QED  BY <1>4, <3>1, <3>2, <3>3 DEF Computes
  <2>3. "huge" \in HandlerOutcomes => "oversized" \in NoiseKinds
    BY HugeAssumption DEF HugeAssumption
  <2>4. spc' \in Working =>
          /\ line \in ClientLines
          /\ line.kind = "request" => line = RequestLine(line.call) /\ line.call \in received
    BY <2>2 DEF SysInv, ServesReceived
  <2> QED  BY <2>1, <2>2, <2>3, <2>4 DEF ServesReceived, RequestLine, Working
<1> QED  BY <1>1, <1>2, <1>3, <1>4 DEF ServeStep

(* The client closes its end of the server's output when it has waited for *)
(* that process to end, or when it failed to start one.                    *)
LEMMA ReaderStaysStep ==
    ASSUME SysInv, [Next]_vars
    PROVE  ReaderStays'
<1> USE DEF SysInv, ReaderStays
<1>1. CASE Start \/ StartFails
  BY <1>1 DEF Start, StartFails, MayStart, Reasons
<1>2. CASE CloseDone \/ CloseRun
  BY <1>2 DEF CloseDone, CloseRun, CloseStdin, CloseKill, CloseWait
<1>3. CASE Server
  BY <1>3 DEF Server, ServerRead, ServerNoise, ServerExit, ServerReply, ServerReplyOversized,
     ServerWrites, ServerRest
<1>4. CASE \/ \E c \in Calls : CallStep(c) \/ CtxDone(c)
           \/ ReadLoop \/ UNCHANGED vars
  <2>1. UNCHANGED procVars
    BY <1>4 DEF CallStep, SendRequest, NewRequestFails, RegisterPending, LockStdin,
       WriteStdin, WriteStdinFails, UnlockStdin, AwaitReply, AwaitClosed, AwaitCtx,
       AwaitDone, AwaitFails, DeletePending, ParseOk, ParseError, Notify, CtxDone,
       ReadLoop, ScanMatched, ScanSkipped, Deliver, ScanTooLong, ScanEnd, Drain, vars
  <2> QED  BY <2>1 DEF procVars
<1> QED  BY <1>1, <1>2, <1>3, <1>4 DEF Next

LEMMA NoWriteFails == SysInv => ~Srv!WriteResponseFails
BY DEF SysInv, ReaderStays, Srv!WriteResponseFails, Srv!Serving

LEMMA SysInvStep == SysInv /\ [SysNext]_allVars => SysInv'
<1> SUFFICES ASSUME SysInv, [SysNext]_allVars
             PROVE  SysInv'
  OBVIOUS
<1>1. [Next]_vars /\ Inv
  BY StepRefines DEF SysInv, Inv
<1>2. IndInv' /\ RequestsOnce' /\ Reasons'
  BY <1>1, TypeStep, InvStep, PromiseInvStep DEF Inv, IndInv
<1>3. Srv!LoopInv'
  <2>1. toServer \in Seq(ClientLines) /\ Srv!LoopInv
    BY DEF SysInv, IndInv, TypeOK
  <2>2. Srv!Serve \/ UNCHANGED <<spc, line, answer, reads, replies>>
    <3>1. ServeStep => Srv!Serve
      BY DEF ServeStep, Reads, Writes, Computes, Srv!Serve
    <3>2. UNCHANGED allVars => UNCHANGED <<spc, line, answer, reads, replies>>
      BY DEF allVars, serverVars
    <3> QED  BY <3>1, <3>2, ClientFrames
  <2> QED  BY <2>1, <2>2, LoopStep
<1> QED  BY <1>1, <1>2, <1>3, ReceivedStep, ReaderStaysStep DEF SysInv

LEMMA SysSafety == SysSpec => []SysInv /\ Init /\ [][Next]_vars
<1>1. SysInit => SysInv /\ Init
  <2>1. SysInit => Init /\ spc = "check" /\ srv = "absent" /\ closer = "open"
    BY DEF SysInit, Init
  <2> QED  BY <2>1, LoopInitially, PromiseInvInit
           DEF SysInv, Inv, ServesReceived, ReaderStays, Working
<1> QED  BY <1>1, SysInvStep, StepRefines, PTL DEF SysSpec

-----------------------------------------------------------------------------
(* The server of stdio_server.go is one that the client of stdio_client.go *)
(* expects: the two together behave as StdioClient with the server it      *)
(* leaves open (ServerIsWhatClientAssumes).                                *)
THEOREM ServerFits == SysSpec => ServerIsWhatClientAssumes
BY SysSafety, PTL DEF ServerIsWhatClientAssumes, Spec

(* The requests that reach the server through the client's pipe are        *)
(* answered once each, in order, under their IDs (ServedInOrder).          *)
THEOREM AnswersInOrder == SysSpec => []ServedInOrder
<1>1. SysInv => ServedInOrder
  BY DEF SysInv, ServedInOrder, Srv!LoopInv
<1> QED  BY <1>1, SysSafety, PTL

(* So callers of the client that talk to this server are promised what     *)
(* RequestReply says (KeepsPromise).                                       *)
THEOREM SystemKeepsPromise == SysSpec => KeepsPromise
BY ServerFits, PromiseKept, PTL DEF ServerIsWhatClientAssumes
=============================================================================
