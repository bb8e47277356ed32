------------------------- MODULE StdioServerProofs -------------------------
(***************************************************************************)
(* Theorems about StdioServer, for every set of lines, every registry and  *)
(* every bound: type correctness, and that replies match requests.  The    *)
(* lemmas about the loop of Serve assume nothing of the peer but that it   *)
(* writes lines: StdioSystemProofs uses them with StdioClient for a peer.  *)
(***************************************************************************)
EXTENDS StdioServer, FiniteSetTheorems, TLAPS

USE BodyAssumption, OutcomeAssumption, CapAssumption

-----------------------------------------------------------------------------
(* How many lines are owed a reply.                                        *)

LEMMA DueCounts ==
    ASSUME NEW q \in Seq(Lines), NEW n \in Nat
    PROVE  /\ Due(q, n) \in Nat /\ Due(q, 0) = 0
           /\ Due(q, n + 1) = Due(q, n) + (IF Owed(q[n + 1]) THEN 1 ELSE 0)
<1> DEFINE D(k) == {j \in 1 .. k : Owed(q[j])}
<1>1. \A k \in Nat : IsFiniteSet(D(k)) /\ Cardinality(D(k)) \in Nat
  <2> TAKE k \in Nat
  <2>1. IsFiniteSet(1 .. k)
    BY FS_Interval
  <2>2. IsFiniteSet(D(k))
    BY <2>1, FS_Subset
  <2> QED  BY <2>2, FS_CardinalityType
<1>2. Due(q, 0) = 0
  <2>1. D(0) = {}
    OBVIOUS
  <2> QED  BY <2>1, FS_EmptySet DEF Due
<1>3. CASE Owed(q[n + 1])
  <2>1. D(n + 1) = D(n) \cup {n + 1} /\ n + 1 \notin D(n)
    BY <1>3
  <2>2. Cardinality(D(n) \cup {n + 1}) = Cardinality(D(n)) + 1
    <3> HIDE DEF D
    <3> QED  BY <1>1, <2>1, FS_AddElement
  <2> QED  BY <1>1, <1>2, <1>3, <2>1, <2>2 DEF Due
<1>4. CASE ~Owed(q[n + 1])
  <2>1. D(n + 1) = D(n)
    BY <1>4
  <2>2. Due(q, n + 1) = Cardinality(D(n + 1)) /\ Due(q, n) = Cardinality(D(n))
    BY DEF Due
  <2> HIDE DEF D
  <2> QED  BY <1>1, <1>2, <1>4, <2>1, <2>2
<1> QED  BY <1>3, <1>4

(* The line that is owed the k-th reply comes no later than all that are.  *)
LEMMA DueGrows ==
    ASSUME NEW q \in Seq(Lines), NEW n \in Nat, NEW i \in 1 .. n, Owed(q[i])
    PROVE  Due(q, i) \in 1 .. Due(q, n)
<1> DEFINE D(k) == {j \in 1 .. k : Owed(q[j])}
<1>1. IsFiniteSet(D(n))
  <2>1. IsFiniteSet(1 .. n)
    BY FS_Interval
  <2> QED  BY <2>1, FS_Subset
<1>2. D(i) \subseteq D(n) /\ i \in D(i)
  OBVIOUS
<1>3. /\ IsFiniteSet(D(i)) /\ Cardinality(D(i)) \in Nat /\ Cardinality(D(n)) \in Nat
      /\ Cardinality(D(i)) <= Cardinality(D(n))
  <2> HIDE DEF D
  <2> QED  BY <1>1, <1>2, FS_Subset, FS_CardinalityType
<1>4. Cardinality(D(i)) # 0
  <2> HIDE DEF D
  <2> QED  BY <1>2, <1>3, FS_EmptySet
<1> QED  BY <1>3, <1>4 DEF Due

(* Only the lines counted count.                                           *)
LEMMA DueAppend ==
    ASSUME NEW q \in Seq(Lines), NEW l \in Lines, NEW i \in 0 .. Len(q)
    PROVE  Due(Append(q, l), i) = Due(q, i)
<1>1. \A j \in 1 .. i : Append(q, l)[j] = q[j]
  OBVIOUS
<1>2. {j \in 1 .. i : Owed(Append(q, l)[j])} = {j \in 1 .. i : Owed(q[j])}
  BY <1>1
<1> QED  BY <1>2 DEF Due

-----------------------------------------------------------------------------
(* The loop of Serve keeps its invariant.                                  *)

LEMMA BodyHasMethod ==
    ASSUME NEW l \in Lines, l.kind \in {"request", "initialized"}
    PROVE  /\ BodyOf(l).method \in Methods
           /\ Owed(l) <=> BodyOf(l).method # Initialized
<1>1. l.call \in Calls
  BY DEF Lines
<1>2. Body[l.call].method \in Methods
  BY <1>1
<1> QED  BY <1>2 DEF BodyOf, Owed, Methods

(* One more line is done with: it was owed nothing, or it has its reply.   *)
LEMMA OneMoreServed ==
    ASSUME LoopTypes, RepliesMatchRequests, UNCHANGED reads, Served' = Served + 1, Served \in Nat,
           \/ ~Owed(reads[Served + 1]) /\ replies' = replies
           \/ /\ Owed(reads[Served + 1])
              /\ \E r \in Replies : Answers(r, reads[Served + 1]) /\ replies' = Append(replies, r)
    PROVE  RepliesMatchRequests'
<1>1. reads \in Seq(Lines) /\ replies \in Seq(Replies)
  BY DEF LoopTypes
<1>2. /\ Due(reads, Served) \in Nat
      /\ Due(reads, Served + 1) = Due(reads, Served) + (IF Owed(reads[Served + 1]) THEN 1 ELSE 0)
  BY <1>1, DueCounts
<1>3. \A i \in 1 .. Served : Owed(reads[i]) => Due(reads, i) \in 1 .. Due(reads, Served)
  BY <1>1, DueGrows
<1>4. /\ Len(replies) = Due(reads, Served)
      /\ \A i \in 1 .. Served : Owed(reads[i]) => Answers(replies[Due(reads, i)], reads[i])
  BY DEF RepliesMatchRequests
<1>5. /\ Len(replies') = Due(reads, Served + 1)
      /\ \A k \in 1 .. Len(replies) : replies'[k] = replies[k]
      /\ Owed(reads[Served + 1]) =>
            Answers(replies'[Due(reads, Served + 1)], reads[Served + 1])
  <2>1. CASE ~Owed(reads[Served + 1]) /\ replies' = replies
    BY <1>1, <1>2, <1>4, <2>1
  <2>2. ASSUME NEW r \in Replies, Answers(r, reads[Served + 1]), replies' = Append(replies, r),
               Owed(reads[Served + 1])
        PROVE  /\ Len(replies') = Due(reads, Served + 1)
               /\ \A k \in 1 .. Len(replies) : replies'[k] = replies[k]
               /\ Answers(replies'[Due(reads, Served + 1)], reads[Served + 1])
    <3>1. /\ Len(replies') = Len(replies) + 1 /\ replies'[Len(replies) + 1] = r
          /\ \A k \in 1 .. Len(replies) : replies'[k] = replies[k]
      BY <1>1, <2>2
    <3>2. Due(reads, Served + 1) = Len(replies) + 1
      BY <1>2, <1>4, <2>2
    <3> QED  BY <2>2, <3>1, <3>2
  <2> QED  BY <2>1, <2>2
<1>6. \A i \in 1 .. Served + 1 : Owed(reads[i]) => Answers(replies'[Due(reads, i)], reads[i])
  <2> TAKE i \in 1 .. Served + 1
  <2>1. i \in 1 .. Served \/ i = Served + 1
    OBVIOUS
  <2> QED  BY <1>3, <1>4, <1>5, <2>1
<1>7. /\ Len(replies') = Due(reads', Served')
      /\ \A i \in 1 .. Served' : Owed(reads'[i]) => Answers(replies'[Due(reads', i)], reads'[i])
  BY <1>5, <1>6
<1> QED  BY <1>7 DEF RepliesMatchRequests

LEMMA ScanKeeps ==
    ASSUME LoopInv, toServer \in Seq(Lines), ScanLine
    PROVE  LoopInv'
<1> USE DEF Serving
<1> DEFINE l == Head(toServer)
<1>1. /\ l \in Lines /\ reads' = Append(reads, l) /\ line' = l /\ pc = "scan" /\ replies' = replies
      /\ reads \in Seq(Lines) /\ replies \in Seq(Replies)
  BY DEF ScanLine, LoopInv, LoopTypes
<1>2. \/ l.kind \in {"oversized", "blank"} /\ pc' \in {"returned", "check"} /\ answer' = "none"
      \/ l.kind = "junk" /\ pc' = "write" /\ answer' = "parseError"
      \/ l.kind \in {"request", "initialized"} /\ pc' = "handle" /\ answer' = "none"
  <2>1. l.kind \in {"oversized", "blank", "junk", "request", "initialized"}
    BY <1>1 DEF Lines, NoRequests
  <2> QED  BY <2>1 DEF ScanLine
<1>3. LoopTypes'
  BY <1>1, <1>2 DEF LoopTypes, Codes
<1>4. /\ reads' \in Seq(Lines) /\ Len(reads') = Len(reads) + 1 /\ reads'[Len(reads) + 1] = l
      /\ Len(reads) \in Nat /\ \A i \in 1 .. Len(reads) : reads'[i] = reads[i]
  BY <1>1
<1>5. Holding'
  BY <1>1, <1>2, <1>4 DEF Holding, Owed
<1>6. RepliesMatchRequests'
  <2>1. Served = Len(reads)
    BY <1>1 DEF Served
  <2>2. /\ Len(replies) = Due(reads, Len(reads))
        /\ \A i \in 1 .. Len(reads) : Owed(reads[i]) => Answers(replies[Due(reads, i)], reads[i])
    BY <2>1 DEF LoopInv, RepliesMatchRequests
  <2>3. \A i \in 0 .. Len(reads) : Due(reads', i) = Due(reads, i)
    BY <1>1, DueAppend
  <2>4. CASE Served' = Len(reads)
    <3>1. /\ Len(replies') = Due(reads', Len(reads))
          /\ \A i \in 1 .. Len(reads) : Owed(reads'[i]) => Answers(replies'[Due(reads', i)], reads'[i])
      BY <1>1, <1>4, <2>2, <2>3
    <3> QED  BY <2>4, <3>1 DEF RepliesMatchRequests
  <2>5. CASE Served' = Len(reads) + 1 /\ ~Owed(l)
    <3>1. Due(reads', Len(reads) + 1) = Due(reads, Len(reads))
      <4>1. Due(reads', Len(reads)) = Due(reads, Len(reads)) /\ Due(reads', Len(reads)) \in Nat
        BY <1>4, <2>3, DueCounts
      <4>2. Due(reads', Len(reads) + 1)
                = Due(reads', Len(reads)) + (IF Owed(reads'[Len(reads) + 1]) THEN 1 ELSE 0)
        BY <1>4, DueCounts
      <4> QED  BY <1>4, <2>5, <4>1, <4>2
    <3>2. \A i \in 1 .. Len(reads) + 1 :
             Owed(reads'[i]) => Answers(replies'[Due(reads', i)], reads'[i])
      <4> TAKE i \in 1 .. Len(reads) + 1
      <4>1. i \in 1 .. Len(reads) \/ i = Len(reads) + 1
        BY <1>4
      <4>2. i = Len(reads) + 1 => ~Owed(reads'[i])
        BY <1>4, <2>5
      <4> QED  BY <1>1, <1>4, <2>2, <2>3, <4>1, <4>2
    <3> QED  BY <1>1, <2>2, <2>5, <3>1, <3>2 DEF RepliesMatchRequests
  <2>6. \/ Served' = Len(reads)
        \/ Served' = Len(reads) + 1 /\ ~Owed(l)
    BY <1>2, <1>4 DEF Served, Owed
  <2> QED  BY <2>4, <2>5, <2>6
<1> QED  BY <1>3, <1>5, <1>6 DEF LoopInv

LEMMA HandleKeeps ==
    ASSUME LoopInv, HandleRequest \/ HandlerReturns
    PROVE  LoopInv'
<1> USE DEF Serving
<1> DEFINE b == BodyOf(line)
<1>1. /\ UNCHANGED <<line, reads, replies>> /\ pc \in {"handle", "handler"}
      /\ reads # <<>> /\ line = reads[Len(reads)] /\ line.kind \in {"request", "initialized"}
      /\ reads \in Seq(Lines) /\ replies \in Seq(Replies)
  BY DEF HandleRequest, HandlerReturns, LoopInv, Holding, LoopTypes
<1>2. /\ Len(reads) \in Nat \ {0} /\ line \in Lines /\ Served = Len(reads) - 1
      /\ Served \in Nat /\ reads[Served + 1] = line
  BY <1>1 DEF Served
<1>3. b.method \in Methods /\ (Owed(line) <=> b.method # Initialized)
  BY <1>1, <1>2, BodyHasMethod
<1>4. \/ pc' = "handler" /\ RunsHandler(b) /\ answer' = answer
      \/ pc' = "check" /\ b.method = Initialized /\ answer' = "none"
      \/ pc' = "write" /\ b.method # Initialized /\ answer' \in Codes \ {"parseError"}
      \/ pc' = "panicked" /\ answer' = answer
  <2>1. CASE HandleRequest
    <3>1. CASE RunsHandler(b)
      BY <2>1, <3>1 DEF HandleRequest
    <3>2. CASE ~RunsHandler(b)
      <4>1. answer' = Answer(b) /\ pc' = IF answer' = "none" THEN "check" ELSE "write"
        BY <2>1, <3>2 DEF HandleRequest
      <4> QED  BY <1>3, <4>1 DEF Answer, Lists, Methods, Listing, Invoking, Initialized, Codes
    <3> QED  BY <3>1, <3>2
  <2>2. CASE HandlerReturns
    <3>1. PICK o \in HandlerOutcomes :
             IF AnswerOf(b, o) = "panic" THEN pc' = "panicked" /\ answer' = answer
             ELSE answer' = AnswerOf(b, o) /\ pc' = "write"
      BY <2>2 DEF HandlerReturns
    <3>2. b.method # Initialized
      BY <2>2 DEF HandlerReturns, LoopInv, Holding, RunsHandler, Invoking, Initialized
    <3>3. AnswerOf(b, o) \in (Codes \ {"parseError"}) \cup {"panic"}
      <4>1. o \in Outcomes
        OBVIOUS
      <4> QED  BY <4>1 DEF Outcomes, AnswerOf, Codes
    <3> QED  BY <3>1, <3>2, <3>3
  <2> QED  BY <2>1, <2>2
<1>5. LoopTypes'
  BY <1>1, <1>4 DEF LoopInv, LoopTypes
<1>6. Holding'
  BY <1>1, <1>2, <1>3, <1>4 DEF Holding, Codes
<1>7. RepliesMatchRequests'
  <2>1. CASE pc' = "check"
    <3>1. Served' = Served + 1
      BY <1>1, <1>2, <2>1 DEF Served
    <3>2. ~Owed(reads[Served + 1])
      BY <1>2, <1>3, <1>4, <2>1
    <3> QED  BY <1>1, <1>2, <3>1, <3>2, OneMoreServed DEF LoopInv
  <2>2. CASE pc' # "check"
    <3>1. Served' = Served
      BY <1>1, <1>2, <1>4, <2>2 DEF Served
    <3> QED  BY <1>1, <3>1 DEF LoopInv, RepliesMatchRequests
  <2> QED  BY <2>1, <2>2
<1> QED  BY <1>5, <1>6, <1>7 DEF LoopInv

LEMMA ReplyAnswers ==
    ASSUME NEW l \in Lines, NEW code \in Codes, l.kind = "junk" <=> code = "parseError"
    PROVE  ReplyTo(l, code) \in Replies /\ Answers(ReplyTo(l, code), l)
<1>1. NilID \in IDs
  BY DEF NilID, IDs, IDTypes
<1> QED  BY <1>1 DEF ReplyTo, Replies, Answers, Lines

LEMMA WriteKeeps ==
    ASSUME LoopInv, WriteResponse \/ WriteResponseFails
    PROVE  LoopInv' /\ ReplyTo(line, answer) \in Replies
<1> USE DEF Serving
<1>1. /\ UNCHANGED <<line, answer, reads>> /\ pc = "write" /\ pc' = "check"
      /\ replies' = Append(replies, ReplyTo(line, answer))
      /\ reads # <<>> /\ line = reads[Len(reads)] /\ Owed(line) /\ answer # "none"
      /\ line.kind = "junk" <=> answer = "parseError"
      /\ reads \in Seq(Lines) /\ replies \in Seq(Replies) /\ answer \in Codes \cup {"none"}
  BY DEF WriteResponse, WriteResponseFails, LoopInv, Holding, LoopTypes
<1>2. /\ Len(reads) \in Nat \ {0} /\ line \in Lines /\ Served = Len(reads) - 1
      /\ Served \in Nat /\ reads[Served + 1] = line /\ Served' = Served + 1
  BY <1>1 DEF Served
<1>3. ReplyTo(line, answer) \in Replies /\ Answers(ReplyTo(line, answer), line)
  BY <1>1, <1>2, ReplyAnswers
<1>4. LoopTypes'
  BY <1>1, <1>2, <1>3 DEF LoopTypes
<1>5. Holding'
  BY <1>1 DEF Holding
<1>6. RepliesMatchRequests'
  BY <1>1, <1>2, <1>3, OneMoreServed DEF LoopInv
<1> QED  BY <1>3, <1>4, <1>5, <1>6 DEF LoopInv

(* The steps that read nothing and answer nothing.                         *)
LEMMA IdleKeeps ==
    ASSUME LoopInv, UNCHANGED <<line, answer, reads, replies>>,
           pc' = pc \/ (pc \in {"check", "scan", "returned"} /\ pc' \in {"check", "scan", "returned"})
    PROVE  LoopInv'
<1>1. LoopTypes'
  BY DEF LoopInv, LoopTypes
<1>2. Holding'
  BY DEF LoopInv, Holding
<1>3. Served' = Served
  BY DEF Served
<1> QED  BY <1>1, <1>2, <1>3 DEF LoopInv, RepliesMatchRequests

LEMMA ServeKeeps ==
    ASSUME LoopInv, toServer \in Seq(Lines), Serve
    PROVE  LoopInv'
<1>1. CASE CheckContext \/ ScanEOF \/ Exit
  BY <1>1, IdleKeeps DEF CheckContext, ScanEOF, Exit, Serving
<1> QED  BY <1>1, ScanKeeps, HandleKeeps, WriteKeeps DEF Serve

-----------------------------------------------------------------------------
LEMMA LoopInit == Init => LoopInv
<1> SUFFICES ASSUME Init
             PROVE  LoopInv
  OBVIOUS
<1>1. LoopTypes /\ Holding
  BY DEF Init, LoopTypes, Holding
<1>2. reads = <<>> /\ replies = <<>> /\ Served = 0
  BY DEF Init, Served
<1>3. <<>> \in Seq(Lines)
  OBVIOUS
<1>4. RepliesMatchRequests
  <2>1. Due(reads, Served) = 0 /\ Len(replies) = 0 /\ 1 .. Served = {}
    <3>1. Due(<<>>, 0) = 0
      BY <1>3, DueCounts
    <3>2. Len(replies) = 0
      BY <1>2
    <3> QED  BY <1>2, <3>1, <3>2
  <2> QED  BY <2>1 DEF RepliesMatchRequests
<1> QED  BY <1>1, <1>4 DEF LoopInv

LEMMA TypeStep == TypeOK /\ LoopInv /\ [Next]_vars => TypeOK' /\ LoopInv'
<1> SUFFICES ASSUME TypeOK, LoopInv, [Next]_vars
             PROVE  TypeOK' /\ LoopInv'
  OBVIOUS
<1> USE DEF TypeOK, ends
<1>1. CASE Serve
  <2>1. LoopInv'
    BY <1>1, ServeKeeps
  <2>2. CASE WriteResponse
    <3>1. ReplyTo(line, answer) \in Replies
      BY <2>2, WriteKeeps
    <3> QED  BY <2>1, <2>2, <3>1 DEF WriteResponse, Quiet, LoopInv
  <2>3. CASE \/ CheckContext \/ ScanEOF \/ HandleRequest \/ HandlerReturns
             \/ WriteResponseFails \/ Exit
    BY <2>1, <2>3 DEF CheckContext, ScanEOF, HandleRequest, HandlerReturns,
       WriteResponseFails, Exit, Quiet, pipes, LoopInv
  <2>4. CASE ScanLine
    BY <2>1, <2>4 DEF ScanLine, Quiet, LoopInv
  <2> QED  BY <1>1, <2>2, <2>3, <2>4 DEF Serve
<1>2. CASE CancelContext \/ Peer \/ UNCHANGED vars
  <2>1. UNCHANGED <<pc, line, answer, reads, replies>>
    BY <1>2 DEF CancelContext, Peer, Launch, PeerReads, PeerHangsUp, PeerStopsReading,
       PeerSends, vars
  <2>2. LoopInv'
    BY <2>1, IdleKeeps
  <2>3. CASE CancelContext \/ Launch \/ PeerHangsUp \/ PeerStopsReading \/ UNCHANGED vars
    BY <2>2, <2>3
    DEF CancelContext, Launch, PeerHangsUp, PeerStopsReading, vars, pipes, LoopInv
  <2>4. CASE PeerReads
    BY <2>2, <2>4 DEF PeerReads, LoopInv
  <2>5. ASSUME NEW c \in Calls, NEW kind \in NoRequests \cup {"request"},
               NEW i \in RequestIDs, PeerSends(c, kind, i)
        PROVE  TypeOK'
    <3>1. i \in IDs
      BY DEF RequestIDs, IDs, IDTypes, NilID, WireID
    <3>2. [kind |-> kind, id |-> i, call |-> c] \in Lines
      BY <3>1 DEF Lines
    <3> QED  BY <2>2, <2>5, <3>2 DEF PeerSends, LoopInv
  <2>6. NilID \in RequestIDs
    BY DEF RequestIDs
  <2> QED  BY <1>2, <2>2, <2>3, <2>4, <2>5, <2>6 DEF Peer
<1> QED  BY <1>1, <1>2 DEF Next

LEMMA TypeInit == Init => TypeOK
<1>1. Init => LoopTypes
  BY LoopInit DEF LoopInv
<1>2. <<>> \in Seq(Lines) /\ <<>> \in Seq(Replies)
  OBVIOUS
<1>3. Init => /\ srv = "absent" /\ stdin = "nil" /\ stdout = "nil" /\ ctxDone = FALSE
              /\ toServer = <<>> /\ toClient = <<>>
  BY DEF Init
<1> QED  BY <1>1, <1>2, <1>3 DEF TypeOK

(* Every variable keeps its type (TypeOK), whatever lines the peer writes  *)
(* and however handlers end.                                               *)
THEOREM TypeCorrect == Spec => []TypeOK
<1>1. Init => TypeOK /\ LoopInv
  BY TypeInit, LoopInit
<1> QED  BY <1>1, TypeStep, PTL DEF Spec

(* Serve answers every request and every line that is no JSON, in order,   *)
(* once, and under its ID (RepliesMatchRequests).                          *)
THEOREM RepliesMatch == Spec => []RepliesMatchRequests
<1>1. Init => TypeOK /\ LoopInv
  BY TypeInit, LoopInit
<1>2. LoopInv => RepliesMatchRequests
  BY DEF LoopInv
<1> QED  BY <1>1, <1>2, TypeStep, PTL DEF Spec
=============================================================================
