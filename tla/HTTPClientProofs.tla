-------------------------- MODULE HTTPClientProofs --------------------------
(***************************************************************************)
(* Theorems about HTTPClient, for any number of clients and calls, any     *)
(* size of a stream and any EventService.                                  *)
(***************************************************************************)
EXTENDS HTTPClient, SequenceLemmas

USE NoneAssumption, OwnerAssumption

-----------------------------------------------------------------------------
(* Type correctness                                                        *)

LEMMA TypeInit == Init => TypeOK
  BY DEF Init, TypeOK, PCs, Statuses, Server!Init

LEMMA ReplyType ==
    ASSUME TypeOK, NEW c \in Calls, NEW kind \in AnswerKinds
    PROVE  /\ Reply(c, kind) \in Replies /\ Reply(c, kind) # Endpoint
           /\ Reply(c, kind).call = c /\ Reply(c, kind).id = WireID(id[c])
  BY AnswerAssumption DEF TypeOK, Reply, Replies, Endpoint, WireID, NilID, IDs, IDTypes

(* A step of the server changes the streams by at most one event, which is *)
(* the greeting or an answer that is being sent.                           *)
LEMMA EventsEffect ==
    ASSUME TypeOK, ServerStep
    PROVE  \/ UNCHANGED events
           \/ /\ UNCHANGED <<answered, toSend>>
              /\ \E j \in Clients : events' = [events EXCEPT ![j] = Append(events[j], Endpoint)]
           \/ /\ UNCHANGED answered
              /\ \E j \in Clients, c \in Calls, kind \in AnswerKinds :
                    /\ toSend[c] # {}
                    /\ events' = [events EXCEPT ![j] = Append(events[j], Reply(c, kind))]
<1>1. CASE \E k \in Clients : Server!Greets(k)
  BY <1>1 DEF Server!Greets, Server!Write, TypeOK, Server!postVars
<1>2. ASSUME NEW c \in Calls, NEW k \in Clients, Server!Sends(c, k)
      PROVE  \/ UNCHANGED events
             \/ /\ UNCHANGED answered
                /\ \E j \in Clients, kind \in AnswerKinds :
                      /\ toSend[c] # {}
                      /\ events' = [events EXCEPT ![j] = Append(events[j], Reply(c, kind))]
  <2>1. [d \in Calls |-> {Reply(d, kind) : kind \in AnswerKinds}][c] =
           {Reply(c, kind) : kind \in AnswerKinds}
    OBVIOUS
  <2>2. /\ toSend[c] # {} /\ UNCHANGED answered
        /\ \/ UNCHANGED events
           \/ \E j \in up \cup {k}, e \in {Reply(c, kind) : kind \in AnswerKinds} :
                 events' = [events EXCEPT ![j] = Append(events[j], e)]
    BY <1>2, <2>1 DEF Server!Sends, Server!Write
  <2>3. up \cup {k} \subseteq Clients
    BY DEF TypeOK
  <2> QED  BY <2>2, <2>3
<1>3. CASE \/ Server!Down
           \/ \E k \in Clients : ServerAccepts(k) \/ Server!Drops(k)
           \/ \E c \in Calls : Server!Answers(c) \/ Server!Responds(c)
                               \/ Server!Refuses(c) \/ Server!Aborts(c)
  BY <1>3 DEF Server!Down, ServerAccepts, Server!Accepts, Server!Drops, Server!Answers,
     Server!Responds, Server!Refuses, Server!Aborts, Server!streamVars
<1> QED  BY <1>1, <1>2, <1>3 DEF ServerStep

(* What a call, its context and a client leave alone.                      *)
LEMMA CallFrame ==
    ASSUME NEW c \in Calls, CallStep(c) \/ CtxDone(c)
    PROVE  UNCHANGED <<closed, readVars, connVars, up, greeted, events, srvUp, toSend,
                       posted, aborted, answered>>
  BY DEF CallStep, CtxDone, SendRequest, NewRequestFails, RegisterPending, Post,
     Server!Arrives, Server!streamVars, PostReturns, PostFails, PostTimesOut, AwaitReply,
     AwaitClosed, AwaitCtx, AwaitSSEDone, AwaitFails, DeletePending, ParseResult,
     readVars, connVars, srvVars, chanVars

(* What a step of a call does to the call itself.                          *)
LEMMA CallEffect ==
    ASSUME TypeOK, NEW c \in Calls, CallStep(c)
    PROVE  /\ \E m \in PCs : pc' = [pc EXCEPT ![c] = m]
           /\ \E s \in Statuses : status' = [status EXCEPT ![c] = s]
           /\ \/ UNCHANGED <<nextID, id>>
              \/ /\ nextID' = [nextID EXCEPT ![Owner[c]] = nextID[Owner[c]] + 1]
                 /\ id' = [id EXCEPT ![c] = nextID[Owner[c]] + 1]
<1>1. status[c] \in Statuses /\ status = [status EXCEPT ![c] = status[c]]
  BY DEF TypeOK
<1>2. \E m \in PCs : pc' = [pc EXCEPT ![c] = m]
  BY DEF CallStep, SendRequest, NewRequestFails, RegisterPending, Post, PostReturns,
     PostFails, PostTimesOut, AwaitReply, AwaitClosed, AwaitCtx, AwaitSSEDone,
     AwaitFails, DeletePending, ParseResult, GoTo, EndWith, PCs
<1>3. (\E s \in Statuses : status' = [status EXCEPT ![c] = s]) \/ UNCHANGED status
  BY DEF CallStep, SendRequest, NewRequestFails, RegisterPending, Post, PostReturns,
     PostFails, PostTimesOut, AwaitReply, AwaitClosed, AwaitCtx, AwaitSSEDone,
     AwaitFails, DeletePending, ParseResult, EndWith, Statuses
<1>4. \/ UNCHANGED <<nextID, id>>
      \/ /\ nextID' = [nextID EXCEPT ![Owner[c]] = nextID[Owner[c]] + 1]
         /\ id' = [id EXCEPT ![c] = nextID[Owner[c]] + 1]
  BY DEF CallStep, SendRequest, NewRequestFails, RegisterPending, Post, PostReturns,
     PostFails, PostTimesOut, AwaitReply, AwaitClosed, AwaitCtx, AwaitSSEDone,
     AwaitFails, DeletePending, ParseResult
<1> QED  BY <1>1, <1>2, <1>3, <1>4

(* Every variable keeps its type in every step.                            *)
LEMMA TypeStep == TypeOK /\ [Next]_vars => TypeOK'
<1> SUFFICES ASSUME TypeOK, [Next]_vars
             PROVE  TypeOK'
  OBVIOUS
<1> USE DEF TypeOK
<1>1. ASSUME NEW k \in Clients,
             Connect(k) \/ ConnectOk(k) \/ ConnectFails(k) \/ CutStream(k) \/ CloseStream(k)
      PROVE  TypeOK'
  <2>1. /\ UNCHANGED <<callVars, chanVars, inHand, matched, panicked, cancelled, srvVars>>
        /\ conn' = conn \/ \E l \in {"connecting", "open", "failed"} :
                              conn' = [conn EXCEPT ![k] = l]
        /\ reader' = reader \/ reader' = [reader EXCEPT ![k] = "scan"]
        /\ closer' = closer \/ closer' = [closer EXCEPT ![k] = "cancelled"]
        /\ cut' = cut \/ cut' = cut \cup {k}
    BY <1>1 DEF Connect, ConnectOk, ConnectFails, CutStream, CloseStream, readVars
  <2>2. conn' \in [Clients -> {"idle", "connecting", "open", "failed"}]
    BY <2>1
  <2>3. /\ reader' \in [Clients -> {"off", "scan", "deliver", "exited"}]
        /\ \A j \in Clients : reader'[j] = "deliver" => inHand'[j] # None
    <3>1. /\ reader \in [Clients -> {"off", "scan", "deliver", "exited"}]
          /\ \A j \in Clients : reader[j] = "deliver" => inHand[j] # None
      OBVIOUS
    <3> QED  BY ONLY <2>1, <3>1
  <2>4. closer' \in [Clients -> {"open", "cancelled", "closed"}] /\ cut' \subseteq Clients
    <3>1. closer \in [Clients -> {"open", "cancelled", "closed"}] /\ cut \subseteq Clients
      OBVIOUS
    <3> QED  BY ONLY <2>1, <3>1
  <2> QED  BY <2>1, <2>2, <2>3, <2>4 DEF callVars, chanVars, srvVars
<1>2. ASSUME NEW k \in Clients, CloseChannels(k)
      PROVE  TypeOK'
  <2>1. {pending[x] : x \in {y \in DOMAIN pending : y[1] = k}} \subseteq Calls
    OBVIOUS
  <2> QED  BY <1>2, <2>1 DEF CloseChannels, Restrict, callVars, readVars, srvVars
<1>3. ASSUME NEW c \in Calls, CallStep(c) \/ CtxDone(c)
      PROVE  TypeOK'
  <2>1. /\ UNCHANGED <<closed, readVars, connVars, up, greeted, events, srvUp, toSend,
                       posted, aborted, answered>>
        /\ Owner[c] \in Clients
    BY <1>3, CallFrame
  <2>2. /\ nextID' \in [Clients -> Nat] /\ id' \in [Calls -> Nat]
        /\ pc' \in [Calls -> PCs] /\ status' \in [Calls -> Statuses]
    <3>1. nextID[Owner[c]] + 1 \in Nat
      BY <2>1
    <3>2. CASE CallStep(c)
      <4>1. pc' \in [Calls -> PCs] /\ status' \in [Calls -> Statuses]
        <5>1. (\E m \in PCs : pc' = [pc EXCEPT ![c] = m])
              /\ (\E s \in Statuses : status' = [status EXCEPT ![c] = s])
          BY <3>2, CallEffect
        <5>2. pc \in [Calls -> PCs] /\ status \in [Calls -> Statuses]
          OBVIOUS
        <5> QED  BY ONLY <5>1, <5>2
      <4>2. nextID' \in [Clients -> Nat] /\ id' \in [Calls -> Nat]
        <5>1. \/ UNCHANGED <<nextID, id>>
              \/ /\ nextID' = [nextID EXCEPT ![Owner[c]] = nextID[Owner[c]] + 1]
                 /\ id' = [id EXCEPT ![c] = nextID[Owner[c]] + 1]
          BY <3>2, CallEffect
        <5>2. nextID \in [Clients -> Nat] /\ id \in [Calls -> Nat]
          OBVIOUS
        <5> QED  BY ONLY <3>1, <5>1, <5>2
      <4> QED  BY <4>1, <4>2
    <3>3. CASE CtxDone(c)
      BY <3>3 DEF CtxDone, callVars
    <3> QED  BY <1>3, <3>2, <3>3
  <2>4. /\ got' \in [Calls -> Replies \cup {None}]
        /\ buf' \in [Calls -> Replies \cup {None}]
    BY <1>3 DEF CallStep, CtxDone, SendRequest, NewRequestFails, RegisterPending,
       Post, PostReturns, PostFails, PostTimesOut, AwaitReply, AwaitClosed, AwaitCtx,
       AwaitSSEDone, AwaitFails, DeletePending, ParseResult, callVars, chanVars
  <2>5. DOMAIN pending' \subseteq Clients \X IDs /\ pending' \in [DOMAIN pending' -> Calls]
    <3>1. Key(c) \in Clients \X IDs
      BY <2>1 DEF Key, NormalizeID, GoID, IDs, IDTypes
    <3>2. CASE RegisterPending(c)
      BY <3>1, <3>2 DEF RegisterPending
    <3>3. CASE DeletePending(c)
      BY <3>3 DEF DeletePending, Restrict
    <3>4. CASE UNCHANGED pending
      BY <3>4
    <3> QED  BY <1>3, <3>2, <3>3, <3>4 DEF CallStep, CtxDone, SendRequest,
                NewRequestFails, Post, PostReturns, PostFails, PostTimesOut, AwaitReply,
                AwaitClosed, AwaitCtx, AwaitSSEDone, AwaitFails, ParseResult, chanVars
  <2>6. atServer' \subseteq Calls /\ cancelled' \subseteq Calls
    BY <1>3 DEF CallStep, CtxDone, SendRequest, NewRequestFails, RegisterPending,
       Post, Server!Arrives, PostReturns, PostFails, PostTimesOut, AwaitReply,
       AwaitClosed, AwaitCtx, AwaitSSEDone, AwaitFails, DeletePending, ParseResult, srvVars
  <2> QED  BY <2>1, <2>2, <2>4, <2>5, <2>6 DEF readVars, connVars
<1>4. ASSUME NEW k \in Clients, ReadSSE(k)
      PROVE  TypeOK'
  <2>1. ASSUME ReadsEvent(k)
        PROVE  /\ Event(k) \in Replies \cup {Endpoint}
               /\ events' \in [Clients -> Seq(Replies \cup {Endpoint})]
               /\ UNCHANGED <<up, greeted, srvUp, atServer, toSend, posted, aborted, answered>>
    <3>1. events[k] \in Seq(Replies \cup {Endpoint}) /\ events[k] # <<>>
      BY <2>1 DEF ReadsEvent, Server!Reads
    <3>2. /\ Head(events[k]) \in Replies \cup {Endpoint}
          /\ Tail(events[k]) \in Seq(Replies \cup {Endpoint})
      BY ONLY <3>1, RangeTail
    <3> QED  BY <2>1, <3>2 DEF ReadsEvent, Server!Reads, Event, Server!postVars
  <2>2. CASE EventMatched(k)
    <3>1. Event(k) \in Replies /\ pending[EventKey(k)] \in Calls
      BY <2>1, <2>2 DEF EventMatched, Endpoint
    <3>2. [to |-> pending[EventKey(k)], line |-> Event(k)] \in Found
      BY <3>1 DEF Found
    <3> QED  BY <2>1, <2>2, <3>1, <3>2 DEF EventMatched, callVars, chanVars, connVars
  <2>3. CASE ReadsEndpoint(k) \/ EventSkipped(k)
    BY <2>1, <2>3 DEF ReadsEndpoint, EventSkipped, callVars, chanVars, readVars, connVars
  <2>4. CASE Deliver(k)
    <3>1. inHand[k].to \in Calls /\ inHand[k].line \in Replies
      BY <2>4 DEF Found, Deliver, ReaderAt
    <3>2. buf' \in [Calls -> Replies \cup {None}]
      BY <2>4, <3>1 DEF Deliver
    <3> QED  BY <2>4, <3>2 DEF Deliver, callVars, connVars, srvVars
  <2>5. CASE DeliverPanics(k) \/ StreamEnds(k)
    BY <2>5 DEF DeliverPanics, StreamEnds, callVars, chanVars, readVars, connVars, srvVars
  <2> QED  BY <1>4, <2>2, <2>3, <2>4, <2>5 DEF ReadSSE
<1>5. CASE ServerStep
  <2>1. events' \in [Clients -> Seq(Replies \cup {Endpoint})]
    <3>1. ASSUME NEW j \in Clients, NEW e \in Replies \cup {Endpoint},
                 events' = [events EXCEPT ![j] = Append(events[j], e)]
          PROVE  events' \in [Clients -> Seq(Replies \cup {Endpoint})]
      BY <3>1
    <3>2. \/ UNCHANGED events
          \/ \E j \in Clients, e \in Replies \cup {Endpoint} :
                events' = [events EXCEPT ![j] = Append(events[j], e)]
      BY <1>5, EventsEffect, ReplyType
    <3> QED  BY <3>1, <3>2
  <2>2. /\ up' \subseteq Clients /\ greeted' \subseteq Clients /\ srvUp' \in BOOLEAN
        /\ atServer' \subseteq Calls
    BY <1>5 DEF ServerStep, Server!Down, ServerAccepts, Server!Accepts, Server!Greets,
       Server!Drops, Server!Answers, Server!Sends, Server!Responds, Server!Refuses,
       Server!Aborts, Server!streamVars, Server!postVars
  <2>3. posted' \subseteq Calls /\ aborted' \subseteq Calls /\ answered' \subseteq Calls
    BY <1>5 DEF ServerStep, Server!Down, ServerAccepts, Server!Accepts, Server!Greets,
       Server!Drops, Server!Answers, Server!Sends, Server!Responds, Server!Refuses,
       Server!Aborts, Server!streamVars, Server!postVars
  <2>4. toSend' \in [Calls -> SUBSET Clients]
    <3>1. \/ UNCHANGED toSend
          \/ \E c \in Calls : \/ toSend' = [toSend EXCEPT ![c] = up]
                              \/ toSend' = [toSend EXCEPT ![c] = {}]
                              \/ \E k \in Clients :
                                    toSend' = [toSend EXCEPT ![c] = toSend[c] \ {k}]
      BY <1>5 DEF ServerStep, Server!Down, ServerAccepts, Server!Accepts, Server!Greets,
         Server!Drops, Server!Answers, Server!Sends, Server!Responds, Server!Refuses,
         Server!Aborts, Server!streamVars, Server!postVars
    <3>2. toSend \in [Calls -> SUBSET Clients] /\ up \subseteq Clients
      OBVIOUS
    <3> QED  BY ONLY <3>1, <3>2
  <2> QED  BY <1>5, <2>1, <2>2, <2>3, <2>4 DEF ServerStep, callVars, chanVars, readVars,
              connVars
<1>6. CASE UNCHANGED vars
  BY <1>6 DEF vars, callVars, chanVars, readVars, connVars, srvVars
<1> QED  BY <1>1, <1>2, <1>3, <1>4, <1>5, <1>6 DEF Next

(* Type correctness of the HTTP clients.                                   *)
THEOREM TypeCorrect == Spec => []TypeOK
  BY TypeInit, TypeStep, PTL DEF Spec

-----------------------------------------------------------------------------
(* The safety properties                                                   *)

LEMMA InvInit == Init => IndInv
<1> SUFFICES ASSUME Init PROVE IndInv
  OBVIOUS
<1>1. TypeOK
  BY TypeInit
<1>2. UniqueIDs /\ PostedOnce /\ ReaderHolds /\ NoLostReply
  BY DEF Init, Server!Init, UniqueIDs, PostedOnce, Sent, ReaderHolds, NoLostReply
<1>3. AnswersFollowIDs /\ RepliesOwned
  BY RangeEmpty DEF Init, Server!Init, AnswersFollowIDs, RepliesOwned, BelongsTo
<1>4. PendingAccounts
  BY DEF Init, PendingAccounts, InFlight
<1> QED  BY <1>1, <1>2, <1>3, <1>4 DEF IndInv

(* What each conjunct depends on: a step that leaves it alone keeps it.    *)
LEMMA Frames ==
    /\ UniqueIDs /\ UNCHANGED <<nextID, id, pc>> => UniqueIDs'
    /\ PostedOnce /\ UNCHANGED <<pc, atServer, posted, aborted, answered, toSend>>
       => PostedOnce'
    /\ AnswersFollowIDs /\ UNCHANGED <<id, events, inHand, buf, got, answered>>
       => AnswersFollowIDs'
    /\ ReaderHolds /\ UNCHANGED <<reader, conn, matched, pc, closed, closer>>
       => ReaderHolds'
    /\ PendingAccounts /\ UNCHANGED <<id, pc, pending, closer>> => PendingAccounts'
    /\ NoLostReply /\ UNCHANGED <<matched, pc, buf, reader, inHand>> => NoLostReply'
    /\ RepliesOwned /\ UNCHANGED <<inHand, buf, got>> => RepliesOwned'
<1>1. UniqueIDs /\ UNCHANGED <<nextID, id, pc>> => UniqueIDs'
  BY DEF UniqueIDs
<1>2. PostedOnce /\ UNCHANGED <<pc, atServer, posted, aborted, answered, toSend>>
      => PostedOnce'
  BY DEF PostedOnce, Sent
<1>3. AnswersFollowIDs /\ UNCHANGED <<id, events, inHand, buf, got, answered>>
      => AnswersFollowIDs'
  BY DEF AnswersFollowIDs, Genuine
<1>4. ReaderHolds /\ UNCHANGED <<reader, conn, matched, pc, closed, closer>>
      => ReaderHolds'
  BY DEF ReaderHolds
<1>5. PendingAccounts /\ UNCHANGED <<id, pc, pending, closer>> => PendingAccounts'
  BY DEF PendingAccounts, Key
<1>6. NoLostReply /\ UNCHANGED <<matched, pc, buf, reader, inHand>> => NoLostReply'
  BY DEF NoLostReply
<1>7. RepliesOwned /\ UNCHANGED <<inHand, buf, got>> => RepliesOwned'
  BY DEF RepliesOwned, BelongsTo
<1> QED  BY <1>1, <1>2, <1>3, <1>4, <1>5, <1>6, <1>7

(* A call that moves on keeps what its new place allows.                   *)
LEMMA CallMoves ==
    ASSUME IndInv, NEW c \in Calls, NEW m \in PCs, pc' = [pc EXCEPT ![c] = m]
    PROVE  /\ UNCHANGED <<nextID, id>> /\ pc[c] # "idle" => UniqueIDs'
           /\ /\ UNCHANGED <<atServer, posted, aborted, answered, toSend>>
              /\ m \in {"idle", "register", "post"} => pc[c] \in {"idle", "register", "post"}
              => PostedOnce'
           /\ /\ UNCHANGED <<reader, conn, matched, closed, closer>>
              /\ m \in {"idle", "register"} => pc[c] \in {"idle", "register"}
              => ReaderHolds'
           /\ /\ UNCHANGED <<id, pending, closer>> /\ (m \in InFlight <=> pc[c] \in InFlight)
              => PendingAccounts'
           /\ /\ UNCHANGED <<matched, buf, reader, inHand>>
              /\ m \in {"post", "posting", "wait"} =>
                    pc[c] \in {"register", "post", "posting", "wait"}
              => NoLostReply'
<1>1. /\ pc \in [Calls -> PCs] /\ pending \in [DOMAIN pending -> Calls]
      /\ atServer \subseteq Calls /\ posted \subseteq Calls /\ aborted \subseteq Calls
      /\ answered \subseteq Calls /\ matched \subseteq Calls
      /\ UniqueIDs /\ PostedOnce /\ ReaderHolds /\ PendingAccounts /\ NoLostReply
  BY DEF IndInv, TypeOK
<1>2. UNCHANGED <<nextID, id>> /\ pc[c] # "idle" => UniqueIDs'
  BY <1>1 DEF UniqueIDs
<1>3. /\ UNCHANGED <<atServer, posted, aborted, answered, toSend>>
      /\ m \in {"idle", "register", "post"} => pc[c] \in {"idle", "register", "post"}
      => PostedOnce'
  BY <1>1 DEF PostedOnce, Sent
<1>4. /\ UNCHANGED <<reader, conn, matched, closed, closer>>
      /\ m \in {"idle", "register"} => pc[c] \in {"idle", "register"}
      => ReaderHolds'
  BY <1>1 DEF ReaderHolds
<1>5. /\ UNCHANGED <<id, pending, closer>> /\ (m \in InFlight <=> pc[c] \in InFlight)
      => PendingAccounts'
  BY <1>1 DEF PendingAccounts, Key
<1>6. /\ UNCHANGED <<matched, buf, reader, inHand>>
      /\ m \in {"post", "posting", "wait"} =>
            pc[c] \in {"register", "post", "posting", "wait"}
      => NoLostReply'
  <2>1. pc[c] = "register" => c \notin matched
    BY <1>1 DEF ReaderHolds
  <2> QED  BY <1>1, <2>1 DEF NoLostReply
<1> QED  BY <1>2, <1>3, <1>4, <1>5, <1>6

(* Every step of a call keeps the invariant.                               *)
LEMMA CallKeeps ==
    ASSUME IndInv, TypeOK', NEW c \in Calls, CallStep(c) \/ CtxDone(c)
    PROVE  /\ UniqueIDs' /\ PostedOnce' /\ AnswersFollowIDs' /\ ReaderHolds'
           /\ PendingAccounts' /\ NoLostReply' /\ (Alone => RepliesOwned')
<1> DEFINE Kept == /\ UniqueIDs' /\ PostedOnce' /\ AnswersFollowIDs' /\ ReaderHolds'
                   /\ PendingAccounts' /\ NoLostReply' /\ (Alone => RepliesOwned')
<1> USE DEF At, GoTo, EndWith
<1>1. /\ UNCHANGED <<closed, readVars, connVars, events, toSend, posted, aborted, answered>>
      /\ UNCHANGED <<reader, inHand, matched, conn, cut, closer>>
  BY CallFrame DEF readVars, connVars
<1>2. /\ UniqueIDs /\ PostedOnce /\ AnswersFollowIDs /\ ReaderHolds /\ PendingAccounts
      /\ NoLostReply /\ (Alone => RepliesOwned)
  BY DEF IndInv
<1>3. /\ pc \in [Calls -> PCs] /\ id \in [Calls -> Nat] /\ nextID \in [Clients -> Nat]
      /\ Owner[c] \in Clients /\ answered \subseteq Calls
      /\ DOMAIN pending \subseteq Clients \X IDs /\ pending \in [DOMAIN pending -> Calls]
  BY DEF IndInv, TypeOK
<1>4. CASE SendRequest(c)
  <2>1. /\ pc[c] = "idle" /\ pc' = [pc EXCEPT ![c] = "register"] /\ "register" \in PCs
        /\ nextID' = [nextID EXCEPT ![Owner[c]] = nextID[Owner[c]] + 1]
        /\ id' = [id EXCEPT ![c] = nextID[Owner[c]] + 1]
        /\ UNCHANGED <<got, buf, pending, atServer>>
    BY <1>4 DEF SendRequest, chanVars, srvVars, PCs
  <2>2. UniqueIDs'
    <3>1. /\ id'[c] = nextID[Owner[c]] + 1 /\ nextID'[Owner[c]] = nextID[Owner[c]] + 1
          /\ id'[c] \in Nat \ {0} /\ pc'[c] = "register"
          /\ \A d \in Calls \ {c} : id'[d] = id[d] /\ pc'[d] = pc[d]
          /\ \A k \in Clients \ {Owner[c]} : nextID'[k] = nextID[k]
      BY <1>3, <2>1
    <3>2. \A d \in Calls : Owner[d] = Owner[c] => id[d] < id'[c]
      BY <1>2, <1>3, <3>1 DEF UniqueIDs
    <3>3. \A d \in Calls : nextID[Owner[d]] <= nextID'[Owner[d]]
                           /\ nextID[Owner[d]] \in Nat /\ nextID'[Owner[d]] \in Nat
      BY <1>3, <3>1
    <3>4. \A d \in Calls : id'[d] <= nextID'[Owner[d]]
      <4>1. \A d \in Calls : id[d] <= nextID[Owner[d]] /\ id[d] \in Nat
        BY <1>2, <1>3 DEF UniqueIDs
      <4>2. ASSUME NEW d \in Calls PROVE id'[d] <= nextID'[Owner[d]]
        BY <3>1, <3>3, <4>1
      <4> QED  BY <4>2
    <3>5. \A d \in Calls : Owner[d] = Owner[c] => id[d] # id'[c]
      BY <1>3, <3>1, <3>2
    <3>6. \A d \in Calls : pc'[d] # "idle" => id'[d] # 0
      BY <1>2, <3>1 DEF UniqueIDs
    <3>7. \A d, e \in Calls :
             Owner[d] = Owner[e] /\ id'[d] = id'[e] /\ id'[d] # 0 => d = e
      BY <1>2, <3>1, <3>5 DEF UniqueIDs
    <3> QED  BY <3>4, <3>6, <3>7 DEF UniqueIDs
  <2>3. c \notin answered
    BY <1>2, <2>1 DEF PostedOnce, Sent
  <2>4. \A l : Genuine(l) => Genuine(l)'
    BY <1>1, <1>3, <2>1, <2>3 DEF Genuine
  <2>5. AnswersFollowIDs'
    BY <1>1, <1>2, <2>1, <2>4 DEF AnswersFollowIDs
  <2>6. PendingAccounts'
    <3>1. \A d \in Calls \ {c} : Key(d)' = Key(d) /\ pc'[d] = pc[d]
      BY <1>3, <2>1 DEF Key
    <3>2. pc[c] \notin InFlight /\ pc'[c] \notin InFlight
      BY <1>3, <2>1 DEF InFlight
    <3> QED  BY <1>1, <1>2, <1>3, <2>1, <3>1, <3>2 DEF PendingAccounts
  <2>7. PostedOnce' /\ ReaderHolds' /\ NoLostReply'
    BY <1>1, <2>1, CallMoves
  <2>8. Alone => RepliesOwned'
    BY <1>1, <1>2, <2>1, Frames
  <2> QED  BY <2>2, <2>5, <2>6, <2>7, <2>8
<1>5. CASE RegisterPending(c)
  <2>1. /\ pc[c] = "register" /\ pc' = [pc EXCEPT ![c] = "post"] /\ "post" \in PCs
        /\ pending' = [x \in DOMAIN pending \cup {Key(c)} |->
                         IF x = Key(c) THEN c ELSE pending[x]]
        /\ UNCHANGED <<nextID, id, got, buf, atServer>>
    BY <1>5 DEF RegisterPending, srvVars, PCs
  <2>2. PendingAccounts'
    <3>1. \A d \in Calls : Key(d)' = Key(d)
      BY <2>1 DEF Key
    <3>2. pc'[c] = "post" /\ \A d \in Calls \ {c} : pc'[d] = pc[d]
      BY <1>3, <2>1
    <3>3. \A x \in DOMAIN pending : pending[x] # c
      BY <1>2, <1>3, <2>1 DEF PendingAccounts, InFlight
    <3>4. "post" \in InFlight /\ DOMAIN pending' = DOMAIN pending \cup {Key(c)}
      BY <2>1 DEF InFlight
    <3>5. \A x \in DOMAIN pending' : pc'[pending'[x]] \in InFlight /\ x = Key(pending'[x])
      BY <1>2, <1>3, <2>1, <3>1, <3>2, <3>3, <3>4 DEF PendingAccounts
    <3>6. \A d \in Calls : pc'[d] \in InFlight =>
             Key(d)' \in DOMAIN pending' \/ closer'[Owner[d]] = "closed"
      BY <1>1, <1>2, <3>1, <3>2, <3>4 DEF PendingAccounts
    <3> QED  BY <2>1, <3>5, <3>6 DEF PendingAccounts, Key
  <2>3. UniqueIDs' /\ PostedOnce' /\ ReaderHolds' /\ NoLostReply'
    BY <1>1, <2>1, CallMoves
  <2>4. AnswersFollowIDs' /\ (Alone => RepliesOwned')
    BY <1>1, <1>2, <2>1, Frames
  <2> QED  BY <2>2, <2>3, <2>4
<1>6. CASE Post(c)
  <2>1. /\ pc[c] = "post" /\ pc' = [pc EXCEPT ![c] = "posting"] /\ "posting" \in PCs
        /\ atServer' = atServer \cup {c}
        /\ UNCHANGED <<nextID, id, got, buf, pending>>
    BY <1>6 DEF Post, Server!Arrives, chanVars, PCs
  <2>2. PostedOnce'
    <3>1. c \notin answered
      BY <1>2, <2>1 DEF PostedOnce, Sent
    <3>2. pc'[c] = "posting" /\ \A d \in Calls \ {c} : pc'[d] = pc[d]
      BY <1>3, <2>1
    <3>3. Sent \cup {c} = Sent' /\ Sent \subseteq Calls
      BY <1>1, <2>1 DEF Sent, IndInv, TypeOK
    <3> QED  BY <1>1, <1>2, <2>1, <3>1, <3>2, <3>3 DEF PostedOnce
  <2>3. UniqueIDs' /\ ReaderHolds' /\ NoLostReply' /\ PendingAccounts'
    BY <1>1, <2>1, CallMoves DEF InFlight
  <2>4. AnswersFollowIDs' /\ (Alone => RepliesOwned')
    BY <1>1, <1>2, <2>1, Frames
  <2> QED  BY <2>2, <2>3, <2>4
<1>7. CASE AwaitReply(c)
  <2>1. /\ pc[c] = "wait" /\ pc' = [pc EXCEPT ![c] = "cleanup"] /\ "cleanup" \in PCs
        /\ got' = [got EXCEPT ![c] = buf[c]] /\ buf' = [buf EXCEPT ![c] = None]
        /\ UNCHANGED <<nextID, id, pending, atServer>>
    BY <1>7 DEF AwaitReply, srvVars, PCs
  <2>2. UniqueIDs' /\ PostedOnce' /\ ReaderHolds' /\ PendingAccounts'
    BY <1>1, <2>1, CallMoves DEF InFlight
  <2>3. /\ got'[c] = buf[c] /\ buf'[c] = None /\ pc'[c] = "cleanup"
        /\ \A d \in Calls \ {c} : got'[d] = got[d] /\ buf'[d] = buf[d] /\ pc'[d] = pc[d]
    BY <2>1 DEF IndInv, TypeOK
  <2>4. NoLostReply'
    <3>1. matched \subseteq Calls
      BY DEF IndInv, TypeOK
    <3> QED  BY <1>1, <1>2, <2>3, <3>1 DEF NoLostReply
  <2>5. \A l : Genuine(l)' <=> Genuine(l)
    BY <1>1, <2>1 DEF Genuine
  <2>6. AnswersFollowIDs'
    BY <1>1, <1>2, <2>3, <2>5 DEF AnswersFollowIDs
  <2>7. Alone => RepliesOwned'
    BY <1>1, <1>2, <2>3 DEF RepliesOwned, BelongsTo
  <2> QED  BY <2>2, <2>4, <2>6, <2>7
<1>8. CASE DeletePending(c)
  <2>1. /\ pc[c] = "cleanup"
        /\ \E m \in {"parse", "returned"} : pc' = [pc EXCEPT ![c] = m]
        /\ pending' = Restrict(pending, DOMAIN pending \ {Key(c)})
        /\ UNCHANGED <<nextID, id, got, buf, atServer>>
    BY <1>8 DEF DeletePending, srvVars
  <2>2. PICK m \in {"parse", "returned"} : pc' = [pc EXCEPT ![c] = m]
    BY <2>1
  <2>3. UniqueIDs' /\ PostedOnce' /\ ReaderHolds' /\ NoLostReply'
    BY <1>1, <2>1, <2>2, CallMoves DEF PCs
  <2>4. PendingAccounts'
    <3>1. \A d \in Calls : Key(d)' = Key(d)
      BY <2>1 DEF Key
    <3>2. pc'[c] = m /\ \A d \in Calls \ {c} : pc'[d] = pc[d]
      BY <1>3, <2>2
    <3>3. /\ DOMAIN pending' = DOMAIN pending \ {Key(c)}
          /\ \A x \in DOMAIN pending' : pending'[x] = pending[x]
      BY <2>1 DEF Restrict
    <3>4. \A d \in Calls \ {c} : pc[d] \in InFlight => Key(d) # Key(c)
      <4>1. ASSUME NEW d \in Calls, Key(d) = Key(c), pc[d] \in InFlight
            PROVE  d = c
        <5>1. Owner[d] = Owner[c] /\ id[d] = id[c]
          BY <4>1 DEF Key, NormalizeID, GoID
        <5>2. id[d] # 0
          BY <1>2, <4>1 DEF UniqueIDs, InFlight
        <5> QED  BY <1>2, <5>1, <5>2 DEF UniqueIDs
      <4> QED  BY <4>1
    <3>5. \A x \in DOMAIN pending' : pending'[x] # c /\ pending'[x] \in Calls
      BY <1>2, <1>3, <3>3 DEF PendingAccounts
    <3>6. m \notin InFlight
      BY DEF InFlight
    <3>7. \A x \in DOMAIN pending' : pc'[pending'[x]] \in InFlight /\ x = Key(pending'[x])
      BY <1>2, <3>1, <3>2, <3>3, <3>5 DEF PendingAccounts
    <3>8. \A d \in Calls : pc'[d] \in InFlight =>
             Key(d)' \in DOMAIN pending' \/ closer'[Owner[d]] = "closed"
      BY <1>1, <1>2, <3>1, <3>2, <3>3, <3>4, <3>6 DEF PendingAccounts
    <3> QED  BY <2>1, <3>7, <3>8 DEF PendingAccounts, Key
  <2>5. AnswersFollowIDs' /\ (Alone => RepliesOwned')
    BY <1>1, <1>2, <2>1, Frames
  <2> QED  BY <2>3, <2>4, <2>5
<1>9. CASE \/ NewRequestFails(c) \/ PostReturns(c) \/ PostFails(c) \/ PostTimesOut(c)
           \/ AwaitClosed(c) \/ AwaitCtx(c) \/ AwaitSSEDone(c) \/ ParseResult(c)
  <2>1. /\ UNCHANGED <<nextID, id, got, buf, pending, atServer>>
        /\ \/ /\ pc[c] \in {"register", "parse"}
              /\ pc' = [pc EXCEPT ![c] = "returned"]
           \/ /\ pc[c] \in {"post", "posting", "wait"}
              /\ \E m \in {"wait", "cleanup"} : pc' = [pc EXCEPT ![c] = m]
    BY <1>9 DEF NewRequestFails, PostReturns, PostFails, PostTimesOut, AwaitClosed,
       AwaitCtx, AwaitSSEDone, AwaitFails, ParseResult, chanVars, srvVars
  <2>2. UniqueIDs' /\ PostedOnce' /\ ReaderHolds' /\ NoLostReply' /\ PendingAccounts'
    <3>1. PICK m \in {"returned", "wait", "cleanup"} :
            /\ pc' = [pc EXCEPT ![c] = m]
            /\ \/ pc[c] \in {"register", "parse"} /\ m = "returned"
               \/ pc[c] \in {"post", "posting", "wait"} /\ m # "returned"
      BY <2>1
    <3> QED  BY <1>1, <2>1, <3>1, CallMoves DEF PCs, InFlight
  <2>3. AnswersFollowIDs' /\ (Alone => RepliesOwned')
    BY <1>1, <1>2, <2>1, Frames
  <2> QED  BY <2>2, <2>3
<1>10. CASE CtxDone(c)
  BY <1>1, <1>2, <1>10, Frames DEF CtxDone, callVars, chanVars, srvVars
<1> QED
  BY <1>4, <1>5, <1>6, <1>7, <1>8, <1>9, <1>10 DEF CallStep

(* Every step of a reader keeps the invariant.                             *)
LEMMA ReaderKeeps ==
    ASSUME IndInv, TypeOK', NEW k \in Clients, ReadSSE(k)
    PROVE  /\ UniqueIDs' /\ PostedOnce' /\ AnswersFollowIDs' /\ ReaderHolds'
           /\ PendingAccounts' /\ NoLostReply' /\ (Alone => RepliesOwned')
<1>1. /\ UNCHANGED <<nextID, id, pc, status, got, pending, closed, conn, cut, closer>>
      /\ UNCHANGED <<atServer, posted, aborted, answered, toSend>>
  BY DEF ReadSSE, ReadsEndpoint, EventMatched, EventSkipped, ReadsEvent, Server!Reads,
     Deliver, DeliverPanics, StreamEnds, callVars, chanVars, connVars, srvVars,
     Server!postVars
<1>2. /\ UniqueIDs /\ PostedOnce /\ AnswersFollowIDs /\ ReaderHolds /\ PendingAccounts
      /\ NoLostReply /\ (Alone => RepliesOwned)
  BY DEF IndInv
<1>3. /\ reader \in [Clients -> {"off", "scan", "deliver", "exited"}]
      /\ inHand \in [Clients -> Found \cup {None}]
      /\ buf \in [Calls -> Replies \cup {None}] /\ got \in [Calls -> Replies \cup {None}]
      /\ matched \subseteq Calls /\ closed \subseteq Calls
      /\ pending \in [DOMAIN pending -> Calls]
      /\ \A j \in Clients : reader[j] = "deliver" => inHand[j] # None
      /\ events \in [Clients -> Seq(Replies \cup {Endpoint})]
  BY DEF IndInv, TypeOK
<1>4. UniqueIDs' /\ PostedOnce' /\ PendingAccounts'
  BY <1>1, <1>2, Frames
<1>5. \A l : Genuine(l)' <=> Genuine(l)
  BY <1>1 DEF Genuine
<1>6. ASSUME ReadsEvent(k)
      PROVE  /\ Event(k) \in Range(events[k]) /\ reader[k] = "scan"
             /\ \A j \in Clients : Range(events'[j]) \subseteq Range(events[j])
             /\ Event(k) \in Replies \cup {Endpoint}
  <2>1. /\ events[k] # <<>> /\ events' = [events EXCEPT ![k] = Tail(events[k])]
        /\ reader[k] = "scan"
    BY <1>6 DEF ReadsEvent, ReaderAt, Server!Reads
  <2>2. events[k] \in Seq(Replies \cup {Endpoint})
    BY <1>3
  <2>3. /\ Head(events[k]) \in Range(events[k]) /\ Head(events[k]) \in Replies \cup {Endpoint}
        /\ Range(Tail(events[k])) \subseteq Range(events[k])
    BY ONLY <2>1, <2>2, RangeTail
  <2> QED  BY <1>3, <2>1, <2>3 DEF Event
<1>7. CASE ReadsEndpoint(k) \/ EventSkipped(k)
  <2>1. ReadsEvent(k) /\ UNCHANGED <<reader, inHand, matched, buf>>
    BY <1>7 DEF ReadsEndpoint, EventSkipped, readVars, chanVars
  <2>2. AnswersFollowIDs'
    BY <1>1, <1>2, <1>5, <1>6, <2>1 DEF AnswersFollowIDs
  <2> QED  BY <1>1, <1>2, <1>4, <2>1, <2>2, Frames
<1>8. CASE EventMatched(k)
  <2> DEFINE c == pending[EventKey(k)]
             f == [to |-> c, line |-> Event(k)]
  <2>1. /\ ReadsEvent(k) /\ Event(k) # Endpoint /\ EventKey(k) \in DOMAIN pending
        /\ inHand' = [inHand EXCEPT ![k] = f] /\ reader' = [reader EXCEPT ![k] = "deliver"]
        /\ matched' = matched \cup {c} /\ UNCHANGED buf
    BY <1>8 DEF EventMatched, Endpoint, chanVars
  <2>2. /\ c \in Calls /\ Event(k) \in Replies /\ Genuine(Event(k))
        /\ pc[c] \in InFlight /\ EventKey(k) = Key(c)
    BY <1>2, <1>3, <1>6, <2>1 DEF PendingAccounts, AnswersFollowIDs
  <2>3. /\ inHand'[k] = f /\ \A j \in Clients \ {k} : inHand'[j] = inHand[j]
        /\ reader'[k] = "deliver" /\ \A j \in Clients \ {k} : reader'[j] = reader[j]
    BY <1>3, <2>1
  <2>4. AnswersFollowIDs'
    <3>1. \A j \in Clients : inHand'[j] # None => Genuine(inHand'[j].line)
      BY <1>2, <2>2, <2>3 DEF AnswersFollowIDs
    <3>2. \A j \in Clients : \A l \in Range(events'[j]) : l # Endpoint => Genuine(l)
      BY <1>2, <1>6, <2>1 DEF AnswersFollowIDs
    <3> QED  BY <1>1, <1>2, <1>5, <2>1, <3>1, <3>2 DEF AnswersFollowIDs
  <2>5. ReaderHolds'
    BY <1>1, <1>2, <1>6, <2>1, <2>2, <2>3 DEF ReaderHolds, InFlight
  <2>6. NoLostReply'
    <3>1. ASSUME NEW d \in matched', pc[d] \in {"post", "posting", "wait"}
          PROVE  buf[d] # None \/ \E j \in Clients : reader'[j] = "deliver" /\ inHand'[j].to = d
      <4>1. CASE d = c
        BY <2>3, <4>1
      <4>2. CASE d \in matched /\ d # c
        BY <1>2, <1>6, <2>1, <2>3, <3>1, <4>2 DEF NoLostReply
      <4> QED  BY <2>1, <4>1, <4>2
    <3> QED  BY <1>1, <2>1, <3>1 DEF NoLostReply
  <2>7. ASSUME Alone
        PROVE  Event(k).call = c
    <3>1. NormalizeID(Event(k).id) = GoID(id[c])
      BY <2>2 DEF EventKey, Key, NormalizeID, GoID
    <3>2. Event(k).call \in Calls /\ Event(k).id = WireID(id[Event(k).call])
      BY <2>2 DEF Genuine, Replies
    <3>3. id[Event(k).call] = id[c]
      BY <3>1, <3>2 DEF NormalizeID, WireID, GoID
    <3>4. id[c] # 0 /\ Owner[Event(k).call] = Owner[c]
      BY <1>2, <2>2, <2>7, <3>2 DEF UniqueIDs, InFlight, Alone
    <3> QED  BY <1>2, <2>2, <3>2, <3>3, <3>4 DEF UniqueIDs
  <2>8. Alone => RepliesOwned'
    BY <1>1, <1>2, <2>1, <2>3, <2>7 DEF RepliesOwned, BelongsTo
  <2> QED  BY <1>4, <2>4, <2>5, <2>6, <2>8
<1>9. CASE Deliver(k)
  <2> DEFINE f == inHand[k]
  <2>1. /\ reader[k] = "deliver" /\ f \in Found /\ f # None
        /\ buf' = IF buf[f.to] = None THEN [buf EXCEPT ![f.to] = f.line] ELSE buf
        /\ reader' = [reader EXCEPT ![k] = "scan"] /\ inHand' = [inHand EXCEPT ![k] = None]
        /\ UNCHANGED <<matched, events>>
    BY <1>3, <1>9 DEF Deliver, ReaderAt, srvVars
  <2>2. f.to \in Calls /\ f.line \in Replies
    BY <2>1 DEF Found
  <2>3. /\ inHand'[k] = None /\ \A j \in Clients \ {k} : inHand'[j] = inHand[j]
        /\ reader'[k] = "scan" /\ \A j \in Clients \ {k} : reader'[j] = reader[j]
    BY <1>3, <2>1
  <2>4. /\ \A d \in Calls : buf'[d] = buf[d] \/ (d = f.to /\ buf'[d] = f.line)
        /\ buf'[f.to] # None /\ \A d \in Calls : buf[d] # None => buf'[d] # None
    BY <1>3, <2>1, <2>2
  <2>5. AnswersFollowIDs'
    <3>1. Genuine(f.line)
      BY <1>2, <2>1 DEF AnswersFollowIDs
    <3> QED  BY <1>1, <1>2, <1>5, <2>1, <2>3, <2>4, <3>1 DEF AnswersFollowIDs
  <2>6. ReaderHolds'
    BY <1>1, <1>2, <2>1, <2>3 DEF ReaderHolds
  <2>7. NoLostReply'
    <3>1. ASSUME NEW d \in matched, pc[d] \in {"post", "posting", "wait"}
          PROVE  buf'[d] # None \/ \E j \in Clients : reader'[j] = "deliver" /\ inHand'[j].to = d
      <4>1. CASE buf[d] # None \/ d = f.to
        BY <1>3, <2>4, <4>1
      <4>2. CASE buf[d] = None /\ d # f.to
        BY <1>2, <2>3, <3>1, <4>2 DEF NoLostReply
      <4> QED  BY <4>1, <4>2
    <3> QED  BY <1>1, <2>1, <3>1 DEF NoLostReply
  <2>8. Alone => RepliesOwned'
    <3>1. Alone => BelongsTo(f.line, f.to)
      BY <1>2, <2>1 DEF RepliesOwned
    <3> QED  BY <1>1, <1>2, <2>3, <2>4, <3>1 DEF RepliesOwned, BelongsTo
  <2> QED  BY <1>4, <2>5, <2>6, <2>7, <2>8
<1>10. CASE DeliverPanics(k)
  BY <1>1, <1>2, <1>4, <1>10, Frames DEF DeliverPanics, chanVars, readVars, srvVars
<1>11. CASE StreamEnds(k)
  <2>1. /\ reader[k] = "scan" /\ reader' = [reader EXCEPT ![k] = "exited"]
        /\ UNCHANGED <<inHand, matched, buf, events>>
    BY <1>11 DEF StreamEnds, ReaderAt, chanVars, srvVars
  <2>2. ReaderHolds' /\ NoLostReply'
    BY <1>1, <1>2, <1>3, <2>1 DEF ReaderHolds, NoLostReply
  <2> QED  BY <1>1, <1>2, <1>4, <2>1, <2>2, Frames
<1> QED  BY <1>7, <1>8, <1>9, <1>10, <1>11 DEF ReadSSE

(* Connect and Close keep it, ...                                          *)
LEMMA ClientKeeps ==
    ASSUME IndInv, TypeOK', NEW k \in Clients,
           \/ Connect(k) \/ ConnectOk(k) \/ ConnectFails(k) \/ CutStream(k)
           \/ CloseStream(k) \/ CloseChannels(k)
    PROVE  /\ UniqueIDs' /\ PostedOnce' /\ AnswersFollowIDs' /\ ReaderHolds'
           /\ PendingAccounts' /\ NoLostReply' /\ (Alone => RepliesOwned')
<1>1. /\ UNCHANGED <<nextID, id, pc, got, buf, inHand, matched, events>>
      /\ UNCHANGED <<atServer, posted, aborted, answered, toSend>>
  BY DEF Connect, ConnectOk, ConnectFails, CutStream, CloseStream, CloseChannels,
     callVars, chanVars, readVars, srvVars
<1>2. /\ UniqueIDs /\ PostedOnce /\ AnswersFollowIDs /\ ReaderHolds /\ PendingAccounts
      /\ NoLostReply /\ (Alone => RepliesOwned)
  BY DEF IndInv
<1>3. /\ reader \in [Clients -> {"off", "scan", "deliver", "exited"}]
      /\ conn \in [Clients -> {"idle", "connecting", "open", "failed"}]
      /\ closer \in [Clients -> {"open", "cancelled", "closed"}]
      /\ matched \subseteq Calls /\ closed \subseteq Calls
      /\ pending \in [DOMAIN pending -> Calls] /\ Owner \in [Calls -> Clients]
  BY DEF IndInv, TypeOK
<1>4. /\ UniqueIDs' /\ PostedOnce' /\ AnswersFollowIDs' /\ (Alone => RepliesOwned')
  BY <1>1, <1>2, Frames
<1>5. CASE Connect(k) \/ ConnectOk(k) \/ ConnectFails(k)
  <2>1. /\ conn[k] # "open" /\ UNCHANGED <<closed, pending, closer>>
        /\ \/ conn' = [conn EXCEPT ![k] = "connecting"] /\ UNCHANGED reader
           \/ conn' = [conn EXCEPT ![k] = "failed"] /\ UNCHANGED reader
           \/ /\ conn' = [conn EXCEPT ![k] = "open"]
              /\ reader' = [reader EXCEPT ![k] = "scan"]
    BY <1>5 DEF Connect, ConnectOk, ConnectFails, chanVars, readVars
  <2>2. reader[k] = "off"
    BY <1>2, <2>1 DEF ReaderHolds
  <2>3. ReaderHolds'
    BY <1>1, <1>2, <1>3, <2>1, <2>2 DEF ReaderHolds
  <2>4. \A j \in Clients : reader[j] = "deliver" => reader'[j] = "deliver"
    BY <1>3, <2>1, <2>2
  <2>5. NoLostReply'
    BY <1>1, <1>2, <2>4 DEF NoLostReply
  <2> QED  BY <1>1, <1>2, <1>4, <2>1, <2>3, <2>5, Frames
<1>6. CASE CutStream(k)
  BY <1>1, <1>2, <1>4, <1>6, Frames DEF CutStream, chanVars, readVars
<1>7. CASE CloseStream(k)
  <2>1. /\ closer[k] = "open" /\ closer' = [closer EXCEPT ![k] = "cancelled"]
        /\ UNCHANGED <<closed, pending, conn, reader>>
    BY <1>7 DEF CloseStream, chanVars, readVars
  <2>2. \A j \in Clients : closer[j] = "closed" => closer'[j] = "closed"
    BY <1>3, <2>1
  <2>3. ReaderHolds'
    BY <1>1, <1>2, <1>3, <2>1, <2>2 DEF ReaderHolds
  <2>4. PendingAccounts'
    BY <1>1, <1>2, <1>3, <2>1, <2>2 DEF PendingAccounts, Key
  <2> QED  BY <1>1, <1>2, <1>4, <2>1, <2>3, <2>4, Frames
<1>8. CASE CloseChannels(k)
  <2>1. /\ closer' = [closer EXCEPT ![k] = "closed"] /\ UNCHANGED <<conn, reader>>
        /\ closed' = closed \cup {pending[x] : x \in {y \in DOMAIN pending : y[1] = k}}
        /\ pending' = Restrict(pending, {x \in DOMAIN pending : x[1] # k})
    BY <1>8 DEF CloseChannels, readVars
  <2>2. /\ closer'[k] = "closed"
        /\ \A j \in Clients : closer[j] = "closed" => closer'[j] = "closed"
    BY <1>3, <2>1
  <2>3. /\ DOMAIN pending' = {x \in DOMAIN pending : x[1] # k}
        /\ \A x \in DOMAIN pending' : pending'[x] = pending[x]
    BY <2>1 DEF Restrict
  <2>4. \A x \in DOMAIN pending : x[1] = Owner[pending[x]]
    BY <1>2 DEF PendingAccounts, Key
  <2>5. ReaderHolds'
    <3>1. \A c \in closed' : closer'[Owner[c]] = "closed"
      BY <1>2, <1>3, <2>1, <2>2, <2>4 DEF ReaderHolds
    <3> QED  BY <1>1, <1>2, <2>1, <3>1 DEF ReaderHolds
  <2>6. PendingAccounts'
    <3>1. \A x \in DOMAIN pending' : pc'[pending'[x]] \in InFlight /\ x = Key(pending'[x])
      BY <1>1, <1>2, <2>3 DEF PendingAccounts
    <3>2. \A c \in Calls : pc[c] \in InFlight =>
             Key(c) \in DOMAIN pending' \/ closer'[Owner[c]] = "closed"
      <4>1. \A c \in Calls : Key(c)[1] = Owner[c]
        BY DEF Key
      <4> QED  BY <1>2, <1>3, <2>2, <2>3, <4>1 DEF PendingAccounts
    <3> QED  BY <1>1, <3>1, <3>2 DEF PendingAccounts, Key
  <2> QED  BY <1>1, <1>2, <1>4, <2>1, <2>5, <2>6, Frames
<1> QED  BY <1>5, <1>6, <1>7, <1>8

(* ... and so does every step of the server.                               *)
LEMMA ServerKeeps ==
    ASSUME IndInv, TypeOK', ServerStep
    PROVE  /\ UniqueIDs' /\ PostedOnce' /\ AnswersFollowIDs' /\ ReaderHolds'
           /\ PendingAccounts' /\ NoLostReply' /\ (Alone => RepliesOwned')
<1>1. /\ UNCHANGED <<nextID, id, pc, got, pending, buf, closed, reader, inHand, matched>>
      /\ UNCHANGED <<conn, closer>>
  BY DEF ServerStep, callVars, chanVars, readVars, connVars
<1>2. /\ UniqueIDs /\ PostedOnce /\ AnswersFollowIDs /\ ReaderHolds /\ PendingAccounts
      /\ NoLostReply /\ (Alone => RepliesOwned)
  BY DEF IndInv
<1>3. TypeOK /\ toSend \in [Calls -> SUBSET Clients]
  BY DEF IndInv, TypeOK
<1>4. UniqueIDs' /\ ReaderHolds' /\ PendingAccounts' /\ NoLostReply' /\ (Alone => RepliesOwned')
  BY <1>1, <1>2, Frames
<1>5. answered \subseteq answered' /\ PostedOnce'
  <2>1. ASSUME NEW c \in Calls, Server!Answers(c)
        PROVE  answered \subseteq answered' /\ PostedOnce'
    <3>1. /\ c \in atServer /\ atServer' = atServer \ {c} /\ answered' = answered \cup {c}
          /\ toSend' = [toSend EXCEPT ![c] = up] /\ UNCHANGED <<posted, aborted>>
      BY <2>1 DEF Server!Answers
    <3> QED  BY <1>1, <1>2, <1>3, <3>1 DEF PostedOnce, Sent
  <2>2. ASSUME NEW c \in Calls,
               Server!Responds(c) \/ Server!Refuses(c) \/ Server!Aborts(c)
        PROVE  answered \subseteq answered' /\ PostedOnce'
    <3>1. /\ c \in atServer \cup answered /\ UNCHANGED answered
          /\ atServer' = atServer \/ atServer' = atServer \ {c}
          /\ posted' \subseteq posted \cup {c} /\ aborted' \subseteq aborted \cup {c}
          /\ UNCHANGED toSend \/ toSend' = [toSend EXCEPT ![c] = {}]
      BY <2>2 DEF Server!Responds, Server!Refuses, Server!Aborts, Server!streamVars
    <3> QED  BY <1>1, <1>2, <1>3, <3>1 DEF PostedOnce, Sent
  <2>3. ASSUME NEW c \in Calls, NEW k \in Clients, Server!Sends(c, k)
        PROVE  answered \subseteq answered' /\ PostedOnce'
    <3>1. /\ UNCHANGED <<atServer, posted, aborted, answered>> /\ k \in toSend[c]
          /\ toSend' = [toSend EXCEPT ![c] = toSend[c] \ {k}]
      BY <2>3 DEF Server!Sends
    <3> QED  BY <1>1, <1>2, <1>3, <3>1 DEF PostedOnce, Sent
  <2>4. ASSUME \/ Server!Down
               \/ \E k \in Clients : ServerAccepts(k) \/ Server!Greets(k) \/ Server!Drops(k)
        PROVE  answered \subseteq answered' /\ PostedOnce'
    <3>1. UNCHANGED <<atServer, posted, aborted, answered, toSend>>
      BY <2>4 DEF Server!Down, ServerAccepts, Server!Accepts, Server!Greets, Server!Drops,
         Server!postVars
    <3> QED  BY <1>1, <1>2, <3>1, Frames
  <2> QED  BY <2>1, <2>2, <2>3, <2>4 DEF ServerStep
<1>6. \A l : Genuine(l) => Genuine(l)'
  BY <1>1, <1>5 DEF Genuine
<1>7. \A j \in Clients : \A l \in Range(events'[j]) : l # Endpoint => Genuine(l)'
  <2>1. ASSUME NEW j \in Clients, NEW e \in Replies \cup {Endpoint},
               events' = [events EXCEPT ![j] = Append(events[j], e)],
               e # Endpoint => Genuine(e)
        PROVE  \A i \in Clients : \A l \in Range(events'[i]) : l # Endpoint => Genuine(l)'
    <3>1. events \in [Clients -> Seq(Replies \cup {Endpoint})]
      BY <1>3 DEF TypeOK
    <3>2. events[j] \in Seq(Replies \cup {Endpoint})
      BY <3>1
    <3>3. Range(Append(events[j], e)) = Range(events[j]) \cup {e}
      BY <3>2, RangeAppend
    <3> QED  BY <1>2, <1>6, <2>1, <3>1, <3>3 DEF AnswersFollowIDs
  <2>2. ASSUME NEW c \in Calls, NEW kind \in AnswerKinds, toSend[c] # {}
        PROVE  Reply(c, kind) \in Replies /\ Genuine(Reply(c, kind))
    BY <1>2, <1>3, <2>2, ReplyType DEF PostedOnce, Genuine
  <2>3. CASE UNCHANGED events
    BY <1>2, <1>6, <2>3 DEF AnswersFollowIDs
  <2> QED  BY <1>3, <2>1, <2>2, <2>3, EventsEffect
<1>8. AnswersFollowIDs'
  BY <1>1, <1>2, <1>6, <1>7 DEF AnswersFollowIDs
<1> QED  BY <1>4, <1>5, <1>8

LEMMA InvStep == IndInv /\ [Next]_vars => IndInv'
<1> SUFFICES ASSUME IndInv, [Next]_vars
             PROVE  IndInv'
  OBVIOUS
<1>1. TypeOK'
  BY TypeStep DEF IndInv
<1>2. CASE UNCHANGED vars
  BY <1>1, <1>2, Frames DEF vars, callVars, chanVars, readVars, connVars, srvVars, IndInv
<1> QED
  BY <1>1, <1>2, CallKeeps, ReaderKeeps, ClientKeeps, ServerKeeps DEF Next, IndInv, Alone

LEMMA Safety == Spec => []IndInv
  BY InvInit, InvStep, PTL DEF Spec

(* No call of a client that has its server to itself receives the answer   *)
(* to another.                                                             *)
THEOREM RepliesAreOwn == Spec => [](Alone => OwnReply)
<1>1. IndInv => (Alone => OwnReply)
  BY DEF IndInv, RepliesOwned, BelongsTo, OwnReply
<1> QED  BY <1>1, Safety, PTL

(* The pending maps hold exactly the calls in flight, Close aside.         *)
THEOREM PendingIsExact == Spec => []PendingAccounts
<1>1. IndInv => PendingAccounts
  BY DEF IndInv
<1> QED  BY <1>1, Safety, PTL

(* A matched reply stays in reach of its call.                             *)
THEOREM RepliesAreKept == Spec => []NoLostReply
<1>1. IndInv => NoLostReply
  BY DEF IndInv
<1> QED  BY <1>1, Safety, PTL

-----------------------------------------------------------------------------
(* The promise to callers, for a client that has its server to itself      *)

Inv == IndInv /\ Reasons /\ Alone

LEMMA ReasonsInit == Init => Reasons
  BY DEF Init, Reasons

(* A step that moves no call takes no reason away.                         *)
LEMMA ReasonsKept ==
    ASSUME Reasons, UNCHANGED <<pc, status, got>>, srvUp' => srvUp,
           aborted \subseteq aborted', cancelled \subseteq cancelled',
           \A k \in Clients : /\ closer[k] = "closed" => closer'[k] = "closed"
                              /\ reader[k] = "exited" => reader'[k] = "exited"
    PROVE  Reasons'
<1>1. \A c \in Calls : Reason(c) => Reason(c)'
  BY DEF Reason
<1> QED  BY <1>1 DEF Reasons

(* A call that moves on, or ends for a reason.                             *)
LEMMA CallReasons ==
    ASSUME IndInv, Reasons, NEW c \in Calls, NEW m \in PCs, NEW s \in Statuses,
           pc' = [pc EXCEPT ![c] = m], status' = [status EXCEPT ![c] = s],
           \A d \in Calls \ {c} : got'[d] = got[d],
           UNCHANGED <<srvUp, aborted, cancelled, closer, reader>>,
           m \in {"idle", "register", "post", "posting", "wait"} => s = "none",
           m = "cleanup" => Reason(c)',
           m = "parse" => s = "reply" /\ got'[c] # None
    PROVE  Reasons'
<1>1. \A d \in Calls \ {c} : pc'[d] = pc[d] /\ status'[d] = status[d]
  BY DEF IndInv, TypeOK
<1>2. pc'[c] = m /\ status'[c] = s
  BY DEF IndInv, TypeOK
<1>3. \A d \in Calls \ {c} : Reason(d) => Reason(d)'
  BY <1>1 DEF Reason
<1> QED  BY <1>1, <1>2, <1>3 DEF Reasons

View == <<Outcomes, Returns, Sent, answered, Broken, GivenUp>>

LEMMA PromiseInit == Init => Promise!Init
<1>1. Init => \A c \in Calls : Outcome(c) = "idle"
  BY DEF Init, Outcome
<1> QED  BY <1>1 DEF Init, Server!Init, Promise!Init, Outcomes, Returns, Sent, Broken, GivenUp

(* What callers see of a step of one call, ...                             *)
LEMMA CallSeen ==
    ASSUME TypeOK, NEW c \in Calls, NEW m \in PCs, NEW s \in Statuses,
           pc' = [pc EXCEPT ![c] = m], status' = [status EXCEPT ![c] = s],
           \A d \in Calls \ {c} : got'[d] = got[d]
    PROVE  /\ Outcomes' = [Outcomes EXCEPT ![c] = Outcome(c)']
           /\ Returns' = [Returns EXCEPT
                 ![c] = IF Outcome(c)' = "answered" THEN got'[c].call ELSE None]
           /\ \A d \in Calls \ {c} : status'[d] = status[d]
           /\ pc'[c] = m /\ status'[c] = s
<1>1. \A d \in Calls \ {c} : pc'[d] = pc[d] /\ status'[d] = status[d]
  BY DEF TypeOK
<1>2. \A d \in Calls \ {c} : Outcome(d)' = Outcome(d)
  BY <1>1 DEF Outcome
<1>3. pc'[c] = m /\ status'[c] = s
  BY DEF TypeOK
<1> QED  BY <1>1, <1>2, <1>3 DEF Outcomes, Returns

(* ... of one inside the call, neither its beginning nor its end.          *)
LEMMA CallUnseen ==
    ASSUME TypeOK, NEW c \in Calls, NEW m \in PCs, NEW s \in Statuses,
           pc' = [pc EXCEPT ![c] = m], status' = [status EXCEPT ![c] = s],
           \A d \in Calls \ {c} : got'[d] = got[d],
           pc[c] \notin {"idle", "returned"}, m \notin {"idle", "returned"}
    PROVE  UNCHANGED <<Outcomes, Returns>> /\ Outcome(c) = "open"
<1>1. Outcome(c) = "open" /\ Outcome(c)' = "open"
  BY CallSeen DEF Outcome
<1>2. Outcomes = [Outcomes EXCEPT ![c] = "open"]
      /\ Returns = [Returns EXCEPT ![c] = None]
  BY <1>1 DEF Outcomes, Returns
<1> QED  BY <1>1, <1>2, CallSeen

(* Every step of a call keeps the reasons, and is one that the promise     *)
(* allows or unseen.                                                       *)
LEMMA CallRefines ==
    ASSUME Inv, NEW c \in Calls, CallStep(c)
    PROVE  Reasons' /\ (Promise!Next \/ UNCHANGED View)
<1> USE DEF At, GoTo, EndWith
<1>1. /\ UNCHANGED <<srvUp, aborted, cancelled, closer, reader, posted, answered, Broken>>
      /\ UNCHANGED <<matched, inHand, cut>>
  BY CallFrame DEF CallStep, SendRequest, NewRequestFails, RegisterPending, Post,
     PostReturns, PostFails, PostTimesOut, AwaitReply, AwaitClosed, AwaitCtx,
     AwaitSSEDone, AwaitFails, DeletePending, ParseResult, readVars, connVars, Broken
<1>2. /\ TypeOK /\ IndInv /\ Reasons /\ PostedOnce /\ ReaderHolds /\ Alone
      /\ AnswersFollowIDs /\ RepliesOwned
  BY DEF Inv, IndInv
<1>3. /\ pc \in [Calls -> PCs] /\ status[c] \in Statuses
      /\ status = [status EXCEPT ![c] = status[c]]
      /\ atServer \subseteq Calls
  BY <1>2 DEF TypeOK
<1>4. ASSUME NEW m \in PCs, NEW s \in Statuses, UNCHANGED atServer,
             pc' = [pc EXCEPT ![c] = m], status' = [status EXCEPT ![c] = s],
             \A d \in Calls \ {c} : got'[d] = got[d],
             pc[c] \notin {"idle", "returned"}, m \notin {"idle", "returned"},
             s = status[c] \/ "timedOut" \notin {s, status[c]}
      PROVE  UNCHANGED View
  <2>1. UNCHANGED <<Outcomes, Returns>>
    BY <1>2, <1>4, CallUnseen
  <2>2. UNCHANGED GivenUp
    <3>1. \A d \in Calls : status'[d] = "timedOut" <=> status[d] = "timedOut"
      BY <1>2, <1>4, CallSeen
    <3> QED  BY <1>1, <3>1 DEF GivenUp
  <2> QED  BY <1>1, <1>4, <2>1, <2>2 DEF View, Sent
<1>5. CASE SendRequest(c)
  <2>1. /\ pc[c] = "idle" /\ pc' = [pc EXCEPT ![c] = "register"]
        /\ UNCHANGED <<status, got, atServer>> /\ "register" \in PCs
        /\ status[c] = "none"
    BY <1>2, <1>5 DEF SendRequest, srvVars, PCs, Reasons
  <2>2. Outcome(c) = "idle" /\ Outcome(c)' = "open"
    BY <1>3, <2>1 DEF Outcome
  <2>3. /\ Outcomes' = [Outcomes EXCEPT ![c] = "open"]
        /\ Returns' = [Returns EXCEPT ![c] = None]
    BY <1>2, <1>3, <2>1, <2>2, CallSeen
  <2>4. UNCHANGED <<Returns, Sent, GivenUp>>
    BY <1>1, <2>1, <2>2, <2>3 DEF Returns, Sent, GivenUp
  <2>5. Promise!Invoke(c)
    BY <1>1, <2>2, <2>3, <2>4 DEF Promise!Invoke, Outcomes
  <2>6. Reasons'
    BY <1>1, <1>2, <1>3, <2>1, CallReasons
  <2> QED  BY <2>5, <2>6 DEF Promise!Next
<1>6. CASE NewRequestFails(c)
  <2>1. /\ pc[c] = "register" /\ pc' = [pc EXCEPT ![c] = "returned"]
        /\ status' = [status EXCEPT ![c] = "invalid"] /\ status[c] = "none"
        /\ UNCHANGED <<got, atServer>>
    BY <1>2, <1>6 DEF NewRequestFails, srvVars, Reasons
  <2>2. "returned" \in PCs /\ "invalid" \in Statuses
    BY DEF PCs, Statuses
  <2>3. Outcome(c) = "open" /\ Outcome(c)' = "rejected"
    BY <1>2, <2>1 DEF Outcome, TypeOK
  <2>4. /\ Outcomes' = [Outcomes EXCEPT ![c] = "rejected"]
        /\ Returns' = [Returns EXCEPT ![c] = None]
        /\ \A d \in Calls : status'[d] = "timedOut" <=> status[d] = "timedOut"
    <3>1. /\ pc' = [pc EXCEPT ![c] = "returned"] /\ \A d \in Calls : got'[d] = got[d]
          /\ status' = [status EXCEPT ![c] = "invalid"]
      BY <2>1
    <3>2. /\ Outcomes' = [Outcomes EXCEPT ![c] = Outcome(c)']
          /\ Returns' = [Returns EXCEPT
                ![c] = IF Outcome(c)' = "answered" THEN got'[c].call ELSE None]
          /\ \A d \in Calls \ {c} : status'[d] = status[d]
          /\ status'[c] = "invalid"
      BY <1>2, <2>2, <3>1, CallSeen, ZenonT(30)
    <3>3. \A d \in Calls : status'[d] = "timedOut" <=> status[d] = "timedOut"
      BY <2>1, <3>2
    <3> QED  BY <2>3, <3>2, <3>3
  <2>5. UNCHANGED <<Returns, Sent, GivenUp>>
    <3>1. Returns = [Returns EXCEPT ![c] = None]
      BY <2>3 DEF Returns
    <3>2. UNCHANGED Returns
      BY <2>4, <3>1
    <3>3. UNCHANGED <<Sent, GivenUp>>
      BY <1>1, <2>1, <2>4 DEF Sent, GivenUp
    <3> QED  BY <3>2, <3>3
  <2>6. c \notin Sent
    BY <1>2, <2>1 DEF PostedOnce
  <2>7. Promise!Reject(c)
    BY <1>1, <2>3, <2>4, <2>5, <2>6 DEF Promise!Reject, Promise!End, Outcomes
  <2>8. Reasons'
    BY <1>1, <1>2, <2>1, <2>2, CallReasons
  <2> QED  BY <2>7, <2>8 DEF Promise!Next
<1>7. CASE RegisterPending(c) \/ PostReturns(c)
  <2>1. /\ UNCHANGED <<status, got, atServer>>
        /\ pc[c] \in {"register", "posting"}
        /\ \E m \in {"post", "wait"} : pc' = [pc EXCEPT ![c] = m]
    BY <1>7 DEF RegisterPending, PostReturns, srvVars
  <2>2. status[c] = "none"
    BY <1>2, <2>1 DEF Reasons
  <2>3. PICK m \in {"post", "wait"} : pc' = [pc EXCEPT ![c] = m]
    BY <2>1
  <2>4. m \in PCs
    BY DEF PCs
  <2>5. UNCHANGED View
    BY <1>3, <1>4, <2>1, <2>3, <2>4
  <2>6. Reasons'
    BY <1>1, <1>2, <1>3, <2>1, <2>2, <2>3, <2>4, CallReasons
  <2> QED  BY <2>5, <2>6
<1>8. CASE Post(c)
  <2>1. /\ pc[c] = "post" /\ pc' = [pc EXCEPT ![c] = "posting"] /\ "posting" \in PCs
        /\ atServer' = atServer \cup {c} /\ UNCHANGED <<status, got>>
        /\ status[c] = "none"
    BY <1>2, <1>8 DEF Post, Server!Arrives, PCs, Reasons
  <2>2. UNCHANGED <<Outcomes, Returns, GivenUp>> /\ Outcome(c) = "open"
    <3>1. /\ status' = [status EXCEPT ![c] = "none"] /\ "none" \in Statuses
          /\ \A d \in Calls : got'[d] = got[d]
      BY <1>2, <2>1 DEF TypeOK, Statuses
    <3>2. UNCHANGED <<Outcomes, Returns>> /\ Outcome(c) = "open"
      BY <1>2, <2>1, <3>1, CallUnseen
    <3>3. UNCHANGED GivenUp
      BY <1>1, <2>1 DEF GivenUp
    <3> QED  BY <3>2, <3>3
  <2>3. Sent' = Sent \cup {c} /\ c \notin Sent
    BY <1>1, <1>2, <2>1 DEF PostedOnce, Sent
  <2>4. Promise!Send(c)
    BY <1>1, <2>2, <2>3 DEF Promise!Send, Outcomes
  <2>5. Reasons'
    BY <1>1, <1>2, <1>3, <2>1, CallReasons
  <2> QED  BY <2>4, <2>5 DEF Promise!Next
<1>9. CASE PostFails(c) \/ AwaitReply(c) \/ AwaitClosed(c) \/ AwaitCtx(c)
           \/ AwaitSSEDone(c) \/ PostTimesOut(c)
  <2>1. /\ pc[c] \in {"post", "posting", "wait"} /\ pc' = [pc EXCEPT ![c] = "cleanup"]
        /\ UNCHANGED atServer
        /\ \E s \in Statuses :
              /\ status' = [status EXCEPT ![c] = s]
              /\ \/ s = "postFailed" /\ (~srvUp \/ c \in aborted \cup cancelled)
                 \/ s = "timedOut"
                 \/ /\ s = "reply" /\ buf[c] # None
                    /\ got' = [got EXCEPT ![c] = buf[c]]
                 \/ s = "chanClosed" /\ c \in closed
                 \/ s = "ctxDone" /\ c \in cancelled
                 \/ s = "streamClosed" /\ reader[Owner[c]] = "exited"
    BY <1>9 DEF PostFails, PostTimesOut, AwaitReply, AwaitClosed, AwaitCtx, AwaitSSEDone,
       AwaitFails, srvVars, Statuses
  <2>2. PICK s \in Statuses :
              /\ status' = [status EXCEPT ![c] = s]
              /\ \/ s = "postFailed" /\ (~srvUp \/ c \in aborted \cup cancelled)
                 \/ s = "timedOut"
                 \/ /\ s = "reply" /\ buf[c] # None
                    /\ got' = [got EXCEPT ![c] = buf[c]]
                 \/ s = "chanClosed" /\ c \in closed
                 \/ s = "ctxDone" /\ c \in cancelled
                 \/ s = "streamClosed" /\ reader[Owner[c]] = "exited"
    BY <2>1
  <2>3. /\ "cleanup" \in PCs /\ status[c] = "none"
        /\ \A d \in Calls \ {c} : got'[d] = got[d]
        /\ pc'[c] = "cleanup" /\ status'[c] = s /\ (s = "reply" => got'[c] # None)
    <3>1. "cleanup" \in PCs /\ status[c] = "none"
      BY <1>2, <2>1 DEF Reasons, PCs
    <3>2. \A d \in Calls \ {c} : got'[d] = got[d]
      BY <1>2, <1>9 DEF PostFails, PostTimesOut, AwaitReply, AwaitClosed, AwaitCtx,
         AwaitSSEDone, AwaitFails, TypeOK
    <3>3. pc'[c] = "cleanup" /\ status'[c] = s /\ (s = "reply" => got'[c] # None)
      BY <1>2, <2>1, <2>2 DEF TypeOK
    <3> QED  BY <3>1, <3>2, <3>3
  <2>4. Reason(c)'
    BY <1>1, <1>2, <2>2, <2>3 DEF Reason, ReaderHolds
  <2>5. Reasons'
    BY <1>1, <1>2, <2>1, <2>2, <2>3, <2>4, CallReasons
  <2>6. CASE s # "timedOut"
    BY <1>4, <2>1, <2>2, <2>3, <2>5, <2>6
  <2>7. CASE s = "timedOut"
    <3>1. UNCHANGED <<Outcomes, Returns, Sent>>
      BY <1>1, <1>2, <2>1, <2>2, <2>3, CallUnseen DEF Sent
    <3>2. \A d \in Calls \ {c} : status'[d] = status[d]
      BY <1>2, <2>1, <2>2, <2>3, CallSeen
    <3>3. GivenUp' = GivenUp \cup {c}
      BY <1>1, <2>3, <2>7, <3>2 DEF GivenUp
    <3>4. CASE c \in GivenUp
      BY <1>1, <2>5, <3>1, <3>3, <3>4 DEF View
    <3>5. CASE c \notin GivenUp
      <4>1. Promise!GiveUp(c)
        BY <1>1, <3>1, <3>3, <3>5 DEF Promise!GiveUp
      <4> QED  BY <2>5, <4>1 DEF Promise!Next
    <3> QED  BY <3>4, <3>5
  <2> QED  BY <2>6, <2>7
<1>10. CASE DeletePending(c)
  <2>1. /\ pc[c] = "cleanup" /\ UNCHANGED <<status, got, atServer>> /\ Reason(c)
        /\ pc' = [pc EXCEPT ![c] = IF status[c] = "reply" THEN "parse" ELSE "returned"]
    BY <1>2, <1>10 DEF DeletePending, srvVars, Reasons
  <2>2. CASE status[c] = "reply"
    <3>1. "parse" \in PCs /\ pc' = [pc EXCEPT ![c] = "parse"] /\ got[c] # None
      BY <2>1, <2>2 DEF PCs, Reason
    <3>2. UNCHANGED View
      BY <1>3, <1>4, <2>1, <3>1
    <3>3. /\ status' = [status EXCEPT ![c] = status[c]]
          /\ got'[c] # None /\ \A d \in Calls \ {c} : got'[d] = got[d]
      BY <1>3, <2>1, <3>1
    <3>4. Reasons'
      BY <1>1, <1>2, <1>3, <2>2, <3>1, <3>3, CallReasons
    <3> QED  BY <3>2, <3>4
  <2>3. CASE status[c] # "reply"
    <3>1. "returned" \in PCs /\ pc' = [pc EXCEPT ![c] = "returned"]
      BY <2>1, <2>3 DEF PCs
    <3>2. /\ status[c] \in {"postFailed", "timedOut", "chanClosed", "ctxDone", "streamClosed"}
          /\ Broken \/ c \in GivenUp
      BY <2>1, <2>3 DEF Reason, Broken, GivenUp
    <3>3. Outcome(c) = "open" /\ Outcome(c)' = "failed"
      BY <1>2, <2>1, <3>1, <3>2 DEF Outcome, TypeOK
    <3>4. /\ Outcomes' = [Outcomes EXCEPT ![c] = "failed"]
          /\ Returns' = [Returns EXCEPT ![c] = None]
      BY <1>2, <1>3, <2>1, <3>1, <3>3, CallSeen
    <3>5. UNCHANGED <<Returns, Sent, GivenUp>>
      BY <1>1, <2>1, <3>3, <3>4 DEF Returns, Sent, GivenUp
    <3>6. Promise!Fail(c)
      BY <1>1, <3>2, <3>3, <3>4, <3>5 DEF Promise!Fail, Promise!End, Outcomes
    <3>7. Reasons'
      BY <1>1, <1>2, <1>3, <2>1, <3>1, CallReasons
    <3> QED  BY <3>6, <3>7 DEF Promise!Next
  <2> QED  BY <2>2, <2>3
<1>11. CASE ParseResult(c)
  <2>1. /\ pc[c] = "parse" /\ pc' = [pc EXCEPT ![c] = "returned"] /\ "returned" \in PCs
        /\ UNCHANGED <<got, atServer>> /\ status[c] = "reply" /\ got[c] # None
        /\ \E s \in {"ok", "rpcError"} : status' = [status EXCEPT ![c] = s]
    BY <1>2, <1>11 DEF ParseResult, srvVars, PCs, Reasons
  <2>2. PICK s \in {"ok", "rpcError"} : status' = [status EXCEPT ![c] = s]
    BY <2>1
  <2>3. s \in Statuses
    BY DEF Statuses
  <2>4. got[c].call = c /\ c \in answered
    BY <1>2, <2>1 DEF RepliesOwned, BelongsTo, AnswersFollowIDs, Genuine
  <2>5. Outcome(c) = "open" /\ Outcome(c)' = "answered"
    BY <1>2, <2>1, <2>2 DEF Outcome, TypeOK
  <2>6. /\ Outcomes' = [Outcomes EXCEPT ![c] = "answered"]
        /\ Returns' = [Returns EXCEPT ![c] = c]
        /\ \A d \in Calls : status'[d] = "timedOut" <=> status[d] = "timedOut"
    <3>1. /\ Outcomes' = [Outcomes EXCEPT ![c] = Outcome(c)']
          /\ Returns' = [Returns EXCEPT
                ![c] = IF Outcome(c)' = "answered" THEN got'[c].call ELSE None]
          /\ \A d \in Calls \ {c} : status'[d] = status[d]
          /\ status'[c] = s
      <4>1. pc' = [pc EXCEPT ![c] = "returned"] /\ "returned" \in PCs
        BY <2>1 DEF PCs
      <4>2. \A d \in Calls \ {c} : got'[d] = got[d]
        BY <2>1
      <4> QED  BY <1>2, <2>2, <2>3, <4>1, <4>2, CallSeen, ZenonT(30)
    <3>2. got'[c].call = c
      BY <2>1, <2>4
    <3>3. \A d \in Calls : status'[d] = "timedOut" <=> status[d] = "timedOut"
      BY <2>1, <3>1
    <3> QED  BY <2>5, <3>1, <3>2, <3>3
  <2>7. UNCHANGED <<Sent, GivenUp>>
    BY <1>1, <2>1, <2>6 DEF Sent, GivenUp
  <2>8. Promise!Complete(c)
    BY <1>1, <2>4, <2>5, <2>6, <2>7 DEF Promise!Complete, Promise!End, Outcomes
  <2>9. Reasons'
    BY <1>1, <1>2, <2>1, <2>2, <2>3, CallReasons
  <2> QED  BY <2>8, <2>9 DEF Promise!Next
<1> QED
  BY <1>5, <1>6, <1>7, <1>8, <1>9, <1>10, <1>11 DEF CallStep

(* So are those of contexts, readers, Connect, Close and the server.       *)
LEMMA OtherRefines ==
    ASSUME Inv, TypeOK',
           \/ \E c \in Calls : CtxDone(c)
           \/ \E k \in Clients : \/ Connect(k) \/ ConnectOk(k) \/ ConnectFails(k)
                                 \/ CutStream(k) \/ ReadSSE(k)
                                 \/ CloseStream(k) \/ CloseChannels(k)
           \/ ServerStep \/ UNCHANGED vars
    PROVE  Reasons' /\ (Promise!Next \/ UNCHANGED View)
<1>1. UNCHANGED <<pc, status, got>>
  BY DEF CtxDone, Connect, ConnectOk, ConnectFails, CutStream, ReadSSE, ReadsEndpoint,
     EventMatched, EventSkipped, Deliver, DeliverPanics, StreamEnds, CloseStream,
     CloseChannels, ServerStep, callVars, vars
<1>2. UNCHANGED <<Outcomes, Returns>>
  BY <1>1 DEF Outcomes, Returns, Outcome
<1>3. TypeOK /\ Reasons /\ PostedOnce /\ ReaderHolds
  BY DEF Inv, IndInv
<1>4. ASSUME UNCHANGED <<Sent, answered, GivenUp>>, Broken => Broken'
      PROVE  Promise!Next \/ UNCHANGED View
  <2>1. Broken \in BOOLEAN /\ Broken' \in BOOLEAN
    BY DEF Broken, TypeOK
  <2>2. CASE Broken' = Broken
    BY <1>2, <1>4, <2>2 DEF View
  <2>3. CASE Broken' # Broken
    <3>1. Promise!Break
      BY <1>2, <1>4, <2>1, <2>3 DEF Promise!Break
    <3> QED  BY <3>1 DEF Promise!Next
  <2> QED  BY <2>2, <2>3
<1>5. ASSUME NEW c \in Calls, UNCHANGED <<Sent, answered, Broken>>,
             GivenUp' = GivenUp \/ GivenUp' = GivenUp \cup {c}
      PROVE  Promise!Next \/ UNCHANGED View
  <2>1. CASE GivenUp' = GivenUp
    BY <1>2, <1>5, <2>1 DEF View
  <2>2. CASE GivenUp' # GivenUp
    <3>1. Promise!GiveUp(c)
      BY <1>2, <1>5, <2>2 DEF Promise!GiveUp
    <3> QED  BY <3>1 DEF Promise!Next
  <2> QED  BY <2>1, <2>2
<1>6. ASSUME NEW c \in Calls, CtxDone(c)
      PROVE  Reasons' /\ (Promise!Next \/ UNCHANGED View)
  <2>1. /\ cancelled' = cancelled \cup {c}
        /\ UNCHANGED <<srvVars, reader, connVars>>
    BY <1>6 DEF CtxDone, readVars
  <2>2. Reasons'
    BY <1>1, <1>3, <2>1, ReasonsKept DEF srvVars, connVars
  <2>3. UNCHANGED <<Sent, answered, Broken>> /\ GivenUp' = GivenUp \cup {c}
    BY <1>1, <2>1 DEF srvVars, connVars, Sent, Broken, GivenUp
  <2> QED  BY <1>5, <2>2, <2>3
<1>7. ASSUME NEW k \in Clients,
             \/ Connect(k) \/ ConnectOk(k) \/ ConnectFails(k) \/ CutStream(k)
             \/ ReadSSE(k) \/ CloseStream(k) \/ CloseChannels(k)
      PROVE  Reasons' /\ (Promise!Next \/ UNCHANGED View)
  <2>1. UNCHANGED <<srvUp, atServer, posted, aborted, answered, cancelled>>
    BY <1>7 DEF Connect, ConnectOk, ConnectFails, CutStream, ReadSSE, ReadsEndpoint,
     EventMatched, EventSkipped, ReadsEvent, Server!Reads, Server!postVars, Deliver,
     DeliverPanics, StreamEnds, CloseStream, CloseChannels, srvVars
  <2>2. /\ cut \subseteq cut'
        /\ closer' = closer \/ \E l \in {"cancelled", "closed"} :
              /\ closer' = [closer EXCEPT ![k] = l]
              /\ closer[k] = "closed" => l = "closed"
        /\ \/ reader' = reader
           \/ /\ reader[k] # "exited"
              /\ \E l \in {"scan", "deliver", "exited"} : reader' = [reader EXCEPT ![k] = l]
    <3>1. CASE ReadSSE(k)
      BY <3>1 DEF ReadSSE, ReadsEndpoint, EventMatched, EventSkipped, ReadsEvent, Deliver,
         DeliverPanics, StreamEnds, ReaderAt, connVars, readVars
    <3>2. CASE ConnectOk(k)
      BY <1>3, <3>2 DEF ConnectOk, ReaderHolds
    <3> QED  BY <1>7, <3>1, <3>2 DEF Connect, ConnectFails, CutStream, CloseStream,
                CloseChannels, readVars
  <2>3. \A j \in Clients : /\ closer[j] = "closed" => closer'[j] = "closed"
                           /\ closer[j] # "open" => closer'[j] # "open"
                           /\ reader[j] = "exited" => reader'[j] = "exited"
    <3>1. closer \in [Clients -> {"open", "cancelled", "closed"}]
          /\ reader \in [Clients -> {"off", "scan", "deliver", "exited"}]
      BY <1>3 DEF TypeOK
    <3> QED  BY <2>2, <3>1
  <2>4. Reasons'
    BY <1>1, <1>3, <2>1, <2>3, ReasonsKept
  <2>5. UNCHANGED <<Sent, answered, GivenUp>>
    BY <1>1, <2>1 DEF Sent, GivenUp
  <2>6. Broken => Broken'
    BY <2>1, <2>2, <2>3 DEF Broken
  <2> QED  BY <1>4, <2>4, <2>5, <2>6
<1>8. CASE ServerStep
  <2>1. UNCHANGED <<cancelled, reader, cut, closer>>
    BY <1>8 DEF ServerStep, readVars, connVars
  <2>2. (srvUp' => srvUp) /\ aborted \subseteq aborted'
    BY <1>8 DEF ServerStep, Server!Down, ServerAccepts, Server!Accepts, Server!Greets,
       Server!Drops, Server!Answers, Server!Sends, Server!Responds, Server!Refuses,
       Server!Aborts, Server!streamVars, Server!postVars
  <2>3. Reasons'
    BY <1>1, <1>3, <2>1, <2>2, ReasonsKept
  <2>4. CASE Server!Down \/ \E k \in Clients : ServerAccepts(k) \/ Server!Greets(k)
                                               \/ Server!Drops(k)
    <3>1. UNCHANGED <<atServer, posted, aborted, answered>>
      BY <2>4 DEF Server!Down, ServerAccepts, Server!Accepts, Server!Greets, Server!Drops,
         Server!postVars
    <3>2. UNCHANGED <<Sent, GivenUp>> /\ (Broken => Broken')
      BY <1>1, <2>1, <2>2, <3>1 DEF Sent, GivenUp, Broken
    <3> QED  BY <1>4, <2>3, <3>1, <3>2
  <2>5. ASSUME NEW c \in Calls, Server!Answers(c)
        PROVE  Promise!Next
    <3>1. /\ c \in atServer /\ atServer' = atServer \ {c} /\ answered' = answered \cup {c}
          /\ UNCHANGED <<srvUp, posted, aborted>>
      BY <2>5 DEF Server!Answers
    <3>2. c \in Sent /\ c \notin answered /\ UNCHANGED <<Sent, GivenUp, Broken>>
      BY <1>1, <1>3, <2>1, <3>1 DEF Sent, GivenUp, Broken, PostedOnce
    <3>3. Promise!Answer(c)
      BY <1>2, <3>1, <3>2 DEF Promise!Answer
    <3> QED  BY <3>3 DEF Promise!Next
  <2>6. ASSUME NEW c \in Calls,
               \/ \E k \in Clients : Server!Sends(c, k)
               \/ Server!Responds(c) \/ Server!Refuses(c) \/ Server!Aborts(c)
        PROVE  Promise!Next \/ UNCHANGED View
    <3>1. /\ UNCHANGED <<srvUp, answered>>
          /\ \/ UNCHANGED <<atServer, posted, aborted>>
             \/ /\ c \in atServer \cup answered
                /\ UNCHANGED atServer \/ atServer' = atServer \ {c}
                /\ \/ posted' = posted \cup {c} /\ UNCHANGED aborted
                   \/ c \in posted /\ UNCHANGED <<posted, aborted>>
                   \/ aborted' = aborted \cup {c} /\ UNCHANGED posted
      BY <2>6 DEF Server!Sends, Server!Responds, Server!Refuses, Server!Aborts,
         Server!streamVars
    <3>2. UNCHANGED <<Sent, Broken>>
      BY <2>1, <3>1 DEF Sent, Broken
    <3>3. GivenUp' = GivenUp \/ GivenUp' = GivenUp \cup {c}
      BY <1>1, <2>1, <3>1 DEF GivenUp
    <3> QED  BY <1>5, <3>1, <3>2, <3>3
  <2> QED  BY <1>8, <2>3, <2>4, <2>5, <2>6 DEF ServerStep
<1>9. CASE UNCHANGED vars
  <2>1. UNCHANGED <<srvUp, atServer, posted, aborted, answered, cancelled, closer, reader, cut>>
    BY <1>9 DEF vars, srvVars, connVars, readVars
  <2>2. Reasons'
    BY <1>1, <1>3, <2>1, ReasonsKept
  <2> QED  BY <1>1, <1>2, <2>1, <2>2 DEF View, Sent, GivenUp, Broken
<1> QED  BY <1>6, <1>7, <1>8, <1>9

(* A client that has its server to itself keeps the promise of a           *)
(* request/reply client: a call ends once, with the answer to its own      *)
(* request, or fails for a reason.                                         *)
THEOREM PromiseKept == Spec /\ Alone => KeepsPromise
<1>1. Init /\ Alone => Inv
  BY InvInit, ReasonsInit DEF Inv
<1>2. Inv /\ [Next]_vars => Inv' /\ [Promise!Next]_(Promise!vars)
  <2> SUFFICES ASSUME Inv, [Next]_vars
               PROVE  Inv' /\ [Promise!Next]_(Promise!vars)
    OBVIOUS
  <2>1. IndInv' /\ TypeOK' /\ Alone'
    BY InvStep DEF Inv, IndInv, Alone
  <2>2. Reasons' /\ (Promise!Next \/ UNCHANGED View)
    BY <2>1, CallRefines, OtherRefines DEF Next
  <2>3. UNCHANGED View => UNCHANGED Promise!vars
    BY DEF View, Promise!vars
  <2> QED  BY <2>1, <2>2, <2>3 DEF Inv
<1> QED  BY <1>1, <1>2, PromiseInit, PTL DEF Spec, KeepsPromise, Promise!Spec
=============================================================================
