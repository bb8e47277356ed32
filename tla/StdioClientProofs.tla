------------------------- MODULE StdioClientProofs -------------------------
(***************************************************************************)
(* Theorems about StdioClient, for every set of calls and every bound: its *)
(* safety properties, and that it keeps the promise of RequestReply.       *)
(***************************************************************************)
EXTENDS StdioClient, SequenceLemmas

USE NoneAssumption

-----------------------------------------------------------------------------
(* Type correctness                                                        *)

LEMMA TypeInit == Init => TypeOK
  BY DEF Init, TypeOK, EmptyMap, PCs, Statuses

(* Every variable keeps its type in every step.                            *)
LEMMA TypeStep == TypeOK /\ [Next]_vars => TypeOK'
<1> SUFFICES ASSUME TypeOK, [Next]_vars
             PROVE  TypeOK'
  OBVIOUS
<1> USE DEF TypeOK, PCs, Statuses
<1>1. CASE Start
  BY <1>1 DEF Start, callVars, pipeVars, envVars
<1>2. CASE StartFails
  BY <1>2 DEF StartFails, callVars, pipeVars, envVars, readVars
<1>3. ASSUME NEW c \in Calls, SendRequest(c)
      PROVE  TypeOK'
  BY <1>3 DEF SendRequest, GoTo, procVars, pipeVars, envVars, readVars
<1>4. ASSUME NEW c \in Calls, NewRequestFails(c)
      PROVE  TypeOK'
  BY <1>4 DEF NewRequestFails, EndWith, GoTo, procVars, pipeVars, envVars, readVars
<1>5. ASSUME NEW c \in Calls, RegisterPending(c)
      PROVE  TypeOK'
  <2>1. Key(c) \in IDs
    BY DEF Key, NormalizeID, GoID, IDs, IDTypes
  <2> QED  BY <1>5, <2>1 DEF RegisterPending, GoTo, procVars, pipeVars,
                             envVars, readVars
<1>6. ASSUME NEW c \in Calls, LockStdin(c)
      PROVE  TypeOK'
  BY <1>6 DEF LockStdin, GoTo, procVars, pipeVars, envVars, readVars
<1>6a. ASSUME NEW c \in Calls, UnlockStdin(c)
      PROVE  TypeOK'
  BY <1>6a DEF UnlockStdin, GoTo, procVars, pipeVars, envVars, readVars
<1>7. ASSUME NEW c \in Calls, WriteStdin(c)
      PROVE  TypeOK'
  <2>1. RequestLine(c) \in ClientLines
    BY DEF RequestLine, WireID, ClientLines, IDs, IDTypes
  <2> QED  BY <1>7, <2>1 DEF WriteStdin, GoTo, procVars, envVars, readVars
<1>8. ASSUME NEW c \in Calls, WriteStdinFails(c)
      PROVE  TypeOK'
  BY <1>8 DEF WriteStdinFails, EndWith, GoTo, procVars, pipeVars, envVars, readVars
<1>9. ASSUME NEW c \in Calls, AwaitReply(c)
      PROVE  TypeOK'
  BY <1>9 DEF AwaitReply, EndWith, GoTo, procVars, pipeVars, envVars, readVars
<1>10. ASSUME NEW c \in Calls, AwaitClosed(c) \/ AwaitCtx(c) \/ AwaitDone(c)
       PROVE  TypeOK'
  <2>1. PICK s \in {"chanClosed", "ctxDone", "clientClosed"} : AwaitFails(c, s)
    BY <1>10 DEF AwaitClosed, AwaitCtx, AwaitDone
  <2> QED  BY <2>1 DEF AwaitFails, EndWith, GoTo, procVars, pipeVars,
                       envVars, readVars
<1>11. ASSUME NEW c \in Calls, DeletePending(c)
       PROVE  TypeOK'
  BY <1>11 DEF DeletePending, Restrict, GoTo, procVars, pipeVars, envVars, readVars
<1>12. ASSUME NEW c \in Calls, ParseOk(c)
       PROVE  TypeOK'
  <2>1. \/ GoTo(c, "notifyLock") /\ UNCHANGED status
        \/ EndWith(c, "ok", "returned")
    BY <1>12 DEF ParseOk
  <2>2. pc' \in [Calls -> PCs] /\ status' \in [Calls -> Statuses]
    BY <2>1 DEF EndWith, GoTo
  <2> QED  BY <1>12, <2>2 DEF ParseOk, procVars, pipeVars, envVars, readVars
<1>13. ASSUME NEW c \in Calls, ParseError(c)
       PROVE  TypeOK'
  BY <1>13 DEF ParseError, EndWith, GoTo, procVars, pipeVars, envVars, readVars
<1>14. ASSUME NEW c \in Calls, Notify(c)
       PROVE  TypeOK'
  <2>1. InitializedLine(c) \in ClientLines
    BY DEF InitializedLine, NilID, ClientLines, IDs, IDTypes
  <2>2. toServer' \in Seq(ClientLines)
    <3>1. Append(toServer, InitializedLine(c)) \in Seq(ClientLines)
      BY <2>1
    <3> QED  BY <1>14, <3>1 DEF Notify
  <2>3. pc' \in [Calls -> PCs] /\ status' \in [Calls -> Statuses]
    BY <1>14 DEF Notify, EndWith, GoTo
  <2> QED  BY <1>14, <2>2, <2>3 DEF Notify, procVars, envVars, readVars
<1>15. ASSUME NEW c \in Calls, CtxDone(c)
       PROVE  TypeOK'
  <2>1. cancelled' \subseteq Calls
    BY <1>15 DEF CtxDone
  <2>2. UNCHANGED <<callVars, pending, buf, closed, stdinMu, readVars, procVars, pipeVars, envVars>>
    BY <1>15 DEF CtxDone
  <2>3. /\ UNCHANGED <<callVars, pending, buf, closed, stdinMu>> /\ UNCHANGED readVars
        /\ UNCHANGED procVars /\ UNCHANGED pipeVars /\ UNCHANGED envVars
    BY <2>2
  <2>4. UNCHANGED <<nextID, id, pc, status, got, pending, buf, closed, stdinMu>>
    BY <2>3 DEF callVars
  <2>5. UNCHANGED <<reader, inHand, matched, noise, received, answered>>
    BY <2>3 DEF readVars, envVars
  <2>6. UNCHANGED <<stdin, stdout, srv, closer, toServer, toClient>>
    BY <2>3 DEF procVars, pipeVars
  <2> QED  BY <2>1, <2>4, <2>5, <2>6
<1>16. CASE ReadLoop
  <2>1. Scanned => Tail(toClient) \in Seq(ServerLines) /\ Head(toClient) \in ServerLines
    BY RangeTail DEF Scanned
  <2>2. CASE ScanMatched
    <3>1. [to |-> pending[LineKey], line |-> Head(toClient)] \in Found
      BY <2>1, <2>2 DEF ScanMatched, Found
    <3> QED  BY <2>1, <2>2, <3>1 DEF ScanMatched, Scanned, callVars, procVars, envVars
  <2>3. CASE ScanSkipped \/ ScanTooLong
    <3>1. CASE ScanSkipped
      BY <2>1, <3>1 DEF ScanSkipped, Scanned, callVars, procVars, envVars, readVars
    <3>2. CASE ScanTooLong
      BY <2>1, <3>2 DEF ScanTooLong, Scanned, callVars, procVars, envVars
    <3> QED  BY <2>3, <3>1, <3>2
  <2>4. CASE Deliver
    BY <2>4 DEF Deliver, Found, callVars, procVars, pipeVars, envVars
  <2>5. CASE ScanEnd
    BY <2>5 DEF ScanEnd, callVars, procVars, pipeVars, envVars
  <2>6. CASE Drain
    <3>1. DOMAIN EmptyMap = {} /\ EmptyMap \in [DOMAIN EmptyMap -> Calls]
      BY DEF EmptyMap
    <3>2. Range(pending) \subseteq Calls
      BY DEF Range
    <3> QED  BY <2>6, <3>1, <3>2 DEF Drain, callVars, procVars, pipeVars, envVars
  <2> QED  BY <1>16, <2>2, <2>3, <2>4, <2>5, <2>6 DEF ReadLoop
<1>17. CASE CloseDone \/ CloseRun
  BY <1>17 DEF CloseDone, CloseRun, CloseStdin, CloseKill, CloseWait,
               CloseRest, callVars, readVars, pipeVars, envVars
<1>18. CASE Server
  <2>1. CASE ServerRead
    <3>1. /\ Tail(toServer) \in Seq(ClientLines)
          /\ Head(toServer).call \in Calls
      <4>1. toServer \in Seq(ClientLines) /\ toServer # <<>>
        BY <2>1 DEF ServerRead
      <4>2. Tail(toServer) \in Seq(ClientLines) /\ Head(toServer) \in ClientLines
        BY ONLY <4>1, RangeTail
      <4> QED  BY <4>2 DEF ClientLines
    <3> QED  BY <2>1, <3>1 DEF ServerRead, ServerRest, callVars, readVars
  <2>2. ASSUME NEW line \in ServerLines, ServerWrites(line)
        PROVE  toClient' \in Seq(ServerLines)
    BY <2>2 DEF ServerWrites
  <2>3. ASSUME NEW c \in Calls, ServerReply(c)
        PROVE  TypeOK'
    <3>1. \A kind \in {"result", "error"} :
             Reply(c, kind, WireID(id[c])) \in ServerLines
      BY DEF Reply, WireID, ServerLines, ReplyKinds, IDs, IDTypes
    <3>2. toClient' \in Seq(ServerLines)
      BY <2>3, <2>2, <3>1 DEF ServerReply
    <3> QED  BY <2>3, <3>2 DEF ServerReply, ServerRest, callVars, readVars
  <2>4. ASSUME NEW c \in Calls, ServerReplyOversized(c)
        PROVE  TypeOK'
    <3>1. Reply(c, "oversized", WireID(id[c])) \in ServerLines
      BY DEF Reply, WireID, ServerLines, ReplyKinds, IDs, IDTypes
    <3>2. toClient' \in Seq(ServerLines)
      BY <2>4, <2>2, <3>1 DEF ServerReplyOversized
    <3> QED  BY <2>4, <3>2 DEF ServerReplyOversized, ServerRest, callVars, readVars
  <2>5. CASE ServerNoise
    <3>1. Junk \in ServerLines /\ Stray(nextID) \in ServerLines
      BY DEF Junk, Stray, NilID, ServerLines, IDs, IDTypes
    <3>2. \A c \in answered : Reply(c, "result", WireID(id[c])) \in ServerLines
      BY DEF Reply, WireID, ServerLines, ReplyKinds, IDs, IDTypes
    <3>3. toClient' \in Seq(ServerLines)
      BY <2>5, <2>2, <3>1, <3>2 DEF ServerNoise
    <3> QED  BY <2>5, <3>3 DEF ServerNoise, ServerRest, callVars, readVars
  <2>6. CASE ServerExit
    BY <2>6 DEF ServerExit, ServerRest, callVars, readVars, pipeVars, envVars
  <2> QED  BY <1>18, <2>1, <2>3, <2>4, <2>5, <2>6 DEF Server
<1>19. CASE UNCHANGED vars
  BY <1>19 DEF vars, callVars, readVars, procVars, pipeVars, envVars
<1> QED
  BY <1>1, <1>2, <1>3, <1>4, <1>5, <1>6, <1>6a, <1>7, <1>8, <1>9, <1>10, <1>11,
     <1>12, <1>13, <1>14, <1>15, <1>16, <1>17, <1>18, <1>19 DEF Next, CallStep

(* Type correctness of the client.                                         *)
THEOREM TypeCorrect == Spec => []TypeOK
  BY TypeInit, TypeStep, PTL DEF Spec
-----------------------------------------------------------------------------
(* The safety properties                                                   *)

LEMMA InvInit == Init => IndInv
<1> SUFFICES ASSUME Init PROVE IndInv
  OBVIOUS
<1>1. TypeOK
  BY TypeInit
<1>2. UniqueIDs /\ ReaderOwnsChannels /\ NoLostReply
  BY DEF Init, UniqueIDs, ReaderOwnsChannels, NoLostReply
<1>3. AnswersFollowIDs /\ CallHolds /\ HandshakeOrder
  BY RangeEmpty DEF Init, AnswersFollowIDs, CallHolds, HandshakeOrder
<1>4. PendingAccounts
  BY DEF Init, PendingAccounts, EmptyMap, InFlight
<1> QED  BY <1>1, <1>2, <1>3, <1>4 DEF IndInv

(* What each conjunct depends on: a step that leaves it alone keeps it.    *)
LEMMA Frames ==
  /\ UniqueIDs /\ UNCHANGED <<nextID, id, pc>> => UniqueIDs'
  /\ /\ AnswersFollowIDs
     /\ UNCHANGED <<id, pc, got, buf, inHand, pipeVars, received, answered>>
     => AnswersFollowIDs'
  /\ ReaderOwnsChannels /\ UNCHANGED <<stdin, reader, closed, matched, answered>>
     => ReaderOwnsChannels'
  /\ CallHolds /\ UNCHANGED <<pc, status, got, toServer>> => CallHolds'
  /\ PendingAccounts /\ UNCHANGED <<id, pc, pending, reader>> => PendingAccounts'
  /\ NoLostReply /\ UNCHANGED <<pc, buf, readVars>> => NoLostReply'
  /\ HandshakeOrder /\ UNCHANGED <<got, toServer, answered>> => HandshakeOrder'
<1>1. UniqueIDs /\ UNCHANGED <<nextID, id, pc>> => UniqueIDs'
  BY DEF UniqueIDs
<1>2. /\ AnswersFollowIDs
      /\ UNCHANGED <<id, pc, got, buf, inHand, pipeVars, received, answered>>
      => AnswersFollowIDs'
  BY DEF AnswersFollowIDs, TrueLine, AnswerTo, pipeVars
<1>3. ReaderOwnsChannels /\ UNCHANGED <<stdin, reader, closed, matched, answered>>
      => ReaderOwnsChannels'
  BY DEF ReaderOwnsChannels
<1>4. CallHolds /\ UNCHANGED <<pc, status, got, toServer>> => CallHolds'
  BY DEF CallHolds
<1>5. PendingAccounts /\ UNCHANGED <<id, pc, pending, reader>> => PendingAccounts'
  BY DEF PendingAccounts, Key
<1>6. NoLostReply /\ UNCHANGED <<pc, buf, readVars>> => NoLostReply'
  BY DEF NoLostReply, readVars
<1>7. HandshakeOrder /\ UNCHANGED <<got, toServer, answered>> => HandshakeOrder'
  BY DEF HandshakeOrder
<1> QED  BY <1>1, <1>2, <1>3, <1>4, <1>5, <1>6, <1>7

LEMMA InvStep == IndInv /\ TypeOK' /\ [Next]_vars => IndInv'
<1> DEFINE Inv == /\ UniqueIDs /\ AnswersFollowIDs /\ ReaderOwnsChannels
                  /\ CallHolds /\ PendingAccounts /\ NoLostReply
                  /\ HandshakeOrder
<1> SUFFICES ASSUME IndInv, TypeOK', [Next]_vars
             PROVE  Inv'
  BY DEF IndInv
<1> USE DEF IndInv, TypeOK, InFlight, GoTo, EndWith
<1>1. CASE Start
  <2>1. UniqueIDs' /\ AnswersFollowIDs' /\ CallHolds' /\ HandshakeOrder'
    BY <1>1, Frames DEF Start, MayStart, callVars, pipeVars, envVars
  <2>2. ReaderOwnsChannels'
    BY <1>1 DEF Start, MayStart, callVars, pipeVars, envVars,
       ReaderOwnsChannels
  <2>3. PendingAccounts'
    BY <1>1 DEF Start, MayStart, callVars, pipeVars, envVars, PendingAccounts,
       Key, NormalizeID, GoID, ReaderOwnsChannels
  <2>4. NoLostReply'
    BY <1>1 DEF Start, MayStart, callVars, pipeVars, envVars, NoLostReply,
       ReaderOwnsChannels
  <2> QED  BY <2>1, <2>2, <2>3, <2>4
<1>2. CASE StartFails
  <2>1. /\ UniqueIDs' /\ AnswersFollowIDs' /\ CallHolds' /\ PendingAccounts'
        /\ NoLostReply' /\ HandshakeOrder'
    BY <1>2, Frames DEF StartFails, MayStart, callVars, readVars, pipeVars,
       envVars
  <2>2. ReaderOwnsChannels'
    BY <1>2 DEF StartFails, MayStart, callVars, readVars, pipeVars, envVars,
       ReaderOwnsChannels
  <2> QED  BY <2>1, <2>2
<1>3. ASSUME NEW c \in Calls, SendRequest(c)
      PROVE  Inv'
  <2>1. ReaderOwnsChannels' /\ HandshakeOrder'
    BY <1>3, Frames DEF SendRequest, pipeVars, envVars, procVars, readVars
  <2>2. UniqueIDs'
    BY <1>3 DEF SendRequest, pipeVars, envVars, procVars, readVars, UniqueIDs
  <2>3. AnswersFollowIDs'
    BY <1>3 DEF SendRequest, pipeVars, envVars, procVars, readVars,
       AnswersFollowIDs, TrueLine, AnswerTo
  <2>4. CallHolds'
    BY <1>3 DEF SendRequest, pipeVars, envVars, procVars, readVars, CallHolds
  <2>5. PendingAccounts'
    BY <1>3 DEF SendRequest, pipeVars, envVars, procVars, readVars,
       PendingAccounts, Key, NormalizeID, GoID
  <2>6. NoLostReply'
    BY <1>3 DEF SendRequest, pipeVars, envVars, procVars, readVars, NoLostReply
  <2> QED  BY <2>1, <2>2, <2>3, <2>4, <2>5, <2>6
<1>4. ASSUME NEW c \in Calls, NewRequestFails(c)
      PROVE  Inv'
  <2>1. ReaderOwnsChannels' /\ HandshakeOrder'
    BY <1>4, Frames DEF NewRequestFails, pipeVars, envVars, procVars, readVars
  <2>2. UniqueIDs'
    BY <1>4 DEF NewRequestFails, pipeVars, envVars, procVars, readVars,
       UniqueIDs
  <2>3. AnswersFollowIDs'
    BY <1>4 DEF NewRequestFails, pipeVars, envVars, procVars, readVars,
       AnswersFollowIDs, TrueLine, AnswerTo
  <2>4. CallHolds'
    BY <1>4 DEF NewRequestFails, pipeVars, envVars, procVars, readVars,
       CallHolds
  <2>5. PendingAccounts'
    BY <1>4 DEF NewRequestFails, pipeVars, envVars, procVars, readVars,
       PendingAccounts, Key, NormalizeID, GoID
  <2>6. NoLostReply'
    BY <1>4 DEF NewRequestFails, pipeVars, envVars, procVars, readVars,
       NoLostReply
  <2> QED  BY <2>1, <2>2, <2>3, <2>4, <2>5, <2>6
<1>5. ASSUME NEW c \in Calls, RegisterPending(c)
      PROVE  Inv'
  <2>1. ReaderOwnsChannels' /\ HandshakeOrder'
    BY <1>5, Frames DEF RegisterPending, pipeVars, envVars, procVars, readVars
  <2>2. UniqueIDs'
    BY <1>5 DEF RegisterPending, pipeVars, envVars, procVars, readVars,
       UniqueIDs
  <2>3. AnswersFollowIDs'
    BY <1>5 DEF RegisterPending, pipeVars, envVars, procVars, readVars,
       AnswersFollowIDs, TrueLine, AnswerTo
  <2>4. CallHolds'
    BY <1>5 DEF RegisterPending, pipeVars, envVars, procVars, readVars,
       CallHolds
  <2>5. PendingAccounts'
    BY <1>5 DEF RegisterPending, pipeVars, envVars, procVars, readVars,
       PendingAccounts, Key, NormalizeID, GoID, UniqueIDs
  <2>6. NoLostReply'
    BY <1>5 DEF RegisterPending, pipeVars, envVars, procVars, readVars,
       NoLostReply, AnswersFollowIDs, ReaderOwnsChannels
  <2> QED  BY <2>1, <2>2, <2>3, <2>4, <2>5, <2>6
<1>6. ASSUME NEW c \in Calls, LockStdin(c)
      PROVE  Inv'
  <2>1. ReaderOwnsChannels' /\ HandshakeOrder'
    BY <1>6, Frames DEF LockStdin, pipeVars, envVars, procVars, readVars
  <2>2. UniqueIDs'
    BY <1>6 DEF LockStdin, pipeVars, envVars, procVars, readVars, UniqueIDs
  <2>3. AnswersFollowIDs'
    BY <1>6 DEF LockStdin, pipeVars, envVars, procVars, readVars,
       AnswersFollowIDs, TrueLine, AnswerTo
  <2>4. CallHolds'
    BY <1>6 DEF LockStdin, pipeVars, envVars, procVars, readVars, CallHolds
  <2>5. PendingAccounts'
    BY <1>6 DEF LockStdin, pipeVars, envVars, procVars, readVars,
       PendingAccounts, Key, NormalizeID, GoID
  <2>6. NoLostReply'
    BY <1>6 DEF LockStdin, pipeVars, envVars, procVars, readVars, NoLostReply
  <2> QED  BY <2>1, <2>2, <2>3, <2>4, <2>5, <2>6
<1>6a. ASSUME NEW c \in Calls, UnlockStdin(c)
      PROVE  Inv'
  <2>1. ReaderOwnsChannels' /\ HandshakeOrder'
    BY <1>6a, Frames DEF UnlockStdin, pipeVars, envVars, procVars, readVars
  <2>2. UniqueIDs'
    BY <1>6a DEF UnlockStdin, pipeVars, envVars, procVars, readVars, UniqueIDs
  <2>3. AnswersFollowIDs'
    BY <1>6a DEF UnlockStdin, pipeVars, envVars, procVars, readVars,
       AnswersFollowIDs, TrueLine, AnswerTo
  <2>4. CallHolds'
    BY <1>6a DEF UnlockStdin, pipeVars, envVars, procVars, readVars, CallHolds
  <2>5. PendingAccounts'
    BY <1>6a DEF UnlockStdin, pipeVars, envVars, procVars, readVars,
       PendingAccounts, Key, NormalizeID, GoID
  <2>6. NoLostReply'
    BY <1>6a DEF UnlockStdin, pipeVars, envVars, procVars, readVars, NoLostReply
  <2> QED  BY <2>1, <2>2, <2>3, <2>4, <2>5, <2>6
<1>7. ASSUME NEW c \in Calls, WriteStdin(c)
      PROVE  Inv'
  <2>1. Range(toServer') = Range(toServer) \cup {RequestLine(c)}
    <3>1. RequestLine(c) \in ClientLines
      BY DEF RequestLine, WireID, ClientLines, IDs, IDTypes
    <3> QED  BY <1>7, <3>1, RangeAppend DEF WriteStdin
  <2>2. RequestLine(c).kind = "request" /\ RequestLine(c).call = c
    BY DEF RequestLine
  <2>3. ReaderOwnsChannels'
    BY <1>7, <2>1, <2>2, Frames DEF WriteStdin, pipeVars, envVars, procVars,
       readVars
  <2>4. UniqueIDs'
    BY <1>7, <2>1, <2>2 DEF WriteStdin, pipeVars, envVars, procVars, readVars,
       UniqueIDs
  <2>5. AnswersFollowIDs'
    BY <1>7, <2>1, <2>2 DEF WriteStdin, pipeVars, envVars, procVars, readVars,
       AnswersFollowIDs, TrueLine, AnswerTo
  <2>6. CallHolds'
    BY <1>7, <2>1, <2>2 DEF WriteStdin, pipeVars, envVars, procVars, readVars,
       CallHolds
  <2>7. PendingAccounts'
    BY <1>7, <2>1, <2>2 DEF WriteStdin, pipeVars, envVars, procVars, readVars,
       PendingAccounts, Key, NormalizeID, GoID
  <2>8. NoLostReply'
    BY <1>7, <2>1, <2>2 DEF WriteStdin, pipeVars, envVars, procVars, readVars,
       NoLostReply
  <2>9. HandshakeOrder'
    BY <1>7, <2>1, <2>2 DEF WriteStdin, pipeVars, envVars, procVars, readVars,
       HandshakeOrder
  <2> QED  BY <2>3, <2>4, <2>5, <2>6, <2>7, <2>8, <2>9
<1>8. ASSUME NEW c \in Calls, WriteStdinFails(c)
      PROVE  Inv'
  <2>1. ReaderOwnsChannels' /\ HandshakeOrder'
    BY <1>8, Frames DEF WriteStdinFails, pipeVars, envVars, procVars, readVars
  <2>2. UniqueIDs'
    BY <1>8 DEF WriteStdinFails, pipeVars, envVars, procVars, readVars,
       UniqueIDs
  <2>3. AnswersFollowIDs'
    BY <1>8 DEF WriteStdinFails, pipeVars, envVars, procVars, readVars,
       AnswersFollowIDs, TrueLine, AnswerTo
  <2>4. CallHolds'
    BY <1>8 DEF WriteStdinFails, pipeVars, envVars, procVars, readVars,
       CallHolds
  <2>5. PendingAccounts'
    BY <1>8 DEF WriteStdinFails, pipeVars, envVars, procVars, readVars,
       PendingAccounts, Key, NormalizeID, GoID
  <2>6. NoLostReply'
    BY <1>8 DEF WriteStdinFails, pipeVars, envVars, procVars, readVars,
       NoLostReply
  <2> QED  BY <2>1, <2>2, <2>3, <2>4, <2>5, <2>6
<1>9. ASSUME NEW c \in Calls, AwaitReply(c)
      PROVE  Inv'
  <2>1. Range(toServer) \subseteq ClientLines
    BY RangeType
  <2>2. ReaderOwnsChannels'
    BY <1>9, <2>1, Frames DEF AwaitReply, pipeVars, envVars, procVars, readVars
  <2>3. UniqueIDs'
    BY <1>9, <2>1 DEF AwaitReply, pipeVars, envVars, procVars, readVars,
       UniqueIDs
  <2>4. AnswersFollowIDs'
    BY <1>9, <2>1 DEF AwaitReply, pipeVars, envVars, procVars, readVars,
       AnswersFollowIDs, TrueLine, AnswerTo
  <2>5. CallHolds'
    BY <1>9, <2>1 DEF AwaitReply, pipeVars, envVars, procVars, readVars,
       CallHolds
  <2>6. PendingAccounts'
    BY <1>9, <2>1 DEF AwaitReply, pipeVars, envVars, procVars, readVars,
       PendingAccounts, Key, NormalizeID, GoID
  <2>7. NoLostReply'
    BY <1>9, <2>1 DEF AwaitReply, pipeVars, envVars, procVars, readVars,
       NoLostReply
  <2>8. HandshakeOrder'
    BY <1>9, <2>1 DEF AwaitReply, pipeVars, envVars, procVars, readVars,
       HandshakeOrder, CallHolds
  <2> QED  BY <2>2, <2>3, <2>4, <2>5, <2>6, <2>7, <2>8
<1>10. ASSUME NEW c \in Calls, AwaitClosed(c) \/ AwaitCtx(c) \/ AwaitDone(c)
      PROVE  Inv'
  <2>1. PICK s \in {"chanClosed", "ctxDone", "clientClosed"} : AwaitFails(c, s)
    BY <1>10 DEF AwaitClosed, AwaitCtx, AwaitDone
  <2>2. ReaderOwnsChannels' /\ HandshakeOrder'
    BY <1>10, <2>1, Frames DEF AwaitFails, pipeVars, envVars, procVars,
       readVars
  <2>3. UniqueIDs'
    BY <1>10, <2>1 DEF AwaitFails, pipeVars, envVars, procVars, readVars,
       UniqueIDs
  <2>4. AnswersFollowIDs'
    BY <1>10, <2>1 DEF AwaitFails, pipeVars, envVars, procVars, readVars,
       AnswersFollowIDs, TrueLine, AnswerTo
  <2>5. CallHolds'
    BY <1>10, <2>1 DEF AwaitFails, pipeVars, envVars, procVars, readVars,
       CallHolds
  <2>6. PendingAccounts'
    BY <1>10, <2>1 DEF AwaitFails, pipeVars, envVars, procVars, readVars,
       PendingAccounts, Key, NormalizeID, GoID
  <2>7. NoLostReply'
    BY <1>10, <2>1 DEF AwaitFails, pipeVars, envVars, procVars, readVars,
       NoLostReply
  <2> QED  BY <2>2, <2>3, <2>4, <2>5, <2>6, <2>7
<1>11. ASSUME NEW c \in Calls, DeletePending(c)
      PROVE  Inv'
  <2>1. ReaderOwnsChannels' /\ HandshakeOrder'
    BY <1>11, Frames DEF DeletePending, Restrict, pipeVars, envVars, procVars,
       readVars
  <2>2. UniqueIDs'
    BY <1>11 DEF DeletePending, Restrict, pipeVars, envVars, procVars,
       readVars, UniqueIDs
  <2>3. AnswersFollowIDs'
    BY <1>11 DEF DeletePending, Restrict, pipeVars, envVars, procVars,
       readVars, AnswersFollowIDs, TrueLine, AnswerTo
  <2>4. CallHolds'
    BY <1>11 DEF DeletePending, Restrict, pipeVars, envVars, procVars,
       readVars, CallHolds
  <2>5. PendingAccounts'
    BY <1>11 DEF DeletePending, Restrict, pipeVars, envVars, procVars,
       readVars, PendingAccounts, Key, NormalizeID, GoID, UniqueIDs
  <2>6. NoLostReply'
    BY <1>11 DEF DeletePending, Restrict, pipeVars, envVars, procVars,
       readVars, NoLostReply
  <2> QED  BY <2>1, <2>2, <2>3, <2>4, <2>5, <2>6
<1>12. ASSUME NEW c \in Calls, ParseOk(c)
      PROVE  Inv'
  <2>1. /\ pc[c] = "parse" /\ got[c].kind = "result"
        /\ UNCHANGED <<nextID, id, got, pending, buf, closed, stdinMu,
                       readVars, cancelled, procVars, pipeVars, envVars>>
    BY <1>12 DEF ParseOk
  <2>2. PICK l \in {"notifyLock", "returned"}, s \in Statuses :
           /\ pc' = [pc EXCEPT ![c] = l]
           /\ status' = [status EXCEPT ![c] = s]
    <3>1. CASE c \in InitCalls
      <4>1. status' = [status EXCEPT ![c] = status[c]]
        BY <1>12, <3>1 DEF ParseOk
      <4> QED  BY <1>12, <3>1, <4>1 DEF ParseOk
    <3>2. CASE c \notin InitCalls
      BY <1>12, <3>2 DEF ParseOk, Statuses
    <3> QED  BY <3>1, <3>2
  <2>3. ReaderOwnsChannels' /\ HandshakeOrder'
    BY <1>12, <2>1, <2>2, Frames DEF pipeVars, envVars, procVars, readVars
  <2>4. UniqueIDs'
    BY <1>12, <2>1, <2>2 DEF pipeVars, envVars, procVars, readVars, UniqueIDs
  <2>5. AnswersFollowIDs'
    BY <1>12, <2>1, <2>2 DEF pipeVars, envVars, procVars, readVars,
       AnswersFollowIDs, TrueLine, AnswerTo
  <2>6. CallHolds'
    BY <1>12, <2>1, <2>2 DEF pipeVars, envVars, procVars, readVars, CallHolds
  <2>7. PendingAccounts'
    BY <1>12, <2>1, <2>2 DEF pipeVars, envVars, procVars, readVars,
       PendingAccounts, Key, NormalizeID, GoID
  <2>8. NoLostReply'
    BY <1>12, <2>1, <2>2 DEF pipeVars, envVars, procVars, readVars, NoLostReply
  <2> QED  BY <2>3, <2>4, <2>5, <2>6, <2>7, <2>8
<1>13. ASSUME NEW c \in Calls, ParseError(c)
      PROVE  Inv'
  <2>1. ReaderOwnsChannels' /\ HandshakeOrder'
    BY <1>13, Frames DEF ParseError, pipeVars, envVars, procVars, readVars
  <2>2. UniqueIDs'
    BY <1>13 DEF ParseError, pipeVars, envVars, procVars, readVars, UniqueIDs
  <2>3. AnswersFollowIDs'
    BY <1>13 DEF ParseError, pipeVars, envVars, procVars, readVars,
       AnswersFollowIDs, TrueLine, AnswerTo
  <2>4. CallHolds'
    BY <1>13 DEF ParseError, pipeVars, envVars, procVars, readVars, CallHolds
  <2>5. PendingAccounts'
    BY <1>13 DEF ParseError, pipeVars, envVars, procVars, readVars,
       PendingAccounts, Key, NormalizeID, GoID
  <2>6. NoLostReply'
    BY <1>13 DEF ParseError, pipeVars, envVars, procVars, readVars, NoLostReply
  <2> QED  BY <2>1, <2>2, <2>3, <2>4, <2>5, <2>6
<1>14. ASSUME NEW c \in Calls, Notify(c)
      PROVE  Inv'
  <2>1. Range(toServer') \subseteq Range(toServer) \cup {InitializedLine(c)}
    <3>1. InitializedLine(c) \in ClientLines
      BY DEF InitializedLine, NilID, ClientLines, IDs, IDTypes
    <3>2. Range(Append(toServer, InitializedLine(c)))
             = Range(toServer) \cup {InitializedLine(c)}
      BY <3>1, RangeAppend
    <3> QED  BY <1>14, <3>2 DEF Notify
  <2>2. InitializedLine(c).kind = "initialized" /\ InitializedLine(c).call = c
    BY DEF InitializedLine
  <2>3. /\ pc[c] = "notify"
        /\ pc' = [pc EXCEPT ![c] = "returned"]
        /\ status' = [status EXCEPT ![c] = "ok"]
    BY <1>14 DEF Notify
  <2>4. ReaderOwnsChannels'
    BY <1>14, <2>1, <2>2, <2>3, Frames DEF Notify, pipeVars, envVars,
       procVars, readVars
  <2>5. UniqueIDs'
    BY <1>14, <2>1, <2>2, <2>3 DEF Notify, pipeVars, envVars, procVars,
       readVars, UniqueIDs
  <2>6. AnswersFollowIDs'
    BY <1>14, <2>1, <2>2, <2>3 DEF Notify, pipeVars, envVars, procVars,
       readVars, AnswersFollowIDs, TrueLine, AnswerTo
  <2>7. CallHolds'
    BY <1>14, <2>1, <2>2, <2>3 DEF Notify, pipeVars, envVars, procVars,
       readVars, CallHolds
  <2>8. PendingAccounts'
    BY <1>14, <2>1, <2>2, <2>3 DEF Notify, pipeVars, envVars, procVars,
       readVars, PendingAccounts, Key, NormalizeID, GoID
  <2>9. NoLostReply'
    BY <1>14, <2>1, <2>2, <2>3 DEF Notify, pipeVars, envVars, procVars,
       readVars, NoLostReply
  <2>10. HandshakeOrder'
    BY <1>14, <2>1, <2>2, <2>3 DEF Notify, pipeVars, envVars, procVars,
       readVars, HandshakeOrder, AnswersFollowIDs, AnswerTo, CallHolds
  <2> QED  BY <2>4, <2>5, <2>6, <2>7, <2>8, <2>9, <2>10
<1>15. ASSUME NEW c \in Calls, CtxDone(c)
      PROVE  Inv'
  <2>1. /\ UniqueIDs' /\ AnswersFollowIDs' /\ ReaderOwnsChannels' /\ CallHolds'
        /\ PendingAccounts' /\ NoLostReply' /\ HandshakeOrder'
    BY <1>15, Frames DEF CtxDone, callVars, pipeVars, envVars, procVars,
       readVars
  <2> QED  BY <2>1
<1>16. CASE ScanMatched
  <2>1. /\ Head(toClient) \in Range(toClient) /\ Head(toClient) \in ServerLines
        /\ Range(toClient') \subseteq Range(toClient)
    BY <1>16, RangeTail DEF ScanMatched, Scanned
  <2>2. LineKey \in DOMAIN pending /\ LineKey = Key(pending[LineKey])
    BY <1>16 DEF ScanMatched, PendingAccounts
  <2>3. Head(toClient).kind \in {"result", "error"} /\ TrueLine(Head(toClient))
    <3>1. TrueLine(Head(toClient))
      BY <2>1 DEF AnswersFollowIDs
    <3>2. LineKey.type = "int64"
      BY <2>2 DEF Key, NormalizeID, GoID
    <3>3. Head(toClient).id.type \notin {"string", "nil"}
      BY <3>2 DEF LineKey, NormalizeID, GoID
    <3> QED  BY <1>16, <3>1, <3>3 DEF TrueLine, ReplyKinds, ScanMatched
  <2>4. Head(toClient).call = pending[LineKey] /\ Head(toClient).call \in answered
    <3>1. /\ Head(toClient).call \in answered
          /\ LineKey = Key(Head(toClient).call)
      BY <2>3 DEF TrueLine, ReplyKinds, LineKey, Key, NormalizeID, GoID, WireID
    <3>2. id[Head(toClient).call] = id[pending[LineKey]]
      BY <2>2, <3>1 DEF Key, NormalizeID, GoID
    <3>3. id[pending[LineKey]] # 0
      BY <2>2 DEF UniqueIDs, PendingAccounts
    <3> QED  BY <2>2, <3>1, <3>2, <3>3 DEF UniqueIDs
  <2>5. UniqueIDs' /\ CallHolds' /\ HandshakeOrder'
    BY <1>16, <2>1, <2>2, <2>3, <2>4, Frames DEF ScanMatched, callVars,
       procVars, envVars
  <2>6. AnswersFollowIDs'
    BY <1>16, <2>1, <2>2, <2>3, <2>4 DEF ScanMatched, callVars, procVars,
       envVars, AnswersFollowIDs, Scanned, TrueLine, AnswerTo
  <2>7. ReaderOwnsChannels'
    BY <1>16, <2>1, <2>2, <2>3, <2>4 DEF ScanMatched, callVars, procVars,
       envVars, ReaderOwnsChannels, Scanned
  <2>8. PendingAccounts'
    BY <1>16, <2>1, <2>2, <2>3, <2>4 DEF ScanMatched, callVars, procVars,
       envVars, PendingAccounts, Key, NormalizeID, GoID, Scanned
  <2>9. NoLostReply'
    BY <1>16, <2>1, <2>2, <2>3, <2>4 DEF ScanMatched, callVars, procVars,
       envVars, NoLostReply, Scanned
  <2> QED  BY <2>5, <2>6, <2>7, <2>8, <2>9
<1>17. CASE ScanSkipped
  <2>1. Range(toClient') \subseteq Range(toClient)
    BY <1>17, RangeTail DEF ScanSkipped, ScanTooLong, Scanned
  <2>2. /\ UniqueIDs' /\ ReaderOwnsChannels' /\ CallHolds' /\ PendingAccounts'
        /\ NoLostReply' /\ HandshakeOrder'
    BY <1>17, <2>1, Frames DEF ScanSkipped, readVars, callVars, procVars,
       envVars
  <2>3. AnswersFollowIDs'
    BY <1>17, <2>1 DEF ScanSkipped, readVars, callVars, procVars, envVars,
       AnswersFollowIDs, TrueLine, AnswerTo
  <2> QED  BY <2>2, <2>3
<1>18. CASE Deliver
  <2>1. UniqueIDs' /\ CallHolds' /\ HandshakeOrder'
    BY <1>18, Frames DEF Deliver, pipeVars, callVars, procVars, envVars
  <2>2. AnswersFollowIDs'
    BY <1>18 DEF Deliver, pipeVars, callVars, procVars, envVars,
       AnswersFollowIDs, Found, TrueLine, AnswerTo
  <2>3. ReaderOwnsChannels'
    BY <1>18 DEF Deliver, pipeVars, callVars, procVars, envVars,
       ReaderOwnsChannels
  <2>4. PendingAccounts'
    BY <1>18 DEF Deliver, pipeVars, callVars, procVars, envVars,
       PendingAccounts, Key, NormalizeID, GoID
  <2>5. NoLostReply'
    BY <1>18 DEF Deliver, pipeVars, callVars, procVars, envVars, NoLostReply,
       Found, AnswersFollowIDs, AnswerTo
  <2> QED  BY <2>1, <2>2, <2>3, <2>4, <2>5
<1>19. CASE ScanTooLong
  <2>1. Range(toClient') \subseteq Range(toClient)
    BY <1>19, RangeTail DEF ScanSkipped, ScanTooLong, Scanned
  <2>2. UniqueIDs' /\ CallHolds' /\ HandshakeOrder'
    BY <1>19, <2>1, Frames DEF ScanTooLong, Scanned, callVars, procVars,
       envVars
  <2>3. AnswersFollowIDs'
    BY <1>19, <2>1 DEF ScanTooLong, Scanned, callVars, procVars, envVars,
       AnswersFollowIDs, TrueLine, AnswerTo
  <2>4. ReaderOwnsChannels'
    BY <1>19, <2>1 DEF ScanTooLong, Scanned, callVars, procVars, envVars,
       ReaderOwnsChannels
  <2>5. PendingAccounts'
    BY <1>19, <2>1 DEF ScanTooLong, Scanned, callVars, procVars, envVars,
       PendingAccounts, Key, NormalizeID, GoID
  <2>6. NoLostReply'
    BY <1>19, <2>1 DEF ScanTooLong, Scanned, callVars, procVars, envVars,
       NoLostReply
  <2> QED  BY <2>2, <2>3, <2>4, <2>5, <2>6
<1>20. CASE ScanEnd
  <2>1. UniqueIDs' /\ AnswersFollowIDs' /\ CallHolds' /\ HandshakeOrder'
    BY <1>20, Frames DEF ScanEnd, pipeVars, callVars, procVars, envVars
  <2>2. ReaderOwnsChannels'
    BY <1>20 DEF ScanEnd, pipeVars, callVars, procVars, envVars,
       ReaderOwnsChannels
  <2>3. PendingAccounts'
    BY <1>20 DEF ScanEnd, pipeVars, callVars, procVars, envVars,
       PendingAccounts, Key, NormalizeID, GoID
  <2>4. NoLostReply'
    BY <1>20 DEF ScanEnd, pipeVars, callVars, procVars, envVars, NoLostReply
  <2> QED  BY <2>1, <2>2, <2>3, <2>4
<1>21. CASE Drain
  <2>1. UniqueIDs' /\ AnswersFollowIDs' /\ CallHolds' /\ HandshakeOrder'
    BY <1>21, Frames DEF Drain, pipeVars, callVars, procVars, envVars
  <2>2. ReaderOwnsChannels'
    BY <1>21 DEF Drain, pipeVars, callVars, procVars, envVars,
       ReaderOwnsChannels
  <2>3. PendingAccounts'
    BY <1>21 DEF Drain, pipeVars, callVars, procVars, envVars,
       PendingAccounts, Key, NormalizeID, GoID, EmptyMap
  <2>4. NoLostReply'
    BY <1>21 DEF Drain, pipeVars, callVars, procVars, envVars, NoLostReply
  <2> QED  BY <2>1, <2>2, <2>3, <2>4
<1>22. CASE CloseDone
  <2>1. /\ UniqueIDs' /\ AnswersFollowIDs' /\ ReaderOwnsChannels' /\ CallHolds'
        /\ PendingAccounts' /\ NoLostReply' /\ HandshakeOrder'
    BY <1>22, Frames DEF CloseDone, CloseRest, callVars, readVars, pipeVars,
       envVars
  <2> QED  BY <2>1
<1>23. CASE CloseRun
  <2>1. /\ UniqueIDs' /\ AnswersFollowIDs' /\ CallHolds' /\ PendingAccounts'
        /\ NoLostReply' /\ HandshakeOrder'
    BY <1>23, Frames DEF CloseRun, CloseStdin, CloseKill, CloseWait,
       CloseRest, callVars, readVars, pipeVars, envVars
  <2>2. ReaderOwnsChannels'
    BY <1>23 DEF CloseRun, CloseStdin, CloseKill, CloseWait, CloseRest,
       callVars, readVars, pipeVars, envVars, ReaderOwnsChannels
  <2> QED  BY <2>1, <2>2
<1>24. CASE ServerRead
  <2>1. /\ Head(toServer) \in Range(toServer)
        /\ Range(toServer') \subseteq Range(toServer)
    BY <1>24, RangeTail DEF ServerRead
  <2>2. UniqueIDs' /\ ReaderOwnsChannels' /\ PendingAccounts' /\ NoLostReply'
    BY <1>24, <2>1, Frames DEF ServerRead, ServerRest, callVars, readVars
  <2>3. AnswersFollowIDs'
    BY <1>24, <2>1 DEF ServerRead, ServerRest, callVars, readVars,
       AnswersFollowIDs, TrueLine, AnswerTo
  <2>4. CallHolds'
    BY <1>24, <2>1 DEF ServerRead, ServerRest, callVars, readVars, CallHolds
  <2>5. HandshakeOrder'
    BY <1>24, <2>1 DEF ServerRead, ServerRest, callVars, readVars,
       HandshakeOrder
  <2> QED  BY <2>2, <2>3, <2>4, <2>5
<1>25. ASSUME NEW c \in Calls, ServerReply(c)
      PROVE  Inv'
  <2>1. \A kind \in ReplyKinds :
           /\ Reply(c, kind, WireID(id[c])) \in ServerLines
           /\ Reply(c, kind, WireID(id[c])).kind \in ReplyKinds
           /\ Reply(c, kind, WireID(id[c])).call = c
           /\ Reply(c, kind, WireID(id[c])).id = WireID(id[c])
    BY DEF Reply, ReplyKinds, ServerLines, WireID, IDs, IDTypes
  <2>2. \E kind \in ReplyKinds : ServerWrites(Reply(c, kind, WireID(id[c])))
    BY <1>25 DEF ServerReply, ReplyKinds
  <2>3. PICK line \in ServerLines :
           /\ ServerWrites(line) /\ line.kind \in ReplyKinds
           /\ line.call = c /\ line.id = WireID(id[c])
    BY <2>1, <2>2
  <2>4. Range(toClient') = Range(toClient) \cup {line}
    BY <2>3, RangeAppend DEF ServerWrites
  <2>5. UniqueIDs' /\ CallHolds' /\ PendingAccounts' /\ NoLostReply'
    BY <1>25, <2>1, <2>2, <2>3, <2>4, Frames DEF ServerReply, ServerRest,
       callVars, readVars
  <2>6. AnswersFollowIDs'
    BY <1>25, <2>1, <2>2, <2>3, <2>4 DEF ServerReply, ServerRest, callVars,
       readVars, AnswersFollowIDs, TrueLine, AnswerTo
  <2>7. ReaderOwnsChannels'
    BY <1>25, <2>1, <2>2, <2>3, <2>4 DEF ServerReply, ServerRest, callVars,
       readVars, ReaderOwnsChannels
  <2>8. HandshakeOrder'
    BY <1>25, <2>1, <2>2, <2>3, <2>4 DEF ServerReply, ServerRest, callVars,
       readVars, HandshakeOrder
  <2> QED  BY <2>5, <2>6, <2>7, <2>8
<1>26. ASSUME NEW c \in Calls, ServerReplyOversized(c)
      PROVE  Inv'
  <2>1. \A kind \in ReplyKinds :
           /\ Reply(c, kind, WireID(id[c])) \in ServerLines
           /\ Reply(c, kind, WireID(id[c])).kind \in ReplyKinds
           /\ Reply(c, kind, WireID(id[c])).call = c
           /\ Reply(c, kind, WireID(id[c])).id = WireID(id[c])
    BY DEF Reply, ReplyKinds, ServerLines, WireID, IDs, IDTypes
  <2>2. \E kind \in ReplyKinds : ServerWrites(Reply(c, kind, WireID(id[c])))
    BY <1>26 DEF ServerReplyOversized, ReplyKinds
  <2>3. PICK line \in ServerLines :
           /\ ServerWrites(line) /\ line.kind \in ReplyKinds
           /\ line.call = c /\ line.id = WireID(id[c])
    BY <2>1, <2>2
  <2>4. Range(toClient') = Range(toClient) \cup {line}
    BY <2>3, RangeAppend DEF ServerWrites
  <2>5. UniqueIDs' /\ CallHolds' /\ PendingAccounts' /\ NoLostReply'
    BY <1>26, <2>1, <2>2, <2>3, <2>4, Frames DEF ServerReplyOversized,
       ServerRest, callVars, readVars
  <2>6. AnswersFollowIDs'
    BY <1>26, <2>1, <2>2, <2>3, <2>4 DEF ServerReplyOversized, ServerRest,
       callVars, readVars, AnswersFollowIDs, TrueLine, AnswerTo
  <2>7. ReaderOwnsChannels'
    BY <1>26, <2>1, <2>2, <2>3, <2>4 DEF ServerReplyOversized, ServerRest,
       callVars, readVars, ReaderOwnsChannels
  <2>8. HandshakeOrder'
    BY <1>26, <2>1, <2>2, <2>3, <2>4 DEF ServerReplyOversized, ServerRest,
       callVars, readVars, HandshakeOrder
  <2> QED  BY <2>5, <2>6, <2>7, <2>8
<1>27. CASE ServerNoise
  <2>1. /\ Junk \in ServerLines /\ Stray(nextID) \in ServerLines
        /\ TrueLine(Junk) /\ TrueLine(Stray(nextID))
    BY DEF Junk, Stray, NilID, ReplyKinds, TrueLine, ServerLines, IDs, IDTypes
  <2>2. \A c \in answered : /\ Reply(c, "result", WireID(id[c])) \in ServerLines
                            /\ TrueLine(Reply(c, "result", WireID(id[c])))
    BY DEF Reply, ReplyKinds, TrueLine, ServerLines, WireID, IDs, IDTypes
  <2>3. PICK line \in ServerLines : ServerWrites(line) /\ TrueLine(line)
    BY <1>27, <2>1, <2>2 DEF ServerNoise
  <2>4. Range(toClient') = Range(toClient) \cup {line}
    BY <2>3, RangeAppend DEF ServerWrites
  <2>5. /\ UniqueIDs' /\ ReaderOwnsChannels' /\ CallHolds' /\ PendingAccounts'
        /\ NoLostReply' /\ HandshakeOrder'
    BY <1>27, <2>1, <2>2, <2>3, <2>4, Frames DEF ServerNoise, ServerRest,
       callVars, readVars
  <2>6. AnswersFollowIDs'
    BY <1>27, <2>1, <2>2, <2>3, <2>4 DEF ServerNoise, ServerRest, callVars,
       readVars, AnswersFollowIDs, TrueLine, AnswerTo
  <2> QED  BY <2>5, <2>6
<1>28. CASE ServerExit
  <2>1. /\ UniqueIDs' /\ AnswersFollowIDs' /\ ReaderOwnsChannels' /\ CallHolds'
        /\ PendingAccounts' /\ NoLostReply' /\ HandshakeOrder'
    BY <1>28, Frames DEF ServerExit, pipeVars, envVars, ServerRest, callVars,
       readVars
  <2> QED  BY <2>1
<1>29. CASE UNCHANGED vars
  BY <1>29, Frames DEF vars, callVars, readVars, procVars, pipeVars, envVars
<1> QED
  BY <1>1, <1>2, <1>3, <1>4, <1>5, <1>6, <1>6a, <1>7, <1>8, <1>9, <1>10, <1>11,
     <1>12, <1>13, <1>14, <1>15, <1>16, <1>17, <1>18, <1>19, <1>20, <1>21,
     <1>22, <1>23, <1>24, <1>25, <1>26, <1>27, <1>28, <1>29 DEF Next,
     CallStep, ReadLoop, Server

LEMMA Safety == Spec => []IndInv
<1>1. IndInv /\ [Next]_vars => IndInv'
  BY TypeStep, InvStep DEF IndInv
<1> QED  BY InvInit, <1>1, PTL DEF Spec

(* No caller is handed another caller's answer.                            *)
THEOREM RepliesAreOwn == Spec => []OwnReply
<1>1. IndInv => OwnReply
  BY DEF IndInv, AnswersFollowIDs, AnswerTo, OwnReply
<1> QED  BY <1>1, Safety, PTL

(* readLoop never sends on a closed channel.                               *)
THEOREM SendIsSafe == Spec => []NoSendOnClosed
<1>1. IndInv => NoSendOnClosed
  BY DEF IndInv, ReaderOwnsChannels, NoSendOnClosed
<1> QED  BY <1>1, Safety, PTL

(* A matched reply stays in reach of its call.                             *)
THEOREM RepliesAreKept == Spec => []NoLostReply
<1>1. IndInv => NoLostReply
  BY DEF IndInv
<1> QED  BY <1>1, Safety, PTL

(* The pending map has an entry for each call in flight and no other.      *)
THEOREM PendingIsExact == Spec => []PendingAccounts
<1>1. IndInv => PendingAccounts
  BY DEF IndInv
<1> QED  BY <1>1, Safety, PTL

(* The initialized notification follows an accepted handshake.             *)
THEOREM HandshakeIsOrdered == Spec => []HandshakeOrder
<1>1. IndInv => HandshakeOrder
  BY DEF IndInv
<1> QED  BY <1>1, Safety, PTL

-----------------------------------------------------------------------------
(* StdioClient implements RequestReply: its initial states are initial     *)
(* states of the promise, and every step is one that the promise allows,   *)
(* or one that its callers do not see.                                     *)
Inv == IndInv /\ RequestsOnce /\ Reasons

-----------------------------------------------------------------------------
(* Lines that are written once are read once.                              *)

LEMMA OnceAppend ==
    ASSUME NEW q \in Seq(ClientLines), NEW x \in ClientLines, Once(q),
           x.kind = "request" => \A l \in Range(q) : l.kind = "request" => l.call # x.call
    PROVE  Once(Append(q, x))
<1>1. DOMAIN q = 1 .. Len(q) /\ Len(q) \in Nat
  OBVIOUS
<1>2. DOMAIN Append(q, x) = 1 .. Len(q) + 1
  OBVIOUS
<1>3. \A i \in 1 .. Len(q) : Append(q, x)[i] = q[i] /\ q[i] \in Range(q)
  BY <1>1 DEF Range
<1>4. Append(q, x)[Len(q) + 1] = x
  OBVIOUS
<1>5. \A i \in 1 .. Len(q) + 1 : i \in 1 .. Len(q) \/ i = Len(q) + 1
  BY <1>1
<1> QED  BY <1>1, <1>2, <1>3, <1>4, <1>5 DEF Once

LEMMA OnceTail ==
    ASSUME NEW q \in Seq(ClientLines), q # <<>>, Once(q)
    PROVE  /\ Once(Tail(q)) /\ Range(q) = Range(Tail(q)) \cup {Head(q)}
           /\ Head(q).kind = "request" =>
                 \A l \in Range(Tail(q)) :
                    l.kind = "request" => l.call # Head(q).call
<1>1. Len(q) \in Nat \ {0} /\ Head(q) = q[1] /\ Len(Tail(q)) = Len(q) - 1
  OBVIOUS
<1>2. DOMAIN q = 1 .. Len(q) /\ DOMAIN Tail(q) = 1 .. Len(q) - 1
  BY <1>1
<1>3. \A i \in 1 .. Len(q) - 1 :
         Tail(q)[i] = q[i + 1] /\ i + 1 \in 1 .. Len(q) /\ i + 1 # 1
  BY <1>1
<1>4. \A i \in 1 .. Len(q) : i = 1 \/ (i - 1 \in 1 .. Len(q) - 1 /\ Tail(q)[i - 1] = q[i])
  BY <1>1
<1>5. 1 \in 1 .. Len(q)
  BY <1>1
<1>6. Once(Tail(q))
  <2> SUFFICES ASSUME NEW i \in 1 .. Len(q) - 1, NEW j \in 1 .. Len(q) - 1,
                      q[i + 1].kind = "request", q[j + 1].kind = "request",
                      q[i + 1].call = q[j + 1].call
               PROVE  i = j
    BY <1>2, <1>3 DEF Once
  <2>1. i + 1 = j + 1
    BY <1>2, <1>3 DEF Once
  <2> QED  BY <1>1, <2>1
<1>7. Range(q) = Range(Tail(q)) \cup {Head(q)}
  <2>1. ASSUME NEW i \in 1 .. Len(q)
        PROVE  q[i] \in Range(Tail(q)) \cup {Head(q)}
    BY <1>1, <1>2, <1>4 DEF Range
  <2>2. Range(q) \subseteq Range(Tail(q)) \cup {Head(q)}
    BY <1>2, <2>1 DEF Range
  <2> QED  BY <2>2, RangeTail
<1>8. Head(q).kind = "request" =>
         \A l \in Range(Tail(q)) : l.kind = "request" => l.call # Head(q).call
  BY <1>1, <1>2, <1>3, <1>5 DEF Range, Once
<1> QED  BY <1>6, <1>7, <1>8

-----------------------------------------------------------------------------
(* The invariant                                                           *)

LEMMA PromiseInvInit == Init => Inv
<1>1. Init => RequestsOnce
  BY RangeEmpty DEF Init, RequestsOnce, Once
<1>2. Init => Reasons
  BY DEF Init, Reasons
<1> QED  BY <1>1, <1>2, InvInit DEF Inv

(* What each part depends on.                                              *)
LEMMA PromiseFrames ==
    /\ RequestsOnce /\ UNCHANGED <<id, pc, toServer, received, answered>>
       => RequestsOnce'
    /\ Reasons /\ UNCHANGED <<pc, status, stdin, srv, reader, cancelled, closer>>
       => Reasons'
<1>1. RequestsOnce /\ UNCHANGED <<id, pc, toServer, received, answered>>
      => RequestsOnce'
  BY DEF RequestsOnce, RequestLine
<1>2. Reasons /\ UNCHANGED <<pc, status, stdin, srv, reader, cancelled, closer>>
      => Reasons'
  BY DEF Reasons, Reason
<1> QED  BY <1>1, <1>2

(* A call that moves on without touching the pipe.                         *)
LEMMA CallMoves ==
    ASSUME Inv, NEW c \in Calls, NEW m \in PCs,
           pc' = [pc EXCEPT ![c] = m], m \in Unwritten => pc[c] \in Unwritten,
           \/ UNCHANGED id
           \/ pc[c] = "idle" /\ \E i \in Nat : id' = [id EXCEPT ![c] = i],
           UNCHANGED <<toServer, received, answered>>
    PROVE  RequestsOnce'
<1> USE DEF Inv, IndInv, TypeOK
<1>1. \A d \in Calls : pc[d] \notin Unwritten => RequestLine(d)' = RequestLine(d)
  BY DEF RequestLine, Unwritten
<1>2. \A d \in Calls : pc[d] \notin Unwritten => pc'[d] \notin Unwritten
  OBVIOUS
<1>3. \A l \in Range(toServer) : l.call \in Calls
  <2>1. Range(toServer) \subseteq ClientLines
    BY RangeType
  <2> QED  BY <2>1 DEF ClientLines
<1> QED  BY <1>1, <1>2, <1>3 DEF RequestsOnce

(* A call that moves on, or ends for a reason.                             *)
LEMMA CallReasons ==
    ASSUME Inv, NEW c \in Calls, NEW m \in PCs, NEW s \in Statuses,
           pc' = [pc EXCEPT ![c] = m], status' = [status EXCEPT ![c] = s],
           m # "idle" => stdin # "nil", m = "cleanup" => Reason(c)',
           UNCHANGED <<procVars, reader, cancelled>>
    PROVE  Reasons'
<1> USE DEF Inv, IndInv, TypeOK, procVars
<1>1. \A d \in Calls \ {c} : (pc'[d] = "cleanup" => Reason(d)') /\ pc'[d] = pc[d]
  BY DEF Reasons, Reason
<1>2. pc'[c] = m
  OBVIOUS
<1> QED  BY <1>1, <1>2 DEF Reasons

LEMMA PromiseInvStep ==
    ASSUME Inv, TypeOK', [Next]_vars
    PROVE  RequestsOnce' /\ Reasons'
<1> USE DEF Inv, IndInv, TypeOK, GoTo, EndWith
<1>1. CASE Start \/ StartFails
  <2>1. RequestsOnce'
    BY <1>1, PromiseFrames DEF Start, StartFails, callVars, pipeVars, envVars
  <2>2. \A c \in Calls : pc'[c] = pc[c] /\ pc[c] = "idle"
    BY <1>1 DEF Start, StartFails, MayStart, Reasons, callVars
  <2>3. Reasons'
    BY <1>1, <2>2 DEF Start, StartFails, Reasons
  <2> QED  BY <2>1, <2>3
<1>2. ASSUME NEW c \in Calls, SendRequest(c)
      PROVE  RequestsOnce' /\ Reasons'
  <2>1. /\ pc[c] = "idle" /\ pc' = [pc EXCEPT ![c] = "register"] /\ stdin # "nil"
        /\ \E i \in Nat : id' = [id EXCEPT ![c] = i]
        /\ UNCHANGED <<status, toServer, received, answered, procVars, reader, cancelled>>
    BY <1>2 DEF SendRequest, pipeVars, envVars, readVars, procVars
  <2>2. status' = [status EXCEPT ![c] = status[c]] /\ "register" \in PCs
    BY <2>1 DEF PCs
  <2>3. RequestsOnce'
    BY <2>1, <2>2, CallMoves DEF Unwritten
  <2>4. Reasons'
    <3>1. /\ UNCHANGED <<procVars, reader, cancelled>> /\ stdin # "nil"
          /\ pc' = [pc EXCEPT ![c] = "register"] /\ status[c] \in Statuses
      BY <2>1
    <3> QED  BY <2>2, <3>1, CallReasons
  <2> QED  BY <2>3, <2>4
<1>3. ASSUME NEW c \in Calls,
             \/ NewRequestFails(c) \/ RegisterPending(c) \/ LockStdin(c)
             \/ UnlockStdin(c) \/ DeletePending(c) \/ ParseOk(c) \/ ParseError(c)
      PROVE  RequestsOnce' /\ Reasons'
  <2>1. PICK m \in PCs, s \in Statuses :
          /\ pc' = [pc EXCEPT ![c] = m] /\ status' = [status EXCEPT ![c] = s]
          /\ m \notin {"idle", "cleanup"} /\ pc[c] # "idle"
          /\ m \in Unwritten => pc[c] \in Unwritten
    <3>1. \E m \in PCs, s \in Statuses :
            /\ pc' = [pc EXCEPT ![c] = m]
            /\ status' = [status EXCEPT ![c] = s] \/ UNCHANGED status
            /\ m \notin {"idle", "cleanup"} /\ pc[c] # "idle"
            /\ m \in Unwritten => pc[c] \in Unwritten
      BY <1>3 DEF NewRequestFails, RegisterPending, LockStdin, UnlockStdin,
         DeletePending, ParseOk, ParseError, PCs, Statuses, Unwritten
    <3>2. status = [status EXCEPT ![c] = status[c]] /\ status[c] \in Statuses
      OBVIOUS
    <3> QED  BY <3>1, <3>2
  <2>2. UNCHANGED <<id, toServer, received, answered, procVars, reader, cancelled>>
    BY <1>3 DEF NewRequestFails, RegisterPending, LockStdin, UnlockStdin,
       DeletePending, ParseOk, ParseError, pipeVars, envVars, readVars, procVars
  <2>3. stdin # "nil"
    BY <2>1 DEF Reasons
  <2>4. RequestsOnce'
    BY <2>1, <2>2, CallMoves
  <2>5. Reasons'
    BY <2>1, <2>2, <2>3, CallReasons
  <2> QED  BY <2>4, <2>5
<1>4. ASSUME NEW c \in Calls,
             \/ WriteStdinFails(c) \/ AwaitReply(c) \/ AwaitClosed(c)
             \/ AwaitCtx(c) \/ AwaitDone(c)
      PROVE  RequestsOnce' /\ Reasons'
  <2>1. PICK s \in Statuses :
          /\ pc' = [pc EXCEPT ![c] = "cleanup"] /\ status' = [status EXCEPT ![c] = s]
          /\ pc[c] # "idle"
          /\ \/ s = "writeFailed" /\ WriteFails
             \/ s = "reply"
             \/ s = "chanClosed" /\ c \in closed
             \/ s = "ctxDone" /\ c \in cancelled
             \/ s = "clientClosed" /\ closer # "open"
    BY <1>4 DEF WriteStdinFails, AwaitReply, AwaitClosed, AwaitCtx, AwaitDone,
       AwaitFails, Statuses
  <2>2. UNCHANGED <<id, toServer, received, answered, procVars, reader, cancelled>>
    BY <1>4 DEF WriteStdinFails, AwaitReply, AwaitClosed, AwaitCtx, AwaitDone,
       AwaitFails, pipeVars, envVars, readVars, procVars
  <2>3. stdin # "nil"
    BY <2>1 DEF Reasons
  <2>4. Reason(c)'
    <3>1. status'[c] = s
      BY <2>1
    <3>2. c \in closed => reader = "exited"
      BY DEF ReaderOwnsChannels
    <3>3. WriteFails => stdin # "open" \/ srv = "exited"
      BY DEF WriteFails, Reasons
    <3> QED  BY <2>1, <2>2, <3>1, <3>2, <3>3 DEF Reason, procVars
  <2>5. RequestsOnce'
    BY <2>1, <2>2, CallMoves DEF PCs, Unwritten
  <2>6. Reasons'
    BY <2>1, <2>2, <2>3, <2>4, CallReasons DEF PCs
  <2> QED  BY <2>5, <2>6
<1>5. ASSUME NEW c \in Calls, WriteStdin(c)
      PROVE  RequestsOnce' /\ Reasons'
  <2>1. /\ pc[c] = "write" /\ pc' = [pc EXCEPT ![c] = "unlock"]
        /\ toServer' = Append(toServer, RequestLine(c)) /\ stdin = "open"
        /\ UNCHANGED <<id, status, received, answered, procVars, reader, cancelled>>
    BY <1>5 DEF WriteStdin, CanWrite, envVars, readVars, procVars
  <2>2. RequestLine(c) \in ClientLines /\ RequestLine(c).call = c
        /\ Range(toServer) \subseteq ClientLines
    BY RangeType DEF RequestLine, WireID, ClientLines, IDs, IDTypes
  <2>3. Range(toServer') = Range(toServer) \cup {RequestLine(c)}
    BY <2>1, <2>2, RangeAppend
  <2>4. /\ c \notin received \cup answered
        /\ \A l \in Range(toServer) : l.kind = "request" => l.call # c
    BY <2>1 DEF RequestsOnce, Unwritten
  <2>5. Once(toServer')
    BY <2>1, <2>2, <2>4, OnceAppend DEF RequestsOnce
  <2>6. /\ \A d \in Calls : RequestLine(d)' = RequestLine(d)
        /\ \A d \in Calls : pc[d] \notin Unwritten => pc'[d] \notin Unwritten
        /\ pc'[c] \notin Unwritten
    BY <2>1 DEF RequestLine, Unwritten
  <2>7. RequestsOnce'
    <3>1. ASSUME NEW l \in Range(toServer'), l.kind = "request"
          PROVE  /\ l = RequestLine(l.call)' /\ pc'[l.call] \notin Unwritten
                 /\ l.call \notin received' \cup answered'
      <4>1. CASE l \in Range(toServer)
        <5>1. l.call \in Calls
          BY <2>2, <4>1 DEF ClientLines
        <5> QED  BY <2>1, <2>6, <3>1, <4>1, <5>1 DEF RequestsOnce
      <4>2. CASE l = RequestLine(c)
        BY <2>1, <2>2, <2>4, <2>6, <4>2
      <4> QED  BY <2>3, <4>1, <4>2
    <3> QED  BY <2>1, <2>5, <2>6, <3>1 DEF RequestsOnce
  <2>8. Reasons'
    <3>1. /\ status' = [status EXCEPT ![c] = status[c]] /\ status[c] \in Statuses
          /\ "unlock" \in PCs /\ stdin # "nil"
      BY <2>1 DEF PCs
    <3>2. /\ pc' = [pc EXCEPT ![c] = "unlock"]
          /\ UNCHANGED <<procVars, reader, cancelled>>
      BY <2>1
    <3> QED  BY <3>1, <3>2, CallReasons
  <2> QED  BY <2>7, <2>8
<1>6. ASSUME NEW c \in Calls, Notify(c)
      PROVE  RequestsOnce' /\ Reasons'
  <2>1. /\ pc[c] = "notify" /\ pc' = [pc EXCEPT ![c] = "returned"]
        /\ status' = [status EXCEPT ![c] = "ok"]
        /\ \/ UNCHANGED toServer
           \/ toServer' = Append(toServer, InitializedLine(c))
        /\ UNCHANGED <<id, received, answered, procVars, reader, cancelled>>
    BY <1>6 DEF Notify, envVars, readVars, procVars
  <2>2. /\ InitializedLine(c) \in ClientLines /\ InitializedLine(c).kind # "request"
        /\ Range(toServer) \subseteq ClientLines
    BY RangeType DEF InitializedLine, NilID, ClientLines, IDs, IDTypes
  <2>3. toServer' = Append(toServer, InitializedLine(c)) =>
           Range(toServer') = Range(toServer) \cup {InitializedLine(c)}
    BY <2>2, RangeAppend
  <2>3a. \A l \in Range(toServer') : l.kind = "request" => l \in Range(toServer)
    BY <2>1, <2>2, <2>3
  <2>4. Once(toServer')
    <3>1. Once(toServer)
      BY DEF RequestsOnce
    <3>2. Once(Append(toServer, InitializedLine(c)))
      BY <2>2, <3>1, OnceAppend
    <3> QED  BY <2>1, <3>1, <3>2
  <2>5. \A d \in Calls : /\ RequestLine(d)' = RequestLine(d)
                         /\ pc[d] \notin Unwritten => pc'[d] \notin Unwritten
    BY <2>1 DEF RequestLine, Unwritten
  <2>6. RequestsOnce'
    <3>1. ASSUME NEW l \in Range(toServer'), l.kind = "request"
          PROVE  /\ l = RequestLine(l.call)' /\ pc'[l.call] \notin Unwritten
                 /\ l.call \notin received' \cup answered'
      <4>1. l \in Range(toServer) /\ l.call \in Calls
        BY <2>2, <2>3a, <3>1 DEF ClientLines
      <4> QED  BY <2>1, <2>5, <3>1, <4>1 DEF RequestsOnce
    <3> QED  BY <2>1, <2>4, <2>5, <3>1 DEF RequestsOnce
  <2>7. Reasons'
    <3>1. stdin # "nil" /\ "returned" \in PCs /\ "ok" \in Statuses
      BY <2>1 DEF Reasons, PCs, Statuses
    <3> QED  BY <2>1, <3>1, CallReasons
  <2> QED  BY <2>6, <2>7
<1>7. CASE \E c \in Calls : CtxDone(c)
  <2>1. RequestsOnce'
    BY <1>7, PromiseFrames DEF CtxDone, callVars, pipeVars, envVars
  <2>2. /\ cancelled \subseteq cancelled'
        /\ UNCHANGED <<pc, status, stdin, srv, reader, closer>>
    BY <1>7 DEF CtxDone, callVars, procVars, readVars
  <2>3. Reasons'
    BY <2>2 DEF Reasons, Reason
  <2> QED  BY <2>1, <2>3
<1>8. CASE ReadLoop
  <2>1. /\ UNCHANGED <<id, pc, status, toServer, received, answered>>
        /\ UNCHANGED <<stdin, srv, cancelled, closer>>
        /\ reader = "exited" => reader' = "exited"
    BY <1>8 DEF ReadLoop, ScanMatched, ScanSkipped, Deliver, ScanTooLong, ScanEnd,
       Drain, Scanned, callVars, procVars, pipeVars, envVars, readVars
  <2>2. RequestsOnce' /\ Reasons'
    <3>1. RequestsOnce'
      BY <2>1, PromiseFrames
    <3>2. \A c \in Calls : Reason(c) => Reason(c)'
      BY <2>1 DEF Reason
    <3> QED  BY <2>1, <3>1, <3>2 DEF Reasons
  <2> QED  BY <2>2
<1>9. CASE CloseDone \/ CloseRun
  <2>1. /\ UNCHANGED <<id, pc, status, toServer, received, answered>>
        /\ UNCHANGED <<cancelled, reader>>
        /\ closer' # "open" /\ (srv' = "absent" <=> srv = "absent")
        /\ srv = "exited" => srv' = "exited"
        /\ (stdin' = "nil" <=> stdin = "nil") /\ (stdin' = "open" => stdin = "open")
    BY <1>9 DEF CloseDone, CloseRun, CloseStdin, CloseKill, CloseWait, CloseRest,
       callVars, pipeVars, envVars, readVars
  <2>2. RequestsOnce'
    BY <2>1, PromiseFrames
  <2>3. \A c \in Calls : Reason(c) => Reason(c)'
    BY <2>1 DEF Reason
  <2>4. Reasons'
    BY <2>1, <2>3 DEF Reasons
  <2> QED  BY <2>2, <2>4
<1>10. CASE ServerRead
  <2>1. /\ toServer # <<>> /\ toServer' = Tail(toServer)
        /\ received' = IF Head(toServer).kind = "request"
                       THEN received \cup {Head(toServer).call} ELSE received
        /\ UNCHANGED answered
        /\ UNCHANGED <<id, pc, status, stdin, srv, reader, cancelled, closer>>
    BY <1>10 DEF ServerRead, ServerRest, callVars, readVars
  <2>2. /\ Once(Tail(toServer)) /\ Head(toServer) \in Range(toServer)
        /\ Range(Tail(toServer)) \subseteq Range(toServer)
        /\ Head(toServer).kind = "request" =>
              \A l \in Range(Tail(toServer)) :
                 l.kind = "request" => l.call # Head(toServer).call
    BY <2>1, OnceTail DEF RequestsOnce
  <2>3. \A d : RequestLine(d)' = RequestLine(d)
    BY <2>1 DEF RequestLine
  <2>4. RequestsOnce'
    BY <2>1, <2>2, <2>3 DEF RequestsOnce
  <2>5. Reasons'
    BY <2>1, PromiseFrames
  <2> QED  BY <2>4, <2>5
<1>11. CASE ServerNoise \/ \E c \in Calls : ServerReply(c) \/ ServerReplyOversized(c)
  <2>1. /\ UNCHANGED <<id, pc, status, toServer, stdin, srv, reader, cancelled, closer>>
        /\ \/ UNCHANGED <<received, answered>>
           \/ \E c \in received : /\ received' = received \ {c}
                                  /\ answered' = answered \cup {c}
    BY <1>11 DEF ServerNoise, ServerReply, ServerReplyOversized, ServerRest,
       callVars, readVars
  <2>2. /\ received' \cup answered' = received \cup answered
        /\ received' \cap answered' = {}
    BY <2>1 DEF RequestsOnce
  <2>3. RequestsOnce'
    BY <2>1, <2>2 DEF RequestsOnce, RequestLine
  <2>4. Reasons'
    BY <2>1, PromiseFrames
  <2> QED  BY <2>3, <2>4
<1>12. CASE ServerExit
  <2>1. /\ UNCHANGED <<id, pc, status, toServer, received, answered>>
        /\ UNCHANGED <<stdin, reader, cancelled, closer>>
        /\ srv = "up" /\ srv' = "exited"
    BY <1>12 DEF ServerExit, ServerRest, pipeVars, envVars, callVars, readVars
  <2>2. RequestsOnce'
    BY <2>1, PromiseFrames
  <2>3. \A c \in Calls : Reason(c) => Reason(c)'
    BY <2>1 DEF Reason
  <2>4. Reasons'
    BY <2>1, <2>3 DEF Reasons
  <2> QED  BY <2>2, <2>4
<1>13. CASE UNCHANGED vars
  BY <1>13, PromiseFrames DEF vars, callVars, readVars, procVars, pipeVars, envVars
<1> QED
  BY <1>1, <1>2, <1>3, <1>4, <1>5, <1>6, <1>7, <1>8, <1>9, <1>10, <1>11, <1>12,
     <1>13 DEF Next, CallStep, Server

LEMMA PromiseSafety == Spec => []Inv
<1>1. Inv /\ [Next]_vars => Inv'
  BY TypeStep, InvStep, PromiseInvStep DEF Inv, IndInv
<1> QED  BY PromiseInvInit, <1>1, PTL DEF Spec

-----------------------------------------------------------------------------
(* The refinement                                                          *)

View == <<Outcomes, Replies, Sent, answered, Broken, cancelled>>

LEMMA PromiseInit == Init => Promise!Init
<1>1. Init => \A c \in Calls : Outcome(c) = "idle"
  BY DEF Init, Outcome
<1>2. Init => Sent = {}
  BY RangeEmpty DEF Init, Sent
<1> QED  BY <1>1, <1>2 DEF Init, Promise!Init, Outcomes, Replies, Broken

(* What callers see of a step of one call ...                              *)
LEMMA CallSeen ==
    ASSUME TypeOK, NEW c \in Calls, NEW m \in PCs, NEW s \in Statuses,
           pc' = [pc EXCEPT ![c] = m], status' = [status EXCEPT ![c] = s],
           \A d \in Calls \ {c} : got'[d] = got[d]
    PROVE  /\ Outcomes' = [Outcomes EXCEPT ![c] = Outcome(c)']
           /\ Replies' = [Replies EXCEPT
                 ![c] = IF Outcome(c)' = "answered" THEN got'[c].call ELSE None]
           /\ pc'[c] = m /\ status'[c] = s
<1>1. \A d \in Calls \ {c} : pc'[d] = pc[d] /\ status'[d] = status[d]
  BY DEF TypeOK
<1>2. \A d \in Calls \ {c} : Outcome(d)' = Outcome(d)
  BY <1>1 DEF Outcome
<1>3. pc'[c] = m /\ status'[c] = s
  BY DEF TypeOK
<1> QED  BY <1>2, <1>3 DEF Outcomes, Replies

(* ... of one inside the call, neither its beginning nor its end ...       *)
LEMMA CallUnseen ==
    ASSUME TypeOK, NEW c \in Calls, NEW m \in PCs, NEW s \in Statuses,
           pc' = [pc EXCEPT ![c] = m], status' = [status EXCEPT ![c] = s],
           \A d \in Calls \ {c} : got'[d] = got[d],
           pc[c] \notin {"idle", "returned"}, m \notin {"idle", "returned"}
    PROVE  UNCHANGED <<Outcomes, Replies>>
<1>1. Outcome(c) = "open" /\ Outcome(c)' = "open"
  BY CallSeen DEF Outcome
<1>2. Outcomes = [Outcomes EXCEPT ![c] = "open"]
      /\ Replies = [Replies EXCEPT ![c] = None]
  BY <1>1 DEF Outcomes, Replies
<1> QED  BY <1>1, <1>2, CallSeen

(* ... and of one that moves no call.                                      *)
LEMMA NoCallSeen ==
    /\ UNCHANGED <<pc, status, got>> => UNCHANGED <<Outcomes, Replies>>
    /\ UNCHANGED <<id, toServer, received, answered>> => UNCHANGED Sent
    /\ UNCHANGED <<procVars, reader>> => UNCHANGED Broken
<1>1. UNCHANGED <<pc, status, got>> => UNCHANGED <<Outcomes, Replies>>
  BY DEF Outcomes, Replies, Outcome
<1>2. UNCHANGED <<id, toServer, received, answered>> => UNCHANGED Sent
  BY DEF Sent, RequestLine
<1>3. UNCHANGED <<procVars, reader>> => UNCHANGED Broken
  BY DEF Broken, procVars
<1> QED  BY <1>1, <1>2, <1>3

(* Every step of a call is one that the promise allows, or unseen.         *)
LEMMA CallRefines ==
    ASSUME Inv, TypeOK', NEW c \in Calls, CallStep(c)
    PROVE  Promise!Next \/ UNCHANGED View
<1> USE DEF Inv, IndInv, TypeOK, GoTo, EndWith
<1>1. UNCHANGED <<answered, cancelled, Broken, received>>
  BY NoCallSeen DEF CallStep, SendRequest, NewRequestFails, RegisterPending,
     LockStdin, WriteStdin, WriteStdinFails, UnlockStdin, AwaitReply, AwaitClosed,
     AwaitCtx, AwaitDone, AwaitFails, DeletePending, ParseOk, ParseError, Notify,
     envVars, readVars
<1>2. status[c] \in Statuses /\ status = [status EXCEPT ![c] = status[c]]
  OBVIOUS
<1>3. ASSUME NEW m \in PCs, NEW s \in Statuses, \A d \in Calls \ {c} : got'[d] = got[d],
             pc' = [pc EXCEPT ![c] = m], status' = [status EXCEPT ![c] = s],
             pc[c] \notin {"idle", "returned"}, m \notin {"idle", "returned"},
             UNCHANGED Sent
      PROVE  UNCHANGED View
  BY <1>1, <1>3, CallUnseen DEF View
<1>4. CASE SendRequest(c)
  <2>1. /\ pc[c] = "idle" /\ pc' = [pc EXCEPT ![c] = "register"]
        /\ UNCHANGED <<status, got, toServer, received, answered>>
        /\ id' = [id EXCEPT ![c] = nextID + 1]
    BY <1>4 DEF SendRequest, pipeVars, envVars
  <2>2. Outcome(c) = "idle" /\ Outcome(c)' = "open"
    BY <2>1 DEF Outcome
  <2>3. Outcomes' = [Outcomes EXCEPT ![c] = "open"] /\ Replies' = [Replies EXCEPT ![c] = None]
    BY <1>2, <2>1, <2>2, CallSeen DEF PCs
  <2>4. UNCHANGED Replies
    BY <2>2, <2>3 DEF Replies
  <2>5. /\ \A d \in Calls \ {c} : RequestLine(d)' = RequestLine(d)
        /\ RequestLine(c) \notin Range(toServer) /\ RequestLine(c)' \notin Range(toServer)
    <3>1. \A l \in Range(toServer) : l.call # c
      BY <2>1 DEF AnswersFollowIDs
    <3> QED  BY <2>1, <3>1 DEF RequestLine
  <2>6. UNCHANGED Sent
    <3>1. \A d \in Calls : RequestLine(d)' \in Range(toServer) <=>
                          RequestLine(d) \in Range(toServer)
      BY <2>5
    <3> QED  BY <2>1, <3>1 DEF Sent
  <2>7. Promise!Invoke(c)
    BY <1>1, <2>2, <2>3, <2>4, <2>6 DEF Promise!Invoke, Outcomes
  <2> QED  BY <2>7 DEF Promise!Next
<1>5. CASE NewRequestFails(c)
  <2>1. /\ pc[c] = "register" /\ pc' = [pc EXCEPT ![c] = "returned"]
        /\ status' = [status EXCEPT ![c] = "invalid"]
        /\ UNCHANGED <<id, got, toServer, received, answered>>
    BY <1>5 DEF NewRequestFails, pipeVars, envVars
  <2>2. Outcome(c) = "open" /\ Outcome(c)' = "rejected"
    BY <2>1 DEF Outcome
  <2>3. Outcomes' = [Outcomes EXCEPT ![c] = "rejected"] /\ Replies' = [Replies EXCEPT ![c] = None]
    <3>1. "returned" \in PCs /\ "invalid" \in Statuses
      BY DEF PCs, Statuses
    <3>2. /\ pc' = [pc EXCEPT ![c] = "returned"] /\ \A d \in Calls : got'[d] = got[d]
          /\ status' = [status EXCEPT ![c] = "invalid"]
      BY <2>1
    <3>3. /\ Outcomes' = [Outcomes EXCEPT ![c] = Outcome(c)']
          /\ Replies' = [Replies EXCEPT
                ![c] = IF Outcome(c)' = "answered" THEN got'[c].call ELSE None]
      BY <3>1, <3>2, CallSeen
    <3> QED  BY <2>2, <3>3
  <2>4. UNCHANGED <<Replies, Sent>>
    <3>1. Replies[c] = None /\ Replies = [Replies EXCEPT ![c] = Replies[c]]
      BY <2>2 DEF Replies
    <3>2. UNCHANGED Replies
      BY <2>3, <3>1
    <3>3. UNCHANGED Sent
      BY <2>1, NoCallSeen
    <3> QED  BY <3>2, <3>3
  <2>5. c \notin Sent
    BY <2>1 DEF Sent, AnswersFollowIDs, RequestLine
  <2>6. Promise!Reject(c)
    BY <1>1, <2>2, <2>3, <2>4, <2>5 DEF Promise!Reject, Promise!End, Outcomes
  <2> QED  BY <2>6 DEF Promise!Next
<1>6. CASE RegisterPending(c) \/ LockStdin(c) \/ UnlockStdin(c)
  <2>1. \E m \in PCs :
          /\ pc' = [pc EXCEPT ![c] = m] /\ UNCHANGED <<id, status, got, toServer>>
          /\ pc[c] \notin {"idle", "returned"} /\ m \notin {"idle", "returned"}
    BY <1>6 DEF RegisterPending, LockStdin, UnlockStdin, pipeVars, PCs
  <2>2. UNCHANGED Sent
    BY <1>1, <2>1, NoCallSeen
  <2> QED  BY <1>2, <1>3, <2>1, <2>2
<1>7. CASE WriteStdin(c)
  <2>1. /\ pc[c] = "write" /\ pc' = [pc EXCEPT ![c] = "unlock"]
        /\ toServer' = Append(toServer, RequestLine(c))
        /\ UNCHANGED <<id, status, got, received, answered>>
    BY <1>7 DEF WriteStdin, envVars
  <2>2. RequestLine(c) \in ClientLines
    BY DEF RequestLine, WireID, ClientLines, IDs, IDTypes
  <2>3. Range(toServer') = Range(toServer) \cup {RequestLine(c)}
    BY <2>1, <2>2, RangeAppend
  <2>4. /\ \A d \in Calls : RequestLine(d)' = RequestLine(d)
        /\ \A d \in Calls : RequestLine(d) = RequestLine(c) => d = c
    BY <2>1 DEF RequestLine
  <2>5. Sent' = Sent \cup {c}
    <3>1. \A d \in Calls : RequestLine(d)' \in Range(toServer') <=>
                          RequestLine(d) \in Range(toServer) \/ d = c
      BY <2>3, <2>4
    <3> QED  BY <2>1, <3>1 DEF Sent
  <2>6. c \notin Sent
    BY <2>1 DEF Sent, RequestsOnce, Unwritten, RequestLine
  <2>7. Outcome(c) = "open"
    BY <2>1 DEF Outcome
  <2>8. UNCHANGED <<Outcomes, Replies>>
    BY <1>2, <2>1, CallUnseen DEF PCs
  <2>9. Promise!Send(c)
    BY <1>1, <2>5, <2>6, <2>7, <2>8 DEF Promise!Send, Outcomes
  <2> QED  BY <2>9 DEF Promise!Next
<1>8. CASE WriteStdinFails(c) \/ AwaitReply(c) \/ AwaitClosed(c) \/ AwaitCtx(c)
           \/ AwaitDone(c)
  <2>1. \E s \in Statuses :
          /\ pc' = [pc EXCEPT ![c] = "cleanup"] /\ status' = [status EXCEPT ![c] = s]
          /\ UNCHANGED <<id, toServer>> /\ \A d \in Calls \ {c} : got'[d] = got[d]
          /\ pc[c] \notin {"idle", "returned"}
    BY <1>8 DEF WriteStdinFails, AwaitReply, AwaitClosed, AwaitCtx, AwaitDone,
       AwaitFails, pipeVars, Statuses
  <2>2. UNCHANGED Sent
    BY <1>1, <2>1, NoCallSeen
  <2> QED  BY <1>3, <2>1, <2>2 DEF PCs
<1>9. CASE DeletePending(c)
  <2>1. /\ pc[c] = "cleanup" /\ UNCHANGED <<id, status, got, toServer>>
        /\ pc' = [pc EXCEPT ![c] = IF status[c] = "reply" THEN "parse" ELSE "returned"]
    BY <1>9 DEF DeletePending, pipeVars
  <2>2. UNCHANGED Sent
    BY <1>1, <2>1, NoCallSeen
  <2>3. CASE status[c] = "reply"
    BY <1>2, <1>3, <2>1, <2>2, <2>3 DEF PCs
  <2>4. CASE status[c] # "reply"
    <3>1. /\ Reason(c) /\ stdin # "nil"
          /\ status[c] \in {"writeFailed", "chanClosed", "ctxDone", "clientClosed"}
      BY <2>1, <2>4 DEF Reasons, Reason
    <3>2. Broken \/ c \in cancelled
      BY <3>1 DEF Reason, Broken
    <3>3. pc' = [pc EXCEPT ![c] = "returned"]
      BY <2>1, <2>4
    <3>4. Outcome(c) = "open" /\ Outcome(c)' = "failed"
      BY <2>1, <3>1, <3>3 DEF Outcome
    <3>5. /\ Outcomes' = [Outcomes EXCEPT ![c] = "failed"]
          /\ Replies' = [Replies EXCEPT ![c] = None]
      BY <1>2, <2>1, <3>3, <3>4, CallSeen DEF PCs
    <3>6. UNCHANGED Replies
      BY <3>4, <3>5 DEF Replies
    <3>7. Promise!Fail(c)
      BY <1>1, <2>2, <3>2, <3>4, <3>5, <3>6 DEF Promise!Fail, Promise!End, Outcomes
    <3> QED  BY <3>7 DEF Promise!Next
  <2> QED  BY <2>3, <2>4
<1>10. ASSUME pc[c] \in {"parse", "notify"}, NEW s \in {"ok", "rpcError"},
              pc' = [pc EXCEPT ![c] = "returned"], status' = [status EXCEPT ![c] = s],
              UNCHANGED <<got, Sent>>
       PROVE  Promise!Next
  <2>1. got[c].call = c /\ c \in answered
    BY <1>10 DEF CallHolds, AnswersFollowIDs, AnswerTo
  <2>2. Outcome(c) = "open" /\ Outcome(c)' = "answered"
    BY <1>10 DEF Outcome
  <2>3. /\ Outcomes' = [Outcomes EXCEPT ![c] = "answered"]
        /\ Replies' = [Replies EXCEPT ![c] = c]
    <3>1. "returned" \in PCs /\ s \in Statuses
      BY DEF PCs, Statuses
    <3>2. /\ Outcomes' = [Outcomes EXCEPT ![c] = Outcome(c)']
          /\ Replies' = [Replies EXCEPT
                ![c] = IF Outcome(c)' = "answered" THEN got'[c].call ELSE None]
      BY <1>10, <3>1, CallSeen
    <3>3. got'[c].call = c
      BY <1>10, <2>1
    <3> QED  BY <2>2, <3>2, <3>3
  <2>4. Promise!Complete(c)
    BY <1>1, <1>10, <2>1, <2>2, <2>3 DEF Promise!Complete, Promise!End, Outcomes
  <2> QED  BY <2>4 DEF Promise!Next
<1>11. CASE ParseOk(c) \/ ParseError(c)
  <2>1. /\ pc[c] = "parse" /\ UNCHANGED <<id, got, toServer>>
        /\ \/ /\ pc' = [pc EXCEPT ![c] = "notifyLock"] /\ UNCHANGED status
           \/ /\ pc' = [pc EXCEPT ![c] = "returned"]
              /\ \E s \in {"ok", "rpcError"} : status' = [status EXCEPT ![c] = s]
    BY <1>11 DEF ParseOk, ParseError, pipeVars
  <2>2. UNCHANGED Sent
    BY <1>1, <2>1, NoCallSeen
  <2>3. CASE pc' = [pc EXCEPT ![c] = "notifyLock"] /\ UNCHANGED status
    BY <1>2, <1>3, <2>1, <2>2, <2>3 DEF PCs
  <2> QED  BY <1>10, <2>1, <2>2, <2>3
<1>12. CASE Notify(c)
  <2>1. /\ pc[c] = "notify" /\ pc' = [pc EXCEPT ![c] = "returned"]
        /\ status' = [status EXCEPT ![c] = "ok"] /\ UNCHANGED <<id, got>>
        /\ toServer' = Append(toServer, InitializedLine(c)) \/ UNCHANGED toServer
    BY <1>12 DEF Notify
  <2>2. InitializedLine(c) \in ClientLines /\ \A d : RequestLine(d) # InitializedLine(c)
    BY DEF InitializedLine, RequestLine, NilID, ClientLines, IDs, IDTypes
  <2>3. toServer' = Append(toServer, InitializedLine(c)) =>
           Range(toServer') = Range(toServer) \cup {InitializedLine(c)}
    BY <2>2, RangeAppend
  <2>4. \A d : RequestLine(d)' = RequestLine(d)
    BY <2>1 DEF RequestLine
  <2>5. UNCHANGED Sent
    BY <1>1, <2>1, <2>2, <2>3, <2>4 DEF Sent
  <2> QED  BY <1>10, <2>1, <2>5
<1> QED
  BY <1>4, <1>5, <1>6, <1>7, <1>8, <1>9, <1>11, <1>12 DEF CallStep

(* So is every step of the reader, of Close, of contexts and of the server.*)
LEMMA OtherRefines ==
    ASSUME Inv, TypeOK',
           \/ Start \/ StartFails \/ ReadLoop \/ CloseDone \/ CloseRun \/ Server
           \/ (\E c \in Calls : CtxDone(c)) \/ UNCHANGED vars
    PROVE  Promise!Next \/ UNCHANGED View
<1> USE DEF Inv, IndInv, TypeOK
<1>1. UNCHANGED <<Outcomes, Replies, id>>
  <2>1. CASE Server
    BY <2>1, NoCallSeen DEF Server, ServerRead, ServerNoise, ServerExit, ServerReply,
       ServerReplyOversized, ServerRest, callVars
  <2>2. CASE ReadLoop
    BY <2>2, NoCallSeen DEF ReadLoop, ScanMatched, ScanSkipped, Deliver, ScanTooLong,
       ScanEnd, Drain, callVars
  <2> QED  BY <2>1, <2>2, NoCallSeen DEF Start, StartFails, CloseDone, CloseRun,
              CloseStdin, CloseKill, CloseWait, CloseRest, CtxDone, callVars, vars
<1>2. CASE Start \/ StartFails \/ ReadLoop \/ CloseDone \/ CloseRun \/ ServerExit
           \/ UNCHANGED vars
  <2>1. UNCHANGED <<cancelled, toServer, received, answered>>
    BY <1>2 DEF Start, StartFails, ReadLoop, ScanMatched, ScanSkipped, Deliver,
       ScanTooLong, ScanEnd, Drain, Scanned, CloseDone, CloseRun, CloseStdin,
       CloseKill, CloseWait, CloseRest, ServerExit, ServerRest, pipeVars, envVars, vars
  <2>2. UNCHANGED Sent
    BY <1>1, <2>1, NoCallSeen
  <2>3. Broken => Broken'
    <3>1. CASE Start \/ StartFails
      BY <3>1 DEF Start, StartFails, MayStart, Reasons, ReaderOwnsChannels, Broken
    <3>2. CASE ReadLoop
      BY <3>2 DEF ReadLoop, ScanMatched, ScanSkipped, Deliver, ScanTooLong, ScanEnd,
         Drain, Scanned, Broken, procVars, readVars
    <3>3. CASE CloseDone \/ CloseRun \/ ServerExit \/ UNCHANGED vars
      BY <3>3 DEF CloseDone, CloseRun, CloseStdin, CloseKill, CloseWait, CloseRest,
         ServerExit, ServerRest, Broken, readVars, procVars, vars
    <3> QED  BY <1>2, <3>1, <3>2, <3>3
  <2>4. CASE Broken' = Broken
    BY <1>1, <2>1, <2>2, <2>4 DEF View
  <2>5. CASE Broken' # Broken
    <3>1. Broken \in BOOLEAN /\ Broken' \in BOOLEAN
      BY DEF Broken
    <3>2. Promise!Break
      BY <1>1, <2>1, <2>2, <2>3, <2>5, <3>1 DEF Promise!Break
    <3> QED  BY <3>2 DEF Promise!Next
  <2> QED  BY <2>4, <2>5
<1>3. CASE \E c \in Calls : CtxDone(c)
  <2>1. PICK c \in Calls : CtxDone(c)
    BY <1>3
  <2>2. UNCHANGED <<answered, Sent, Broken>>
    BY <1>1, <2>1, NoCallSeen DEF CtxDone, pipeVars, envVars, readVars
  <2>3. Promise!GiveUp(c)
    BY <1>1, <2>1, <2>2 DEF CtxDone, Promise!GiveUp
  <2> QED  BY <2>3 DEF Promise!Next
<1>4. CASE ServerRead
  <2>1. /\ toServer # <<>> /\ toServer' = Tail(toServer)
        /\ received' = IF Head(toServer).kind = "request"
                       THEN received \cup {Head(toServer).call} ELSE received
        /\ UNCHANGED <<answered, cancelled, stdin, reader, closer, srv>>
    BY <1>4 DEF ServerRead, ServerRest, readVars
  <2>2. /\ Range(toServer) = Range(Tail(toServer)) \cup {Head(toServer)}
        /\ Head(toServer) \in Range(toServer)
    BY <2>1, OnceTail DEF RequestsOnce
  <2>3. \A d \in Calls : /\ RequestLine(d)' = RequestLine(d)
                         /\ RequestLine(d).kind = "request" /\ RequestLine(d).call = d
    BY <1>1 DEF RequestLine
  <2>4. Head(toServer).kind = "request" =>
           Head(toServer) = RequestLine(Head(toServer).call)
    BY <2>2 DEF RequestsOnce
  <2>5. UNCHANGED Sent
    BY <2>1, <2>2, <2>3, <2>4 DEF Sent
  <2>6. UNCHANGED Broken
    BY <2>1 DEF Broken
  <2> QED  BY <1>1, <2>1, <2>5, <2>6 DEF View
<1>5. CASE ServerNoise
  <2>1. UNCHANGED <<answered, cancelled, Sent, Broken>>
    BY <1>1, <1>5, NoCallSeen DEF ServerNoise, ServerRest, procVars, readVars
  <2> QED  BY <1>1, <2>1 DEF View
<1>6. ASSUME NEW c \in Calls, ServerReply(c) \/ ServerReplyOversized(c)
      PROVE  Promise!Next
  <2>1. /\ c \in received /\ received' = received \ {c} /\ answered' = answered \cup {c}
        /\ UNCHANGED <<toServer, cancelled, procVars, reader>>
    BY <1>6 DEF ServerReply, ServerReplyOversized, ServerRest, procVars, readVars
  <2>2. UNCHANGED <<Sent, Broken>>
    BY <1>1, <2>1, NoCallSeen DEF Sent, RequestLine
  <2>3. c \in Sent /\ c \notin answered
    BY <2>1 DEF Sent, RequestsOnce
  <2>4. Promise!Answer(c)
    BY <1>1, <2>1, <2>2, <2>3 DEF Promise!Answer
  <2> QED  BY <2>4 DEF Promise!Next
<1> QED  BY <1>2, <1>3, <1>4, <1>5, <1>6 DEF Server

(* The client keeps the promise of a request/reply client: a call ends     *)
(* once, with the answer to its own request, or fails for a reason.        *)
THEOREM PromiseKept == Spec => KeepsPromise
<1>1. Inv /\ [Next]_vars => [Promise!Next]_(Promise!vars)
  <2>1. Inv /\ [Next]_vars => Promise!Next \/ UNCHANGED View
    BY TypeStep, CallRefines, OtherRefines DEF Next, Inv, IndInv
  <2>2. UNCHANGED View => UNCHANGED Promise!vars
    BY DEF View, Promise!vars
  <2> QED  BY <2>1, <2>2
<1> QED  BY <1>1, PromiseInit, PromiseSafety, PTL DEF Spec, KeepsPromise, Promise!Spec
=============================================================================
