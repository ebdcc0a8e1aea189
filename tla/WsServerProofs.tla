--------------------------- MODULE WsServerProofs ---------------------------
(***************************************************************************)
(* Proofs about WsServer, for any number of calls and connections, any     *)
(* size of the id space and every configuration.                           *)
(***************************************************************************)
EXTENDS WsServerRpc, SequenceTheorems, TLAPS

(* next_id() stays within the ids. *)
LEMMA Next_idType == \A i \in Ids : Next_id(i) \in Ids
  BY IdSpaceAssumption DEF Ids, Next_id

(* ... also when it races with on_established(). *)
LEMMA NextIdsType == TypeOK => \A n \in NextIds : n.ret \in Ids /\ n.id \in Ids
<1>1. 0 \in Ids /\ 1 \in Ids
  BY IdSpaceAssumption DEF Ids
<1> QED
  BY <1>1, Next_idType DEF NextIds, RacedIds, TypeOK, HandlerTypeOK

LEMMA RemoveAtType ==
  ASSUME NEW S, NEW s \in Seq(S), NEW k \in DOMAIN s
  PROVE  RemoveAt(s, k) \in Seq(S)
  BY DEF RemoveAt

LEMMA NoMessages == <<>> \in Seq(Messages) /\ <<>> \in Seq(Fragments)
  BY EmptySeq

(* The server's state has the types its declarations give it; in particular
   ids never leave the id space, whatever races with next_id().            *)
THEOREM TypeCorrect == Spec => []TypeOK
<1>1. Init => TypeOK
  <2> SUFFICES ASSUME Init PROVE TypeOK
    OBVIOUS
  <2>1. FlagsTypeOK
    BY DEF Init, FlagsTypeOK
  <2>2. HandlerTypeOK
    BY IdSpaceAssumption DEF Init, HandlerTypeOK, Ids
  <2>3. LwsTypeOK
    BY DEF Init, LwsTypeOK
  <2>4. PeerTypeOK
    BY DEF Init, PeerTypeOK
  <2>5. CallTypeOK
    BY DEF Init, CallTypeOK
  <2> QED
    BY <2>1, <2>2, <2>3, <2>4, <2>5 DEF TypeOK
<1>2. TypeOK /\ [Next]_vars => TypeOK'
  <2> SUFFICES ASSUME TypeOK, [Next]_vars PROVE TypeOK'
    OBVIOUS
  <2>0. FlagsTypeOK /\ HandlerTypeOK /\ LwsTypeOK /\ PeerTypeOK /\ CallTypeOK
    BY DEF TypeOK
  <2> USE <2>0
  <2>1. CASE Poll
    <3>1. FlagsTypeOK'
      BY <2>1 DEF FlagsTypeOK, Poll, PollRequestWritable, PollDrop, peerVars
    <3>2. HandlerTypeOK'
      BY <2>1, NoMessages
         DEF HandlerTypeOK, Poll, PollRequestWritable, PollDrop, peerVars
    <3>3. LwsTypeOK'
      BY <2>1 DEF LwsTypeOK, Poll, PollRequestWritable, PollDrop, peerVars
    <3>4. PeerTypeOK'
      BY <2>1 DEF PeerTypeOK, Poll, PollRequestWritable, PollDrop, peerVars
    <3>5. CallTypeOK'
      BY <2>1
         DEF CallTypeOK, Poll, PollRequestWritable, PollDrop, peerVars, Break, Failures
    <3> QED
      BY <3>1, <3>2, <3>3, <3>4, <3>5 DEF TypeOK
  <2>2. CASE ServiceReturn
    <3>1. FlagsTypeOK'
      BY <2>2 DEF FlagsTypeOK, ServiceReturn, handlerVars, peerVars, callVars
    <3>2. HandlerTypeOK' /\ LwsTypeOK' /\ PeerTypeOK' /\ CallTypeOK'
      BY <2>2
         DEF HandlerTypeOK, LwsTypeOK, PeerTypeOK, CallTypeOK, ServiceReturn, handlerVars, peerVars, callVars
    <3> QED
      BY <3>1, <3>2 DEF TypeOK
  <2>3. CASE ExitLoop
    <3>1. FlagsTypeOK'
      BY <2>3 DEF FlagsTypeOK, ExitLoop, handlerVars, peerVars, callVars
    <3>2. HandlerTypeOK' /\ LwsTypeOK' /\ PeerTypeOK' /\ CallTypeOK'
      BY <2>3
         DEF HandlerTypeOK, LwsTypeOK, PeerTypeOK, CallTypeOK, ExitLoop, handlerVars, peerVars, callVars
    <3> QED
      BY <3>1, <3>2 DEF TypeOK
  <2>4. CASE OnEstablished
    <3>0. 0 \in Ids
      BY IdSpaceAssumption DEF Ids
    <3>1. FlagsTypeOK'
      BY <2>4 DEF FlagsTypeOK, OnEstablished, peerVars, callVars
    <3>2. HandlerTypeOK'
      BY <2>4, <3>0 DEF HandlerTypeOK, LwsTypeOK, OnEstablished
    <3>3. LwsTypeOK'
      BY <2>4 DEF LwsTypeOK, OnEstablished, peerVars, callVars
    <3>4. PeerTypeOK'
      BY <2>4 DEF PeerTypeOK, OnEstablished, peerVars, callVars, LwsTypeOK
    <3>5. CallTypeOK'
      BY <2>4 DEF CallTypeOK, OnEstablished, peerVars, callVars
    <3> QED
      BY <3>1, <3>2, <3>3, <3>4, <3>5 DEF TypeOK
  <2>5. CASE OnEstablishedRefuse
    <3>1. FlagsTypeOK'
      BY <2>5 DEF FlagsTypeOK, OnEstablishedRefuse, handlerVars, peerVars, callVars
    <3>2. HandlerTypeOK' /\ LwsTypeOK' /\ PeerTypeOK' /\ CallTypeOK'
      BY <2>5
         DEF HandlerTypeOK, LwsTypeOK, PeerTypeOK, CallTypeOK, OnEstablishedRefuse, handlerVars, peerVars, callVars
    <3> QED
      BY <3>1, <3>2 DEF TypeOK
  <2>6. CASE QueryCredentials
    <3>1. FlagsTypeOK'
      BY <2>6 DEF FlagsTypeOK, QueryCredentials, peerVars, callVars
    <3>2. HandlerTypeOK'
      BY <2>6, Next_idType
         DEF HandlerTypeOK, QueryCredentials, peerVars, callVars, Messages
    <3>3. LwsTypeOK'
      BY <2>6 DEF LwsTypeOK, QueryCredentials, peerVars, callVars
    <3>4. PeerTypeOK'
      BY <2>6 DEF PeerTypeOK, QueryCredentials, peerVars, callVars
    <3>5. CallTypeOK'
      BY <2>6 DEF CallTypeOK, QueryCredentials, peerVars, callVars
    <3> QED
      BY <3>1, <3>2, <3>3, <3>4, <3>5 DEF TypeOK
  <2>7. CASE OnWritable
    <3>0. requests /= <<>> => Head(requests) \in Messages /\ Tail(requests) \in Seq(Messages)
      BY HeadTailProperties DEF HandlerTypeOK
    <3>1. FlagsTypeOK'
      BY <2>7 DEF FlagsTypeOK, OnWritable, WriteRequest, PopRequest, callVars
    <3>2. HandlerTypeOK'
      BY <2>7, <3>0 DEF HandlerTypeOK, OnWritable, WriteRequest, PopRequest
    <3>3. LwsTypeOK'
      BY <2>7 DEF LwsTypeOK, OnWritable, WriteRequest, PopRequest, callVars
    <3>4. PeerTypeOK'
      <4>1. CASE WriteRequest
        BY <2>7, <3>0, <4>1, AppendProperties DEF PeerTypeOK, OnWritable, WriteRequest
      <4>2. CASE out' = out
        BY <2>7, <4>2 DEF PeerTypeOK, OnWritable
      <4> QED
        BY <2>7, <4>1, <4>2 DEF OnWritable
    <3>5. CallTypeOK'
      BY <2>7 DEF CallTypeOK, OnWritable, WriteRequest, PopRequest, callVars, HandlerTypeOK, Messages
    <3> QED
      BY <3>1, <3>2, <3>3, <3>4, <3>5 DEF TypeOK
  <2>8. CASE OnWritableShutdown
    <3>1. FlagsTypeOK'
      BY <2>8 DEF FlagsTypeOK, OnWritableShutdown, Disconnect, ResetConnection, callVars
    <3>2. HandlerTypeOK'
      BY <2>8
         DEF HandlerTypeOK, OnWritableShutdown, Disconnect, ResetConnection, callVars
    <3>3. LwsTypeOK'
      BY <2>8 DEF LwsTypeOK, OnWritableShutdown, Disconnect, ResetConnection, callVars
    <3>4. PeerTypeOK'
      BY <2>8, NoMessages
         DEF PeerTypeOK, OnWritableShutdown, Disconnect, ResetConnection, callVars
    <3>5. CallTypeOK'
      BY <2>8 DEF CallTypeOK, OnWritableShutdown, Disconnect, ResetConnection, callVars
    <3> QED
      BY <3>1, <3>2, <3>3, <3>4, <3>5 DEF TypeOK
  <2>9. CASE OnReceive
    <3>0. /\ Head(in) \in Messages /\ Tail(in) \in Seq(Messages)
          /\ \A r \in Parsed(Head(in)) : r.payload \in Calls \cup {Creds, Garbled}
      <4>1. Head(in) \in Messages /\ Tail(in) \in Seq(Messages)
        BY <2>9, HeadTailProperties DEF OnReceive, PeerTypeOK
      <4>2. Head(in).call \in Calls \cup {Creds}
        BY <4>1 DEF Messages
      <4> QED
        BY <4>1, <4>2 DEF Parsed
    <3>1. FlagsTypeOK'
      BY <2>9 DEF FlagsTypeOK, OnReceive, FinishAuthentication, Deliver
    <3>2. HandlerTypeOK'
      BY <2>9, NoMessages
         DEF HandlerTypeOK, OnReceive, Deliver, Erase, FinishAuthentication
    <3>3. LwsTypeOK'
      BY <2>9 DEF LwsTypeOK, OnReceive
    <3>4. PeerTypeOK'
      BY <2>9, <3>0 DEF PeerTypeOK, HandlerTypeOK, OnReceive
    <3>5. CallTypeOK'
      BY <2>9, <3>0 DEF CallTypeOK, OnReceive, Deliver, Find, HandlerTypeOK
    <3> QED
      BY <3>1, <3>2, <3>3, <3>4, <3>5 DEF TypeOK
  <2>10. CASE \E w \in Wsis : FilterConnection(w)
    <3>0. \A r \in HeaderResults : r.auth \in BOOLEAN
      <4>1. \A r \in HeaderResults : \/ r = [auth |-> TRUE, ok |-> TRUE]
                                     \/ r = [auth |-> FALSE, ok |-> TRUE]
                                     \/ r = [auth |-> FALSE, ok |-> FALSE]
        BY Zenon DEF HeaderResults
      <4>2. [auth |-> TRUE, ok |-> TRUE].auth \in BOOLEAN
        OBVIOUS
      <4>3. [auth |-> FALSE, ok |-> TRUE].auth \in BOOLEAN /\ [auth |-> FALSE, ok |-> FALSE].auth \in BOOLEAN
        OBVIOUS
      <4> QED
        BY <4>1, <4>2, <4>3, Zenon
    <3>1. FlagsTypeOK'
      BY <2>10, <3>0 DEF FlagsTypeOK, FilterConnection
    <3>2. HandlerTypeOK'
      BY <2>10 DEF HandlerTypeOK, FilterConnection, HeaderResults, peerVars, callVars
    <3>3. LwsTypeOK'
      BY <2>10 DEF LwsTypeOK, FilterConnection, HeaderResults, peerVars, callVars
    <3>4. PeerTypeOK'
      BY <2>10 DEF PeerTypeOK, FilterConnection, HeaderResults, peerVars, callVars
    <3>5. CallTypeOK'
      BY <2>10 DEF CallTypeOK, FilterConnection, HeaderResults, peerVars, callVars
    <3> QED
      BY <3>1, <3>2, <3>3, <3>4, <3>5 DEF TypeOK
  <2>11. CASE HandshakeAborted
    <3>1. FlagsTypeOK'
      BY <2>11 DEF FlagsTypeOK, HandshakeAborted, handlerVars, peerVars, callVars
    <3>2. HandlerTypeOK' /\ LwsTypeOK' /\ PeerTypeOK' /\ CallTypeOK'
      BY <2>11
         DEF HandlerTypeOK, LwsTypeOK, PeerTypeOK, CallTypeOK, HandshakeAborted, handlerVars, peerVars, callVars
    <3> QED
      BY <3>1, <3>2 DEF TypeOK
  <2>12. CASE OnClosed
    <3>1. FlagsTypeOK'
      BY <2>12 DEF FlagsTypeOK, OnClosed, Disconnect, ResetConnection, callVars
    <3>2. HandlerTypeOK'
      BY <2>12 DEF HandlerTypeOK, OnClosed, Disconnect, ResetConnection, callVars
    <3>3. LwsTypeOK'
      BY <2>12 DEF LwsTypeOK, OnClosed, Disconnect, ResetConnection, callVars
    <3>4. PeerTypeOK'
      BY <2>12, NoMessages
         DEF PeerTypeOK, OnClosed, Disconnect, ResetConnection, callVars
    <3>5. CallTypeOK'
      BY <2>12 DEF CallTypeOK, OnClosed, Disconnect, ResetConnection, callVars
    <3> QED
      BY <3>1, <3>2, <3>3, <3>4, <3>5 DEF TypeOK
  <2>13. CASE OnReceiveFragment
    <3>0. Fragment(Head(in)) \in Fragments
      <4>1. Head(in) \in Messages /\ connection \in Wsis
        BY <2>13, HeadTailProperties DEF OnReceiveFragment, PeerTypeOK, HandlerTypeOK
      <4> QED
        BY <4>1 DEF Fragment, Fragments, Messages
    <3>1. FlagsTypeOK'
      BY <2>13 DEF FlagsTypeOK, OnReceiveFragment, peerVars, callVars
    <3>2. HandlerTypeOK'
      BY <2>13, <3>0 DEF HandlerTypeOK, OnReceiveFragment
    <3>3. LwsTypeOK'
      BY <2>13 DEF LwsTypeOK, OnReceiveFragment, peerVars, callVars
    <3>4. PeerTypeOK'
      BY <2>13 DEF PeerTypeOK, OnReceiveFragment, peerVars, callVars
    <3>5. CallTypeOK'
      BY <2>13 DEF CallTypeOK, OnReceiveFragment, peerVars, callVars
    <3> QED
      BY <3>1, <3>2, <3>3, <3>4, <3>5 DEF TypeOK
  <2>14. CASE \E k \in DOMAIN out, replies \in BOOLEAN : ProviderExecute(k, replies)
    <3>1. FlagsTypeOK'
      BY <2>14 DEF FlagsTypeOK, ProviderExecute, handlerVars, lwsVars, callVars
    <3>2. HandlerTypeOK'
      BY <2>14 DEF HandlerTypeOK, ProviderExecute, handlerVars, lwsVars, callVars
    <3>3. LwsTypeOK'
      BY <2>14 DEF LwsTypeOK, ProviderExecute, handlerVars, lwsVars, callVars
    <3>4. PeerTypeOK'
      BY <2>14, RemoveAtType
         DEF PeerTypeOK, ProviderExecute, handlerVars, lwsVars, callVars
    <3>5. CallTypeOK'
      BY <2>14 DEF CallTypeOK, ProviderExecute, handlerVars, lwsVars, callVars
    <3> QED
      BY <3>1, <3>2, <3>3, <3>4, <3>5 DEF TypeOK
  <2>15. CASE \E c \in Calls : PerformCheck(c)
    <3>1. FlagsTypeOK'
      BY <2>15 DEF FlagsTypeOK, PerformCheck, handlerVars, lwsVars, peerVars
    <3>2. HandlerTypeOK' /\ LwsTypeOK' /\ PeerTypeOK' /\ CallTypeOK'
      BY <2>15
         DEF HandlerTypeOK, LwsTypeOK, PeerTypeOK, CallTypeOK, PerformCheck, handlerVars, lwsVars, peerVars, Failures
    <3> QED
      BY <3>1, <3>2 DEF TypeOK
  <2>16. CASE \E c \in Calls : PerformLock(c)
    <3>1. FlagsTypeOK'
      BY <2>16 DEF FlagsTypeOK, PerformLock, lwsVars, peerVars
    <3>2. HandlerTypeOK' /\ LwsTypeOK' /\ PeerTypeOK' /\ CallTypeOK'
      BY <2>16
         DEF HandlerTypeOK, LwsTypeOK, PeerTypeOK, CallTypeOK, PerformLock, lwsVars, peerVars
    <3> QED
      BY <3>1, <3>2 DEF TypeOK
  <2>17. CASE \E c \in Calls : PerformEnqueue(c)
    <3>1. FlagsTypeOK'
      BY <2>17 DEF FlagsTypeOK, PerformEnqueue, lwsVars, peerVars
    <3>2. HandlerTypeOK'
      BY <2>17, NextIdsType
         DEF HandlerTypeOK, PerformEnqueue, lwsVars, peerVars, Messages
    <3>3. LwsTypeOK'
      BY <2>17 DEF LwsTypeOK, PerformEnqueue, lwsVars, peerVars
    <3>4. PeerTypeOK'
      BY <2>17 DEF PeerTypeOK, PerformEnqueue, lwsVars, peerVars
    <3>5. CallTypeOK'
      BY <2>17 DEF CallTypeOK, PerformEnqueue, lwsVars, peerVars, Break, Failures
    <3> QED
      BY <3>1, <3>2, <3>3, <3>4, <3>5 DEF TypeOK
  <2>18. CASE \E c \in Calls : PerformCancel(c)
    <3>1. FlagsTypeOK'
      BY <2>18 DEF FlagsTypeOK, PerformCancel, handlerVars, peerVars
    <3>2. HandlerTypeOK' /\ LwsTypeOK' /\ PeerTypeOK' /\ CallTypeOK'
      BY <2>18
         DEF HandlerTypeOK, LwsTypeOK, PeerTypeOK, CallTypeOK, PerformCancel, handlerVars, peerVars
    <3> QED
      BY <3>1, <3>2 DEF TypeOK
  <2>19. CASE \E c \in Calls : PerformTimeout(c)
    <3>1. FlagsTypeOK'
      BY <2>19 DEF FlagsTypeOK, PerformTimeout, handlerVars, lwsVars, peerVars
    <3>2. HandlerTypeOK' /\ LwsTypeOK' /\ PeerTypeOK' /\ CallTypeOK'
      BY <2>19
         DEF HandlerTypeOK, LwsTypeOK, PeerTypeOK, CallTypeOK, PerformTimeout, handlerVars, lwsVars, peerVars, Failures
    <3> QED
      BY <3>1, <3>2 DEF TypeOK
  <2>20. CASE \E c \in Calls : PerformReturn(c)
    <3>1. FlagsTypeOK'
      BY <2>20 DEF FlagsTypeOK, PerformReturn, handlerVars, lwsVars, peerVars
    <3>2. HandlerTypeOK' /\ LwsTypeOK' /\ PeerTypeOK' /\ CallTypeOK'
      BY <2>20
         DEF HandlerTypeOK, LwsTypeOK, PeerTypeOK, CallTypeOK, PerformReturn, handlerVars, lwsVars, peerVars
    <3> QED
      BY <3>1, <3>2 DEF TypeOK
  <2>21. CASE BeginShutdown
    <3>1. FlagsTypeOK'
      BY <2>21 DEF FlagsTypeOK, BeginShutdown, handlerVars, lwsVars, peerVars, callVars
    <3>2. HandlerTypeOK' /\ LwsTypeOK' /\ PeerTypeOK' /\ CallTypeOK'
      BY <2>21
         DEF HandlerTypeOK, LwsTypeOK, PeerTypeOK, CallTypeOK, BeginShutdown, handlerVars, lwsVars, peerVars, callVars
    <3> QED
      BY <3>1, <3>2 DEF TypeOK
  <2>22. CASE ShutdownCancel
    <3>1. FlagsTypeOK'
      BY <2>22 DEF FlagsTypeOK, ShutdownCancel, handlerVars, peerVars, callVars
    <3>2. HandlerTypeOK' /\ LwsTypeOK' /\ PeerTypeOK' /\ CallTypeOK'
      BY <2>22
         DEF HandlerTypeOK, LwsTypeOK, PeerTypeOK, CallTypeOK, ShutdownCancel, handlerVars, peerVars, callVars
    <3> QED
      BY <3>1, <3>2 DEF TypeOK
  <2>23. CASE JoinThread
    <3>1. FlagsTypeOK'
      BY <2>23
         DEF FlagsTypeOK, JoinThread, Disconnect, ResetConnection, handlerVars, lwsVars, peerVars, callVars
    <3>2. HandlerTypeOK'
      BY <2>23
         DEF HandlerTypeOK, JoinThread, Disconnect, ResetConnection, handlerVars, lwsVars, peerVars, callVars
    <3>3. LwsTypeOK'
      BY <2>23
         DEF LwsTypeOK, JoinThread, Disconnect, ResetConnection, handlerVars, lwsVars, peerVars, callVars
    <3>4. PeerTypeOK'
      BY <2>23, NoMessages
         DEF PeerTypeOK, JoinThread, Disconnect, ResetConnection, handlerVars, lwsVars, peerVars, callVars
    <3>5. CallTypeOK'
      BY <2>23
         DEF CallTypeOK, JoinThread, Disconnect, ResetConnection, handlerVars, lwsVars, peerVars, callVars
    <3> QED
      BY <3>1, <3>2, <3>3, <3>4, <3>5 DEF TypeOK
  <2>24. CASE UNCHANGED vars
    <3>1. FlagsTypeOK'
      BY <2>24 DEF FlagsTypeOK, vars, handlerVars, lwsVars, peerVars, callVars
    <3>2. HandlerTypeOK' /\ LwsTypeOK' /\ PeerTypeOK' /\ CallTypeOK'
      BY <2>24
         DEF HandlerTypeOK, LwsTypeOK, PeerTypeOK, CallTypeOK, vars, handlerVars, lwsVars, peerVars, callVars
    <3> QED
      BY <3>1, <3>2 DEF TypeOK
  <2> QED
    BY <2>1, <2>2, <2>3, <2>4, <2>5, <2>6, <2>7, <2>8, <2>9, <2>10, <2>11, <2>12, <2>13, <2>14,
       <2>15, <2>16, <2>17, <2>18, <2>19, <2>20, <2>21, <2>22, <2>23, <2>24
       DEF Next, ServiceThread, Network, Perform, Destructor, Terminated
<1> QED
  BY <1>1, <1>2, PTL DEF Spec

-----------------------------------------------------------------------------
(***************************************************************************)
(* Promises.  PromiseUnsatisfied and NoOrphanedWaiter hold together: a     *)
(* response must not disturb the promise of another call, for which a call *)
(* has at most one stored promise, and a promise is stored only for a call *)
(* that has left the critical section.                                     *)
(***************************************************************************)
PromiseInv ==
    /\ PromiseUnsatisfied
    /\ NoOrphanedWaiter
    /\ \A c \in Calls : pc[c] \in {"checked", "locked"} => future[c] = "pending"

promiseVars == <<pending_responses, future, pc, requests, sent_on>>

LEMMA HasCallAppend ==
  ASSUME NEW s \in Seq(Messages), NEW m \in Messages, NEW c
  PROVE  HasCall(Append(s, m), c) <=> HasCall(s, c) \/ m.call = c
  BY AppendProperties DEF HasCall

LEMMA HasCallTail ==
  ASSUME NEW s \in Seq(Messages), s /= <<>>, NEW c
  PROVE  HasCall(s, c) <=> Head(s).call = c \/ HasCall(Tail(s), c)
<1>1. /\ Len(s) \in Nat /\ Len(s) > 0 /\ DOMAIN s = 1 .. Len(s)
      /\ DOMAIN Tail(s) = 1 .. Len(s) - 1 /\ Head(s) = s[1]
      /\ \A i \in 1 .. Len(s) - 1 : Tail(s)[i] = s[i + 1]
  BY HeadTailProperties
<1>2. HasCall(Tail(s), c) => HasCall(s, c)
  BY <1>1 DEF HasCall
<1>3. ASSUME NEW k \in DOMAIN s, s[k].call = c, k /= 1 PROVE HasCall(Tail(s), c)
  <2>1. k - 1 \in DOMAIN Tail(s) /\ Tail(s)[k - 1] = s[k]
    BY <1>1, <1>3
  <2> QED
    BY <1>3, <2>1 DEF HasCall
<1> QED
  BY <1>1, <1>2, <1>3 DEF HasCall

(* Steps of the service thread that involve no call. *)
LEMMA QuietSteps ==
  ASSUME \/ ServiceReturn \/ ExitLoop \/ OnEstablished \/ OnEstablishedRefuse
         \/ OnWritableShutdown \/ Network \/ Destructor \/ Terminated
  PROVE  UNCHANGED promiseVars
  BY Zenon DEF promiseVars, ServiceReturn, ExitLoop, OnEstablished, OnEstablishedRefuse,
     OnWritableShutdown, Disconnect, Network, FilterConnection, HandshakeAborted,
     OnClosed, OnReceiveFragment, ProviderExecute, Destructor, BeginShutdown,
     ShutdownCancel, JoinThread, Terminated, vars, handlerVars, lwsVars, peerVars, callVars

LEMMA PromiseFrame ==
  ASSUME PromiseInv, UNCHANGED promiseVars
  PROVE  PromiseInv'
  BY DEF PromiseInv, PromiseUnsatisfied, NoOrphanedWaiter, Waiting, promiseVars

(* PromiseInv is inductive: every interleaving of FUSE threads with the
   service thread keeps it.                                                *)
LEMMA PromiseHolds == Spec => []PromiseInv
<1>1. Init => PromiseInv
  BY DEF Init, PromiseInv, PromiseUnsatisfied, NoOrphanedWaiter, Waiting
<1>2. TypeOK /\ PromiseInv /\ [Next]_vars => PromiseInv'
  <2> SUFFICES ASSUME TypeOK, PromiseInv, [Next]_vars PROVE PromiseInv'
    OBVIOUS
  <2>0. HandlerTypeOK /\ CallTypeOK
    BY DEF TypeOK
  <2> USE <2>0 DEF PromiseInv
  <2>1. CASE Poll
    <3>1. CASE PollDrop
      BY <2>1, <3>1 DEF Poll, PollDrop, Break, PromiseUnsatisfied, NoOrphanedWaiter,
         Waiting, HandlerTypeOK, CallTypeOK
    <3>2. CASE UNCHANGED promiseVars
      BY <3>2, PromiseFrame
    <3> QED
      BY <2>1, <3>1, <3>2 DEF Poll, PollRequestWritable, promiseVars
  <2>2. CASE QueryCredentials
    <3>1. [id |-> Next_id(id), call |-> Creds] \in Messages
      BY Next_idType DEF Messages, HandlerTypeOK
    <3> QED
      BY <2>2, <3>1, HasCallAppend DEF QueryCredentials, callVars, PromiseUnsatisfied,
         NoOrphanedWaiter, Waiting, HandlerTypeOK
  <2>3. CASE OnWritable
    <3>1. CASE WriteRequest
      <4>1. \A c \in Calls : HasCall(requests, c) =>
               c = Head(requests).call \/ HasCall(requests', c)
        BY <3>1, HasCallTail DEF WriteRequest, PopRequest, HandlerTypeOK
      <4>2. UNCHANGED <<pending_responses, pc, future>> /\ connection /= NoWsi
        BY <2>3 DEF OnWritable, callVars
      <4> QED
        BY <3>1, <4>1, <4>2 DEF WriteRequest, PromiseUnsatisfied, NoOrphanedWaiter, Waiting,
           CallTypeOK
    <3>2. CASE UNCHANGED promiseVars
      BY <3>2, PromiseFrame
    <3> QED
      BY <2>3, <3>1, <3>2 DEF OnWritable, callVars, promiseVars
  <2>4. CASE OnReceive
    <3>1. ASSUME NEW r, Deliver(r), UNCHANGED <<pc, requests, sent_on>> PROVE PromiseInv'
      BY <3>1 DEF Deliver, Find, Erase, PromiseUnsatisfied, NoOrphanedWaiter,
         Waiting, HandlerTypeOK, CallTypeOK
    <3>2. CASE UNCHANGED promiseVars
      BY <3>2, PromiseFrame
    <3> QED
      BY <2>4, <3>1, <3>2, Zenon DEF OnReceive, promiseVars
  <2>5. ASSUME NEW c \in Calls, PerformCheck(c) PROVE PromiseInv'
    BY <2>5 DEF PerformCheck, handlerVars, PromiseUnsatisfied, NoOrphanedWaiter,
       Waiting, HandlerTypeOK, CallTypeOK
  <2>6. ASSUME NEW c \in Calls, PerformLock(c) PROVE PromiseInv'
    BY <2>6 DEF PerformLock, PromiseUnsatisfied, NoOrphanedWaiter,
       Waiting, HandlerTypeOK, CallTypeOK
  <2>7. ASSUME NEW c \in Calls, PerformEnqueue(c) PROVE PromiseInv'
    <3>1. PICK n \in NextIds : /\ requests' = Append(requests, [id |-> n.ret, call |-> c])
                               /\ IF \E p \in pending_responses : p.id = n.ret
                                  THEN Break({c}) /\ UNCHANGED pending_responses
                                  ELSE /\ pending_responses' = pending_responses \cup
                                                               {[id |-> n.ret, call |-> c]}
                                       /\ UNCHANGED future
      BY <2>7 DEF PerformEnqueue
    <3>2. [id |-> n.ret, call |-> c] \in Messages
      BY NextIdsType DEF Messages
    <3>3. \A d \in Calls : HasCall(requests', d) <=> HasCall(requests, d) \/ d = c
      BY <3>1, <3>2, HasCallAppend DEF HandlerTypeOK
    <3>4. /\ pc[c] = "locked" /\ pc' = [pc EXCEPT ![c] = "cancel"]
          /\ sent_on' = sent_on
      BY <2>7 DEF PerformEnqueue
    <3>5. NoOrphanedWaiter'
      BY <3>1, <3>3, <3>4 DEF NoOrphanedWaiter, Waiting, Break, CallTypeOK
    <3>6. PromiseUnsatisfied'
      BY <3>1, <3>4 DEF PromiseUnsatisfied, Break, CallTypeOK, HandlerTypeOK
    <3> QED
      BY <3>1, <3>4, <3>5, <3>6 DEF Break, CallTypeOK
  <2>8. ASSUME NEW c \in Calls, PerformCancel(c) \/ PerformTimeout(c) \/ PerformReturn(c)
        PROVE  PromiseInv'
    BY <2>8 DEF PerformCancel, PerformTimeout, PerformReturn, handlerVars,
       PromiseUnsatisfied, NoOrphanedWaiter, Waiting, HandlerTypeOK, CallTypeOK
  <2>9. CASE UNCHANGED vars
    BY <2>9, PromiseFrame DEF vars, handlerVars, callVars, promiseVars
  <2> QED
    BY <2>1, <2>2, <2>3, <2>4, <2>5, <2>6, <2>7, <2>8, <2>9, QuietSteps, PromiseFrame
       DEF Next, ServiceThread, Perform
<1> QED
  BY <1>1, <1>2, TypeCorrect, PTL DEF Spec

(* No caller of perform() waits for a promise that is gone or for a request
   that was dropped from the queue, for any number of calls, connections and
   ids: poll() drops both or none.                                         *)
THEOREM WaitersNotOrphaned == Spec => []NoOrphanedWaiter
<1>1. PromiseInv => NoOrphanedWaiter
  BY DEF PromiseInv
<1> QED
  BY <1>1, PromiseHolds, PTL

(* No promise is satisfied twice, so set_value() in on_receive() does not
   throw, also when ids wrap around or are handed out twice by a race.     *)
THEOREM PromisesUnsatisfied == Spec => []PromiseUnsatisfied
<1>1. PromiseInv => PromiseUnsatisfied
  BY DEF PromiseInv
<1> QED
  BY <1>1, PromiseHolds, PTL

-----------------------------------------------------------------------------
(***************************************************************************)
(* At-most-once execution.  A request is in one place at a time: it is     *)
(* queued once, moves from the queue to the connection, and from there to  *)
(* the provider, which executes it.                                        *)
(***************************************************************************)
Once(s, c) == \A j, k \in DOMAIN s : s[j].call = c /\ s[k].call = c => j = k

OnceInv == \A c \in Calls :
    /\ Once(requests, c) /\ Once(out, c)
    /\ ~(HasCall(requests, c) /\ HasCall(out, c))
    /\ executed[c] <= 1
    /\ executed[c] = 1 => ~HasCall(requests, c) /\ ~HasCall(out, c)
    /\ pc[c] \in {"idle", "checked", "locked"} =>
          ~HasCall(requests, c) /\ ~HasCall(out, c) /\ executed[c] = 0

LEMMA OnceAppend ==
  ASSUME NEW s \in Seq(Messages), NEW m \in Messages, NEW c,
         Once(s, c), m.call = c => ~HasCall(s, c)
  PROVE  Once(Append(s, m), c)
  BY AppendProperties DEF Once, HasCall

LEMMA OnceTail ==
  ASSUME NEW s \in Seq(Messages), s /= <<>>, NEW c, Once(s, c)
  PROVE  Once(Tail(s), c) /\ (Head(s).call = c => ~HasCall(Tail(s), c))
<1>1. /\ Len(s) \in Nat /\ Len(s) > 0 /\ DOMAIN s = 1 .. Len(s)
      /\ DOMAIN Tail(s) = 1 .. Len(s) - 1 /\ Head(s) = s[1]
      /\ \A i \in 1 .. Len(s) - 1 : Tail(s)[i] = s[i + 1]
  BY HeadTailProperties
<1>2. \A i \in DOMAIN Tail(s) : i + 1 \in DOMAIN s /\ Tail(s)[i] = s[i + 1] /\ i \in Nat /\ i > 0
  BY <1>1
<1> QED
  BY <1>1, <1>2 DEF Once, HasCall

LEMMA OnceRemoveAt ==
  ASSUME NEW s \in Seq(Messages), NEW k \in DOMAIN s, NEW c, Once(s, c)
  PROVE  /\ Once(RemoveAt(s, k), c)
         /\ HasCall(RemoveAt(s, k), c) => HasCall(s, c) /\ s[k].call /= c
<1>1. /\ Len(s) \in Nat /\ DOMAIN s = 1 .. Len(s) /\ k \in 1 .. Len(s)
      /\ DOMAIN RemoveAt(s, k) = 1 .. Len(s) - 1
      /\ \A i \in 1 .. Len(s) - 1 : RemoveAt(s, k)[i] = IF i < k THEN s[i] ELSE s[i + 1]
  BY DEF RemoveAt
<1>2. \A i \in DOMAIN RemoveAt(s, k) :
         LET j == IF i < k THEN i ELSE i + 1
         IN  j \in DOMAIN s /\ j /= k /\ RemoveAt(s, k)[i] = s[j]
  BY <1>1
<1> QED
  BY <1>1, <1>2 DEF Once, HasCall

onceVars == <<requests, out, executed, pc>>

LEMMA OnceFrame ==
  ASSUME OnceInv, UNCHANGED onceVars
  PROVE  OnceInv'
  BY DEF OnceInv, Once, HasCall, onceVars

(* A closed connection takes its unanswered requests with it. *)
LEMMA OnceDisconnect ==
  ASSUME OnceInv, Disconnect
  PROVE  OnceInv'
  BY DEF OnceInv, Once, HasCall, Disconnect, callVars

(* OnceInv is inductive: a request moves, and is never copied. *)
LEMMA OnceHolds == Spec => []OnceInv
<1>1. Init => OnceInv
  <2>1. DOMAIN <<>> = {}
    OBVIOUS
  <2>2. \A c : Once(<<>>, c) /\ ~HasCall(<<>>, c)
    BY <2>1, Zenon DEF Once, HasCall
  <2>3. ASSUME Init, NEW c \in Calls
        PROVE  executed[c] = 0 /\ executed[c] <= 1 /\ executed[c] /= 1
    BY <2>3 DEF Init
  <2>4. Init => requests = <<>> /\ out = <<>>
    BY DEF Init
  <2> QED
    BY <2>2, <2>3, <2>4, Zenon DEF OnceInv
<1>2. TypeOK /\ OnceInv /\ [Next]_vars => OnceInv'
  <2> SUFFICES ASSUME TypeOK, OnceInv, [Next]_vars PROVE OnceInv'
    OBVIOUS
  <2>0. HandlerTypeOK /\ PeerTypeOK /\ CallTypeOK
    BY DEF TypeOK
  <2> USE <2>0
  <2>1. CASE Poll
    <3>1. CASE PollDrop
      BY <2>1, <3>1 DEF Poll, PollDrop, OnceInv, Once, HasCall, peerVars
    <3>2. CASE UNCHANGED onceVars
      BY <3>2, OnceFrame
    <3> QED
      BY <2>1, <3>1, <3>2 DEF Poll, PollRequestWritable, onceVars, peerVars
  <2>2. CASE QueryCredentials
    <3>1. [id |-> Next_id(id), call |-> Creds] \in Messages
      BY Next_idType DEF Messages, HandlerTypeOK
    <3>2. \A c \in Calls : /\ HasCall(requests', c) <=> HasCall(requests, c)
                           /\ Once(requests, c) => Once(requests', c)
      BY <2>2, <3>1, HasCallAppend, OnceAppend, CallsAssumption
         DEF QueryCredentials, HandlerTypeOK
    <3>3. UNCHANGED <<out, executed, pc>>
      BY <2>2 DEF QueryCredentials, peerVars, callVars
    <3> QED
      BY <3>2, <3>3 DEF OnceInv, HasCall, Once
  <2>3. CASE OnWritable
    <3>1. CASE WriteRequest
      <4>1. Head(requests) \in Messages
        BY <3>1, HeadTailProperties DEF WriteRequest, HandlerTypeOK
      <4>2. ASSUME NEW c \in Calls PROVE
               /\ Once(requests', c)
               /\ HasCall(requests, c) <=> Head(requests).call = c \/ HasCall(requests', c)
               /\ Head(requests).call = c => ~HasCall(requests', c)
        BY <3>1, OnceTail, HasCallTail DEF WriteRequest, PopRequest, HandlerTypeOK, OnceInv
      <4>3. ASSUME NEW c \in Calls PROVE
               /\ Once(out', c)
               /\ HasCall(out', c) <=> HasCall(out, c) \/ Head(requests).call = c
        BY <3>1, <4>1, <4>2, OnceAppend, HasCallAppend DEF WriteRequest, PeerTypeOK, OnceInv
      <4>4. UNCHANGED <<executed, pc>>
        BY <2>3 DEF OnWritable, callVars
      <4> QED
        BY <4>2, <4>3, <4>4 DEF OnceInv
    <3>2. CASE UNCHANGED onceVars
      BY <3>2, OnceFrame
    <3> QED
      BY <2>3, <3>1, <3>2 DEF OnWritable, callVars, onceVars
  <2>4. CASE OnReceive
    BY <2>4, OnceFrame DEF OnReceive, onceVars
  <2>5. CASE OnWritableShutdown \/ OnClosed
    BY <2>5, OnceDisconnect DEF OnWritableShutdown, OnClosed
  <2>6. ASSUME NEW k \in DOMAIN out, NEW replies \in BOOLEAN, ProviderExecute(k, replies)
        PROVE  OnceInv'
    <3>1. ASSUME NEW c \in Calls PROVE
             /\ Once(out', c)
             /\ HasCall(out', c) => HasCall(out, c) /\ out[k].call /= c
      BY <2>6, OnceRemoveAt DEF ProviderExecute, PeerTypeOK, OnceInv
    <3>2. ASSUME NEW c \in Calls PROVE
             /\ out[k].call = c => HasCall(out, c) /\ executed[c] = 0 /\ executed'[c] = 1
             /\ out[k].call /= c => executed'[c] = executed[c]
      BY <2>6 DEF ProviderExecute, PeerTypeOK, OnceInv, HasCall
    <3>3. UNCHANGED <<requests, pc>>
      BY <2>6 DEF ProviderExecute, handlerVars, callVars
    <3> QED
      BY <3>1, <3>2, <3>3 DEF OnceInv, HasCall, Once
  <2>7. ASSUME NEW c \in Calls, PerformEnqueue(c) PROVE OnceInv'
    <3>1. PICK n \in NextIds : requests' = Append(requests, [id |-> n.ret, call |-> c])
      BY <2>7 DEF PerformEnqueue
    <3>2. [id |-> n.ret, call |-> c] \in Messages
      BY NextIdsType DEF Messages
    <3>3. /\ pc[c] = "locked" /\ pc' = [pc EXCEPT ![c] = "cancel"]
          /\ UNCHANGED <<out, executed>>
      BY <2>7 DEF PerformEnqueue, peerVars
    <3>4. ASSUME NEW d \in Calls PROVE
             /\ HasCall(requests', d) <=> HasCall(requests, d) \/ d = c
             /\ Once(requests', d)
      BY <3>1, <3>2, <3>3, HasCallAppend, OnceAppend DEF HandlerTypeOK, OnceInv
    <3> QED
      BY <3>3, <3>4 DEF OnceInv, CallTypeOK, HasCall, Once
  <2>8. ASSUME NEW c \in Calls,
               \/ PerformCheck(c) \/ PerformLock(c) \/ PerformCancel(c)
               \/ PerformTimeout(c) \/ PerformReturn(c)
        PROVE  OnceInv'
    <3>1. /\ UNCHANGED <<requests, out, executed>>
          /\ \E v \in {"checked", "cancel", "locked", "waiting", "returned"} :
                /\ pc' = [pc EXCEPT ![c] = v]
                /\ v \in {"checked", "locked"} => pc[c] \in {"idle", "checked"}
      BY <2>8 DEF PerformCheck, PerformLock, PerformCancel, PerformTimeout, PerformReturn,
         handlerVars, peerVars
    <3> QED
      BY <3>1 DEF OnceInv, CallTypeOK, HasCall, Once
  <2>9. CASE JoinThread
    BY <2>9, OnceDisconnect, OnceFrame DEF JoinThread, handlerVars, peerVars, callVars, onceVars
  <2>10. CASE \/ ServiceReturn \/ ExitLoop \/ OnEstablished \/ OnEstablishedRefuse
              \/ (\E w \in Wsis : FilterConnection(w)) \/ HandshakeAborted
              \/ OnReceiveFragment \/ BeginShutdown \/ ShutdownCancel \/ UNCHANGED vars
    <3>1. UNCHANGED onceVars
      BY <2>10, Zenon DEF ServiceReturn, ExitLoop, OnEstablished, OnEstablishedRefuse,
         FilterConnection, HandshakeAborted, OnReceiveFragment, BeginShutdown,
         ShutdownCancel, vars, handlerVars, peerVars, callVars, onceVars
    <3> QED
      BY <3>1, OnceFrame
  <2> QED
    BY <2>1, <2>2, <2>3, <2>4, <2>5, <2>6, <2>7, <2>8, <2>9, <2>10
       DEF Next, ServiceThread, Network, Perform, Destructor, Terminated
<1> QED
  BY <1>1, <1>2, TypeCorrect, PTL DEF Spec

(* The provider executes no request twice, whatever happens to the
   connections between perform() and the answer: the operations of a file
   system are not idempotent.                                              *)
THEOREM ExecutedOnce == Spec => []AtMostOnce
<1>1. OnceInv => AtMostOnce
  BY DEF OnceInv, AtMostOnce
<1> QED
  BY <1>1, OnceHolds, PTL

-----------------------------------------------------------------------------
(***************************************************************************)
(* Wake-ups.  Between filter_connection() and the end of on_established()  *)
(* lws_service() is handling an event, so it is going to return.           *)
(***************************************************************************)
WakeInv ==
    /\ NoLostWakeup
    /\ lws \in {"handshake", "creds"} => wake

(* A call that leaves the critical section is about to wake the service
   thread up. *)
LEMMA EnqueuerCancels ==
  ASSUME TypeOK, NEW c \in Calls, PerformEnqueue(c)
  PROVE  pc'[c] = "cancel"
  BY DEF TypeOK, CallTypeOK, PerformEnqueue

(* The service thread never sleeps in lws_service() with messages in the
   queue and nothing to wake it up, in every interleaving of enqueuing,
   lws_cancel_service(), poll() and the callbacks.                         *)
THEOREM WakeupsNotLost == Spec => []NoLostWakeup
<1>1. Init => WakeInv
  BY Zenon DEF Init, WakeInv, NoLostWakeup
<1>2. TypeOK /\ WakeInv /\ [Next]_vars => WakeInv'
  <2> SUFFICES ASSUME TypeOK, WakeInv, [Next]_vars PROVE WakeInv'
    OBVIOUS
  <2> USE DEF WakeInv, NoLostWakeup
  <2>1. CASE Poll
    BY <2>1, Zenon DEF Poll, PollRequestWritable, PollDrop
  <2>2. CASE ServiceReturn \/ ExitLoop
    <3>1. lws' \in {"poll", "exited"}
      BY <2>2 DEF ServiceReturn, ExitLoop
    <3>2. lws' \notin {"service", "handshake", "creds"}
      BY <3>1
    <3> QED
      BY <3>2, Zenon
  <2>3. CASE wake' = TRUE
    BY <2>3, Zenon
  <2>4. CASE OnEstablished \/ OnEstablishedRefuse \/ HandshakeAborted \/ QueryCredentials
    <3>1. wake
      BY <2>4, Zenon DEF OnEstablished, OnEstablishedRefuse, HandshakeAborted, QueryCredentials
    <3>2. wake' = wake
      BY <2>4, Zenon DEF OnEstablished, OnEstablishedRefuse, HandshakeAborted, QueryCredentials
    <3> QED
      BY <3>1, <3>2, Zenon
  <2>5. CASE \/ OnWritable \/ OnWritableShutdown \/ OnReceive \/ OnClosed
             \/ (\E w \in Wsis : FilterConnection(w)) \/ OnReceiveFragment
             \/ (\E c \in Calls : PerformCancel(c)) \/ ShutdownCancel
    BY <2>5, <2>3, Zenon DEF OnWritable, OnWritableShutdown, OnReceive, OnClosed,
       FilterConnection, OnReceiveFragment, PerformCancel, ShutdownCancel
  <2>6. ASSUME NEW c \in Calls, PerformEnqueue(c) PROVE WakeInv'
    BY <2>6, EnqueuerCancels, Zenon DEF PerformEnqueue, lwsVars
  <2>7. ASSUME NEW c \in Calls,
               \/ PerformCheck(c) \/ PerformLock(c) \/ PerformTimeout(c) \/ PerformReturn(c)
        PROVE  WakeInv'
    <3>1. UNCHANGED <<lws, wake, writable, connection, requests>>
      BY <2>7, Zenon DEF PerformCheck, PerformLock, PerformTimeout, PerformReturn,
         handlerVars, lwsVars
    <3>2. \A d \in Calls : pc[d] = "cancel" => pc'[d] = "cancel"
      BY <2>7 DEF PerformCheck, PerformLock, PerformTimeout, PerformReturn, TypeOK, CallTypeOK
    <3> QED
      BY <3>1, <3>2, Zenon
  <2>8. CASE JoinThread
    <3>1. lws = "exited" /\ UNCHANGED lws
      BY <2>8, Zenon DEF JoinThread, lwsVars
    <3>2. lws' \notin {"service", "handshake", "creds"}
      BY <3>1
    <3> QED
      BY <3>2, Zenon
  <2>9. CASE \/ (\E k \in DOMAIN out, replies \in BOOLEAN : ProviderExecute(k, replies))
             \/ BeginShutdown \/ UNCHANGED vars
    <3>1. UNCHANGED <<lws, wake, writable, connection, requests, pc>>
      BY <2>9, Zenon DEF ProviderExecute, BeginShutdown, vars, handlerVars, lwsVars, callVars
    <3> QED
      BY <3>1, Zenon
  <2> QED
    BY <2>1, <2>2, <2>4, <2>5, <2>6, <2>7, <2>8, <2>9, Zenon
       DEF Next, ServiceThread, Network, Perform, Destructor, Terminated
<1>3. WakeInv => NoLostWakeup
  BY Zenon DEF WakeInv
<1> QED
  BY <1>1, <1>2, <1>3, TypeCorrect, PTL DEF Spec

-----------------------------------------------------------------------------
(* A rejected login never closes a later connection: shutdown_requested is
   set only by a response, which only an open connection can carry, and
   on_closed() resets it.                                                  *)
THEOREM ShutdownNotStale == Spec => []NoStaleShutdown
<1>1. Init => NoStaleShutdown
  BY Zenon DEF Init, NoStaleShutdown
<1>2. TypeOK /\ NoStaleShutdown /\ [Next]_vars => NoStaleShutdown'
  <2> SUFFICES ASSUME TypeOK, NoStaleShutdown, [Next]_vars PROVE NoStaleShutdown'
    OBVIOUS
  <2> USE DEF NoStaleShutdown
  <2>1. CASE OnEstablished
    <3>1. attempt \in Wsis
      BY <2>1 DEF OnEstablished, TypeOK, LwsTypeOK
    <3>2. attempt /= NoWsi
      BY <3>1, WsisAssumption
    <3> QED
      BY <2>1, <3>2, Zenon DEF OnEstablished
  <2>2. CASE OnReceive
    <3>1. connection /= NoWsi
      BY <2>2 DEF OnReceive, TypeOK, PeerTypeOK
    <3> QED
      BY <2>2, <3>1, Zenon DEF OnReceive
  <2>3. CASE Disconnect
    BY <2>3, Zenon DEF Disconnect, ResetConnection
  <2>4. CASE OnWritableShutdown \/ OnClosed
    BY <2>3, <2>4, Zenon DEF OnWritableShutdown, OnClosed
  <2>5. CASE UNCHANGED <<connection, shutdown_requested>>
    BY <2>5, Zenon
  <2>6. CASE JoinThread
    BY <2>3, <2>5, <2>6, Zenon DEF JoinThread, handlerVars
  <2>7. CASE \/ Poll \/ ServiceReturn \/ ExitLoop \/ OnEstablishedRefuse
             \/ QueryCredentials \/ OnWritable \/ HandshakeAborted \/ OnReceiveFragment
             \/ (\E w \in Wsis : FilterConnection(w))
             \/ (\E k \in DOMAIN out, replies \in BOOLEAN : ProviderExecute(k, replies))
    <3>1. UNCHANGED <<connection, shutdown_requested>>
      BY <2>7, Zenon DEF Poll, ServiceReturn, ExitLoop, OnEstablishedRefuse,
         QueryCredentials, OnWritable, HandshakeAborted, OnReceiveFragment,
         FilterConnection, ProviderExecute, handlerVars
    <3> QED
      BY <3>1, <2>5
  <2>8. CASE \/ (\E c \in Calls : Perform(c)) \/ BeginShutdown \/ ShutdownCancel
             \/ UNCHANGED vars
    <3>1. UNCHANGED <<connection, shutdown_requested>>
      BY <2>8, Zenon DEF Perform, PerformCheck, PerformLock, PerformEnqueue, PerformCancel,
         PerformTimeout, PerformReturn, BeginShutdown, ShutdownCancel, vars, handlerVars
    <3> QED
      BY <3>1, <2>5
  <2> QED
    BY <2>1, <2>2, <2>4, <2>6, <2>7, <2>8, Zenon
       DEF Next, ServiceThread, Network, Destructor, Terminated
<1> QED
  BY <1>1, <1>2, TypeCorrect, PTL DEF Spec
=============================================================================
