--------------------------- MODULE WsServerSession ---------------------------
(***************************************************************************)
(* Proofs about the first session of WsServer with a login: an             *)
(* authenticator is configured, no header, and one provider has tried to   *)
(* connect.  Within it every response goes to the call that made the       *)
(* request, and perform() implements Rpc.  With a second connection or     *)
(* without a login it does not: on_established() restarts the ids while    *)
(* requests with the same ids are under way (run wrong_response).          *)
(***************************************************************************)
EXTENDS WsServerProofs, FiniteSetTheorems

(* The configuration: providers log in by getcreds. *)
LoginRequired == Authenticator /\ ~AuthHeader

(* At most one provider has tried to connect so far. *)
OneAttempt == \A v, w \in used : v = w

(* The calls that have left the critical section, or never entered it. *)
Begun == {c \in Calls : pc[c] \in {"cancel", "waiting", "returned"}}

(* ... are fewer than the ids: next_id() has not wrapped around. *)
IdsLeft == Cardinality(Begun) + 1 < IdSpace

(* Nobody is past the test of is_authenticated and no id is in use. *)
Quiet ==
    /\ id = 0 /\ ~is_authenticated /\ current_message = <<>>
    /\ \A c \in Calls : pc[c] \notin {"checked", "locked"}

(* Until the handshake is complete the server is quiet, so the unprotected
   `id = 0' of on_established() changes nothing.                           *)
QuietStart ==
    /\ used = {} \/ lws \in {"handshake", "creds"} => Quiet
    /\ used = {} => connection = NoWsi /\ lws \notin {"handshake", "creds"}
    /\ ~raced
    /\ mutex /= NoCall => pc[mutex] = "locked"

(* The messages of s, and the messages that are queued, unanswered or
   answered but not yet received.                                          *)
Contents(s) == {s[k] : k \in DOMAIN s}

Open == Contents(requests) \cup Contents(out) \cup Contents(in)

Distinct(s) == \A j, k \in DOMAIN s : s[j].id = s[k].id => j = k

Apart(s, t) == \A m \in Contents(s), n \in Contents(t) : m.id /= n.id

(* Every id in use has been handed out, and to one message. *)
IdsUnique ==
    /\ \A m \in Open : m.id \in 1 .. id
    /\ Distinct(requests) /\ Distinct(out) /\ Distinct(in)
    /\ Apart(requests, out) /\ Apart(requests, in) /\ Apart(out, in)

(* A promise stored under the id of an open message belongs to its call. *)
PromisesMatch ==
    /\ \A p \in pending_responses : p.id \in 1 .. id
    /\ \A m \in Open, p \in pending_responses : p.id = m.id => p.call = m.call

(* A call takes one id, the login another. *)
IdsCounted == id <= Cardinality(Begun) + 1

(* The fragments received so far belong to one message. *)
OneMessage ==
    connection /= NoWsi =>
        current_message = <<>> \/ (Receiving /\ Len(current_message) = 1)

SessionInv == QuietStart /\ IdsUnique /\ PromisesMatch /\ IdsCounted
              /\ OneMessage /\ OwnResponse

LoginInv == OneAttempt /\ IdsLeft => SessionInv

-----------------------------------------------------------------------------
(* What the operations on queues do to the messages they hold. *)

LEMMA ContentsEmpty == Contents(<<>>) = {} /\ Distinct(<<>>)
  BY DEF Contents, Distinct

LEMMA ContentsType ==
  ASSUME NEW s \in Seq(Messages)
  PROVE  Contents(s) \subseteq Messages
  BY DEF Contents

LEMMA ContentsAppend ==
  ASSUME NEW s \in Seq(Messages), NEW m \in Messages
  PROVE  /\ Contents(Append(s, m)) = Contents(s) \cup {m}
         /\ Distinct(s) /\ (\A n \in Contents(s) : n.id /= m.id) => Distinct(Append(s, m))
<1>1. /\ Len(s) \in Nat /\ DOMAIN s = 1 .. Len(s) /\ DOMAIN Append(s, m) = 1 .. Len(s) + 1
      /\ Append(s, m)[Len(s) + 1] = m
      /\ \A k \in 1 .. Len(s) : Append(s, m)[k] = s[k]
  BY AppendProperties
<1>2. /\ DOMAIN Append(s, m) = DOMAIN s \cup {Len(s) + 1}
      /\ Len(s) + 1 \notin DOMAIN s
  BY <1>1
<1>3. Contents(Append(s, m)) = Contents(s) \cup {m}
  BY <1>1, <1>2 DEF Contents
<1>4. ASSUME Distinct(s), \A n \in Contents(s) : n.id /= m.id,
             NEW j \in DOMAIN Append(s, m), NEW k \in DOMAIN Append(s, m),
             Append(s, m)[j].id = Append(s, m)[k].id
      PROVE  j = k
  <2>1. \A i \in DOMAIN s : s[i].id /= m.id /\ Append(s, m)[i] = s[i]
    BY <1>1, <1>4 DEF Contents
  <2> QED
    BY <1>1, <1>2, <1>4, <2>1 DEF Distinct
<1> QED
  BY <1>3, <1>4 DEF Distinct

(* Removing one of several messages with distinct ids. *)
LEMMA ContentsRemoveAt ==
  ASSUME NEW s \in Seq(Messages), NEW k \in DOMAIN s, Distinct(s)
  PROVE  /\ Contents(RemoveAt(s, k)) = Contents(s) \ {s[k]}
         /\ Distinct(RemoveAt(s, k))
         /\ \A n \in Contents(RemoveAt(s, k)) : n.id /= s[k].id
<1>1. /\ Len(s) \in Nat /\ DOMAIN s = 1 .. Len(s) /\ k \in 1 .. Len(s)
      /\ DOMAIN RemoveAt(s, k) = 1 .. Len(s) - 1
      /\ \A i \in 1 .. Len(s) - 1 : RemoveAt(s, k)[i] = IF i < k THEN s[i] ELSE s[i + 1]
  BY DEF RemoveAt
<1>2. \A i \in DOMAIN RemoveAt(s, k) :
         LET j == IF i < k THEN i ELSE i + 1
         IN  j \in DOMAIN s /\ j /= k /\ RemoveAt(s, k)[i] = s[j]
  BY <1>1
<1>3. \A j \in DOMAIN s : j /= k =>
         LET i == IF j < k THEN j ELSE j - 1
         IN  i \in DOMAIN RemoveAt(s, k) /\ RemoveAt(s, k)[i] = s[j]
  BY <1>1
<1>4. \A n \in Contents(RemoveAt(s, k)) : n \in Contents(s) /\ n.id /= s[k].id
  BY <1>2 DEF Contents, Distinct
<1>5. \A n \in Contents(s) : n /= s[k] => n \in Contents(RemoveAt(s, k))
  BY <1>3 DEF Contents
<1>6. Distinct(RemoveAt(s, k))
  BY <1>1, <1>2 DEF Distinct
<1> QED
  BY <1>4, <1>5, <1>6

LEMMA ContentsTail ==
  ASSUME NEW s \in Seq(Messages), s /= <<>>, Distinct(s)
  PROVE  /\ Head(s) \in Contents(s)
         /\ Contents(Tail(s)) = Contents(s) \ {Head(s)}
         /\ Distinct(Tail(s))
         /\ \A n \in Contents(Tail(s)) : n.id /= Head(s).id
<1>1. /\ Len(s) \in Nat /\ Len(s) > 0 /\ DOMAIN s = 1 .. Len(s)
      /\ DOMAIN Tail(s) = 1 .. Len(s) - 1 /\ Head(s) = s[1]
      /\ \A i \in 1 .. Len(s) - 1 : Tail(s)[i] = s[i + 1]
  BY HeadTailProperties
<1>2. \A i \in DOMAIN Tail(s) : i + 1 \in DOMAIN s /\ i + 1 /= 1 /\ Tail(s)[i] = s[i + 1]
  BY <1>1
<1>3. \A j \in DOMAIN s : j /= 1 => j - 1 \in DOMAIN Tail(s) /\ Tail(s)[j - 1] = s[j]
  BY <1>1
<1>4. 1 \in DOMAIN s
  BY <1>1
<1>5. \A n \in Contents(Tail(s)) : n \in Contents(s) /\ n.id /= Head(s).id
  BY <1>1, <1>2, <1>4 DEF Contents, Distinct
<1>6. ASSUME NEW n \in Contents(s), n /= Head(s) PROVE n \in Contents(Tail(s))
  <2>1. PICK j \in DOMAIN s : n = s[j]
    BY DEF Contents
  <2>2. j - 1 \in DOMAIN Tail(s) /\ Tail(s)[j - 1] = n
    BY <1>1, <1>3, <1>6, <2>1
  <2> QED
    BY <2>2 DEF Contents
<1>7. Distinct(Tail(s))
  BY <1>1, <1>2 DEF Distinct
<1> QED
  BY <1>1, <1>4, <1>5, <1>6, <1>7 DEF Contents

-----------------------------------------------------------------------------
(* Calls only ever join those that have begun. *)
LEMMA BegunStep ==
  ASSUME TypeOK, [Next]_vars
  PROVE  /\ Begun' = Begun \/ \E c \in Calls : Begun' = Begun \cup {c}
         /\ \A c \in Calls : PerformEnqueue(c) => c \notin Begun /\ Begun' = Begun \cup {c}
<1>1. CASE UNCHANGED pc
  BY <1>1 DEF Begun, PerformEnqueue, TypeOK, CallTypeOK
<1>2. ASSUME NEW c \in Calls, PerformEnqueue(c)
      PROVE  c \notin Begun /\ Begun' = Begun \cup {c}
  BY <1>2 DEF PerformEnqueue, Begun, TypeOK, CallTypeOK
<1>3. ASSUME NEW c \in Calls,
             \/ PerformCheck(c) \/ PerformLock(c) \/ PerformCancel(c)
             \/ PerformTimeout(c) \/ PerformReturn(c)
      PROVE  Begun' = Begun \/ Begun' = Begun \cup {c}
  BY <1>3 DEF PerformCheck, PerformLock, PerformCancel, PerformTimeout, PerformReturn,
     Begun, TypeOK, CallTypeOK
<1>4. CASE ServiceThread \/ Network \/ Destructor \/ Terminated \/ UNCHANGED vars
  <2>1. UNCHANGED pc
    BY <1>4, Zenon DEF ServiceThread, Network, Destructor, Terminated, vars, callVars,
       Poll, ServiceReturn, ExitLoop, OnEstablished, OnEstablishedRefuse,
       QueryCredentials, OnWritable, OnWritableShutdown, OnReceive, FilterConnection,
       HandshakeAborted, OnClosed, Disconnect, OnReceiveFragment, ProviderExecute,
       BeginShutdown, ShutdownCancel, JoinThread
  <2> QED
    BY <1>1, <2>1
<1> QED
  BY <1>1, <1>2, <1>3, <1>4 DEF Next, Perform

LEMMA BegunFinite == Spec => []IsFiniteSet(Begun)
<1>1. Init => IsFiniteSet(Begun)
  <2>1. Init => Begun = {}
    BY DEF Init, Begun
  <2> QED
    BY <2>1, FS_EmptySet
<1>2. TypeOK /\ IsFiniteSet(Begun) /\ [Next]_vars => IsFiniteSet(Begun)'
  BY BegunStep, FS_AddElement
<1> QED
  BY <1>1, <1>2, TypeCorrect, PTL DEF Spec

(* What holds as long as there was one attempt to connect and ids are left
   held before.                                                            *)
LEMMA Monotone ==
  ASSUME TypeOK, IsFiniteSet(Begun), [Next]_vars
  PROVE  /\ OneAttempt' => OneAttempt
         /\ Cardinality(Begun) \in Nat /\ Cardinality(Begun') \in Nat
         /\ Cardinality(Begun) <= Cardinality(Begun')
         /\ IdsLeft' => IdsLeft
         /\ \A c \in Calls : PerformEnqueue(c) => Cardinality(Begun') = Cardinality(Begun) + 1
<1>1. used \subseteq used'
  BY Zenon DEF Next, ServiceThread, Network, Destructor, Terminated, Perform, vars,
     handlerVars, lwsVars,
     Poll, ServiceReturn, ExitLoop, OnEstablished, OnEstablishedRefuse,
     QueryCredentials, OnWritable, OnWritableShutdown, OnReceive, FilterConnection,
     HandshakeAborted, OnClosed, Disconnect, OnReceiveFragment, ProviderExecute,
     PerformCheck, PerformLock, PerformEnqueue, PerformCancel, PerformTimeout,
     PerformReturn, BeginShutdown, ShutdownCancel, JoinThread
<1>2. Cardinality(Begun) \in Nat
  BY FS_CardinalityType
<1>3. /\ Cardinality(Begun') \in Nat /\ Cardinality(Begun) <= Cardinality(Begun')
      /\ \A c \in Calls : PerformEnqueue(c) => Cardinality(Begun') = Cardinality(Begun) + 1
  <2>1. \A c : /\ IsFiniteSet(Begun \cup {c})
               /\ Cardinality(Begun \cup {c}) =
                     IF c \in Begun THEN Cardinality(Begun) ELSE Cardinality(Begun) + 1
    BY FS_AddElement
  <2> QED
    BY <1>2, <2>1, BegunStep
<1> QED
  BY <1>1, <1>2, <1>3, IdSpaceAssumption DEF OneAttempt, IdsLeft

-----------------------------------------------------------------------------
(* The start of the session.  The service thread resets `id' only when no
   call is in the critical section or has taken an id.                     *)

quietVars == <<used, id, is_authenticated, current_message, pc, raced, mutex>>

LEMMA QuietFrame ==
  ASSUME QuietStart, UNCHANGED quietVars,
         lws' \in {"handshake", "creds"} => lws \in {"handshake", "creds"},
         connection' \in {connection, NoWsi}
  PROVE  QuietStart'
  BY DEF QuietStart, Quiet, quietVars

LEMMA QuietDisconnect ==
  ASSUME TypeOK, QuietStart, Disconnect, connection /= NoWsi,
         lws' \notin {"handshake", "creds"}
  PROVE  QuietStart'
  BY DEF QuietStart, Quiet, Disconnect, ResetConnection, callVars

LEMMA QuietStep ==
  ASSUME LoginRequired, TypeOK, QuietStart, [Next]_vars, OneAttempt'
  PROVE  QuietStart'
<1>0. HandlerTypeOK /\ LwsTypeOK /\ PeerTypeOK /\ CallTypeOK
  BY DEF TypeOK
<1>1. CASE \/ Poll \/ ServiceReturn \/ ExitLoop \/ OnEstablishedRefuse \/ OnWritable
           \/ HandshakeAborted
           \/ (\E k \in DOMAIN out, replies \in BOOLEAN : ProviderExecute(k, replies))
           \/ BeginShutdown \/ ShutdownCancel \/ UNCHANGED vars
  <2>1. UNCHANGED quietVars /\ UNCHANGED connection
    BY <1>1, Zenon DEF quietVars, Poll, ServiceReturn, ExitLoop, OnEstablishedRefuse,
       OnWritable, HandshakeAborted, ProviderExecute, BeginShutdown, ShutdownCancel,
       vars, handlerVars, lwsVars, callVars
  <2>2. lws' \in {"handshake", "creds"} => lws' = lws
    BY <1>1 DEF Poll, ServiceReturn, ExitLoop, OnEstablishedRefuse,
       OnWritable, HandshakeAborted, ProviderExecute, BeginShutdown, ShutdownCancel,
       vars, lwsVars
  <2> QED
    BY <2>1, <2>2, QuietFrame
<1>2. CASE OnEstablished
  <2>1. Quiet /\ mutex = NoCall
    BY <1>0, <1>2 DEF OnEstablished, QuietStart, Quiet, HandlerTypeOK
  <2> QED
    BY <1>2, <2>1 DEF OnEstablished, QuietStart, Quiet, callVars
<1>3. CASE QueryCredentials
  BY <1>3 DEF QueryCredentials, QuietStart, Quiet, callVars
<1>4. CASE OnReceive \/ OnReceiveFragment
  <2>1. connection /= NoWsi
    BY <1>0, <1>4 DEF OnReceive, OnReceiveFragment, PeerTypeOK
  <2>2. UNCHANGED <<connection, lws, used, pc, raced, mutex>> /\ lws = "service"
    BY <1>4, Zenon DEF OnReceive, OnReceiveFragment, callVars
  <2> QED
    BY <2>1, <2>2 DEF QuietStart
<1>5. CASE OnWritableShutdown \/ OnClosed
  BY <1>5, QuietDisconnect DEF OnWritableShutdown, OnClosed
<1>6. ASSUME NEW w \in Wsis, FilterConnection(w) PROVE QuietStart'
  <2>1. used = {}
    BY <1>6 DEF FilterConnection, OneAttempt
  <2>2. \A r \in HeaderResults : ~r.auth
    <3>1. HeaderResults = {[auth |-> FALSE, ok |-> TRUE]}
      BY Zenon DEF HeaderResults, LoginRequired
    <3> QED
      BY <3>1
  <2>3. ~is_authenticated'
    BY <1>6, <2>2, Zenon DEF FilterConnection
  <2>4. used' /= {} /\ UNCHANGED <<id, current_message, pc, raced, mutex>>
    BY <1>6 DEF FilterConnection, callVars
  <2> QED
    BY <2>1, <2>3, <2>4 DEF QuietStart, Quiet
<1>7. ASSUME NEW c \in Calls, PerformCheck(c) PROVE QuietStart'
  <2>1. /\ UNCHANGED <<used, id, is_authenticated, current_message, raced, mutex, lws, connection>>
        /\ pc[c] = "idle"
    BY <1>7, Zenon DEF PerformCheck, handlerVars, lwsVars
  <2>2. /\ \A d \in Calls : d /= c => pc'[d] = pc[d]
        /\ ~is_authenticated => pc'[c] = "cancel"
    BY <1>0, <1>7 DEF PerformCheck, CallTypeOK
  <2>3. Quiet => Quiet'
    BY <2>1, <2>2 DEF Quiet
  <2>4. mutex' /= NoCall => pc'[mutex'] = "locked"
    BY <1>0, <2>1, <2>2 DEF QuietStart, HandlerTypeOK
  <2> QED
    BY <2>1, <2>3, <2>4 DEF QuietStart
<1>8. ASSUME NEW c \in Calls, PerformLock(c) \/ PerformEnqueue(c) PROVE QuietStart'
  <2>1. ~Quiet
    BY <1>8 DEF PerformLock, PerformEnqueue, Quiet
  <2> QED
    BY <1>0, <1>8, <2>1 DEF PerformLock, PerformEnqueue, QuietStart, lwsVars, CallTypeOK
<1>9. ASSUME NEW c \in Calls, PerformCancel(c) \/ PerformTimeout(c) \/ PerformReturn(c)
      PROVE  QuietStart'
  <2>1. /\ UNCHANGED <<used, id, is_authenticated, current_message, raced, mutex, lws, connection>>
        /\ \E v \in {"waiting", "returned"} : pc' = [pc EXCEPT ![c] = v]
        /\ pc[c] \in {"cancel", "waiting"}
    BY <1>9 DEF PerformCancel, PerformTimeout, PerformReturn, handlerVars, lwsVars
  <2> QED
    BY <1>0, <2>1 DEF QuietStart, Quiet, CallTypeOK
<1>10. CASE JoinThread
  <2>1. CASE connection = NoWsi
    BY <1>10, <2>1, QuietFrame DEF JoinThread, quietVars, handlerVars, lwsVars, callVars
  <2>2. CASE connection /= NoWsi
    BY <1>10, <2>2, QuietDisconnect DEF JoinThread
  <2> QED
    BY <2>1, <2>2
<1> QED
  BY <1>1, <1>2, <1>3, <1>4, <1>5, <1>6, <1>7, <1>8, <1>9, <1>10
     DEF Next, ServiceThread, Network, Perform, Destructor, Terminated

(* next_id() counts as long as ids are left. *)
LEMMA NextIdCounts ==
  ASSUME NEW i \in Nat, i + 1 < IdSpace
  PROVE  Next_id(i) = i + 1
<1>1. (i + 1) % IdSpace = i + 1
  BY IdSpaceAssumption
<1> QED
  BY <1>1 DEF Next_id

LEMMA EnqueueTakesNextId ==
  ASSUME TypeOK, IsFiniteSet(Begun), QuietStart, IdsCounted, [Next]_vars, IdsLeft',
         NEW c \in Calls, PerformEnqueue(c)
  PROVE  /\ id' = id + 1 /\ id \in Nat /\ id' <= Cardinality(Begun') + 1
         /\ NextIds = {[ret |-> id + 1, id |-> id + 1]}
<1>1. id \in Nat /\ id + 1 <= Cardinality(Begun') + 1 /\ id + 1 < IdSpace
  BY Monotone, IdSpaceAssumption DEF IdsCounted, IdsLeft, TypeOK, HandlerTypeOK, Ids
<1>2. Next_id(id) = id + 1
  BY <1>1, NextIdCounts
<1>3. NextIds = {[ret |-> id + 1, id |-> id + 1]}
  BY <1>2 DEF NextIds, QuietStart
<1> QED
  BY <1>1, <1>3 DEF PerformEnqueue

-----------------------------------------------------------------------------
(* Ids.  Messages disappear, move on, or get the next id. *)

idVars == <<requests, out, in, id, pending_responses>>

LEMMA IdsShrink ==
  ASSUME IdsUnique, PromisesMatch, UNCHANGED id,
         pending_responses' \subseteq pending_responses,
         Contents(requests') \subseteq Contents(requests), Distinct(requests'),
         Contents(out') \subseteq Contents(out), Distinct(out'),
         Contents(in') \subseteq Contents(in), Distinct(in')
  PROVE  IdsUnique' /\ PromisesMatch'
<1>1. Open' \subseteq Open
  BY DEF Open
<1>2. Apart(requests, out)' /\ Apart(requests, in)' /\ Apart(out, in)'
  BY DEF Apart, IdsUnique
<1>3. Distinct(requests)' /\ Distinct(out)' /\ Distinct(in)'
  BY DEF Distinct
<1>4. IdsUnique'
  BY <1>1, <1>2, <1>3 DEF IdsUnique
<1> QED
  BY <1>1, <1>4 DEF PromisesMatch

LEMMA IdsFrame ==
  ASSUME IdsUnique, PromisesMatch, UNCHANGED idVars
  PROVE  IdsUnique' /\ PromisesMatch'
  BY IdsShrink DEF idVars, IdsUnique

(* A message enters the queue under the next id. *)
LEMMA IdsAppend ==
  ASSUME TypeOK, IdsUnique, PromisesMatch, id' = id + 1, UNCHANGED <<out, in>>,
         NEW m \in Messages, m.id = id + 1, requests' = Append(requests, m),
         \A p \in pending_responses' :
            p \in pending_responses \/ (p.id = m.id /\ p.call = m.call)
  PROVE  IdsUnique' /\ PromisesMatch'
<1>0. id \in Nat
  BY IdSpaceAssumption DEF TypeOK, HandlerTypeOK, Ids
<1>1. \A n \in Open : n.id /= m.id /\ n.id \in 1 .. id /\ n.id \in 1 .. id'
  BY <1>0 DEF IdsUnique
<1>2. Contents(requests') = Contents(requests) \cup {m} /\ Distinct(requests')
  BY <1>1, ContentsAppend DEF IdsUnique, Open, TypeOK, HandlerTypeOK
<1>3. Open' = Open \cup {m}
  BY <1>2 DEF Open
<1>4. Apart(requests, out)' /\ Apart(requests, in)' /\ Apart(out, in)'
  BY <1>1, <1>2 DEF Apart, IdsUnique, Open
<1>5. Distinct(requests)' /\ Distinct(out)' /\ Distinct(in)'
  BY <1>2 DEF Distinct, IdsUnique
<1>6. m.id \in 1 .. id'
  BY <1>0
<1>7. IdsUnique'
  BY <1>1, <1>3, <1>4, <1>5, <1>6 DEF IdsUnique
<1>8. \A p \in pending_responses : p.id \in 1 .. id' /\ p.id /= m.id
  BY <1>0 DEF PromisesMatch
<1> QED
  BY <1>1, <1>3, <1>6, <1>7, <1>8 DEF PromisesMatch

LEMMA IdsDisconnect ==
  ASSUME IdsUnique, PromisesMatch, Disconnect
  PROVE  IdsUnique' /\ PromisesMatch'
  BY IdsShrink, ContentsEmpty DEF Disconnect, IdsUnique

LEMMA IdsStep ==
  ASSUME TypeOK, IsFiniteSet(Begun), SessionInv, [Next]_vars, IdsLeft'
  PROVE  IdsUnique' /\ PromisesMatch' /\ IdsCounted'
<1>0. /\ HandlerTypeOK /\ PeerTypeOK /\ CallTypeOK
      /\ QuietStart /\ IdsUnique /\ PromisesMatch /\ IdsCounted
  BY DEF TypeOK, SessionInv
<1>1. Cardinality(Begun) \in Nat /\ Cardinality(Begun') \in Nat
      /\ Cardinality(Begun) <= Cardinality(Begun')
  BY Monotone
<1>2. CASE IdsUnique' /\ PromisesMatch' /\ id' = id
  <2>1. IdsCounted'
    BY <1>0, <1>1, <1>2, IdSpaceAssumption DEF IdsCounted, HandlerTypeOK, Ids
  <2> QED
    BY <1>2, <2>1
<1>3. CASE UNCHANGED idVars
  BY <1>0, <1>2, <1>3, IdsFrame DEF idVars
<1>4. CASE Poll
  <2>1. CASE PollDrop
    <3>1. UNCHANGED <<out, in, id>> /\ requests' = <<>> /\ pending_responses' = {}
      BY <1>4, <2>1 DEF Poll, PollDrop, peerVars
    <3> QED
      BY <1>0, <1>2, <3>1, IdsShrink, ContentsEmpty DEF IdsUnique
  <2> QED
    BY <1>3, <1>4, <2>1 DEF Poll, PollRequestWritable, peerVars, idVars
<1>5. CASE OnEstablished
  <2>1. id' = id
    BY <1>0, <1>5 DEF OnEstablished, QuietStart, Quiet
  <2> QED
    BY <1>3, <1>5, <2>1 DEF OnEstablished, peerVars, idVars
<1>6. CASE QueryCredentials
  <2>1. id = 0 /\ Next_id(id) = 1
    BY <1>0, <1>6, NextIdCounts, IdSpaceAssumption DEF QueryCredentials, QuietStart, Quiet
  <2>2. [id |-> 1, call |-> Creds] \in Messages
    BY <1>0, <2>1, Next_idType DEF Messages, HandlerTypeOK
  <2>3. id' = 1 /\ requests' = Append(requests, [id |-> 1, call |-> Creds])
        /\ UNCHANGED <<out, in, pending_responses>>
    BY <1>6, <2>1 DEF QueryCredentials, peerVars
  <2>4. IdsUnique' /\ PromisesMatch'
    BY <1>0, <2>1, <2>2, <2>3, IdsAppend
  <2> QED
    BY <1>1, <2>3, <2>4 DEF IdsCounted
<1>7. CASE OnWritable
  <2>1. CASE WriteRequest
    <3>1. PICK m \in Messages : m = Head(requests)
      BY <1>0, <2>1, HeadTailProperties DEF WriteRequest, HandlerTypeOK
    <3>2. UNCHANGED <<in, id, pending_responses>>
      BY <1>7 DEF OnWritable
    <3>3. /\ m \in Contents(requests) /\ Distinct(requests')
          /\ Contents(requests') = Contents(requests) \ {m}
          /\ \A n \in Contents(requests') : n.id /= m.id
      BY <1>0, <2>1, <3>1, ContentsTail
         DEF WriteRequest, PopRequest, HandlerTypeOK, IdsUnique
    <3>4. \A n \in Contents(out) \cup Contents(in) : n.id /= m.id
      BY <1>0, <3>3 DEF IdsUnique, Apart
    <3>5. Contents(out') = Contents(out) \cup {m} /\ Distinct(out')
      BY <1>0, <2>1, <3>1, <3>4, ContentsAppend DEF WriteRequest, PeerTypeOK, IdsUnique
    <3>6. Open' = Open
      BY <3>2, <3>3, <3>5 DEF Open
    <3>7. Apart(requests, out)' /\ Apart(requests, in)' /\ Apart(out, in)'
      BY <1>0, <3>2, <3>3, <3>4, <3>5 DEF Apart, IdsUnique
    <3>8. Distinct(requests)' /\ Distinct(out)' /\ Distinct(in)'
      BY <1>0, <3>2, <3>3, <3>5 DEF Distinct, IdsUnique
    <3>9. IdsUnique' /\ PromisesMatch'
      BY <1>0, <3>2, <3>6, <3>7, <3>8 DEF IdsUnique, PromisesMatch
    <3> QED
      BY <1>2, <3>2, <3>9
  <2> QED
    BY <1>3, <1>7, <2>1 DEF OnWritable, idVars
<1>8. CASE OnReceive
  <2>1. UNCHANGED <<requests, out, id>> /\ pending_responses' \subseteq pending_responses
    BY <1>8 DEF OnReceive, Deliver, Erase
  <2>2. Contents(in') \subseteq Contents(in) /\ Distinct(in')
    BY <1>0, <1>8, ContentsTail DEF OnReceive, PeerTypeOK, IdsUnique
  <2> QED
    BY <1>0, <1>2, <2>1, <2>2, IdsShrink DEF IdsUnique
<1>9. CASE OnWritableShutdown \/ OnClosed
  BY <1>0, <1>2, <1>9, IdsDisconnect DEF OnWritableShutdown, OnClosed, Disconnect
<1>10. ASSUME NEW k \in DOMAIN out, NEW replies \in BOOLEAN, ProviderExecute(k, replies)
       PROVE  IdsUnique' /\ PromisesMatch' /\ IdsCounted'
  <2>1. PICK m \in Messages : m = out[k]
    BY <1>0 DEF PeerTypeOK
  <2>2. UNCHANGED <<requests, id, pending_responses>>
    BY <1>10 DEF ProviderExecute, handlerVars
  <2>0. m \in Contents(out)
    BY <2>1 DEF Contents
  <2>3. /\ m \in Contents(out) /\ Distinct(out')
        /\ Contents(out') = Contents(out) \ {m}
        /\ \A n \in Contents(out') : n.id /= m.id
    BY <1>0, <1>10, <2>0, <2>1, ContentsRemoveAt
       DEF ProviderExecute, PeerTypeOK, IdsUnique
  <2>4. \A n \in Contents(requests) \cup Contents(in) : n.id /= m.id
    BY <1>0, <2>3 DEF IdsUnique, Apart
  <2>5. \/ Contents(in') = Contents(in) \cup {m} /\ Distinct(in')
        \/ in' = in /\ Distinct(in')
    BY <1>0, <1>10, <2>1, <2>4, ContentsAppend DEF ProviderExecute, PeerTypeOK, IdsUnique
  <2>6. Open' \subseteq Open
    BY <2>2, <2>3, <2>5 DEF Open
  <2>7. Apart(requests, out)' /\ Apart(requests, in)' /\ Apart(out, in)'
    BY <1>0, <2>2, <2>3, <2>4, <2>5 DEF Apart, IdsUnique
  <2>8. Distinct(requests)' /\ Distinct(out)' /\ Distinct(in)'
    BY <1>0, <2>2, <2>3, <2>5 DEF Distinct, IdsUnique
  <2>9. IdsUnique' /\ PromisesMatch'
    BY <1>0, <2>2, <2>6, <2>7, <2>8 DEF IdsUnique, PromisesMatch
  <2> QED
    BY <1>2, <2>2, <2>9
<1>11. ASSUME NEW c \in Calls, PerformEnqueue(c)
       PROVE  IdsUnique' /\ PromisesMatch' /\ IdsCounted'
  <2>1. /\ id' = id + 1 /\ id \in Nat /\ id' <= Cardinality(Begun') + 1
        /\ NextIds = {[ret |-> id + 1, id |-> id + 1]}
    BY <1>0, <1>11, EnqueueTakesNextId
  <2>2. PICK m : m = [id |-> id + 1, call |-> c]
    OBVIOUS
  <2>3. m \in Messages /\ m.id = id + 1 /\ m.call = c
    BY <2>1, <2>2, NextIdsType DEF Messages
  <2>4. /\ requests' = Append(requests, m) /\ UNCHANGED <<out, in>>
        /\ pending_responses' \subseteq pending_responses \cup {m}
    BY <1>11, <2>1, <2>2 DEF PerformEnqueue, peerVars
  <2>5. IdsUnique' /\ PromisesMatch'
    BY <1>0, <2>1, <2>3, <2>4, IdsAppend
  <2> QED
    BY <2>1, <2>5 DEF IdsCounted
<1>12. CASE JoinThread
  BY <1>0, <1>2, <1>3, <1>12, IdsDisconnect
     DEF JoinThread, Disconnect, idVars, handlerVars, peerVars
<1>13. CASE \/ ServiceReturn \/ ExitLoop \/ OnEstablishedRefuse
            \/ (\E w \in Wsis : FilterConnection(w)) \/ HandshakeAborted
            \/ OnReceiveFragment \/ BeginShutdown \/ ShutdownCancel \/ UNCHANGED vars
            \/ \E c \in Calls : \/ PerformCheck(c) \/ PerformLock(c) \/ PerformCancel(c)
                                \/ PerformTimeout(c) \/ PerformReturn(c)
  <2>1. UNCHANGED idVars
    BY <1>13, Zenon DEF idVars, ServiceReturn, ExitLoop, OnEstablishedRefuse,
       FilterConnection, HandshakeAborted, OnReceiveFragment, BeginShutdown,
       ShutdownCancel, PerformCheck, PerformLock, PerformCancel, PerformTimeout,
       PerformReturn, vars, handlerVars, peerVars
  <2> QED
    BY <1>3, <2>1
<1> QED
  BY <1>4, <1>5, <1>6, <1>7, <1>8, <1>9, <1>10, <1>11, <1>12, <1>13
     DEF Next, ServiceThread, Network, Perform, Destructor, Terminated

-----------------------------------------------------------------------------
(* Responses. *)

(* The fragments of a message are put together without those of another:
   current_message is empty when the connection is established.            *)
LEMMA OneMessageStep ==
  ASSUME TypeOK, SessionInv, [Next]_vars
  PROVE  OneMessage'
<1>0. HandlerTypeOK /\ LwsTypeOK /\ QuietStart /\ OneMessage
  BY DEF TypeOK, SessionInv
<1>1. CASE UNCHANGED <<connection, current_message>>
  BY <1>0, <1>1 DEF OneMessage, Receiving
<1>2. CASE current_message' = <<>> \/ connection' = NoWsi
  BY <1>2 DEF OneMessage
<1>3. CASE OnEstablished
  BY <1>0, <1>2, <1>3 DEF OnEstablished, QuietStart, Quiet
<1>4. CASE OnReceiveFragment
  <2>1. CASE connection /= NoWsi
    <3>1. current_message = <<>>
      BY <1>0, <1>4, <2>1 DEF OnReceiveFragment, OneMessage
    <3>2. /\ current_message' = <<Fragment(Head(in))>>
          /\ UNCHANGED connection
      BY <1>4, <3>1 DEF OnReceiveFragment
    <3> QED
      BY <3>2 DEF OneMessage, Receiving, Fragment
  <2> QED
    BY <1>2, <1>4, <2>1 DEF OnReceiveFragment
<1>5. CASE OnReceive \/ OnWritableShutdown \/ OnClosed
  BY <1>2, <1>5, Zenon DEF OnReceive, OnWritableShutdown, OnClosed, Disconnect, ResetConnection
<1>6. CASE JoinThread
  BY <1>1, <1>2, <1>6, Zenon DEF JoinThread, Disconnect, ResetConnection, handlerVars
<1>7. CASE \/ Poll \/ ServiceReturn \/ ExitLoop \/ OnEstablishedRefuse \/ QueryCredentials
           \/ OnWritable \/ (\E w \in Wsis : FilterConnection(w)) \/ HandshakeAborted
           \/ (\E k \in DOMAIN out, replies \in BOOLEAN : ProviderExecute(k, replies))
           \/ BeginShutdown \/ ShutdownCancel \/ UNCHANGED vars
           \/ \E c \in Calls : Perform(c)
  <2>1. UNCHANGED <<connection, current_message>>
    BY <1>7, Zenon DEF Poll, ServiceReturn, ExitLoop, OnEstablishedRefuse,
       QueryCredentials, OnWritable, FilterConnection, HandshakeAborted,
       ProviderExecute, BeginShutdown, ShutdownCancel, Perform, PerformCheck,
       PerformLock, PerformEnqueue, PerformCancel, PerformTimeout, PerformReturn,
       vars, handlerVars
  <2> QED
    BY <1>1, <2>1
<1> QED
  BY <1>3, <1>4, <1>5, <1>6, <1>7 DEF Next, ServiceThread, Network, Destructor, Terminated

(* on_receive() parses the message that the provider sent ... *)
LEMMA ParsedIsSent ==
  ASSUME OneMessage, connection /= NoWsi, NEW m
  PROVE  Parsed(m) = {[id |-> m.id, getcreds |-> m.call = Creds, payload |-> m.call]}
  BY DEF Parsed, OneMessage, Receiving

(* ... and gives it to the call that asked for it. *)
LEMMA DeliversToOwner ==
  ASSUME TypeOK, SessionInv, OnReceive, NEW r \in Parsed(Head(in)), Deliver(r)
  PROVE  \/ UNCHANGED <<future, got>>
         \/ \E p \in pending_responses :
               /\ p.call = Head(in).call /\ Head(in) \in Contents(in)
               /\ future' = [future EXCEPT ![p.call] = IF @ = "pending" THEN "value" ELSE @]
               /\ got' = [got EXCEPT ![p.call] = p.call]
<1>1. connection /= NoWsi /\ in \in Seq(Messages) /\ in /= <<>>
  BY DEF OnReceive, TypeOK, PeerTypeOK
<1>2. r.id = Head(in).id /\ r.payload = Head(in).call
  BY <1>1, ParsedIsSent DEF SessionInv
<1>3. Head(in) \in Contents(in)
  BY <1>1, ContentsTail DEF SessionInv, IdsUnique
<1>4. \A p \in Find(r.id) : p \in pending_responses /\ p.call = Head(in).call
  BY <1>2, <1>3 DEF Find, SessionInv, PromisesMatch, Open
<1> QED
  BY <1>2, <1>3, <1>4 DEF Deliver

LEMMA OwnResponseStep ==
  ASSUME TypeOK, SessionInv, [Next]_vars
  PROVE  OwnResponse'
<1>0. HandlerTypeOK /\ CallTypeOK /\ OwnResponse
  BY DEF TypeOK, SessionInv
<1>1. CASE UNCHANGED got /\ \A c \in Calls : future'[c] = "value" => future[c] = "value"
  BY <1>0, <1>1 DEF OwnResponse
<1>2. ASSUME NEW cs, Break(cs), UNCHANGED got PROVE OwnResponse'
  BY <1>1, <1>2 DEF Break
<1>3. CASE OnReceive
  <2>1. ASSUME NEW p \in pending_responses,
               future' = [future EXCEPT ![p.call] = IF @ = "pending" THEN "value" ELSE @],
               got' = [got EXCEPT ![p.call] = p.call]
        PROVE  OwnResponse'
    BY <1>0, <2>1 DEF OwnResponse, HandlerTypeOK, CallTypeOK
  <2>2. CASE UNCHANGED <<future, got>>
    BY <1>1, <2>2
  <2>3. \/ UNCHANGED <<future, got>>
        \/ \E r \in Parsed(Head(in)) : Deliver(r)
    BY <1>3, Zenon DEF OnReceive
  <2> QED
    BY <1>3, <2>1, <2>2, <2>3, DeliversToOwner
<1>4. CASE Poll
  BY <1>1, <1>2, <1>4 DEF Poll, PollRequestWritable, PollDrop
<1>5. ASSUME NEW c \in Calls, PerformEnqueue(c) PROVE OwnResponse'
  BY <1>1, <1>2, <1>5 DEF PerformEnqueue
<1>6. ASSUME NEW c \in Calls, PerformCheck(c) \/ PerformTimeout(c) PROVE OwnResponse'
  BY <1>0, <1>1, <1>6 DEF PerformCheck, PerformTimeout, CallTypeOK
<1>7. CASE \/ ServiceReturn \/ ExitLoop \/ OnEstablished \/ OnEstablishedRefuse
           \/ QueryCredentials \/ OnWritable \/ OnWritableShutdown \/ Network
           \/ Destructor \/ UNCHANGED vars
           \/ \E c \in Calls : PerformLock(c) \/ PerformCancel(c) \/ PerformReturn(c)
  <2>1. UNCHANGED <<future, got>>
    BY <1>7, Zenon DEF ServiceReturn, ExitLoop, OnEstablished, OnEstablishedRefuse,
       QueryCredentials, OnWritable, OnWritableShutdown, Network, FilterConnection,
       HandshakeAborted, OnClosed, Disconnect, OnReceiveFragment, ProviderExecute,
       Destructor, BeginShutdown, ShutdownCancel, JoinThread, PerformLock,
       PerformCancel, PerformReturn, vars, callVars
  <2> QED
    BY <1>1, <2>1
<1> QED
  BY <1>3, <1>4, <1>5, <1>6, <1>7 DEF Next, ServiceThread, Perform, Terminated

(* While there was one attempt to connect and ids are left, LoginInv keeps
   the session in order.                                                   *)
LEMMA LoginHolds ==
  ASSUME LoginRequired
  PROVE  Spec => []LoginInv
<1>1. Init => LoginInv
  <2> SUFFICES ASSUME Init PROVE SessionInv
    BY DEF LoginInv
  <2>1. QuietStart
    BY DEF Init, QuietStart, Quiet
  <2>2. Open = {} /\ requests = <<>> /\ out = <<>> /\ in = <<>>
    BY ContentsEmpty DEF Init, Open
  <2>3. IdsUnique
    BY <2>2, ContentsEmpty DEF IdsUnique, Apart
  <2>4. PromisesMatch /\ OneMessage /\ OwnResponse
    BY <2>2 DEF Init, PromisesMatch, OneMessage, OwnResponse
  <2>5. IdsCounted
    <3>1. Begun = {} /\ id = 0
      BY DEF Init, Begun
    <3>2. Cardinality(Begun) = 0
      BY <3>1, FS_EmptySet
    <3> QED
      BY <3>1, <3>2 DEF IdsCounted
  <2> QED
    BY <2>1, <2>3, <2>4, <2>5 DEF SessionInv
<1>2. TypeOK /\ IsFiniteSet(Begun) /\ LoginInv /\ [Next]_vars => LoginInv'
  <2> SUFFICES ASSUME TypeOK, IsFiniteSet(Begun), LoginInv, [Next]_vars,
                      OneAttempt', IdsLeft'
               PROVE  SessionInv'
    BY DEF LoginInv
  <2>1. SessionInv
    BY Monotone DEF LoginInv
  <2>2. QuietStart'
    BY <2>1, QuietStep DEF SessionInv
  <2>3. IdsUnique' /\ PromisesMatch' /\ IdsCounted' /\ OneMessage' /\ OwnResponse'
    BY <2>1, IdsStep, OneMessageStep, OwnResponseStep
  <2> QED
    BY <2>2, <2>3 DEF SessionInv
<1> QED
  BY <1>1, <1>2, TypeCorrect, BegunFinite, PTL DEF Spec

(* A provider that logs in is the only one that answers, and every call of
   its session gets the response to its own request, in whatever order the
   provider answers, however messages are fragmented, and also after calls
   timed out or the connection is lost.  next_id() must not have wrapped:
   the code has 2^32 ids.                                                  *)
THEOREM OwnResponseTheorem ==
  ASSUME LoginRequired
  PROVE  Spec => [](OneAttempt /\ IdsLeft => OwnResponse)
<1>1. LoginInv => (OneAttempt /\ IdsLeft => OwnResponse)
  BY DEF LoginInv, SessionInv
<1> QED
  BY <1>1, LoginHolds, PTL

LEMMA ConcatDistinct ==
  ASSUME NEW s \in Seq(Messages), NEW t \in Seq(Messages),
         Distinct(s), Distinct(t), Apart(s, t)
  PROVE  /\ Distinct(s \o t) /\ s \o t \in Seq(Messages)
         /\ Contents(s \o t) \subseteq Contents(s) \cup Contents(t)
<1>1. /\ Len(s) \in Nat /\ Len(t) \in Nat /\ s \o t \in Seq(Messages)
      /\ DOMAIN s = 1 .. Len(s) /\ DOMAIN t = 1 .. Len(t)
      /\ DOMAIN (s \o t) = 1 .. Len(s) + Len(t)
      /\ \A k \in 1 .. Len(s) + Len(t) :
            (s \o t)[k] = IF k <= Len(s) THEN s[k] ELSE t[k - Len(s)]
  BY ConcatProperties
<1>2. \A k \in DOMAIN (s \o t) :
         \/ k <= Len(s) /\ k \in DOMAIN s /\ (s \o t)[k] = s[k]
         \/ k > Len(s) /\ k - Len(s) \in DOMAIN t /\ (s \o t)[k] = t[k - Len(s)]
  BY <1>1
<1>3. \A j \in DOMAIN s, k \in DOMAIN t : s[j].id /= t[k].id
  BY DEF Apart, Contents
<1>4. Distinct(s \o t)
  BY <1>1, <1>2, <1>3 DEF Distinct
<1>5. Contents(s \o t) \subseteq Contents(s) \cup Contents(t)
  BY <1>2 DEF Contents
<1> QED
  BY <1>1, <1>4, <1>5

(* ... because no id is used for two messages that are under way, whatever
   calls and the service thread do at the same time: next_id() runs under
   `mut', and `id = 0' runs before the first id is handed out.             *)
THEOREM UniqueIdsTheorem ==
  ASSUME LoginRequired
  PROVE  Spec => [](OneAttempt /\ IdsLeft => UniqueIds)
<1>1. TypeOK /\ LoginInv => (OneAttempt /\ IdsLeft => UniqueIds)
  <2> SUFFICES ASSUME TypeOK, IdsUnique PROVE UniqueIds
    BY DEF LoginInv, SessionInv
  <2>1. requests \in Seq(Messages) /\ out \in Seq(Messages) /\ in \in Seq(Messages)
    BY DEF TypeOK, HandlerTypeOK, PeerTypeOK
  <2>2. /\ Distinct(requests \o out) /\ requests \o out \in Seq(Messages)
        /\ Contents(requests \o out) \subseteq Contents(requests) \cup Contents(out)
    BY <2>1, ConcatDistinct DEF IdsUnique
  <2>3. Apart(requests \o out, in)
    BY <2>2 DEF Apart, IdsUnique
  <2>4. Distinct((requests \o out) \o in)
    BY <2>1, <2>2, <2>3, ConcatDistinct DEF IdsUnique
  <2> QED
    BY <2>4 DEF UniqueIds, Distinct
<1> QED
  BY <1>1, LoginHolds, TypeCorrect, PTL

-----------------------------------------------------------------------------
(* One provider connects, once. *)
OneProvider == \A v, w \in Wsis : v = w

LEMMA OneAttemptOnly ==
  ASSUME OneProvider, TypeOK
  PROVE  OneAttempt
  BY DEF OneProvider, OneAttempt, TypeOK, LwsTypeOK

-----------------------------------------------------------------------------
(***************************************************************************)
(* perform() implements Rpc.  What the refinement needs beyond the session *)
(* invariant: a future exists as soon as a call has begun, and a response  *)
(* is a sign that the request was executed.                                *)
(***************************************************************************)
RpcInv == \A c \in Calls :
    /\ pc[c] = "idle" <=> future[c] = "none"
    /\ HasCall(in, c) \/ future[c] = "value" => executed[c] = 1

(* The ids suffice for all calls. *)
EnoughIds == IsFiniteSet(Calls) /\ Cardinality(Calls) + 1 < IdSpace

LEMMA SessionHolds ==
  ASSUME LoginRequired, OneProvider, EnoughIds
  PROVE  Spec => []SessionInv
<1>1. TypeOK /\ LoginInv => SessionInv
  <2> SUFFICES ASSUME TypeOK, LoginInv PROVE SessionInv
    OBVIOUS
  <2>1. /\ Cardinality(Calls) \in Nat /\ Cardinality(Begun) \in Nat
        /\ Cardinality(Begun) <= Cardinality(Calls)
    BY FS_Subset, FS_CardinalityType DEF Begun, EnoughIds
  <2>2. IdsLeft
    BY <2>1, IdSpaceAssumption DEF IdsLeft, EnoughIds
  <2> QED
    BY <2>2, OneAttemptOnly DEF LoginInv
<1> QED
  BY <1>1, LoginHolds, TypeCorrect, PTL

rpcVars == <<pc, future, in, executed>>

LEMMA RpcFrame ==
  ASSUME RpcInv, UNCHANGED rpcVars
  PROVE  RpcInv'
  BY DEF RpcInv, HasCall, rpcVars

LEMMA RpcDisconnect ==
  ASSUME RpcInv, Disconnect
  PROVE  RpcInv'
  BY DEF RpcInv, HasCall, Disconnect, callVars

(* Promises that break, and calls that go on. *)
LEMMA RpcFails ==
  ASSUME CallTypeOK, RpcInv, UNCHANGED <<in, executed>>,
         \A c \in Calls : /\ pc'[c] = "idle" <=> pc[c] = "idle"
                          /\ \/ future'[c] = future[c]
                             \/ future[c] = "pending" /\ future'[c] \in Failures
  PROVE  RpcInv'
  BY DEF RpcInv, HasCall, Failures

LEMMA RpcStep ==
  ASSUME TypeOK, SessionInv, OnceInv, RpcInv, [Next]_vars
  PROVE  RpcInv'
<1>0. HandlerTypeOK /\ PeerTypeOK /\ CallTypeOK
  BY DEF TypeOK
<1>1. CASE UNCHANGED rpcVars
  BY <1>1, RpcFrame
<1>2. CASE Poll
  <2>1. CASE PollDrop
    <3>1. UNCHANGED <<pc, in, executed>>
      BY <1>2 DEF Poll, peerVars
    <3>2. \A c \in Calls : \/ future'[c] = future[c]
                           \/ future[c] = "pending" /\ future'[c] \in Failures
      BY <2>1 DEF PollDrop, Break, Failures
    <3> QED
      BY <1>0, <3>1, <3>2, RpcFails
  <2> QED
    BY <1>1, <1>2, <2>1 DEF Poll, PollRequestWritable, peerVars, rpcVars
<1>3. CASE OnReceive
  <2>1. UNCHANGED <<pc, executed>>
    BY <1>3 DEF OnReceive
  <2>2. \A c \in Calls : /\ HasCall(in', c) => HasCall(in, c)
                         /\ Head(in).call = c => HasCall(in, c)
    BY <1>0, <1>3, HasCallTail DEF OnReceive, PeerTypeOK
  <2>3. CASE UNCHANGED <<future, got>>
    BY <2>1, <2>2, <2>3 DEF RpcInv
  <2>4. ASSUME NEW p \in pending_responses, p.call = Head(in).call,
               future' = [future EXCEPT ![p.call] = IF @ = "pending" THEN "value" ELSE @]
        PROVE  RpcInv'
    BY <1>0, <2>1, <2>2, <2>4 DEF RpcInv, CallTypeOK, HandlerTypeOK
  <2>5. \/ UNCHANGED <<future, got>>
        \/ \E r \in Parsed(Head(in)) : Deliver(r)
    BY <1>3, Zenon DEF OnReceive
  <2> QED
    BY <1>3, <2>3, <2>4, <2>5, DeliversToOwner
<1>4. CASE OnWritableShutdown \/ OnClosed
  BY <1>4, RpcDisconnect DEF OnWritableShutdown, OnClosed
<1>5. ASSUME NEW k \in DOMAIN out, NEW replies \in BOOLEAN, ProviderExecute(k, replies)
      PROVE  RpcInv'
  <2>1. out[k] \in Messages /\ UNCHANGED <<pc, future>>
    BY <1>0, <1>5 DEF PeerTypeOK, ProviderExecute, callVars
  <2>2. \A c \in Calls : HasCall(in', c) => HasCall(in, c) \/ out[k].call = c
    BY <1>0, <1>5, <2>1, HasCallAppend DEF ProviderExecute, PeerTypeOK
  <2>3. \A c \in Calls : /\ out[k].call = c => executed'[c] = 1
                         /\ out[k].call /= c => executed'[c] = executed[c]
    BY <1>0, <1>5 DEF ProviderExecute, PeerTypeOK, OnceInv, HasCall
  <2>4. \A c \in Calls : executed[c] = 1 => executed'[c] = 1
    BY <2>3 DEF OnceInv, HasCall
  <2> QED
    BY <2>1, <2>2, <2>3, <2>4 DEF RpcInv
<1>6. ASSUME NEW c \in Calls, PerformCheck(c) PROVE RpcInv'
  <2>1. /\ UNCHANGED <<in, executed>>
        /\ \A d \in Calls : d /= c => pc'[d] = pc[d] /\ future'[d] = future[d]
        /\ pc'[c] \in {"checked", "cancel"} /\ future'[c] \in {"pending", "unauthenticated"}
    BY <1>0, <1>6 DEF PerformCheck, peerVars, CallTypeOK
  <2> QED
    BY <2>1 DEF RpcInv, HasCall
<1>7. ASSUME NEW c \in Calls, PerformEnqueue(c) PROVE RpcInv'
  <2>1. UNCHANGED <<in, executed>> /\ \A d \in Calls : pc'[d] = "idle" <=> pc[d] = "idle"
    BY <1>0, <1>7 DEF PerformEnqueue, peerVars, CallTypeOK
  <2>2. future' = future \/ Break({c})
    BY <1>7 DEF PerformEnqueue
  <2>3. \A d \in Calls : \/ future'[d] = future[d]
                         \/ future[d] = "pending" /\ future'[d] \in Failures
    BY <2>2 DEF Break, Failures
  <2> QED
    BY <1>0, <2>1, <2>3, RpcFails
<1>8. ASSUME NEW c \in Calls,
             PerformLock(c) \/ PerformCancel(c) \/ PerformTimeout(c) \/ PerformReturn(c)
      PROVE  RpcInv'
  <2>1. UNCHANGED <<in, executed>> /\ \A d \in Calls : pc'[d] = "idle" <=> pc[d] = "idle"
    BY <1>0, <1>8 DEF PerformLock, PerformCancel, PerformTimeout, PerformReturn, peerVars, CallTypeOK
  <2>2. \A d \in Calls : \/ future'[d] = future[d]
                         \/ future[d] = "pending" /\ future'[d] \in Failures
    BY <1>0, <1>8 DEF PerformLock, PerformCancel, PerformTimeout, PerformReturn, Failures, CallTypeOK
  <2> QED
    BY <1>0, <2>1, <2>2, RpcFails
<1>9. CASE JoinThread
  BY <1>1, <1>9, RpcDisconnect DEF JoinThread, rpcVars, peerVars, callVars
<1>10. CASE \/ ServiceReturn \/ ExitLoop \/ OnEstablished \/ OnEstablishedRefuse
            \/ QueryCredentials \/ OnWritable \/ (\E w \in Wsis : FilterConnection(w))
            \/ HandshakeAborted \/ OnReceiveFragment \/ BeginShutdown \/ ShutdownCancel
            \/ UNCHANGED vars
  <2>1. UNCHANGED rpcVars
    BY <1>10, Zenon DEF rpcVars, ServiceReturn, ExitLoop, OnEstablished,
       OnEstablishedRefuse, QueryCredentials, OnWritable, FilterConnection,
       HandshakeAborted, OnReceiveFragment, BeginShutdown, ShutdownCancel,
       vars, peerVars, callVars
  <2> QED
    BY <1>1, <2>1
<1> QED
  BY <1>2, <1>3, <1>4, <1>5, <1>6, <1>7, <1>8, <1>9, <1>10
     DEF Next, ServiceThread, Network, Perform, Destructor, Terminated

(* The state of a call, as Rpc names it, is the state of its future. *)
StatusOK == \A c \in Calls :
    /\ Status(c) = "new"      <=> future[c] = "none"
    /\ Status(c) = "open"     <=> future[c] = "pending"
    /\ Status(c) = "answered" <=> future[c] = "value"
    /\ Status(c) = "failed"   <=> future[c] \in Failures
    /\ Status(c) \in {"new", "open", "answered", "failed"}

LEMMA StatusIs ==
  ASSUME CallTypeOK, RpcInv, OwnResponse
  PROVE  StatusOK
<1> SUFFICES ASSUME NEW c \in Calls
             PROVE  /\ Status(c) = "new"      <=> future[c] = "none"
                    /\ Status(c) = "open"     <=> future[c] = "pending"
                    /\ Status(c) = "answered" <=> future[c] = "value"
                    /\ Status(c) = "failed"   <=> future[c] \in Failures
                    /\ Status(c) \in {"new", "open", "answered", "failed"}
  BY DEF StatusOK
<1>1. /\ future[c] \in {"none", "pending", "value"} \cup Failures
      /\ pc[c] = "idle" <=> future[c] = "none"
      /\ future[c] = "value" => got[c] = c
  BY DEF CallTypeOK, RpcInv, OwnResponse
<1>2. CASE future[c] = "none"
  BY <1>1, <1>2 DEF Status, Failures
<1>3. CASE future[c] = "pending"
  BY <1>1, <1>3 DEF Status, Failures
<1>4. CASE future[c] = "value"
  BY <1>1, <1>4 DEF Status, Failures
<1>5. CASE future[c] \in Failures
  BY <1>1, <1>5 DEF Status, Failures
<1> QED
  BY <1>1, <1>2, <1>3, <1>4, <1>5

status == [c \in Calls |-> Status(c)]

(* A step that changes no future and executes nothing does not concern Rpc. *)
LEMMA StatusFrame ==
  ASSUME StatusOK, StatusOK', UNCHANGED <<future, executed>>
  PROVE  UNCHANGED Abstract!vars
<1>1. \A c \in Calls : Status(c)' = Status(c)
  BY DEF StatusOK
<1>2. UNCHANGED status
  BY <1>1 DEF status
<1> QED
  BY <1>2 DEF Abstract!vars, status

(* Promises that break fail their calls, together. *)
LEMMA StatusFails ==
  ASSUME StatusOK, StatusOK', UNCHANGED executed,
         NEW cs \in SUBSET Calls, \A c \in cs : future[c] = "pending",
         \A c \in Calls : IF c \in cs THEN future'[c] \in Failures
                                      ELSE future'[c] = future[c]
  PROVE  [Abstract!Next]_(Abstract!vars)
<1>1. \A c \in Calls : Status(c)' = IF c \in cs THEN "failed" ELSE Status(c)
  BY DEF StatusOK
<1>2. \A c \in cs : Status(c) = "open"
  BY DEF StatusOK
<1>3. CASE cs = {}
  <2>1. UNCHANGED status
    BY <1>1, <1>3 DEF status
  <2> QED
    BY <2>1 DEF Abstract!vars, status
<1>4. CASE cs /= {}
  <2>1. status' = [c \in Calls |-> IF c \in cs THEN "failed" ELSE status[c]]
    BY <1>1 DEF status
  <2>2. \A c \in cs : status[c] = "open"
    BY <1>2 DEF status
  <2>3. Abstract!Fail(cs)
    BY <1>4, <2>1, <2>2 DEF Abstract!Fail, status
  <2>4. PICK c \in cs : TRUE
    BY <1>4
  <2>5. Abstract!Finish(c)
    BY <2>3, <2>4 DEF Abstract!Finish
  <2> QED
    BY <2>4, <2>5 DEF Abstract!Next
<1> QED
  BY <1>3, <1>4

(* Every step of the server is a step of Rpc, or none. *)
LEMMA Simulates ==
  ASSUME TypeOK, SessionInv, PromiseInv, OnceInv, RpcInv, StatusOK, StatusOK', [Next]_vars
  PROVE  [Abstract!Next]_(Abstract!vars)
<1>0. HandlerTypeOK /\ PeerTypeOK /\ CallTypeOK
  BY DEF TypeOK
<1>1. CASE UNCHANGED <<future, executed>>
  BY <1>1, StatusFrame
<1>2. CASE Poll
  <2>1. CASE PollDrop
    <3>1. PICK cs \in SUBSET Calls :
             cs = {c \in Calls : future[c] = "pending" /\ \E p \in pending_responses : p.call = c}
      OBVIOUS
    <3>2. \A c \in Calls : IF c \in cs THEN future'[c] \in Failures
                                       ELSE future'[c] = future[c]
      BY <2>1, <3>1 DEF PollDrop, Break, Failures
    <3>3. UNCHANGED executed
      BY <1>2 DEF Poll, peerVars
    <3> QED
      BY <3>1, <3>2, <3>3, StatusFails
  <2> QED
    BY <1>1, <1>2, <2>1 DEF Poll, PollRequestWritable, peerVars
<1>3. CASE OnReceive
  <2>1. UNCHANGED executed
    BY <1>3 DEF OnReceive
  <2>2. ASSUME NEW p \in pending_responses, p.call = Head(in).call,
               future' = [future EXCEPT ![p.call] = IF @ = "pending" THEN "value" ELSE @]
        PROVE  [Abstract!Next]_(Abstract!vars)
    <3>1. p.call \in Calls /\ HasCall(in, p.call)
      BY <1>0, <1>3, <2>2, HasCallTail DEF OnReceive, HandlerTypeOK, PeerTypeOK
    <3>2. CASE future[p.call] = "pending"
      <4>1. \A c \in Calls : Status(c)' = IF c = p.call THEN "answered" ELSE Status(c)
        BY <1>0, <2>2, <3>1, <3>2 DEF StatusOK, CallTypeOK
      <4>2. status' = [status EXCEPT ![p.call] = "answered"] /\ status[p.call] = "open"
        BY <3>1, <3>2, <4>1 DEF status, StatusOK
      <4>3. Abstract!Answer(p.call)
        BY <2>1, <3>1, <4>2 DEF Abstract!Answer, RpcInv, status
      <4> QED
        BY <3>1, <4>3 DEF Abstract!Next, Abstract!Finish
    <3>3. CASE future[p.call] /= "pending"
      <4>1. future' = future
        BY <1>0, <2>2, <3>1, <3>3 DEF CallTypeOK
      <4> QED
        BY <1>1, <2>1, <4>1
    <3> QED
      BY <3>2, <3>3
  <2>3. \/ UNCHANGED <<future, got>>
        \/ \E r \in Parsed(Head(in)) : Deliver(r)
    BY <1>3, Zenon DEF OnReceive
  <2> QED
    BY <1>1, <1>3, <2>1, <2>2, <2>3, DeliversToOwner
<1>4. ASSUME NEW k \in DOMAIN out, NEW replies \in BOOLEAN, ProviderExecute(k, replies)
      PROVE  [Abstract!Next]_(Abstract!vars)
  <2>1. /\ out[k].call \in Calls \cup {Creds} /\ UNCHANGED future
        /\ executed' = [c \in Calls |-> executed[c] + (IF out[k].call = c THEN 1 ELSE 0)]
    <3>1. out[k] \in Messages
      BY <1>0 DEF PeerTypeOK
    <3>2. out[k].call \in Calls \cup {Creds}
      BY <3>1 DEF Messages
    <3> QED
      BY <1>4, <3>2 DEF ProviderExecute, callVars
  <2>2. CASE out[k].call = Creds
    <3>1. \A c \in Calls : executed'[c] = executed[c]
      BY <1>0, <2>1, <2>2, CallsAssumption DEF PeerTypeOK
    <3>2. executed' = executed
      BY <1>0, <2>1, <3>1 DEF PeerTypeOK
    <3> QED
      BY <1>1, <2>1, <3>2
  <2>3. ASSUME NEW c \in Calls, out[k].call = c PROVE [Abstract!Next]_(Abstract!vars)
    <3>1. HasCall(out, c)
      BY <2>3 DEF HasCall
    <3>2. executed[c] = 0
      BY <1>0, <3>1 DEF OnceInv, PeerTypeOK
    <3>3. pc[c] /= "idle" /\ future[c] /= "none" /\ future[c] /= "value"
      BY <3>1, <3>2 DEF OnceInv, RpcInv
    <3>4. Status(c) \in {"open", "failed"}
      BY <3>3 DEF StatusOK
    <3>5. executed' = [executed EXCEPT ![c] = 1]
      <4>1. \A d \in Calls : executed'[d] = IF d = c THEN 1 ELSE executed[d]
        BY <1>0, <2>1, <2>3, <3>2 DEF PeerTypeOK
      <4> QED
        BY <1>0, <2>1, <4>1 DEF PeerTypeOK
    <3>6. UNCHANGED status
      <4>1. \A d \in Calls : Status(d)' = Status(d)
        BY <2>1 DEF StatusOK
      <4> QED
        BY <4>1 DEF status
    <3>7. Abstract!Execute(c)
      BY <3>2, <3>4, <3>5, <3>6 DEF Abstract!Execute, status
    <3> QED
      BY <3>7 DEF Abstract!Next
  <2> QED
    BY <2>1, <2>2, <2>3
<1>5. ASSUME NEW c \in Calls, PerformCheck(c) PROVE [Abstract!Next]_(Abstract!vars)
  <2>1. /\ UNCHANGED executed /\ pc[c] = "idle" /\ future'[c] \in {"pending", "unauthenticated"}
        /\ \A d \in Calls : d /= c => future'[d] = future[d]
    BY <1>0, <1>5 DEF PerformCheck, peerVars, CallTypeOK
  <2>2. PICK v \in {"open", "failed"} :
           \A d \in Calls : Status(d)' = IF d = c THEN v ELSE Status(d)
    BY <2>1 DEF StatusOK, Failures
  <2>3. status[c] = "new" /\ status' = [status EXCEPT ![c] = v]
    BY <2>1, <2>2 DEF status, StatusOK, RpcInv
  <2>4. Abstract!Begin(c) \/ Abstract!Reject(c)
    BY <2>1, <2>2, <2>3 DEF Abstract!Begin, Abstract!Reject, status
  <2> QED
    BY <2>4 DEF Abstract!Next
<1>6. ASSUME NEW c \in Calls, PerformEnqueue(c) PROVE [Abstract!Next]_(Abstract!vars)
  <2>1. UNCHANGED executed /\ (future' = future \/ Break({c})) /\ future[c] = "pending"
    BY <1>6 DEF PerformEnqueue, peerVars, PromiseInv
  <2>2. CASE Break({c})
    <3>1. \A d \in Calls : IF d \in {c} THEN future'[d] \in Failures
                                        ELSE future'[d] = future[d]
      BY <2>1, <2>2 DEF Break, Failures
    <3> QED
      BY <2>1, <3>1, StatusFails
  <2> QED
    BY <1>1, <2>1, <2>2
<1>7. ASSUME NEW c \in Calls, PerformTimeout(c) PROVE [Abstract!Next]_(Abstract!vars)
  <2>1. /\ UNCHANGED executed /\ future[c] = "pending"
        /\ \A d \in Calls : IF d \in {c} THEN future'[d] \in Failures
                                         ELSE future'[d] = future[d]
    BY <1>0, <1>7 DEF PerformTimeout, peerVars, Failures, CallTypeOK
  <2> QED
    BY <2>1, StatusFails
<1>8. CASE \/ ServiceReturn \/ ExitLoop \/ OnEstablished \/ OnEstablishedRefuse
           \/ QueryCredentials \/ OnWritable \/ OnWritableShutdown
           \/ (\E w \in Wsis : FilterConnection(w)) \/ HandshakeAborted \/ OnClosed
           \/ OnReceiveFragment \/ Destructor \/ UNCHANGED vars
           \/ \E c \in Calls : PerformLock(c) \/ PerformCancel(c) \/ PerformReturn(c)
  <2>1. UNCHANGED <<future, executed>>
    BY <1>8, Zenon DEF ServiceReturn, ExitLoop, OnEstablished, OnEstablishedRefuse,
       QueryCredentials, OnWritable, OnWritableShutdown, FilterConnection,
       HandshakeAborted, OnClosed, Disconnect, OnReceiveFragment,
       Destructor, BeginShutdown, ShutdownCancel, JoinThread, PerformLock,
       PerformCancel, PerformReturn, vars, peerVars, callVars
  <2> QED
    BY <1>1, <2>1
<1> QED
  BY <1>2, <1>3, <1>4, <1>5, <1>6, <1>7, <1>8
     DEF Next, ServiceThread, Network, Perform, Terminated

(* perform() is a remote call with at-most-once execution: with one provider
   that logs in and ids for all calls, every step of threads, callbacks,
   network and provider is, for the callers, a step of Rpc.  (That an open
   call ends, the fairness of Rpc, is checked by the run of ImplementsRpc.) *)
THEOREM RpcTheorem ==
  ASSUME LoginRequired, OneProvider, EnoughIds
  PROVE  Spec => Abstract!Init /\ [][Abstract!Next]_(Abstract!vars)
<1>1. Init => RpcInv /\ Abstract!Init
  <2> SUFFICES ASSUME Init PROVE RpcInv /\ Abstract!Init
    OBVIOUS
  <2>1. \A c : ~HasCall(<<>>, c)
    BY DEF HasCall
  <2>2. RpcInv
    BY <2>1 DEF Init, RpcInv
  <2>3. \A c \in Calls : Status(c) = "new"
    <3>1. \A c \in Calls : pc[c] = "idle" /\ future[c] = "none"
      BY DEF Init
    <3> QED
      BY <3>1 DEF Status, Failures
  <2>4. executed = [c \in Calls |-> 0]
    BY DEF Init
  <2> QED
    BY <2>2, <2>3, <2>4 DEF Abstract!Init
<1>2. TypeOK /\ SessionInv /\ OnceInv /\ RpcInv /\ [Next]_vars => RpcInv'
  BY RpcStep
<1>3. TypeOK /\ SessionInv /\ RpcInv => StatusOK
  BY StatusIs DEF TypeOK, SessionInv
<1>4. TypeOK /\ SessionInv /\ PromiseInv /\ OnceInv /\ RpcInv /\ StatusOK /\ StatusOK' /\ [Next]_vars
         => [Abstract!Next]_(Abstract!vars)
  BY Simulates
<1> QED
  BY <1>1, <1>2, <1>3, <1>4, SessionHolds, PromiseHolds, OnceHolds, TypeCorrect, PTL DEF Spec
=============================================================================
