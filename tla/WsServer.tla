------------------------------ MODULE WsServer ------------------------------
(***************************************************************************)
(* The webfuse service's RPC engine: class server_handler                  *)
(* (ws/server_handler.cpp) and class ws_server (ws/server.cpp).            *)
(*                                                                         *)
(* Two kinds of threads share one server_handler:                          *)
(*   - the service thread, which runs poll() and lws_service() in a loop   *)
(*     and, inside lws_service(), the libwebsockets callbacks;             *)
(*   - the FUSE threads, each of which runs ws_server::perform() for one   *)
(*     request and blocks on a future until the answer or a timeout.       *)
(* `mut' protects the queue, the pending promises and next_id(), but not   *)
(* the `id = 0' of on_established() and not the test of is_authenticated   *)
(* in perform(): those interleave with the critical sections.              *)
(***************************************************************************)
EXTENDS Naturals, Sequences

CONSTANTS
    Calls,          \* invocations of ws_server::perform
    Wsis,           \* connection attempts of providers (struct lws *)
    IdSpace,        \* number of message ids, 2^32 in the code
    Authenticator,  \* is an authenticator configured?
    AuthHeader,     \* is an HTTP header for authentication configured?
    Fragmented,     \* may a response arrive in several fragments?
    Reliable,       \* does the provider answer every request, in order?
    Creds,          \* the getcreds request, which no call makes
    NoCall, NoWsi,  \* "none"
    Garbled         \* a payload that is no response to any request

ASSUME IdSpaceAssumption == IdSpace \in Nat /\ IdSpace > 1
ASSUME ConfigAssumption ==
    /\ Authenticator \in BOOLEAN /\ AuthHeader \in BOOLEAN
    /\ Fragmented \in BOOLEAN /\ Reliable \in BOOLEAN
ASSUME CallsAssumption == /\ Creds \notin Calls
                          /\ NoCall \notin Calls \cup {Creds}
                          /\ Garbled \notin Calls \cup {NoCall}
ASSUME WsisAssumption == NoWsi \notin Wsis

VARIABLES
    \* members of server_handler
    connection,         \* the established connection, or NoWsi
    id,                 \* the last id handed out
    is_authenticated,
    shutdown_requested, \* close the connection at the next on_writable
    current_message,    \* fragments received so far
    requests,           \* messages waiting to be written
    pending_responses,  \* the promises stored, as pairs of id and call
    mutex,              \* the call that holds `mut', or NoCall
    raced,              \* `id = 0' ran while a call holds `mut'
    \* libwebsockets and the service thread
    lws,                \* where the service thread is
    attempt,            \* the connection between filter and established
    used,               \* connection attempts made so far
    writable,           \* a writable callback has been requested
    wake,               \* lws_service() is going to return
    \* the provider and the connection to it
    out,                \* requests written to the provider, unanswered
    in,                 \* responses on their way to the service
    executed,           \* how often the provider has executed a call's request
    \* callers of ws_server::perform
    pc, future, got,
    dtor,               \* progress of ~detail
    \* history: where a request was written, and the login of a session
    sent_on, login

handlerVars == <<connection, id, is_authenticated, shutdown_requested,
                 current_message, requests, pending_responses, mutex, raced>>
lwsVars     == <<lws, attempt, used, writable, wake>>
peerVars    == <<out, in, executed>>
callVars    == <<pc, future, got>>
vars == <<handlerVars, lwsVars, peerVars, callVars, dtor, sent_on, login>>

-----------------------------------------------------------------------------
Ids       == 0 .. IdSpace - 1
Messages  == [id : Ids, call : Calls \cup {Creds}]
Fragments == [id : Ids, call : Calls \cup {Creds}, wsi : Wsis]
Failures  == {"timeout", "unauthenticated", "broken_promise"}

FlagsTypeOK ==
    /\ is_authenticated \in BOOLEAN
    /\ shutdown_requested \in BOOLEAN
    /\ raced \in BOOLEAN
    /\ writable \in BOOLEAN
    /\ wake \in BOOLEAN

HandlerTypeOK ==
    /\ connection \in Wsis \cup {NoWsi}
    /\ id \in Ids
    /\ current_message \in Seq(Fragments)
    /\ requests \in Seq(Messages)
    /\ pending_responses \in SUBSET [id : Ids, call : Calls]
    /\ mutex \in Calls \cup {NoCall}

LwsTypeOK ==
    /\ lws \in {"poll", "service", "handshake", "creds", "exited"}
    /\ attempt \in Wsis \cup {NoWsi}
    /\ lws = "handshake" => attempt \in Wsis
    /\ used \in SUBSET Wsis

PeerTypeOK ==
    /\ out \in Seq(Messages)
    /\ in \in Seq(Messages)
    /\ executed \in [Calls -> Nat]
    /\ connection = NoWsi => out = <<>> /\ in = <<>>

CallTypeOK ==
    /\ pc \in [Calls -> {"idle", "checked", "locked", "cancel", "waiting", "returned"}]
    /\ future \in [Calls -> {"none", "pending", "value"} \cup Failures]
    /\ got \in [Calls -> Calls \cup {Creds, NoCall, Garbled}]
    /\ dtor \in {"none", "flagged", "joining", "done"}
    /\ sent_on \in [Calls -> Wsis \cup {NoWsi}]
    /\ login \in {"none", "due", "asked"}

(* Ids stay within the id space and every member has its declared type; a
   handshake has an attempt, and only an open connection carries messages. *)
TypeOK == FlagsTypeOK /\ HandlerTypeOK /\ LwsTypeOK /\ PeerTypeOK /\ CallTypeOK

Init ==
    /\ connection = NoWsi /\ id = 0
    /\ is_authenticated = FALSE /\ shutdown_requested = FALSE
    /\ current_message = <<>> /\ requests = <<>>
    /\ pending_responses = {}
    /\ mutex = NoCall /\ raced = FALSE
    /\ lws = "poll" /\ attempt = NoWsi /\ used = {}
    /\ writable = FALSE /\ wake = FALSE
    /\ out = <<>> /\ in = <<>> /\ executed = [c \in Calls |-> 0]
    /\ pc = [c \in Calls |-> "idle"]
    /\ future = [c \in Calls |-> "none"]
    /\ got = [c \in Calls |-> NoCall]
    /\ dtor = "none"
    /\ sent_on = [c \in Calls |-> NoWsi] /\ login = "none"

-----------------------------------------------------------------------------
(* A definition whose name begins with Faulty is the one that follows it with
   a defect the code could plausibly have.  No specification uses it: it is
   there to show that a property can fail.                                 *)

FaultyNext_idUnwrapped(i) == i + 1

FaultyNext_idStuck(i) == IF i = 0 THEN 1 ELSE i

(* next_id(): 32-bit increment that skips 0 when it wraps.                 *)
Next_id(i) == IF (i + 1) % IdSpace = 0 THEN 1 ELSE (i + 1) % IdSpace

(***************************************************************************)
(* What next_id() may return, and what it may leave in `id', when the      *)
(* unsynchronized `id = 0' of on_established() is executed by the service  *)
(* thread while a call is inside next_id(): before the load of `id++',     *)
(* between its load and its store, or after the test against 0.            *)
(***************************************************************************)
RacedIds(i) == { [ret |-> 1,          id |-> 1],
                 [ret |-> Next_id(i), id |-> Next_id(i)],
                 [ret |-> 0,          id |-> 0],
                 [ret |-> Next_id(i), id |-> 0] }

NextIds == IF raced THEN RacedIds(id)
                    ELSE {[ret |-> Next_id(id), id |-> Next_id(id)]}

HasCall(s, c) == \E k \in DOMAIN s : s[k].call = c

Waiting(c) == pc[c] \in {"cancel", "waiting"} /\ future[c] = "pending"

(* Promises destroyed without a value: their futures report broken_promise. *)
Break(cs) == future' = [c \in Calls |-> IF c \in cs /\ future[c] = "pending"
                                        THEN "broken_promise" ELSE future[c]]

-----------------------------------------------------------------------------
(* The service thread: while (!shutdown_requested) { poll(); lws_service(); } *)

FaultyPollRequestWritable ==
    /\ requests /= <<>> /\ connection /= NoWsi
    /\ UNCHANGED <<requests, pending_responses, future, writable>>

PollRequestWritable ==
    /\ requests /= <<>> /\ connection /= NoWsi
    /\ writable' = TRUE
    /\ UNCHANGED <<requests, pending_responses, future>>

FaultyPollDrop ==
    /\ requests /= <<>> /\ connection = NoWsi
    /\ requests' = <<>>
    /\ UNCHANGED <<pending_responses, future, writable>>

PollDrop ==
    /\ requests /= <<>> /\ connection = NoWsi
    /\ requests' = <<>>
    /\ pending_responses' = {}
    /\ Break({p.call : p \in pending_responses})
    /\ UNCHANGED writable

(* poll(): ask for a writable callback, or drop everything when nobody is
   connected.                                                              *)
Poll ==
    /\ lws = "poll" /\ dtor = "none" /\ mutex = NoCall
    /\ lws' = "service"
    /\ \/ PollRequestWritable
       \/ PollDrop
       \/ /\ requests = <<>>
          /\ UNCHANGED <<requests, pending_responses, future, writable>>
    /\ UNCHANGED <<connection, id, is_authenticated, shutdown_requested,
                   current_message, mutex, raced, attempt, used, wake,
                   peerVars, pc, got, dtor, sent_on, login>>

(* lws_service() returns after it has handled a batch of events or has been
   woken up by lws_cancel_service().                                       *)
ServiceReturn ==
    /\ lws = "service" /\ wake
    /\ lws' = "poll" /\ wake' = FALSE
    /\ UNCHANGED <<handlerVars, attempt, used, writable, peerVars, callVars,
                   dtor, sent_on, login>>

ExitLoop ==
    /\ lws = "poll" /\ dtor /= "none"
    /\ lws' = "exited"
    /\ UNCHANGED <<handlerVars, attempt, used, writable, wake, peerVars,
                   callVars, dtor, sent_on, login>>

-----------------------------------------------------------------------------
(* Callbacks, run by the service thread inside lws_service().              *)

(* The results of authenticate_via_header(): the new value of
   is_authenticated and whether the connection may be established.         *)
HeaderResults ==
    IF ~Authenticator THEN {[auth |-> TRUE, ok |-> TRUE]}
    ELSE {[auth |-> FALSE, ok |-> TRUE]} \cup
         IF AuthHeader THEN {[auth |-> TRUE, ok |-> TRUE], [auth |-> FALSE, ok |-> FALSE]}
                       ELSE {}

(* filter_connection(): run for every attempt, also while another
   connection is established.                                              *)
FilterConnection(w) ==
    /\ lws = "service" /\ w \notin used
    /\ used' = used \cup {w} /\ wake' = TRUE
    /\ \E r \in HeaderResults :
          /\ is_authenticated' = r.auth
          /\ lws' = IF r.ok THEN "handshake" ELSE "service"
          /\ attempt' = IF r.ok THEN w ELSE NoWsi
    /\ UNCHANGED <<connection, id, shutdown_requested, current_message, requests,
                   pending_responses, mutex, raced, writable, peerVars, callVars,
                   dtor, sent_on, login>>

(* The peer is gone before the handshake is complete: no callback.         *)
HandshakeAborted ==
    /\ lws = "handshake"
    /\ lws' = "service" /\ attempt' = NoWsi
    /\ UNCHANGED <<handlerVars, used, writable, wake, peerVars, callVars,
                   dtor, sent_on, login>>

(* on_established() up to the lock.  A call that holds `mut' meanwhile is in
   next_id(): the store to `id' races with it.                             *)
OnEstablished ==
    /\ lws = "handshake" /\ connection = NoWsi
    /\ connection' = attempt /\ attempt' = NoWsi
    /\ id' = (IF mutex = NoCall THEN 0 ELSE id)
    /\ raced' = (mutex /= NoCall)
    /\ IF ~is_authenticated /\ Authenticator
       THEN lws' = "creds" /\ login' = "due"
       ELSE lws' = "service" /\ login' = "none"
    /\ UNCHANGED <<is_authenticated, shutdown_requested, current_message, requests,
                   pending_responses, mutex, used, writable, wake, peerVars,
                   callVars, dtor, sent_on>>

(* on_established() while another connection is established: return -1, and
   libwebsockets closes the attempt (on_closed() ignores it).              *)
OnEstablishedRefuse ==
    /\ lws = "handshake" /\ connection /= NoWsi
    /\ lws' = "service" /\ attempt' = NoWsi
    /\ UNCHANGED <<handlerVars, used, writable, wake, peerVars, callVars,
                   dtor, sent_on, login>>

(* The rest of on_established(): enqueue the getcreds request.             *)
QueryCredentials ==
    /\ lws = "creds" /\ mutex = NoCall
    /\ id' = Next_id(id)
    /\ requests' = Append(requests, [id |-> id', call |-> Creds])
    /\ writable' = TRUE /\ lws' = "service"
    /\ UNCHANGED <<connection, is_authenticated, shutdown_requested, current_message,
                   pending_responses, mutex, raced, attempt, used, wake, peerVars,
                   callVars, dtor, sent_on, login>>

(* A message of the current connection is only partly received.            *)
Receiving ==
    /\ current_message /= <<>>
    /\ current_message[Len(current_message)].wsi = connection

Fragment(m) == [id |-> m.id, call |-> m.call, wsi |-> connection]

(* on_receive() of a fragment that is not the last one of its message.     *)
OnReceiveFragment ==
    /\ Fragmented /\ lws = "service" /\ in /= <<>> /\ ~Receiving
    /\ current_message' = Append(current_message, Fragment(Head(in)))
    /\ wake' = TRUE
    /\ UNCHANGED <<connection, id, is_authenticated, shutdown_requested, requests,
                   pending_responses, mutex, raced, lws, attempt, used, writable,
                   peerVars, callVars, dtor, sent_on, login>>

(***************************************************************************)
(* What the reader finds in current_message once m is complete: m itself,  *)
(* or, when fragments of an earlier connection precede it, a header mixed  *)
(* from the bytes of both and a payload that answers nothing.              *)
(***************************************************************************)
Parsed(m) ==
    IF (IF Receiving THEN Len(current_message) = 1 ELSE current_message = <<>>)
    THEN {[id |-> m.id, getcreds |-> m.call = Creds, payload |-> m.call]}
    ELSE [id : Ids, getcreds : BOOLEAN, payload : {Garbled}]

(* finish_authentication(): the authenticator accepts or rejects the
   credentials; read_str() may fail on a garbled message, which the
   catch-all of on_receive() ignores.                                      *)
FinishAuthentication(r) ==
    \/ /\ Authenticator
       /\ is_authenticated' = TRUE
       /\ UNCHANGED <<shutdown_requested, writable>>
    \/ /\ shutdown_requested' = TRUE /\ writable' = TRUE
       /\ UNCHANGED is_authenticated
    \/ /\ r.payload = Garbled
       /\ UNCHANGED <<is_authenticated, shutdown_requested, writable>>

FaultyFind(i) == pending_responses

Find(i) == {p \in pending_responses : p.id = i}

FaultyErase(p) == UNCHANGED pending_responses

Erase(p) == pending_responses' = pending_responses \ {p}

(* Satisfy the promise stored under the response's id; a response that
   nobody expects is ignored.                                              *)
Deliver(r) ==
    \/ \E p \in Find(r.id) :
          /\ Erase(p)
          /\ future' = [future EXCEPT ![p.call] = IF @ = "pending" THEN "value" ELSE @]
          /\ got' = [got EXCEPT ![p.call] = r.payload]
    \/ /\ Find(r.id) = {}
       /\ UNCHANGED <<pending_responses, future, got>>

(* on_receive() of the last (or only) fragment of a message.               *)
OnReceive ==
    /\ lws = "service" /\ in /= <<>>
    /\ current_message' = <<>> /\ in' = Tail(in) /\ wake' = TRUE
    /\ \E r \in Parsed(Head(in)) :
          \/ /\ r.getcreds
             /\ FinishAuthentication(r)
             /\ UNCHANGED <<pending_responses, future, got>>
          \/ /\ ~r.getcreds /\ mutex = NoCall
             /\ Deliver(r)
             /\ UNCHANGED <<is_authenticated, shutdown_requested, writable>>
    /\ UNCHANGED <<connection, id, requests, mutex, raced, lws, attempt, used,
                   out, executed, pc, dtor, sent_on, login>>

FaultyPopRequest == UNCHANGED requests

PopRequest == requests' = Tail(requests)

WriteRequest ==
    /\ requests /= <<>>
    /\ PopRequest
    /\ writable' = (Tail(requests) /= <<>>)
    /\ out' = Append(out, Head(requests))
    /\ login' = IF Head(requests).call = Creds THEN "asked" ELSE login
    /\ sent_on' = [c \in Calls |-> IF c = Head(requests).call THEN connection
                                                              ELSE sent_on[c]]

(* on_writable(): write the head of the queue and ask for another callback
   while there is more.                                                    *)
OnWritable ==
    /\ lws = "service" /\ connection /= NoWsi /\ writable
    /\ ~shutdown_requested /\ mutex = NoCall
    /\ wake' = TRUE
    /\ \/ WriteRequest
       \/ /\ requests = <<>>
          /\ writable' = FALSE
          /\ UNCHANGED <<requests, out, sent_on, login>>
    /\ UNCHANGED <<connection, id, is_authenticated, shutdown_requested,
                   current_message, pending_responses, mutex, raced, lws, attempt,
                   used, in, executed, callVars, dtor>>

FaultyResetConnection ==
    /\ connection' = NoWsi
    /\ is_authenticated' = FALSE
    /\ UNCHANGED shutdown_requested

ResetConnection ==
    /\ connection' = NoWsi
    /\ is_authenticated' = FALSE
    /\ shutdown_requested' = FALSE

(* What on_closed() resets, and what disappears with the connection itself.
   The queue, the promises and current_message survive.                    *)
Disconnect ==
    /\ ResetConnection
    /\ writable' = FALSE /\ out' = <<>> /\ in' = <<>> /\ login' = "none"
    /\ UNCHANGED <<id, current_message, requests, pending_responses, mutex, raced,
                   attempt, used, executed, callVars, sent_on>>

(* on_writable() after a failed authentication: return -1, upon which
   libwebsockets closes the connection.                                    *)
OnWritableShutdown ==
    /\ lws = "service" /\ connection /= NoWsi /\ writable /\ shutdown_requested
    /\ wake' = TRUE
    /\ Disconnect
    /\ UNCHANGED <<lws, dtor>>

(* on_closed(): the provider or the network closes the connection.         *)
OnClosed ==
    /\ lws = "service" /\ connection /= NoWsi
    /\ wake' = TRUE
    /\ Disconnect
    /\ UNCHANGED <<lws, dtor>>

-----------------------------------------------------------------------------
(* The provider, modelled by what the service can observe of it: it executes
   the requests it has received and answers them.  One that is not reliable
   may work on several at a time, and a handler of it may fail.            *)
RemoveAt(s, k) == [i \in 1 .. Len(s) - 1 |-> IF i < k THEN s[i] ELSE s[i + 1]]

ProviderExecute(k, replies) ==
    /\ k \in DOMAIN out /\ (Reliable => k = 1 /\ replies)
    /\ out' = RemoveAt(out, k)
    /\ in' = IF replies THEN Append(in, out[k]) ELSE in
    /\ executed' = [c \in Calls |-> executed[c] + (IF out[k].call = c THEN 1 ELSE 0)]
    /\ UNCHANGED <<handlerVars, lwsVars, callVars, dtor, sent_on, login>>

-----------------------------------------------------------------------------
(* ws_server::perform(), run by a FUSE thread.                             *)

(* Test of is_authenticated, without the lock.                             *)
PerformCheck(c) ==
    /\ pc[c] = "idle" /\ dtor = "none"
    /\ IF is_authenticated
       THEN /\ pc' = [pc EXCEPT ![c] = "checked"]
            /\ future' = [future EXCEPT ![c] = "pending"]
       ELSE /\ pc' = [pc EXCEPT ![c] = "cancel"]
            /\ future' = [future EXCEPT ![c] = "unauthenticated"]
    /\ UNCHANGED <<handlerVars, lwsVars, peerVars, got, dtor, sent_on, login>>

PerformLock(c) ==
    /\ pc[c] = "checked" /\ mutex = NoCall
    /\ mutex' = c
    /\ pc' = [pc EXCEPT ![c] = "locked"]
    /\ UNCHANGED <<connection, id, is_authenticated, shutdown_requested,
                   current_message, requests, pending_responses, raced, lwsVars,
                   peerVars, future, got, dtor, sent_on, login>>

(* The critical section: next_id(), enqueue the request, store the promise.
   unordered_map::emplace keeps an entry that already has this id, and the
   new promise is destroyed.                                               *)
PerformEnqueue(c) ==
    /\ pc[c] = "locked"
    /\ \E n \in NextIds :
          /\ id' = n.id
          /\ requests' = Append(requests, [id |-> n.ret, call |-> c])
          /\ IF \E p \in pending_responses : p.id = n.ret
             THEN Break({c}) /\ UNCHANGED pending_responses
             ELSE /\ pending_responses' = pending_responses \cup {[id |-> n.ret, call |-> c]}
                  /\ UNCHANGED future
    /\ mutex' = NoCall /\ raced' = FALSE
    /\ pc' = [pc EXCEPT ![c] = "cancel"]
    /\ UNCHANGED <<connection, is_authenticated, shutdown_requested, current_message,
                   lwsVars, peerVars, got, dtor, sent_on, login>>

FaultyPerformCancel(c) ==
    /\ pc[c] = "cancel"
    /\ pc' = [pc EXCEPT ![c] = "waiting"]
    /\ UNCHANGED <<handlerVars, lwsVars, peerVars, future, got, dtor, sent_on, login>>

(* lws_cancel_service(): the current or the next lws_service() returns.    *)
PerformCancel(c) ==
    /\ pc[c] = "cancel"
    /\ wake' = TRUE
    /\ pc' = [pc EXCEPT ![c] = "waiting"]
    /\ UNCHANGED <<handlerVars, lws, attempt, used, writable, peerVars, future, got,
                   dtor, sent_on, login>>

FaultyPerformTimeout(c) == FALSE

(* wait_for() gives up; the promise stays in pending_responses.            *)
PerformTimeout(c) ==
    /\ pc[c] = "waiting" /\ future[c] = "pending"
    /\ future' = [future EXCEPT ![c] = "timeout"]
    /\ pc' = [pc EXCEPT ![c] = "returned"]
    /\ UNCHANGED <<handlerVars, lwsVars, peerVars, got, dtor, sent_on, login>>

PerformReturn(c) ==
    /\ pc[c] = "waiting" /\ future[c] /= "pending"
    /\ pc' = [pc EXCEPT ![c] = "returned"]
    /\ UNCHANGED <<handlerVars, lwsVars, peerVars, future, got, dtor, sent_on, login>>

-----------------------------------------------------------------------------
(* ~detail, run once no FUSE thread uses the server any more.              *)

BeginShutdown ==
    /\ dtor = "none" /\ \A c \in Calls : pc[c] \in {"idle", "returned"}
    /\ dtor' = "flagged"
    /\ UNCHANGED <<handlerVars, lwsVars, peerVars, callVars, sent_on, login>>

FaultyShutdownCancel ==
    /\ dtor = "flagged" /\ dtor' = "joining"
    /\ UNCHANGED <<handlerVars, lwsVars, peerVars, callVars, sent_on, login>>

ShutdownCancel ==
    /\ dtor = "flagged"
    /\ wake' = TRUE /\ dtor' = "joining"
    /\ UNCHANGED <<handlerVars, lws, attempt, used, writable, peerVars, callVars,
                   sent_on, login>>

(* join(), then lws_context_destroy(), which closes the connection.        *)
JoinThread ==
    /\ dtor = "joining" /\ lws = "exited"
    /\ dtor' = "done"
    /\ IF connection = NoWsi
       THEN UNCHANGED <<handlerVars, lwsVars, peerVars, callVars, sent_on, login>>
       ELSE Disconnect /\ UNCHANGED <<lws, wake>>

Terminated == dtor = "done" /\ UNCHANGED vars

-----------------------------------------------------------------------------
ServiceThread ==
    \/ Poll \/ ServiceReturn \/ ExitLoop
    \/ OnEstablished \/ OnEstablishedRefuse \/ QueryCredentials
    \/ OnWritable \/ OnWritableShutdown
    \/ OnReceive

Network ==
    \/ \E w \in Wsis : FilterConnection(w)
    \/ HandshakeAborted
    \/ OnClosed
    \/ OnReceiveFragment
    \/ \E k \in DOMAIN out, replies \in BOOLEAN : ProviderExecute(k, replies)

Perform(c) ==
    \/ PerformCheck(c) \/ PerformLock(c) \/ PerformEnqueue(c)
    \/ PerformCancel(c) \/ PerformTimeout(c) \/ PerformReturn(c)

Destructor == BeginShutdown \/ ShutdownCancel \/ JoinThread

Next == \/ ServiceThread
        \/ Network
        \/ \E c \in Calls : Perform(c)
        \/ Destructor
        \/ Terminated

Spec == Init /\ [][Next]_vars

(***************************************************************************)
(* Fairness.  Threads are scheduled, a requested writable callback comes,  *)
(* a received message is processed and a wait_for() ends.  Whether calls   *)
(* are made, providers connect, answer or disconnect, and whether the      *)
(* service is shut down, is up to the environment.                         *)
(***************************************************************************)
Fairness ==
    /\ WF_vars(Poll) /\ WF_vars(ServiceReturn) /\ WF_vars(ExitLoop)
    /\ WF_vars(OnEstablished \/ OnEstablishedRefuse \/ HandshakeAborted)
    /\ WF_vars(QueryCredentials)
    /\ WF_vars(OnWritable \/ OnWritableShutdown)
    /\ WF_vars(OnReceive)
    /\ \A c \in Calls :
          /\ WF_vars(PerformLock(c)) /\ WF_vars(PerformEnqueue(c))
          /\ WF_vars(PerformCancel(c))
          /\ WF_vars(PerformTimeout(c) \/ PerformReturn(c))
    /\ WF_vars(ShutdownCancel) /\ WF_vars(JoinThread)

FairSpec == Spec /\ Fairness

-----------------------------------------------------------------------------
(* Safety.                                                                 *)

(* Nobody waits for what can no longer come from the queue: while a caller of
   perform() blocks on a pending future, its promise is stored, where
   on_receive() can satisfy it and poll() can break it, and as long as its
   request has not been written the request is in the queue: poll() drops
   both or none.  A request that was written to a connection which is then
   lost is waited for until the timeout.                                   *)
NoOrphanedWaiter ==
    \A c \in Calls : Waiting(c) =>
        /\ \E p \in pending_responses : p.call = c
        /\ sent_on[c] = NoWsi => HasCall(requests, c)

(* A stored promise has not been satisfied, is stored once and shares its id
   with no other, so set_value() in on_receive() never throws
   promise_already_satisfied.                                              *)
PromiseUnsatisfied ==
    \A p \in pending_responses :
        /\ future[p.call] \in {"pending", "timeout"}
        /\ pc[p.call] \in {"cancel", "waiting", "returned"}
        /\ \A q \in pending_responses : p.id = q.id \/ p.call = q.call => p = q

(* The provider executes the request of a call at most once, also when
   connections come and go: a request leaves the queue when it is written. *)
AtMostOnce == \A c \in Calls : executed[c] <= 1

(* A rejected login concerns the connection that made it: the flag that
   makes on_writable() close a connection never outlives that connection.  *)
NoStaleShutdown == shutdown_requested => connection /= NoWsi

(* While the service thread sleeps in lws_service() with messages in the
   queue, something is going to wake it up: a pending wake-up, a requested
   writable callback, or a caller about to call lws_cancel_service().      *)
NoLostWakeup ==
    lws = "service" /\ requests /= <<>> =>
        \/ wake
        \/ connection /= NoWsi /\ writable
        \/ \E c \in Calls : pc[c] = "cancel"

(* A call that succeeds returns the response to its own request.           *)
OwnResponse == \A c \in Calls : future[c] = "value" => got[c] = c

(* No two messages that are queued, unanswered or answered but not yet
   received carry the same id.                                             *)
UniqueIds ==
    LET open == requests \o out \o in IN
    \A j, k \in DOMAIN open : open[j].id = open[k].id => j = k

(* A connection that has to log in gets the getcreds request before it gets
   any other request, the connection of a provider that connects again too.
   This is what doc/authentication.md and doc/protocol.md say; requests that
   an earlier connection has left in the queue, or that passed the test of
   is_authenticated before it was lost, come first.                        *)
GetcredsFirst ==
    [][\A c \in Calls : sent_on'[c] /= sent_on[c] => login /= "due"]_vars

(* An attempt to connect that is refused because a provider is connected
   does not change whether that provider is authenticated.                 *)
RefusalHarmless ==
    [][(\E w \in Wsis : FilterConnection(w)) /\ connection /= NoWsi
          => is_authenticated' = is_authenticated]_vars

-----------------------------------------------------------------------------
(* Liveness.                                                               *)

(* Every perform() returns, whatever the provider does.                    *)
PerformReturns == \A c \in Calls : pc[c] = "checked" ~> pc[c] = "returned"

(* The queue does not keep a request forever: it is written, or dropped.   *)
QueueDrains == requests /= <<>> ~> (requests = <<>> \/ dtor /= "none")

(* The destructor terminates: the service thread notices the shutdown.     *)
ShutdownCompletes == dtor = "flagged" ~> dtor = "done"
=============================================================================
