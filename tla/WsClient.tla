------------------------------ MODULE WsClient ------------------------------
(***************************************************************************)
(* The provider's end of the connection: ws_client (ws/client.cpp), the    *)
(* loop that serves it, and what its users do about a lost connection.     *)
(*                                                                         *)
(* Two users are known: the provider program (provider_main.cpp), whose    *)
(* listener ends the loop when the connection is lost and whom a signal    *)
(* ends, and an application that connects again from within its listener   *)
(* and is ended by another thread, like the fixture of the integration     *)
(* tests (test-src/integration/webfuse/test/fixture.cpp).                  *)
(*                                                                         *)
(* Requests are numbered; a request arrives in fragments, and one that is  *)
(* not good makes the handler throw.                                       *)
(***************************************************************************)
EXTENDS Naturals, Sequences

CONSTANTS
    MaxMessages,    \* bound on the requests of all connections
    MaxFragments,   \* bound on the fragments of a request
    MaxConnects     \* bound on calls of connect()

ASSUME BoundsAssumption == MaxMessages \in Nat /\ MaxFragments \in Nat \ {0} /\ MaxConnects \in Nat \ {0}

VARIABLES
    (* the thread that calls service() *)
    pc,                   \* "start", "test", "entering", "poll", "handling" or "exited"
    listener,             \* "shutdown" or "reconnect"
    shutdown_requested,
    overlooked,           \* history: the last signal came between test and poll()
    (* ws_client *)
    connection,           \* "none", "connecting" or "open"
    current_message,      \* fragments received so far
    requests,             \* queue of responses, by the number of their request
    (* libwebsockets, the network and the service *)
    writable,             \* a writable callback is due
    wake,                 \* lws_cancel_service has been called
    peer,                 \* "up" or "gone"
    wire,                 \* fragments under way to the provider
    (* another thread of the application *)
    owner,                \* "running", "flagged" or "joining"
    (* history *)
    asked, answered,      \* requests sent and responses written on this connection
    count, connects       \* requests sent and calls of connect() so far

network    == <<writable, wake, peer, wire>>
clientVars == <<pc, listener, shutdown_requested, overlooked, connection, current_message, requests,
                network, owner, asked, answered, count, connects>>

Fragments == [no : Nat, part : 1 .. MaxFragments, parts : 1 .. MaxFragments, good : BOOLEAN]

-----------------------------------------------------------------------------
ClientInit ==
    /\ pc = "start" /\ listener \in {"shutdown", "reconnect"}
    /\ shutdown_requested = FALSE /\ overlooked = FALSE
    /\ connection = "none" /\ current_message = <<>> /\ requests = <<>>
    /\ writable = FALSE /\ wake = FALSE /\ peer = "gone" /\ wire = <<>>
    /\ owner = "running"
    /\ asked = <<>> /\ answered = <<>> /\ count = 0 /\ connects = 0

(* The calls before the loop: set_connection_listener() and connect().  There
   may be a service at the url.                                             *)
Start(there) ==
    /\ pc = "start"
    /\ connection' = "connecting" /\ connects' = connects + 1
    /\ peer' = there
    /\ pc' = "test"
    /\ UNCHANGED <<listener, overlooked, shutdown_requested, current_message, requests, writable,
                   wake, wire, owner, asked, answered, count>>

-----------------------------------------------------------------------------
(* The loop.  lws_service() polls; it returns when it has served events, of
   which there may be several, or when a signal interrupts it.              *)

(* The connection and everything that belongs to it is gone. *)
Forget ==
    /\ current_message' = <<>> /\ requests' = <<>>
    /\ writable' = FALSE /\ wire' = <<>>
    /\ asked' = <<>> /\ answered' = <<>>

(* while (!shutdown_requested); after the loop the context is destroyed. *)
LoopTest ==
    /\ pc = "test"
    /\ IF shutdown_requested
       THEN pc' = "exited" /\ connection' = "none" /\ Forget /\ UNCHANGED <<wake, peer>>
       ELSE /\ pc' = "entering"
            /\ UNCHANGED <<connection, current_message, requests, network, asked, answered>>
    /\ UNCHANGED <<listener, overlooked, shutdown_requested, owner, count, connects>>

EnterPoll ==
    /\ pc = "entering" /\ pc' = "poll"
    /\ UNCHANGED <<listener, overlooked, shutdown_requested, connection, current_message,
                   requests, network, owner, asked, answered, count, connects>>

ServiceReturn ==
    /\ pc = "handling" /\ pc' = "test"
    /\ UNCHANGED <<listener, overlooked, shutdown_requested, connection, current_message,
                   requests, network, owner, asked, answered, count, connects>>

Event == pc \in {"poll", "handling"} /\ pc' = "handling"

-----------------------------------------------------------------------------
(* webfuse_client_callback. *)

(* connection_listener(false): the provider program ends, the other user
   calls connect().                                                         *)
FaultyConnectionListener ==
    /\ connection' = "none"
    /\ UNCHANGED <<connects, shutdown_requested>>
ConnectionListener ==
    IF listener = "reconnect" /\ connects < MaxConnects
    THEN connection' = "connecting" /\ connects' = connects + 1 /\ UNCHANGED shutdown_requested
    ELSE /\ connection' = "none" /\ UNCHANGED connects
         /\ shutdown_requested' = (shutdown_requested \/ listener = "shutdown")

(* LWS_CALLBACK_CLIENT_ESTABLISHED *)
Established ==
    /\ Event
    /\ connection = "connecting" /\ peer = "up"
    /\ connection' = "open"
    /\ UNCHANGED <<listener, overlooked, shutdown_requested, current_message, requests, network,
                   owner, asked, answered, count, connects>>

(* LWS_CALLBACK_CLIENT_CONNECTION_ERROR *)
ConnectionError ==
    /\ Event
    /\ connection = "connecting"
    /\ ConnectionListener /\ Forget
    /\ UNCHANGED <<listener, overlooked, wake, peer, owner, count>>

(* LWS_CALLBACK_CLIENT_CLOSED; what is still under way may be lost. *)
FaultyClosed ==
    /\ Event
    /\ connection = "open" /\ peer = "gone"
    /\ ConnectionListener
    /\ writable' = FALSE /\ wire' = <<>> /\ asked' = <<>> /\ answered' = <<>>
    /\ UNCHANGED <<listener, overlooked, wake, peer, owner, count, current_message, requests>>
Closed ==
    /\ Event
    /\ connection = "open" /\ peer = "gone"
    /\ ConnectionListener /\ Forget
    /\ UNCHANGED <<listener, overlooked, wake, peer, owner, count>>

(* The handler answers a message that it can decode, and throws otherwise. *)
Whole(m) == \A i \in DOMAIN m : m[i].no = m[1].no /\ m[i].part = i
handler(m) == IF Whole(m) /\ m[1].good THEN <<m[1].no>> ELSE <<>>

(* LWS_CALLBACK_CLIENT_RECEIVE; messagereader moves current_message away. *)
Receive ==
    /\ Event
    /\ connection = "open" /\ wire /= <<>>
    /\ LET fragment == Head(wire)
           message  == Append(current_message, fragment)
           response == IF fragment.part = fragment.parts THEN handler(message) ELSE <<>>
       IN /\ current_message' = IF fragment.part = fragment.parts THEN <<>> ELSE message
          /\ requests' = requests \o response
          /\ writable' = (writable \/ response /= <<>>)
    /\ wire' = Tail(wire)
    /\ UNCHANGED <<listener, overlooked, shutdown_requested, connection, wake, peer, owner,
                   asked, answered, count, connects>>

(* LWS_CALLBACK_CLIENT_WRITEABLE: one response per callback. *)
StillWritable(queue) == queue /= <<>>
Writable ==
    /\ Event
    /\ connection = "open" /\ writable
    /\ LET written == SubSeq(requests, 1, 1) IN
       /\ answered' = answered \o written
       /\ requests' = SubSeq(requests, 2, Len(requests))
    /\ writable' = StillWritable(requests')
    /\ UNCHANGED <<listener, overlooked, shutdown_requested, connection, current_message, wake,
                   peer, wire, owner, asked, count, connects>>

(* lws_cancel_service() has made poll return. *)
WakeUp ==
    /\ Event
    /\ wake /\ wake' = FALSE
    /\ UNCHANGED <<listener, overlooked, shutdown_requested, connection, current_message,
                   requests, writable, peer, wire, owner, asked, answered, count, connects>>

-----------------------------------------------------------------------------
(* on_signal of the provider program.  A signal interrupts poll(); one that
   comes between the test of the flag and poll() does not.                  *)
FaultySignal ==
    /\ listener = "shutdown" /\ pc \notin {"start", "exited"}
    /\ pc = "poll" \/ ~shutdown_requested
    /\ shutdown_requested' = TRUE /\ overlooked' = (pc = "entering")
    /\ UNCHANGED <<pc, listener, connection, current_message, requests, network, owner, asked,
                   answered, count, connects>>
on_signal ==
    /\ listener = "shutdown" /\ pc \notin {"start", "exited"}
    /\ pc = "poll" \/ ~shutdown_requested
    /\ shutdown_requested' = TRUE /\ overlooked' = (pc = "entering")
    /\ pc' = IF pc = "poll" THEN "test" ELSE pc
    /\ UNCHANGED <<listener, connection, current_message, requests, network, owner, asked,
                   answered, count, connects>>

(* The other thread sets the flag, calls interrupt() and joins. *)
RequestShutdown ==
    /\ listener = "reconnect" /\ pc /= "start" /\ owner = "running"
    /\ shutdown_requested' = TRUE /\ owner' = "flagged"
    /\ UNCHANGED <<pc, listener, overlooked, connection, current_message, requests, network,
                   asked, answered, count, connects>>
FaultyInterrupt ==
    /\ owner = "flagged" /\ owner' = "joining" /\ wake' = (pc = "poll")
    /\ UNCHANGED <<pc, listener, overlooked, shutdown_requested, connection, current_message,
                   requests, writable, peer, wire, asked, answered, count, connects>>
Interrupt ==
    /\ owner = "flagged" /\ owner' = "joining" /\ wake' = TRUE
    /\ UNCHANGED <<pc, listener, overlooked, shutdown_requested, connection, current_message,
                   requests, writable, peer, wire, asked, answered, count, connects>>

-----------------------------------------------------------------------------
(* The service sends a request, stops or starts. *)
SendRequest ==
    /\ connection = "open" /\ peer = "up" /\ count < MaxMessages
    /\ count' = count + 1
    /\ \E parts \in 1 .. MaxFragments, good \in BOOLEAN :
         /\ asked' = Append(asked, [no |-> count', good |-> good])
         /\ wire' = wire \o [i \in 1 .. parts |->
                                [no |-> count', part |-> i, parts |-> parts, good |-> good]]
    /\ UNCHANGED <<pc, listener, overlooked, shutdown_requested, connection, current_message,
                   requests, writable, wake, peer, owner, answered, connects>>

PeerStops ==
    /\ pc /= "start" /\ peer = "up" /\ peer' = "gone"
    /\ UNCHANGED <<pc, listener, overlooked, shutdown_requested, connection, current_message,
                   requests, writable, wake, wire, owner, asked, answered, count, connects>>

PeerStarts ==
    /\ pc /= "start" /\ peer = "gone" /\ connection /= "open" /\ peer' = "up"
    /\ UNCHANGED <<pc, listener, overlooked, shutdown_requested, connection, current_message,
                   requests, writable, wake, wire, owner, asked, answered, count, connects>>

Callback == Established \/ ConnectionError \/ Closed \/ Receive \/ Writable \/ WakeUp
Loop     == LoopTest \/ EnterPoll \/ ServiceReturn
Others   == on_signal \/ RequestShutdown \/ Interrupt \/ SendRequest \/ PeerStops \/ PeerStarts

(* The scheduler runs every thread, and lws_service() serves what poll()
   reports.  Neither the service nor signals are fair.                      *)
ClientFairness ==
    /\ WF_clientVars(Loop) /\ WF_clientVars(Interrupt)
    /\ WF_clientVars(Established \/ ConnectionError) /\ WF_clientVars(Closed)
    /\ WF_clientVars(Receive) /\ WF_clientVars(Writable) /\ WF_clientVars(WakeUp)

-----------------------------------------------------------------------------
(* The client implements Responder: on each connection the decodable requests
   are answered once each and in order, all of them if it lasts, although
   fragments, responses and writable callbacks of an earlier connection may
   have been under way when that one was lost.                              *)
Rsp == INSTANCE Responder WITH Requests <- [no : 1 .. MaxMessages, good : BOOLEAN]
ImplementsResponder == Rsp!Spec

(* The provider program does not linger without a service: a connection that
   is refused or lost, at any point, ends it.                               *)
Served == connection = "open" /\ peer = "up"
LossEndsProvider ==
    listener = "shutdown" /\ pc /= "start" /\ ~Served ~> pc = "exited" \/ Served

(* interrupt() ends the loop, wherever the thread is when the flag is set. *)
InterruptEnds == owner = "joining" ~> pc = "exited"

(* A signal ends the provider program wherever its thread is, one that comes
   while it sleeps in poll() too.  The one exception is a signal between the
   test of the flag and poll() that no other one and no event follow.       *)
Idle == pc = "poll" /\ Served /\ wire = <<>> /\ ~writable /\ ~wake
SignalNoticed == shutdown_requested ~> pc = "exited" \/ (overlooked /\ Idle)
=============================================================================
