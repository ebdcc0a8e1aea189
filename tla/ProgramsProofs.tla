--------------------------- MODULE ProgramsProofs ---------------------------
(***************************************************************************)
(* Proofs about Programs: the programs run as their command lines of any   *)
(* length say, and the client implements the safety part of Responder for  *)
(* any number of requests, fragments and connections.                      *)
(***************************************************************************)
EXTENDS Programs, SequenceTheorems, FiniteSetTheorems, WellFoundedInduction, TLAPS

Numbers == 1 .. MaxMessages
Asked   == [no : Numbers, good : BOOLEAN]

StreamType ==
    /\ current_message \in Seq(Fragments) /\ wire \in Seq(Fragments)
    /\ requests \in Seq(Numbers) /\ answered \in Seq(Numbers)
    /\ asked \in Seq(Asked)
    /\ count \in 0 .. MaxMessages

Among(no, s) == \E k \in DOMAIN s : s[k] = no
OnWire(no)   == \E k \in DOMAIN wire : wire[k].no = no

(* Requests are numbered in the order in which they are sent. *)
AskedInOrder ==
    /\ \A i \in DOMAIN asked : asked[i].no <= count
    /\ \A i, j \in DOMAIN asked : i < j => asked[i].no < asked[j].no

(* g is the fragment after f. *)
Continues(g, f) == g.no = f.no /\ g.good = f.good /\ g.parts = f.parts /\ g.part = f.part + 1

(* The fragments of a request follow each other, all of them are under way,
   and requests follow each other in order.                                *)
WireInOrder ==
    /\ \A k \in DOMAIN wire :
          /\ wire[k].part <= wire[k].parts
          /\ \E i \in DOMAIN asked : asked[i].no = wire[k].no /\ asked[i].good = wire[k].good
          /\ wire[k].part < wire[k].parts =>
                /\ k + 1 \in DOMAIN wire
                /\ Continues(wire[k + 1], wire[k])
          /\ wire[k].part = wire[k].parts /\ k + 1 \in DOMAIN wire =>
                wire[k + 1].part = 1 /\ wire[k].no < wire[k + 1].no
    /\ \A j, k \in DOMAIN wire : j < k => wire[j].no <= wire[k].no

(* What was received of a request is what precedes the next fragment. *)
PartInOrder ==
    /\ \A i \in DOMAIN current_message : current_message[i].part = i
    /\ wire = <<>> => current_message = <<>>
    /\ wire /= <<>> =>
          /\ wire[1].part = Len(current_message) + 1
          /\ \A i \in DOMAIN current_message : /\ current_message[i].no = wire[1].no
                                               /\ current_message[i].good = wire[1].good

(* A request that is no longer under way is older than those that are; it is
   answered, or its response is queued, if it could be decoded.            *)
Handled ==
    \A i \in DOMAIN asked : ~OnWire(asked[i].no) =>
        /\ \A k \in DOMAIN wire : asked[i].no < wire[k].no
        /\ asked[i].good => Among(asked[i].no, answered) \/ Among(asked[i].no, requests)

(* Responses are queued for requests that were received, in their order. *)
QueueInOrder ==
    /\ \A no \in Numbers : Among(no, answered) \/ Among(no, requests) =>
          /\ ~OnWire(no)
          /\ \E i \in DOMAIN asked : asked[i].no = no /\ asked[i].good
    /\ \A j, k \in DOMAIN requests : j < k => requests[j] < requests[k]
    /\ \A j \in DOMAIN answered, k \in DOMAIN requests : answered[j] < requests[k]

StreamInv == StreamType /\ AskedInOrder /\ WireInOrder /\ PartInOrder /\ Handled /\ QueueInOrder

(* A writable callback is due only for a response. *)
WritableInv == writable => requests /= <<>>

streamVars == <<current_message, wire, requests, answered, asked, count>>

(* Steps that leave the stream alone. *)
LEMMA StreamFrame ==
  ASSUME StreamInv, UNCHANGED streamVars
  PROVE  StreamInv'
<1>1. \A no : OnWire(no)' <=> OnWire(no)
  BY DEF OnWire, streamVars
<1>2. StreamType' /\ AskedInOrder' /\ WireInOrder' /\ PartInOrder'
  BY DEF StreamInv, StreamType, AskedInOrder, WireInOrder, PartInOrder, streamVars
<1>3. Handled' /\ QueueInOrder'
  BY <1>1 DEF StreamInv, Handled, QueueInOrder, Among, streamVars
<1> QED
  BY <1>2, <1>3 DEF StreamInv

(* A new connection begins with nothing under way. *)
LEMMA StreamEmpty ==
  ASSUME current_message = <<>>, wire = <<>>, requests = <<>>, answered = <<>>,
         asked = <<>>, count \in 0 .. MaxMessages
  PROVE  StreamInv
<1>1. DOMAIN wire = {} /\ DOMAIN asked = {} /\ DOMAIN requests = {} /\ DOMAIN answered = {}
      /\ DOMAIN current_message = {}
  OBVIOUS
<1>2. StreamType
  BY DEF StreamType
<1>3. AskedInOrder /\ WireInOrder /\ PartInOrder /\ Handled
  BY <1>1 DEF AskedInOrder, WireInOrder, PartInOrder, Handled
<1>4. QueueInOrder
  BY <1>1 DEF QueueInOrder, Among
<1> QED
  BY <1>2, <1>3, <1>4 DEF StreamInv

(* The first fragment under way has arrived. *)
LEMMA WireTail ==
  ASSUME StreamInv, wire /= <<>>
  PROVE  /\ Head(wire) = wire[1] /\ wire[1] \in Fragments /\ Tail(wire) \in Seq(Fragments)
         /\ 1 \in DOMAIN wire /\ \A k \in DOMAIN wire : k \in Nat /\ k >= 1
         /\ \A k \in DOMAIN Tail(wire) : k + 1 \in DOMAIN wire /\ Tail(wire)[k] = wire[k + 1]
         /\ \A k \in DOMAIN wire : k /= 1 => k - 1 \in DOMAIN Tail(wire) /\ Tail(wire)[k - 1] = wire[k]
<1>1. /\ Len(wire) \in Nat /\ Len(wire) > 0 /\ DOMAIN wire = 1 .. Len(wire)
      /\ DOMAIN Tail(wire) = 1 .. Len(wire) - 1 /\ Head(wire) = wire[1]
      /\ \A i \in 1 .. Len(wire) - 1 : Tail(wire)[i] = wire[i + 1]
      /\ wire[1] \in Fragments /\ Tail(wire) \in Seq(Fragments)
  BY HeadTailProperties DEF StreamInv, StreamType
<1> QED
  BY <1>1

(* The next fragment of a request that is not complete yet. *)
LEMMA ReceivePart ==
  ASSUME StreamInv, wire /= <<>>, wire[1].part < wire[1].parts,
         wire' = Tail(wire), current_message' = Append(current_message, wire[1]),
         UNCHANGED <<requests, answered, asked, count>>
  PROVE  StreamInv'
<1>0. StreamType /\ WireInOrder /\ PartInOrder
  BY DEF StreamInv
<1>1. /\ wire[1] \in Fragments /\ wire' \in Seq(Fragments)
      /\ 1 \in DOMAIN wire /\ \A k \in DOMAIN wire : k \in Nat /\ k >= 1
      /\ \A k \in DOMAIN wire' : k + 1 \in DOMAIN wire /\ wire'[k] = wire[k + 1]
      /\ \A k \in DOMAIN wire : k /= 1 => k - 1 \in DOMAIN wire' /\ wire'[k - 1] = wire[k]
  BY WireTail
<1>2. 2 \in DOMAIN wire /\ Continues(wire[2], wire[1])
  BY <1>0, <1>1 DEF WireInOrder
<1>3. 1 \in DOMAIN wire' /\ wire'[1] = wire[2] /\ wire' /= <<>>
  BY <1>1, <1>2
<1>4. StreamType'
  BY <1>0, <1>1 DEF StreamType
<1>5. AskedInOrder'
  BY DEF StreamInv, AskedInOrder
<1>6. WireInOrder'
  <2>1. ASSUME NEW k \in DOMAIN wire' PROVE
          /\ wire'[k].part <= wire'[k].parts
          /\ \E i \in DOMAIN asked : asked[i].no = wire'[k].no /\ asked[i].good = wire'[k].good
          /\ wire'[k].part < wire'[k].parts => k + 1 \in DOMAIN wire' /\ Continues(wire'[k + 1], wire'[k])
          /\ wire'[k].part = wire'[k].parts /\ k + 1 \in DOMAIN wire' =>
                wire'[k + 1].part = 1 /\ wire'[k].no < wire'[k + 1].no
    <3>1. /\ k \in Nat /\ k + 1 \in DOMAIN wire /\ wire'[k] = wire[k + 1]
          /\ k + 2 \in DOMAIN wire <=> k + 1 \in DOMAIN wire'
          /\ k + 1 \in DOMAIN wire' => wire'[k + 1] = wire[k + 2]
      BY <1>0, <1>1 DEF StreamType
    <3> QED
      BY <1>0, <3>1 DEF WireInOrder
  <2>2. \A j, k \in DOMAIN wire' : j < k => wire'[j].no <= wire'[k].no
    BY <1>0, <1>1 DEF WireInOrder
  <2> QED
    BY <2>1, <2>2 DEF WireInOrder
<1>7. PartInOrder'
  <2>1. /\ Len(current_message') = Len(current_message) + 1 /\ Len(current_message) \in Nat
        /\ \A i \in DOMAIN current_message' :
              \/ i \in DOMAIN current_message /\ current_message'[i] = current_message[i]
              \/ i = Len(current_message) + 1 /\ current_message'[i] = wire[1]
    BY <1>0, <1>1, AppendProperties DEF StreamType
  <2>2. \A i \in DOMAIN current_message' :
           /\ current_message'[i].part = i /\ current_message'[i].no = wire[1].no
           /\ current_message'[i].good = wire[1].good
    BY <1>0, <2>1 DEF PartInOrder
  <2> QED
    BY <1>0, <1>2, <1>3, <2>1, <2>2 DEF PartInOrder, Continues
<1>8. \A no : OnWire(no)' <=> OnWire(no)
  <2>1. ASSUME NEW no, OnWire(no) PROVE OnWire(no)'
    <3>1. PICK k \in DOMAIN wire : wire[k].no = no
      BY <2>1 DEF OnWire
    <3>2. CASE k = 1
      BY <1>2, <1>3, <3>1, <3>2 DEF OnWire, Continues
    <3>3. CASE k /= 1
      BY <1>1, <3>1, <3>3 DEF OnWire
    <3> QED
      BY <3>2, <3>3
  <2>2. ASSUME NEW no, OnWire(no)' PROVE OnWire(no)
    BY <1>1, <2>2 DEF OnWire
  <2> QED
    BY <2>1, <2>2
<1>9. Handled'
  BY <1>1, <1>8 DEF StreamInv, Handled, Among
<1>10. QueueInOrder'
  BY <1>8 DEF StreamInv, QueueInOrder, Among
<1> QED
  BY <1>4, <1>5, <1>6, <1>7, <1>9, <1>10 DEF StreamInv

(* The handler decodes what was put together. *)
LEMMA HandlerDecodes ==
  ASSUME StreamInv, wire /= <<>>
  PROVE  handler(Append(current_message, wire[1])) =
            IF wire[1].good THEN <<wire[1].no>> ELSE <<>>
<1>0. StreamType /\ PartInOrder /\ wire[1] \in Fragments
  BY WireTail DEF StreamInv
<1> DEFINE m == Append(current_message, wire[1])
<1>1. /\ Len(current_message) \in Nat /\ DOMAIN m = 1 .. Len(current_message) + 1
      /\ \A i \in DOMAIN m :
            \/ i \in DOMAIN current_message /\ m[i] = current_message[i]
            \/ i = Len(current_message) + 1 /\ m[i] = wire[1]
  BY <1>0, AppendProperties DEF StreamType
<1>2. \A i \in DOMAIN m : m[i].part = i /\ m[i].no = wire[1].no /\ m[i].good = wire[1].good
  BY <1>0, <1>1 DEF PartInOrder
<1>3. 1 \in DOMAIN m
  BY <1>1
<1>4. Whole(m) /\ m[1].no = wire[1].no /\ m[1].good = wire[1].good
  BY <1>2, <1>3 DEF Whole
<1> QED
  BY <1>4 DEF handler

(* What an appended element adds. *)
LEMMA AmongAppend ==
  ASSUME NEW s \in Seq(Numbers), NEW n \in Numbers
  PROVE  \A no : Among(no, Append(s, n)) <=> Among(no, s) \/ no = n
<1>1. /\ Len(s) \in Nat /\ DOMAIN s = 1 .. Len(s) /\ DOMAIN Append(s, n) = 1 .. Len(s) + 1
      /\ \A k \in 1 .. Len(s) : Append(s, n)[k] = s[k]
      /\ Append(s, n)[Len(s) + 1] = n
  BY AppendProperties
<1>2. ASSUME NEW no, Among(no, s) PROVE Among(no, Append(s, n))
  BY <1>1, <1>2 DEF Among
<1>3. Among(n, Append(s, n))
  BY <1>1 DEF Among
<1>4. ASSUME NEW no, Among(no, Append(s, n)), no /= n PROVE Among(no, s)
  <2>1. PICK k \in 1 .. Len(s) + 1 : Append(s, n)[k] = no
    BY <1>1, <1>4 DEF Among
  <2>2. k \in 1 .. Len(s)
    BY <1>1, <1>4, <2>1
  <2> QED
    BY <1>1, <2>1, <2>2 DEF Among
<1> QED
  BY <1>2, <1>3, <1>4

(* A number belongs to one request. *)
LEMMA AskedOnce ==
  ASSUME StreamType, AskedInOrder
  PROVE  \A i, j \in DOMAIN asked : asked[i].no = asked[j].no => i = j
<1> SUFFICES ASSUME NEW i \in DOMAIN asked, NEW j \in DOMAIN asked, i /= j
             PROVE  asked[i].no /= asked[j].no
  OBVIOUS
<1>1. asked[i] \in Asked /\ asked[j] \in Asked /\ i \in Nat /\ j \in Nat
  BY DEF StreamType
<1>2. asked[i].no \in Nat /\ asked[j].no \in Nat
  BY <1>1 DEF Asked, Numbers
<1>3. i < j \/ j < i
  BY <1>1
<1> QED
  BY <1>2, <1>3 DEF AskedInOrder

(* The last fragment of a request. *)
LEMMA ReceiveLast ==
  ASSUME StreamInv, wire /= <<>>, wire[1].part = wire[1].parts,
         wire' = Tail(wire), current_message' = <<>>,
         requests' = IF wire[1].good THEN Append(requests, wire[1].no) ELSE requests,
         UNCHANGED <<answered, asked, count>>
  PROVE  StreamInv'
<1>0. StreamType /\ AskedInOrder /\ WireInOrder /\ PartInOrder /\ Handled /\ QueueInOrder
  BY DEF StreamInv
<1>1. /\ wire[1] \in Fragments /\ wire' \in Seq(Fragments)
      /\ 1 \in DOMAIN wire /\ \A k \in DOMAIN wire : k \in Nat /\ k >= 1
      /\ \A k \in DOMAIN wire' : k + 1 \in DOMAIN wire /\ wire'[k] = wire[k + 1]
      /\ \A k \in DOMAIN wire : k /= 1 => k - 1 \in DOMAIN wire' /\ wire'[k - 1] = wire[k]
  BY WireTail
<1>2. PICK n \in Numbers : n = wire[1].no
  <2>1. PICK i \in DOMAIN asked : asked[i].no = wire[1].no
    BY <1>0, <1>1 DEF WireInOrder
  <2>2. asked[i] \in Asked
    BY <1>0 DEF StreamType
  <2>3. asked[i].no \in Numbers
    BY <2>2 DEF Asked
  <2> QED
    BY <2>1, <2>3
<1>3. \A k \in DOMAIN wire : k /= 1 => n < wire[k].no
  <2> SUFFICES ASSUME NEW k \in DOMAIN wire, k /= 1 PROVE n < wire[k].no
    OBVIOUS
  <2>1. 2 \in DOMAIN wire /\ k \in Nat /\ k >= 2
    BY <1>0, <1>1 DEF StreamType
  <2>2. n < wire[2].no
    BY <1>0, <1>1, <1>2, <2>1 DEF WireInOrder
  <2>3. wire[2] \in Fragments /\ wire[k] \in Fragments
    BY <1>0, <2>1 DEF StreamType
  <2>4. wire[2].no \in Nat /\ wire[k].no \in Nat
    BY <2>3 DEF Fragments
  <2>5. k = 2 \/ wire[2].no <= wire[k].no
    BY <1>0, <2>1 DEF WireInOrder
  <2> QED
    BY <2>2, <2>4, <2>5 DEF Numbers
<1>4. StreamType'
  BY <1>0, <1>1, <1>2 DEF StreamType
<1>5. AskedInOrder'
  BY <1>0 DEF AskedInOrder
<1>6. WireInOrder'
  <2>1. ASSUME NEW k \in DOMAIN wire' PROVE
          /\ wire'[k].part <= wire'[k].parts
          /\ \E i \in DOMAIN asked : asked[i].no = wire'[k].no /\ asked[i].good = wire'[k].good
          /\ wire'[k].part < wire'[k].parts => k + 1 \in DOMAIN wire' /\ Continues(wire'[k + 1], wire'[k])
          /\ wire'[k].part = wire'[k].parts /\ k + 1 \in DOMAIN wire' =>
                wire'[k + 1].part = 1 /\ wire'[k].no < wire'[k + 1].no
    <3>1. /\ k \in Nat /\ k + 1 \in DOMAIN wire /\ wire'[k] = wire[k + 1]
          /\ k + 2 \in DOMAIN wire <=> k + 1 \in DOMAIN wire'
          /\ k + 1 \in DOMAIN wire' => wire'[k + 1] = wire[k + 2]
      BY <1>0, <1>1 DEF StreamType
    <3> QED
      BY <1>0, <3>1 DEF WireInOrder
  <2>2. \A j, k \in DOMAIN wire' : j < k => wire'[j].no <= wire'[k].no
    BY <1>0, <1>1 DEF WireInOrder
  <2> QED
    BY <2>1, <2>2 DEF WireInOrder
<1>7. PartInOrder'
  <2>1. wire' /= <<>> => wire'[1].part = 1
    <3> SUFFICES ASSUME wire' /= <<>> PROVE wire'[1].part = 1
      OBVIOUS
    <3>1. 1 \in DOMAIN wire'
      BY <1>1
    <3>2. 2 \in DOMAIN wire /\ wire'[1] = wire[2]
      BY <1>1, <3>1
    <3> QED
      BY <1>0, <1>1, <3>2 DEF WireInOrder
  <2> QED
    BY <2>1 DEF PartInOrder
<1>8. \A no : OnWire(no)' <=> OnWire(no) /\ no /= n
  <2>1. ASSUME NEW no, OnWire(no), no /= n PROVE OnWire(no)'
    <3>1. PICK k \in DOMAIN wire : wire[k].no = no
      BY <2>1 DEF OnWire
    <3>2. k /= 1
      BY <1>2, <2>1, <3>1
    <3> QED
      BY <1>1, <3>1, <3>2 DEF OnWire
  <2>2. ASSUME NEW no, OnWire(no)' PROVE OnWire(no) /\ no /= n
    <3>1. PICK k \in DOMAIN wire' : wire'[k].no = no
      BY <2>2 DEF OnWire
    <3>2. k + 1 \in DOMAIN wire /\ wire[k + 1].no = no /\ k + 1 /= 1
      BY <1>1, <3>1
    <3> QED
      BY <1>3, <3>2 DEF OnWire, Numbers
  <2> QED
    BY <2>1, <2>2
<1>9. /\ OnWire(n)
      /\ \A no : Among(no, requests') <=> Among(no, requests) \/ (no = n /\ wire[1].good)
  <2>1. OnWire(n)
    BY <1>1, <1>2 DEF OnWire
  <2>2. \A no : Among(no, Append(requests, n)) <=> Among(no, requests) \/ no = n
    BY <1>0, AmongAppend DEF StreamType
  <2> QED
    BY <1>2, <2>1, <2>2
<1>10. \A no \in Numbers : Among(no, answered) \/ Among(no, requests) => no < n
  BY <1>0, <1>1, <1>2 DEF QueueInOrder, Handled
<1>11. \A i \in DOMAIN asked : asked[i].no = n => asked[i].good = wire[1].good
  <2>1. PICK i \in DOMAIN asked : asked[i].no = n /\ asked[i].good = wire[1].good
    BY <1>0, <1>1, <1>2 DEF WireInOrder
  <2>2. \A j \in DOMAIN asked : asked[j].no = n => j = i
    BY <1>0, <2>1, AskedOnce
  <2> QED
    BY <2>1, <2>2
<1>12. Handled'
  <2> SUFFICES ASSUME NEW i \in DOMAIN asked, ~OnWire(asked[i].no)'
               PROVE  /\ \A k \in DOMAIN wire' : asked[i].no < wire'[k].no
                      /\ asked[i].good => Among(asked[i].no, answered) \/ Among(asked[i].no, requests')
    BY DEF Handled, Among
  <2>1. CASE asked[i].no = n
    BY <1>1, <1>3, <1>9, <1>11, <2>1
  <2>2. CASE asked[i].no /= n
    <3>1. ~OnWire(asked[i].no)
      BY <1>8, <2>2
    <3> QED
      BY <1>0, <1>1, <1>9, <3>1 DEF Handled
  <2> QED
    BY <2>1, <2>2
<1>13. QueueInOrder'
  <2>1. ASSUME NEW no \in Numbers, Among(no, answered) \/ Among(no, requests')
        PROVE  /\ ~OnWire(no)'
               /\ \E i \in DOMAIN asked : asked[i].no = no /\ asked[i].good
    <3>1. CASE Among(no, answered) \/ Among(no, requests)
      BY <1>0, <1>8, <3>1 DEF QueueInOrder
    <3>2. CASE no = n /\ wire[1].good
      BY <1>0, <1>1, <1>2, <1>8, <3>2 DEF WireInOrder
    <3> QED
      BY <1>9, <2>1, <3>1, <3>2
  <2>2. /\ \A j, k \in DOMAIN requests' : j < k => requests'[j] < requests'[k]
        /\ \A j \in DOMAIN answered, k \in DOMAIN requests' : answered[j] < requests'[k]
    <3>1. /\ \A j \in DOMAIN answered : answered[j] < n
          /\ \A j \in DOMAIN requests : requests[j] < n
      BY <1>0, <1>10 DEF Among, StreamType
    <3>2. CASE wire[1].good
      <4>1. /\ Len(requests) \in Nat /\ DOMAIN requests = 1 .. Len(requests)
            /\ \A k \in DOMAIN requests' :
                  \/ k \in DOMAIN requests /\ requests'[k] = requests[k]
                  \/ k = Len(requests) + 1 /\ requests'[k] = n
        BY <1>0, <1>2, <3>2, AppendProperties DEF StreamType
      <4> QED
        BY <1>0, <3>1, <4>1 DEF QueueInOrder
    <3>3. CASE ~wire[1].good
      BY <1>0, <3>3 DEF QueueInOrder
    <3> QED
      BY <3>2, <3>3
  <2> QED
    BY <2>1, <2>2 DEF QueueInOrder, Among
<1> QED
  BY <1>4, <1>5, <1>6, <1>7, <1>12, <1>13 DEF StreamInv

(* What the first element of a queue is to the rest of it. *)
LEMMA AmongTail ==
  ASSUME NEW s \in Seq(Numbers), s /= <<>>
  PROVE  /\ s[1] \in Numbers /\ Tail(s) \in Seq(Numbers) /\ 1 \in DOMAIN s
         /\ \A k \in DOMAIN Tail(s) : k \in Nat /\ k >= 1 /\ k + 1 \in DOMAIN s /\ Tail(s)[k] = s[k + 1]
         /\ \A no : Among(no, s) <=> no = s[1] \/ Among(no, Tail(s))
<1>1. /\ Len(s) \in Nat /\ Len(s) > 0 /\ DOMAIN s = 1 .. Len(s)
      /\ DOMAIN Tail(s) = 1 .. Len(s) - 1 /\ Tail(s) \in Seq(Numbers)
      /\ \A i \in 1 .. Len(s) - 1 : Tail(s)[i] = s[i + 1]
      /\ s[1] \in Numbers
  BY HeadTailProperties
<1>2. ASSUME NEW no, Among(no, Tail(s)) PROVE Among(no, s)
  <2>1. PICK k \in 1 .. Len(s) - 1 : Tail(s)[k] = no
    BY <1>1, <1>2 DEF Among
  <2>2. k + 1 \in DOMAIN s /\ s[k + 1] = no
    BY <1>1, <2>1
  <2> QED
    BY <2>2 DEF Among
<1>3. ASSUME NEW no, Among(no, s), no /= s[1] PROVE Among(no, Tail(s))
  <2>1. PICK k \in 1 .. Len(s) : s[k] = no
    BY <1>1, <1>3 DEF Among
  <2>2. k - 1 \in DOMAIN Tail(s) /\ Tail(s)[k - 1] = no
    BY <1>1, <1>3, <2>1
  <2> QED
    BY <2>2 DEF Among
<1>4. Among(s[1], s)
  BY <1>1 DEF Among
<1> QED
  BY <1>1, <1>2, <1>3, <1>4

(* The first response of the queue is written. *)
LEMMA WriteFirst ==
  ASSUME StreamInv, requests /= <<>>,
         answered' = Append(answered, requests[1]), requests' = Tail(requests),
         UNCHANGED <<current_message, wire, asked, count>>
  PROVE  StreamInv'
<1>0. StreamType /\ AskedInOrder /\ WireInOrder /\ PartInOrder /\ Handled /\ QueueInOrder
  BY DEF StreamInv
<1>1. /\ requests[1] \in Numbers /\ requests' \in Seq(Numbers) /\ 1 \in DOMAIN requests
      /\ \A k \in DOMAIN requests' : /\ k \in Nat /\ k >= 1 /\ k + 1 \in DOMAIN requests
                                     /\ requests'[k] = requests[k + 1]
      /\ \A no : Among(no, requests) <=> no = requests[1] \/ Among(no, requests')
  BY <1>0, AmongTail DEF StreamType
<1>2. \A no : Among(no, answered') <=> Among(no, answered) \/ no = requests[1]
  BY <1>0, <1>1, AmongAppend DEF StreamType
<1>3. \A no : OnWire(no)' <=> OnWire(no)
  BY DEF OnWire
<1>4. \A no : Among(no, answered') \/ Among(no, requests') <=> Among(no, answered) \/ Among(no, requests)
  BY <1>1, <1>2
<1>5. StreamType'
  BY <1>0, <1>1, AppendProperties DEF StreamType
<1>6. AskedInOrder' /\ WireInOrder' /\ PartInOrder'
  BY <1>0 DEF AskedInOrder, WireInOrder, PartInOrder
<1>7. Handled'
  <2> SUFFICES ASSUME NEW i \in DOMAIN asked, ~OnWire(asked[i].no)'
               PROVE  /\ \A k \in DOMAIN wire : asked[i].no < wire[k].no
                      /\ asked[i].good => Among(asked[i].no, answered') \/ Among(asked[i].no, requests')
    BY DEF Handled, Among
  <2> QED
    BY <1>0, <1>3, <1>4 DEF Handled
<1>8. QueueInOrder'
  <2>1. \A no \in Numbers : Among(no, answered') \/ Among(no, requests') =>
          ~OnWire(no)' /\ \E i \in DOMAIN asked : asked[i].no = no /\ asked[i].good
    BY <1>0, <1>3, <1>4 DEF QueueInOrder
  <2>2. \A j, k \in DOMAIN requests' : j < k => requests'[j] < requests'[k]
    BY <1>0, <1>1 DEF QueueInOrder
  <2>3. ASSUME NEW j \in DOMAIN answered', NEW k \in DOMAIN requests' PROVE answered'[j] < requests'[k]
    <3>1. requests'[k] = requests[k + 1] /\ k + 1 \in DOMAIN requests /\ 1 < k + 1
      BY <1>1, <2>3
    <3>2. \/ j \in DOMAIN answered /\ answered'[j] = answered[j]
          \/ answered'[j] = requests[1]
      BY <1>0, <1>1, <2>3, AppendProperties DEF StreamType
    <3> QED
      BY <1>0, <1>1, <3>1, <3>2 DEF QueueInOrder
  <2> QED
    BY <2>1, <2>2, <2>3 DEF QueueInOrder, Among
<1> QED
  BY <1>5, <1>6, <1>7, <1>8 DEF StreamInv

(* One writable callback writes the first response. *)
LEMMA WritableWrites ==
  ASSUME StreamInv, WritableInv, Writable
  PROVE  /\ requests /= <<>>
         /\ answered' = Append(answered, requests[1]) /\ requests' = Tail(requests)
         /\ UNCHANGED <<current_message, wire, asked, count>>
<1>1. /\ requests \in Seq(Numbers) /\ answered \in Seq(Numbers) /\ requests /= <<>>
      /\ answered' = answered \o SubSeq(requests, 1, 1)
      /\ requests' = SubSeq(requests, 2, Len(requests))
      /\ UNCHANGED <<current_message, wire, asked, count>>
  BY DEF StreamInv, StreamType, WritableInv, Writable
<1>2. Len(requests) \in Nat /\ Len(requests) >= 1 /\ requests[1] \in Numbers
  BY <1>1
<1>3. SubSeq(requests, 1, 1) = <<requests[1]>> \o SubSeq(requests, 2, 1)
  BY <1>1, <1>2, SubSeqRecursiveFirst
<1>4. SubSeq(requests, 2, 1) = <<>>
  BY SubSeqEmpty
<1>5. <<requests[1]>> \in Seq(Numbers)
  BY <1>2
<1>6. SubSeq(requests, 1, 1) = <<requests[1]>>
  BY <1>3, <1>4, <1>5, ConcatEmptySeq
<1> QED
  BY <1>1, <1>2, <1>6, TailIsSubSeq, AppendIsConcat

(* LWS_CALLBACK_CLIENT_RECEIVE *)
LEMMA ReceiveStep ==
  ASSUME StreamInv, WritableInv, Receive
  PROVE  StreamInv' /\ WritableInv' /\ UNCHANGED <<asked, answered>>
<1>0. StreamType /\ WireInOrder
  BY DEF StreamInv
<1>1. /\ wire /= <<>> /\ wire[1] = Head(wire) /\ wire[1] \in Fragments /\ 1 \in DOMAIN wire
      /\ wire' = Tail(wire) /\ UNCHANGED <<asked, answered, count>>
  BY WireTail DEF Receive
<1>2. wire[1].part \in Nat /\ wire[1].parts \in Nat /\ wire[1].part <= wire[1].parts
  BY <1>0, <1>1, BoundsAssumption DEF WireInOrder, Fragments
<1>3. CASE wire[1].part < wire[1].parts
  <2>1. /\ current_message' = Append(current_message, wire[1])
        /\ requests' = requests \o <<>> /\ writable' = (writable \/ <<>> /= <<>>)
    <3>1. Head(wire).part /= Head(wire).parts
      BY <1>1, <1>2, <1>3
    <3> QED
      BY <1>1, <3>1, Zenon DEF Receive
  <2>2. requests' = requests
    BY <1>0, <2>1, ConcatEmptySeq DEF StreamType
  <2>3. StreamInv'
    BY <1>1, <1>3, <2>1, <2>2, ReceivePart
  <2> QED
    BY <1>1, <2>1, <2>2, <2>3 DEF WritableInv
<1>4. CASE wire[1].part = wire[1].parts
  <2>1. /\ current_message' = <<>>
        /\ requests' = requests \o handler(Append(current_message, wire[1]))
        /\ writable' = (writable \/ handler(Append(current_message, wire[1])) /= <<>>)
    BY <1>1, <1>4 DEF Receive
  <2>2. handler(Append(current_message, wire[1])) = IF wire[1].good THEN <<wire[1].no>> ELSE <<>>
    BY <1>1, HandlerDecodes
  <2>3. wire[1].no \in Numbers
    <3>1. PICK i \in DOMAIN asked : asked[i].no = wire[1].no
      BY <1>0, <1>1 DEF WireInOrder
    <3>2. asked[i] \in Asked
      BY <1>0 DEF StreamType
    <3> QED
      BY <3>1, <3>2 DEF Asked
  <2>4. requests' = IF wire[1].good THEN Append(requests, wire[1].no) ELSE requests
    BY <1>0, <2>1, <2>2, <2>3, ConcatEmptySeq, AppendIsConcat DEF StreamType
  <2>5. StreamInv'
    BY <1>1, <1>4, <2>1, <2>4, ReceiveLast
  <2>6. Append(requests, wire[1].no) /= <<>>
    BY <1>0, <2>3, AppendProperties DEF StreamType
  <2>7. WritableInv'
    BY <2>1, <2>2, <2>4, <2>6 DEF WritableInv
  <2> QED
    BY <1>1, <2>5, <2>7
<1> QED
  BY <1>2, <1>3, <1>4

(* LWS_CALLBACK_CLIENT_WRITEABLE *)
LEMMA WritableStep ==
  ASSUME StreamInv, WritableInv, Writable
  PROVE  StreamInv' /\ WritableInv'
<1>1. StreamInv'
  BY WritableWrites, WriteFirst
<1>2. WritableInv'
  BY DEF Writable, StillWritable, WritableInv
<1> QED
  BY <1>1, <1>2

(* The connection is lost, or the context is destroyed. *)
LEMMA ForgetStep ==
  ASSUME StreamInv, Forget, UNCHANGED count
  PROVE  StreamInv' /\ WritableInv' /\ Rsp!Drop
<1>1. /\ current_message' = <<>> /\ wire' = <<>> /\ requests' = <<>> /\ answered' = <<>>
      /\ asked' = <<>> /\ count' \in 0 .. MaxMessages /\ writable' = FALSE
  BY DEF Forget, StreamInv, StreamType
<1>2. DOMAIN wire' = {} /\ DOMAIN asked' = {} /\ DOMAIN requests' = {} /\ DOMAIN answered' = {}
      /\ DOMAIN current_message' = {}
  BY <1>1
<1>3. StreamType'
  BY <1>1 DEF StreamType
<1>4. AskedInOrder' /\ WireInOrder' /\ PartInOrder' /\ Handled'
  BY <1>1, <1>2 DEF AskedInOrder, WireInOrder, PartInOrder, Handled
<1>5. QueueInOrder'
  BY <1>2 DEF QueueInOrder, Among
<1>6. WritableInv' /\ Rsp!Drop
  BY <1>1 DEF WritableInv, Rsp!Drop
<1> QED
  BY <1>3, <1>4, <1>5, <1>6 DEF StreamInv

(* What a new request adds to what is under way. *)
LEMMA WireConcat ==
  ASSUME StreamType, NEW n \in Nat, NEW parts \in 1 .. MaxFragments, NEW good \in BOOLEAN,
         wire' = wire \o [i \in 1 .. parts |-> [no |-> n, part |-> i, parts |-> parts, good |-> good]]
  PROVE  /\ wire' \in Seq(Fragments) /\ Len(wire) \in Nat /\ DOMAIN wire = 1 .. Len(wire)
         /\ DOMAIN wire' = 1 .. Len(wire) + parts
         /\ \A k \in DOMAIN wire : wire'[k] = wire[k]
         /\ \A k \in DOMAIN wire' : k > Len(wire) =>
               wire'[k] = [no |-> n, part |-> k - Len(wire), parts |-> parts, good |-> good]
<1> DEFINE F == [i \in 1 .. parts |-> [no |-> n, part |-> i, parts |-> parts, good |-> good]]
<1>0. parts \in Nat /\ 1 .. parts \subseteq 1 .. MaxFragments
  BY BoundsAssumption
<1>1. \A i \in 1 .. parts : F[i] \in Fragments
  BY <1>0 DEF Fragments
<1>2. F \in [1 .. parts -> Fragments]
  BY <1>1
<1>3. F \in Seq(Fragments) /\ Len(F) = parts /\ Len(wire) \in Nat /\ DOMAIN wire = 1 .. Len(wire)
  BY <1>0, <1>2 DEF StreamType
<1>4. F \in Seq(Fragments) /\ wire \in Seq(Fragments) /\ wire' = wire \o F
  BY <1>3 DEF StreamType
<1> HIDE DEF F
<1>5. /\ wire' \in Seq(Fragments) /\ Len(wire') = Len(wire) + parts
      /\ \A i \in 1 .. Len(wire) + parts : wire'[i] = IF i <= Len(wire) THEN wire[i] ELSE F[i - Len(wire)]
  <2>1. /\ wire \o F \in Seq(Fragments) /\ Len(wire \o F) = Len(wire) + Len(F)
        /\ \A i \in 1 .. Len(wire) + Len(F) :
              (wire \o F)[i] = IF i <= Len(wire) THEN wire[i] ELSE F[i - Len(wire)]
    BY <1>4, ConcatProperties
  <2> QED
    BY <1>3, <1>4, <2>1
<1>6. DOMAIN wire' = 1 .. Len(wire) + parts
  BY <1>5
<1>7. \A k \in DOMAIN wire : wire'[k] = wire[k]
  BY <1>0, <1>3, <1>5
<1>8. ASSUME NEW k \in DOMAIN wire', k > Len(wire)
      PROVE  wire'[k] = [no |-> n, part |-> k - Len(wire), parts |-> parts, good |-> good]
  <2>1. k \in 1 .. Len(wire) + parts /\ ~(k <= Len(wire)) /\ k - Len(wire) \in 1 .. parts
    BY <1>0, <1>3, <1>6, <1>8
  <2>2. wire'[k] = F[k - Len(wire)]
    BY <1>5, <2>1
  <2> QED
    BY <2>1, <2>2 DEF F
<1> QED
  BY <1>3, <1>5, <1>6, <1>7, <1>8

(* A fragment belongs to a request that was sent. *)
LEMMA WireNumbered ==
  ASSUME StreamInv
  PROVE  \A k \in DOMAIN wire : wire[k].no \in Nat /\ wire[k].no <= count
<1> SUFFICES ASSUME NEW k \in DOMAIN wire PROVE wire[k].no \in Nat /\ wire[k].no <= count
  OBVIOUS
<1>1. PICK i \in DOMAIN asked : asked[i].no = wire[k].no
  BY DEF StreamInv, WireInOrder
<1>2. wire[k] \in Fragments
  BY DEF StreamInv, StreamType
<1> QED
  BY <1>1, <1>2 DEF StreamInv, AskedInOrder, Fragments

(* The service sends a request. *)
LEMMA SendStep ==
  ASSUME StreamInv, WritableInv, SendRequest
  PROVE  StreamInv' /\ WritableInv' /\ Rsp!Ask
<1>0. StreamType /\ AskedInOrder /\ WireInOrder /\ PartInOrder /\ Handled /\ QueueInOrder
  BY DEF StreamInv
<1>1. PICK n \in Numbers : n = count + 1 /\ count' = n /\ count \in Nat
  BY <1>0, BoundsAssumption DEF SendRequest, StreamType, Numbers
<1>2. PICK parts \in 1 .. MaxFragments, good \in BOOLEAN :
         /\ asked' = Append(asked, [no |-> n, good |-> good])
         /\ wire' = wire \o [i \in 1 .. parts |-> [no |-> n, part |-> i, parts |-> parts, good |-> good]]
  BY <1>1 DEF SendRequest
<1>3. UNCHANGED <<current_message, requests, answered, writable>>
  BY DEF SendRequest
<1>4. n \in Nat /\ parts \in Nat /\ parts >= 1
  BY <1>1, BoundsAssumption DEF Numbers
<1>5. /\ wire' \in Seq(Fragments) /\ Len(wire) \in Nat /\ DOMAIN wire = 1 .. Len(wire)
      /\ DOMAIN wire' = 1 .. Len(wire) + parts
      /\ \A k \in DOMAIN wire : wire'[k] = wire[k]
      /\ \A k \in DOMAIN wire' : k > Len(wire) =>
            wire'[k] = [no |-> n, part |-> k - Len(wire), parts |-> parts, good |-> good]
  BY <1>0, <1>2, <1>4, WireConcat
<1> DEFINE r == [no |-> n, good |-> good]
<1>6. r \in Asked /\ r.no = n /\ r.good = good
  BY <1>1, <1>2 DEF Asked
<1> HIDE DEF r
<1>7. /\ Len(asked) \in Nat /\ asked' \in Seq(Asked) /\ DOMAIN asked' = 1 .. Len(asked) + 1
      /\ DOMAIN asked = 1 .. Len(asked) /\ \A i \in DOMAIN asked : i \in DOMAIN asked' /\ asked'[i] = asked[i]
      /\ Len(asked) + 1 \in DOMAIN asked' /\ asked'[Len(asked) + 1] = r
      /\ \A i \in DOMAIN asked' : i \in DOMAIN asked \/ i = Len(asked) + 1
  <2>1. asked' = Append(asked, r) /\ asked \in Seq(Asked)
    BY <1>0, <1>2 DEF r, StreamType
  <2> QED
    BY <1>6, <2>1, AppendProperties
<1>8. \A i \in DOMAIN asked : asked[i].no \in Nat /\ asked[i].no < n
  <2> SUFFICES ASSUME NEW i \in DOMAIN asked PROVE asked[i].no \in Nat /\ asked[i].no < n
    OBVIOUS
  <2>1. asked[i] \in Asked /\ asked[i].no <= count
    BY <1>0 DEF StreamType, AskedInOrder
  <2>2. asked[i].no \in Nat
    BY <2>1 DEF Asked, Numbers
  <2> QED
    BY <1>1, <2>1, <2>2
<1>9. \A k \in DOMAIN wire : wire[k].no \in Nat /\ wire[k].no < n
  BY <1>1, WireNumbered
<1>10. StreamType'
  <2>1. count' \in 0 .. MaxMessages
    BY <1>1, BoundsAssumption DEF Numbers
  <2> QED
    BY <1>0, <1>3, <1>5, <1>7, <2>1 DEF StreamType
<1>11. AskedInOrder'
  <2>1. \A i \in DOMAIN asked' : asked'[i].no <= count'
    BY <1>1, <1>4, <1>6, <1>7, <1>8
  <2>2. ASSUME NEW i \in DOMAIN asked', NEW j \in DOMAIN asked', i < j PROVE asked'[i].no < asked'[j].no
    <3>1. i \in DOMAIN asked
      BY <1>7, <2>2
    <3>2. CASE j \in DOMAIN asked
      BY <1>0, <1>7, <2>2, <3>1, <3>2 DEF AskedInOrder
    <3>3. CASE j = Len(asked) + 1
      BY <1>6, <1>7, <1>8, <3>1, <3>3
    <3> QED
      BY <1>7, <2>2, <3>2, <3>3
  <2> QED
    BY <2>1, <2>2 DEF AskedInOrder
<1>12. WireInOrder'
  <2>1. ASSUME NEW k \in DOMAIN wire, k \in DOMAIN wire' PROVE
          /\ wire'[k].part <= wire'[k].parts
          /\ \E i \in DOMAIN asked' : asked'[i].no = wire'[k].no /\ asked'[i].good = wire'[k].good
          /\ wire'[k].part < wire'[k].parts => k + 1 \in DOMAIN wire' /\ Continues(wire'[k + 1], wire'[k])
          /\ wire'[k].part = wire'[k].parts /\ k + 1 \in DOMAIN wire' =>
                wire'[k + 1].part = 1 /\ wire'[k].no < wire'[k + 1].no
    <3>0. k \in Nat /\ k <= Len(wire) /\ wire'[k] = wire[k]
      BY <1>5, <2>1
    <3>1. wire'[k].part <= wire'[k].parts
      BY <1>0, <3>0 DEF WireInOrder
    <3>2. \E i \in DOMAIN asked' : asked'[i].no = wire'[k].no /\ asked'[i].good = wire'[k].good
      BY <1>0, <1>7, <3>0 DEF WireInOrder
    <3>3. CASE k + 1 \in DOMAIN wire
      BY <1>0, <1>4, <1>5, <3>0, <3>1, <3>2, <3>3 DEF WireInOrder
    <3>4. CASE k + 1 \notin DOMAIN wire
      <4>1. k = Len(wire) /\ k + 1 \in DOMAIN wire' /\ ~(wire[k].part < wire[k].parts)
        BY <1>0, <1>4, <1>5, <3>0, <3>4 DEF WireInOrder
      <4>2. wire'[k + 1] = [no |-> n, part |-> 1, parts |-> parts, good |-> good]
        BY <1>5, <3>0, <4>1
      <4>3. wire'[k].no < n
        BY <1>9, <3>0
      <4> QED
        BY <3>0, <3>1, <3>2, <4>1, <4>2, <4>3
    <3> QED
      BY <3>3, <3>4
  <2>2. ASSUME NEW k \in DOMAIN wire', k > Len(wire) PROVE
          /\ wire'[k].part <= wire'[k].parts
          /\ \E i \in DOMAIN asked' : asked'[i].no = wire'[k].no /\ asked'[i].good = wire'[k].good
          /\ wire'[k].part < wire'[k].parts => k + 1 \in DOMAIN wire' /\ Continues(wire'[k + 1], wire'[k])
          /\ wire'[k].part = wire'[k].parts /\ k + 1 \in DOMAIN wire' =>
                wire'[k + 1].part = 1 /\ wire'[k].no < wire'[k + 1].no
    <3>0. /\ k \in Nat /\ k <= Len(wire) + parts
          /\ wire'[k] = [no |-> n, part |-> k - Len(wire), parts |-> parts, good |-> good]
      BY <1>5, <2>2
    <3>1. wire'[k].part <= wire'[k].parts
      BY <1>4, <1>5, <3>0
    <3>2. \E i \in DOMAIN asked' : asked'[i].no = wire'[k].no /\ asked'[i].good = wire'[k].good
      BY <1>6, <1>7, <3>0
    <3>3. CASE k = Len(wire) + parts
      <4>1. ~(wire'[k].part < wire'[k].parts) /\ k + 1 \notin DOMAIN wire'
        BY <1>4, <1>5, <3>0, <3>3
      <4> QED
        BY <3>1, <3>2, <4>1
    <3>4. CASE k < Len(wire) + parts
      <4>1. wire'[k].part /= wire'[k].parts /\ k + 1 \in DOMAIN wire'
        BY <1>4, <1>5, <3>0, <3>4
      <4>2. wire'[k + 1] = [no |-> n, part |-> k + 1 - Len(wire), parts |-> parts, good |-> good]
        <5>1. PICK l \in DOMAIN wire' : l = k + 1 /\ l > Len(wire)
          BY <1>5, <2>2, <3>0, <4>1
        <5>2. wire'[l] = [no |-> n, part |-> l - Len(wire), parts |-> parts, good |-> good]
          BY <1>5, <5>1
        <5> QED
          BY <5>1, <5>2
      <4>3. Continues(wire'[k + 1], wire'[k])
        BY <1>5, <3>0, <4>2 DEF Continues
      <4> QED
        BY <3>1, <3>2, <4>1, <4>3
    <3> QED
      BY <1>4, <1>5, <3>0, <3>3, <3>4
  <2>3. ASSUME NEW j \in DOMAIN wire', NEW k \in DOMAIN wire', j < k PROVE wire'[j].no <= wire'[k].no
    <3>1. CASE k \in DOMAIN wire
      <4>1. j \in DOMAIN wire
        BY <1>5, <2>3, <3>1
      <4> QED
        BY <1>0, <1>5, <2>3, <3>1, <4>1 DEF WireInOrder
    <3>2. CASE k \notin DOMAIN wire
      <4>1. k > Len(wire) /\ wire'[k].no = n
        BY <1>4, <1>5, <2>3, <3>2
      <4>2. j \in DOMAIN wire \/ wire'[j].no = n
        BY <1>4, <1>5, <2>3
      <4> QED
        BY <1>4, <1>5, <1>9, <4>1, <4>2
    <3> QED
      BY <3>1, <3>2
  <2>4. \A k \in DOMAIN wire' : k \in DOMAIN wire \/ k > Len(wire)
    BY <1>4, <1>5
  <2> QED
    BY <2>1, <2>2, <2>3, <2>4 DEF WireInOrder
<1>13. PartInOrder'
  <2>1. wire' /= <<>> /\ 1 \in DOMAIN wire'
    BY <1>4, <1>5
  <2>2. CASE wire = <<>>
    <3>1. Len(wire) = 0 /\ current_message' = <<>> /\ Len(current_message') = 0 /\ DOMAIN current_message' = {}
      BY <1>0, <1>3, <2>2 DEF PartInOrder
    <3>2. wire'[1].part = 1
      BY <1>5, <2>1, <3>1
    <3> QED
      BY <2>1, <3>1, <3>2 DEF PartInOrder
  <2>3. CASE wire /= <<>>
    <3>1. 1 \in DOMAIN wire /\ wire'[1] = wire[1]
      BY <1>0, <1>5, <2>3 DEF StreamType
    <3> QED
      BY <1>0, <1>3, <2>1, <2>3, <3>1 DEF PartInOrder
  <2> QED
    BY <2>2, <2>3
<1>14. \A no : OnWire(no)' <=> OnWire(no) \/ no = n
  <2>1. ASSUME NEW no, OnWire(no) PROVE OnWire(no)'
    <3>1. PICK k \in DOMAIN wire : wire[k].no = no
      BY <2>1 DEF OnWire
    <3>2. k \in DOMAIN wire' /\ wire'[k].no = no
      BY <1>4, <1>5, <3>1
    <3> QED
      BY <3>2 DEF OnWire
  <2>2. OnWire(n)'
    <3>1. PICK k \in DOMAIN wire' : k > Len(wire)
      <4>1. Len(wire) + 1 \in DOMAIN wire' /\ Len(wire) + 1 > Len(wire)
        BY <1>4, <1>5
      <4> QED
        BY <4>1
    <3>2. wire'[k].no = n
      BY <1>5, <3>1
    <3> QED
      BY <3>2 DEF OnWire
  <2>3. ASSUME NEW no, OnWire(no)', no /= n PROVE OnWire(no)
    <3>1. PICK k \in DOMAIN wire' : wire'[k].no = no
      BY <2>3 DEF OnWire
    <3>2. k \in DOMAIN wire
      BY <1>4, <1>5, <2>3, <3>1
    <3> QED
      BY <1>5, <3>1, <3>2 DEF OnWire
  <2> QED
    BY <2>1, <2>2, <2>3
<1>15. Handled'
  <2> SUFFICES ASSUME NEW i \in DOMAIN asked', ~\E k \in DOMAIN wire' : wire'[k].no = asked'[i].no
               PROVE  /\ \A k \in DOMAIN wire' : asked'[i].no < wire'[k].no
                      /\ asked'[i].good => Among(asked'[i].no, answered) \/ Among(asked'[i].no, requests)
    BY <1>3 DEF Handled, Among, OnWire
  <2>1. PICK a \in Asked : a = asked'[i]
    BY <1>7
  <2>2. ~OnWire(a.no)' /\ a.no /= n
    BY <1>14, <2>1 DEF OnWire
  <2>3. i \in DOMAIN asked /\ a = asked[i] /\ ~OnWire(a.no)
    BY <1>6, <1>7, <1>14, <2>1, <2>2
  <2>4. /\ \A k \in DOMAIN wire : a.no < wire[k].no
        /\ a.good => Among(a.no, answered) \/ Among(a.no, requests)
    BY <1>0, <2>3 DEF Handled
  <2>5. a.no < n
    BY <1>8, <2>3
  <2>6. ASSUME NEW k \in DOMAIN wire' PROVE a.no < wire'[k].no
    BY <1>4, <1>5, <2>4, <2>5
  <2> QED
    BY <2>1, <2>4, <2>6
<1>16. QueueInOrder'
  <2>1. ASSUME NEW no \in Numbers, Among(no, answered) \/ Among(no, requests)
        PROVE  ~OnWire(no)' /\ \E i \in DOMAIN asked' : asked'[i].no = no /\ asked'[i].good
    <3>1. ~OnWire(no) /\ \E i \in DOMAIN asked : asked[i].no = no /\ asked[i].good
      BY <1>0, <2>1 DEF QueueInOrder
    <3>2. no /= n
      BY <1>8, <3>1
    <3> QED
      BY <1>7, <1>14, <3>1, <3>2
  <2> QED
    BY <1>0, <1>3, <2>1 DEF QueueInOrder, Among
<1>17. WritableInv'
  BY <1>3 DEF WritableInv
<1>18. Rsp!Ask
  <2>1. r \in [no : 1 .. MaxMessages, good : BOOLEAN] /\ asked' = Append(asked, r)
    BY <1>2, <1>6 DEF r, Asked, Numbers
  <2>2. \A i \in DOMAIN asked : asked[i].no /= r.no
    BY <1>4, <1>6, <1>8
  <2> QED
    BY <1>3, <2>1, <2>2 DEF Rsp!Ask
<1> QED
  BY <1>10, <1>11, <1>12, <1>13, <1>15, <1>16, <1>17, <1>18 DEF StreamInv

(* The response that is written answers the first request that can be decoded
   and is not answered yet.                                                 *)
LEMMA WriteAnswers ==
  ASSUME StreamInv, WritableInv, Writable
  PROVE  Rsp!Answer
<1>0. StreamType /\ AskedInOrder /\ Handled /\ QueueInOrder
  BY DEF StreamInv
<1>1. requests /= <<>> /\ answered' = Append(answered, requests[1]) /\ UNCHANGED asked
  BY WritableWrites
<1>2. requests[1] \in Numbers /\ 1 \in DOMAIN requests
  BY <1>0, <1>1, AmongTail DEF StreamType
<1>3. Among(requests[1], requests)
  BY <1>2 DEF Among
<1>4. /\ ~OnWire(requests[1])
      /\ \E i \in DOMAIN asked : asked[i].no = requests[1] /\ asked[i].good
  BY <1>0, <1>2, <1>3 DEF QueueInOrder
<1>5. PICK i \in DOMAIN asked : asked[i].no = requests[1] /\ asked[i].good
  BY <1>4
<1>6. ~Among(requests[1], answered)
  <2> SUFFICES ASSUME NEW k \in DOMAIN answered, answered[k] = requests[1] PROVE FALSE
    BY DEF Among
  <2>1. answered[k] < requests[1]
    BY <1>0, <1>2 DEF QueueInOrder
  <2> QED
    BY <1>2, <2>1 DEF Numbers
<1>7. ASSUME NEW j \in 1 .. i - 1, asked[j].good PROVE Among(asked[j].no, answered)
  <2>1. i \in Nat /\ j \in DOMAIN asked /\ j < i
    BY <1>0, <1>7 DEF StreamType
  <2>2. asked[j].no < requests[1] /\ asked[j] \in Asked
    BY <1>0, <1>5, <2>1 DEF AskedInOrder, StreamType
  <2>3. asked[j].no \in Nat /\ requests[1] \in Nat
    BY <1>2, <2>2 DEF Asked, Numbers
  <2>4. ~OnWire(asked[j].no)
    <3> SUFFICES ASSUME NEW k \in DOMAIN wire, wire[k].no = asked[j].no PROVE FALSE
      BY DEF OnWire
    <3>1. requests[1] < wire[k].no
      BY <1>0, <1>4, <1>5 DEF Handled
    <3> QED
      BY <2>2, <2>3, <3>1
  <2>5. Among(asked[j].no, answered) \/ Among(asked[j].no, requests)
    BY <1>0, <1>7, <2>1, <2>4 DEF Handled
  <2>6. ~Among(asked[j].no, requests)
    <3> SUFFICES ASSUME NEW k \in DOMAIN requests, requests[k] = asked[j].no PROVE FALSE
      BY DEF Among
    <3>1. k = 1 \/ 1 < k
      BY <1>0 DEF StreamType
    <3>2. k = 1 \/ requests[1] < requests[k]
      BY <1>0, <1>2, <3>1 DEF QueueInOrder
    <3> QED
      BY <2>2, <2>3, <3>2
  <2> QED
    BY <2>5, <2>6
<1>8. Rsp!Due(i)
  BY <1>5, <1>6, <1>7 DEF Rsp!Due, Rsp!Answered, Among
<1> QED
  BY <1>1, <1>5, <1>8 DEF Rsp!Answer

ClientInv == StreamInv /\ WritableInv

(* A client that has not started. *)
LEMMA ClientBegins == Init => ClientInv /\ Rsp!Init
<1> SUFFICES ASSUME Init PROVE ClientInv /\ Rsp!Init
  OBVIOUS
<1>1. ClientInit
  BY DEF Init
<1>2. /\ current_message = <<>> /\ wire = <<>> /\ requests = <<>> /\ answered = <<>>
      /\ asked = <<>> /\ count = 0
  BY <1>1 DEF ClientInit
<1>3. count \in 0 .. MaxMessages
  BY <1>2, BoundsAssumption
<1>4. StreamInv
  BY <1>2, <1>3, StreamEmpty
<1>5. ~writable
  BY <1>1 DEF ClientInit
<1> QED
  BY <1>2, <1>4, <1>5 DEF ClientInv, WritableInv, Rsp!Init

(* Every step of the programs keeps the invariant and is a step of Responder
   or leaves what it speaks about alone.                                    *)
LEMMA ClientStep ==
  ASSUME ClientInv, [Next]_vars
  PROVE  ClientInv' /\ [Rsp!Next]_<<asked, answered>>
<1>0. StreamInv /\ WritableInv
  BY DEF ClientInv
<1>1. ASSUME UNCHANGED <<streamVars, writable>> PROVE ClientInv' /\ [Rsp!Next]_<<asked, answered>>
  <2>1. StreamInv'
    BY <1>0, <1>1, StreamFrame
  <2>2. WritableInv'
    BY <1>0, <1>1 DEF WritableInv, streamVars
  <2> QED
    BY <1>1, <2>1, <2>2 DEF ClientInv, streamVars
<1>2. ASSUME Forget, UNCHANGED count PROVE ClientInv' /\ [Rsp!Next]_<<asked, answered>>
  BY <1>0, <1>2, ForgetStep DEF ClientInv, Rsp!Next
<1>3. CASE UNCHANGED clientVars
  BY <1>1, <1>3 DEF clientVars, network, streamVars
<1>4. CASE main_run \/ main_end \/ application_run
  BY <1>1, <1>4 DEF main_run, main_end, application_run, Start, network, streamVars
<1>5. CASE Receive
  BY <1>0, <1>5, ReceiveStep DEF ClientInv
<1>6. CASE Writable
  BY <1>0, <1>6, WritableStep, WriteAnswers DEF ClientInv, Rsp!Next
<1>7. CASE SendRequest
  BY <1>0, <1>7, SendStep DEF ClientInv, Rsp!Next
<1>8. CASE ConnectionError \/ Closed
  BY <1>2, <1>8 DEF ConnectionError, Closed
<1>9. CASE LoopTest
  <2>1. CASE shutdown_requested
    BY <1>2, <1>9, <2>1 DEF LoopTest
  <2>2. CASE ~shutdown_requested
    BY <1>1, <1>9, <2>2 DEF LoopTest, network, streamVars
  <2> QED
    BY <2>1, <2>2
<1>10. CASE EnterPoll \/ ServiceReturn \/ Established \/ WakeUp
  BY <1>1, <1>10 DEF EnterPoll, ServiceReturn, Established, WakeUp, network, streamVars
<1>11. CASE on_signal \/ RequestShutdown \/ Interrupt \/ PeerStops \/ PeerStarts
  BY <1>1, <1>11 DEF on_signal, RequestShutdown, Interrupt, PeerStops, PeerStarts, network, streamVars
<1>12. CASE UNCHANGED vars
  BY <1>3, <1>12 DEF vars
<1> QED
  BY <1>3, <1>4, <1>5, <1>6, <1>7, <1>8, <1>9, <1>10, <1>11, <1>12
     DEF Next, Callback, Loop, Others

(* The client implements the safety part of Responder: requests that can be
   decoded are answered in the order in which they were sent, each once, and
   never on another connection than theirs, for any number of requests and
   fragments and wherever fragments, responses, signals and losses of the
   connection interleave.                                                   *)
THEOREM ResponderTheorem == Spec => Rsp!Init /\ [][Rsp!Next]_<<asked, answered>>
<1>1. Init => ClientInv /\ Rsp!Init
  BY ClientBegins
<1>2. ClientInv /\ [Next]_vars => ClientInv' /\ [Rsp!Next]_<<asked, answered>>
  BY ClientStep
<1> QED
  BY <1>1, <1>2, PTL DEF Spec

-----------------------------------------------------------------------------
(* Induction up to N, for sets: T is the set of numbers with the property. *)
LEMMA UpTo ==
  ASSUME NEW N \in Nat, NEW T, 0 \in T, \A n \in 0 .. N - 1 : n \in T => n + 1 \in T
  PROVE  \A n \in 0 .. N : n \in T
<1> DEFINE R == OpToRel(<, Nat)
           B == (0 .. N) \ T
<1>1. SUFFICES ASSUME B /= {} PROVE FALSE
  OBVIOUS
<1>2. IsWellFoundedOn(R, Nat)
  BY NatLessThanWellFounded
<1>3. B \subseteq Nat
  OBVIOUS
<1> HIDE DEF R, B
<1>4. PICK m \in B : \A k \in B : ~(<<k, m>> \in R)
  BY <1>1, <1>2, <1>3, WFMin
<1>5. \A k, l \in Nat : k < l => <<k, l>> \in R
  BY DEF R, OpToRel
<1>6. m \in 0 .. N /\ m \notin T /\ m /= 0
  BY <1>4 DEF B
<1>7. m - 1 \in 0 .. N - 1 /\ m - 1 \in Nat /\ m - 1 < m /\ m \in Nat
  BY <1>6
<1>8. m - 1 \notin T
  BY <1>6, <1>7
<1>9. m - 1 \in B
  BY <1>7, <1>8 DEF B
<1> QED
  BY <1>4, <1>5, <1>7, <1>9

-----------------------------------------------------------------------------
(* P holds the positions of the arguments that are no values of an option. *)
Places(line, options, P) ==
    /\ P \subseteq 1 .. Len(line)
    /\ \A i \in 1 .. Len(line) : i \in P <=> ~(i - 1 \in P /\ line[i - 1] \in options)

(* The same for the first n arguments. *)
PlacesTo(line, options, P, n) ==
    /\ P \subseteq 1 .. n
    /\ \A i \in 1 .. n : i \in P <=> ~(i - 1 \in P /\ line[i - 1] \in options)

(* The next argument is one of them, or the value of the last one. *)
LEMMA PlacesGrow ==
  ASSUME NEW line, NEW options, NEW n \in Nat, NEW P, PlacesTo(line, options, P, n)
  PROVE  \E Q : PlacesTo(line, options, Q, n + 1)
<1>1. CASE n \in P /\ line[n] \in options
  <2>1. P \subseteq 1 .. n + 1
    BY DEF PlacesTo
  <2>2. ASSUME NEW i \in 1 .. n + 1
        PROVE  i \in P <=> ~(i - 1 \in P /\ line[i - 1] \in options)
    <3>1. CASE i = n + 1
      <4>1. i - 1 = n /\ i \notin P
        BY <3>1 DEF PlacesTo
      <4> QED
        BY <1>1, <4>1
    <3>2. CASE i # n + 1
      <4>1. i \in 1 .. n
        BY <3>2, <2>2
      <4> QED
        BY <4>1 DEF PlacesTo
    <3> QED
      BY <3>1, <3>2
  <2> QED
    BY <2>1, <2>2 DEF PlacesTo
<1>2. CASE ~(n \in P /\ line[n] \in options)
  <2> DEFINE Q == P \cup {n + 1}
  <2>1. Q \subseteq 1 .. n + 1
    BY DEF PlacesTo
  <2>2. ASSUME NEW i \in 1 .. n + 1
        PROVE  i \in Q <=> ~(i - 1 \in Q /\ line[i - 1] \in options)
    <3>1. CASE i = n + 1
      <4>1. i - 1 = n /\ i \in Q /\ i - 1 # n + 1
        BY <3>1
      <4>2. i - 1 \in Q <=> n \in P
        BY <4>1
      <4> QED
        BY <1>2, <4>1, <4>2
    <3>2. CASE i # n + 1
      <4>1. i \in 1 .. n /\ i - 1 # n + 1
        BY <3>2, <2>2
      <4>2. (i \in Q <=> i \in P) /\ (i - 1 \in Q <=> i - 1 \in P)
        BY <3>2, <4>1
      <4> QED
        BY <4>1, <4>2 DEF PlacesTo
    <3> QED
      BY <3>1, <3>2
  <2>3. PlacesTo(line, options, Q, n + 1)
    BY <2>1, <2>2 DEF PlacesTo
  <2> QED
    BY <2>3
<1> QED
  BY <1>1, <1>2

(* Every line has them. *)
LEMMA PlacesExist ==
  ASSUME NEW line, NEW options, NEW N \in Nat
  PROVE  \E P : PlacesTo(line, options, P, N)
<1> DEFINE T == {n \in 0 .. N : \E P : PlacesTo(line, options, P, n)}
<1>1. 0 \in T
  <2>1. PlacesTo(line, options, {}, 0)
    BY DEF PlacesTo
  <2> QED
    BY <2>1
<1>2. ASSUME NEW n \in 0 .. N - 1, n \in T PROVE n + 1 \in T
  <2>1. n \in Nat /\ n + 1 \in 0 .. N
    BY <1>2
  <2>2. \E P : PlacesTo(line, options, P, n + 1)
    BY <1>2, <2>1, PlacesGrow
  <2> QED
    BY <2>1, <2>2
<1>3. N \in 0 .. N
  OBVIOUS
<1> HIDE DEF T
<1>4. \A n \in 0 .. N : n \in T
  BY <1>1, <1>2, UpTo
<1>5. N \in T
  BY <1>3, <1>4
<1> QED
  BY <1>5 DEF T

(* The positions that Positions chooses are such a set. *)
LEMMA PositionsPlaces ==
  ASSUME NEW S, NEW line \in Seq(S), NEW options
  PROVE  Places(line, options, Positions(line, options))
<1>1. DOMAIN line = 1 .. Len(line) /\ Len(line) \in Nat
  BY LenProperties
<1>2. PICK P : PlacesTo(line, options, P, Len(line))
  BY <1>1, PlacesExist
<1>3. /\ P \in SUBSET (DOMAIN line)
      /\ \A i \in DOMAIN line : i \in P <=> ~(i - 1 \in P /\ line[i - 1] \in options)
  BY <1>1, <1>2 DEF PlacesTo
<1>4. /\ Positions(line, options) \in SUBSET (DOMAIN line)
      /\ \A i \in DOMAIN line : i \in Positions(line, options) <=>
             ~(i - 1 \in Positions(line, options) /\ line[i - 1] \in options)
  BY <1>3, Zenon DEF Positions
<1> QED
  BY <1>1, <1>4 DEF Places

-----------------------------------------------------------------------------
(* The positions among the first n arguments. *)
Seen(P, n) == {j \in P : j <= n}

(* Before the loop, *)
LEMMA SeenNone ==
  ASSUME NEW N, NEW P, P \subseteq 1 .. N
  PROVE  Seen(P, 0) = {}
<1>1. \A j \in P : ~(j <= 0)
  OBVIOUS
<1> QED
  BY <1>1 DEF Seen

(* and after it. *)
LEMMA SeenAll ==
  ASSUME NEW N \in Nat, NEW P, P \subseteq 1 .. N, NEW n \in Nat, n >= N
  PROVE  Seen(P, n) = P
<1>1. \A j \in P : j <= n
  OBVIOUS
<1> QED
  BY <1>1 DEF Seen

(* An option and its value have been read. *)
LEMMA SeenValued ==
  ASSUME NEW line, NEW options, NEW P, Places(line, options, P), Len(line) \in Nat,
         NEW n \in Nat, n + 1 < Len(line), n + 1 \in P, line[n + 1] \in options
  PROVE  /\ Seen(P, n + 2) = Seen(P, n) \cup {n + 1}
         /\ n + 2 < Len(line) => n + 3 \in P
<1>1. n + 2 \in 1 .. Len(line) /\ (n + 2) - 1 = n + 1
  OBVIOUS
<1>2. n + 2 \notin P
  BY <1>1 DEF Places
<1>3. P \subseteq Nat
  BY DEF Places
<1>4. Seen(P, n + 2) = Seen(P, n) \cup {n + 1}
  <2>1. \A j \in P : j <= n + 2 <=> j <= n \/ j = n + 1
    BY <1>2, <1>3
  <2> QED
    BY <2>1, Zenon DEF Seen
<1>5. ASSUME n + 2 < Len(line) PROVE n + 3 \in P
  <2>1. n + 3 \in 1 .. Len(line) /\ (n + 3) - 1 = n + 2
    BY <1>5
  <2> QED
    BY <2>1, <1>2 DEF Places
<1> QED
  BY <1>4, <1>5

(* An argument without a value has been read. *)
LEMMA SeenSingle ==
  ASSUME NEW line, NEW options, NEW P, Places(line, options, P), Len(line) \in Nat,
         NEW n \in Nat, n < Len(line), n + 1 \in P
  PROVE  /\ Seen(P, n + 1) = Seen(P, n) \cup {n + 1}
         /\ line[n + 1] \notin options /\ n + 1 < Len(line) => n + 2 \in P
<1>3. P \subseteq Nat
  BY DEF Places
<1>4. Seen(P, n + 1) = Seen(P, n) \cup {n + 1}
  <2>1. \A j \in P : j <= n + 1 <=> j <= n \/ j = n + 1
    BY <1>3
  <2> QED
    BY <2>1, Zenon DEF Seen
<1>5. ASSUME line[n + 1] \notin options, n + 1 < Len(line) PROVE n + 2 \in P
  <2>1. n + 2 \in 1 .. Len(line) /\ (n + 2) - 1 = n + 1
    BY <1>5
  <2> QED
    BY <2>1, <1>5 DEF Places
<1> QED
  BY <1>4, <1>5

(* The largest member of a set. *)
LEMMA MaxNew ==
  ASSUME NEW T, NEW m \in Int, m \in T, \A y \in T : y \in Int /\ y <= m
  PROVE  Max(T) = m
<1>1. \A y \in T : m >= y
  OBVIOUS
<1>2. \A x \in T : (\A y \in T : x >= y) => x = m
  <2> SUFFICES ASSUME NEW x \in T, \A y \in T : x >= y PROVE x = m
    OBVIOUS
  <2>1. x >= m /\ x \in Int /\ x <= m
    OBVIOUS
  <2> QED
    BY <2>1
<1>3. Max(T) \in T /\ \A y \in T : Max(T) >= y
  BY <1>1, Zenon DEF Max
<1> QED
  BY <1>2, <1>3, Zenon

(* One more argument, one that is later than the others. *)
LEMMA LastValueNew ==
  ASSUME NEW line, NEW S, NEW n \in Nat, \A j \in S : j \in Int /\ j <= n,
         NEW option, NEW default
  PROVE  LastValue(line, S \cup {n + 1}, option, default) =
             IF line[n + 1] = option THEN line[n + 2] ELSE LastValue(line, S, option, default)
<1> DEFINE old == {i \in S : line[i] = option}
           new == {i \in S \cup {n + 1} : line[i] = option}
<1>1. CASE line[n + 1] = option
  <2>1. n + 1 \in new /\ \A y \in new : y \in Int /\ y <= n + 1
    BY <1>1
  <2>2. Max(new) = n + 1
    <3> HIDE DEF new
    <3> QED
      BY <2>1, MaxNew
  <2>3. new # {} /\ Max(new) + 1 = n + 2
    BY <2>1, <2>2
  <2>4. LastValue(line, S \cup {n + 1}, option, default) = line[Max(new) + 1]
    BY <2>3 DEF LastValue
  <2> QED
    BY <1>1, <2>3, <2>4
<1>2. CASE line[n + 1] # option
  <2>1. new = old
    BY <1>2
  <2> QED
    BY <1>2, <2>1 DEF LastValue
<1> QED
  BY <1>1, <1>2

(* Without the option it is the default. *)
LEMMA LastValueNone ==
  ASSUME NEW line, NEW option, NEW default
  PROVE  LastValue(line, {}, option, default) = default
BY DEF LastValue

(* The same for the options of the provider. *)
LEMMA LastGivenNew ==
  ASSUME NEW line, NEW S, NEW n \in Nat, \A j \in S : j \in Int /\ j <= n,
         NEW option, NEW default
  PROVE  LastGiven(line, S \cup {n + 1}, option, default) =
             IF Found(line[n + 1]).option = option THEN optarg(line, n + 1)
                                                   ELSE LastGiven(line, S, option, default)
<1> DEFINE old == {i \in S : Found(line[i]).option = option}
           new == {i \in S \cup {n + 1} : Found(line[i]).option = option}
<1>1. CASE Found(line[n + 1]).option = option
  <2>1. n + 1 \in new /\ \A y \in new : y \in Int /\ y <= n + 1
    BY <1>1
  <2>2. Max(new) = n + 1
    <3> HIDE DEF new
    <3> QED
      BY <2>1, MaxNew
  <2>3. new # {}
    BY <2>1
  <2>4. LastGiven(line, S \cup {n + 1}, option, default) = optarg(line, Max(new))
    BY <2>3, Zenon DEF LastGiven
  <2> QED
    BY <1>1, <2>2, <2>4, Zenon
<1>2. CASE Found(line[n + 1]).option # option
  <2>1. new = old
    BY <1>2, Zenon
  <2> QED
    BY <1>2, <2>1, Zenon DEF LastGiven
<1> QED
  BY <1>1, <1>2

(* And for no option. *)
LEMMA LastGivenNone ==
  ASSUME NEW line, NEW option, NEW default
  PROVE  LastGiven(line, {}, option, default) = default
<1>1. {i \in {} : Found(line[i]).option = option} = {}
  OBVIOUS
<1> QED
  BY <1>1, Zenon DEF LastGiven

-----------------------------------------------------------------------------
(* A ws_config, and a context, with any values. *)
IsConfig(c) ==
    c = [cmd |-> c.cmd, exit_code |-> c.exit_code, port |-> c.port, use_tls |-> c.use_tls,
         args |-> c.args, key_path |-> c.key_path, cert_path |-> c.cert_path, other |-> c.other]
IsContext(c) ==
    c = [cmd |-> c.cmd, exit_code |-> c.exit_code, base_path |-> c.base_path, url |-> c.url,
         token |-> c.token, env |-> c.env]

(* Updates of ws_config, which leave the other fields alone. *)
LEMMA ConfigHelp ==
  ASSUME NEW c, IsConfig(c), NEW code, NEW d, d = show_help(c, code)
  PROVE  /\ IsConfig(d) /\ d.cmd = "show_help" /\ d.exit_code = code /\ d.port = c.port
         /\ d.use_tls = c.use_tls /\ d.args = c.args
         /\ d.key_path = c.key_path /\ d.cert_path = c.cert_path
BY DEF IsConfig, show_help

(* An exception ends the program. *)
LEMMA ConfigAbort ==
  ASSUME NEW c, IsConfig(c), NEW d, d = abort(c)
  PROVE  IsConfig(d) /\ d.exit_code = Aborted /\ d.port = c.port
BY DEF IsConfig, abort

(* What store() does, unless it aborts. *)
Stored(c, option, value, d) ==
    /\ IsConfig(d) /\ d.cmd = c.cmd /\ d.exit_code = c.exit_code /\ d.args = c.args
    /\ d.port = (IF option = "--wf-port" THEN to_uint16(Number[value]) ELSE c.port)
    /\ d.use_tls = (IF option \in {"--wf-key", "--wf-cert"} THEN TRUE ELSE c.use_tls)
    /\ d.key_path = (IF option = "--wf-key" THEN value ELSE c.key_path)
    /\ d.cert_path = (IF option = "--wf-cert" THEN value ELSE c.cert_path)

(* std::stoi accepts the value of a port or a timeout. *)
LEMMA ConfigStore ==
  ASSUME NEW c, IsConfig(c), NEW option, NEW value,
         option \in {"--wf-port", "--wf-timeout"} => value \in DOMAIN Number
  PROVE  Stored(c, option, value, store(c, option, value))
<1>0. PICK d : d = store(c, option, value)
  OBVIOUS
<1> SUFFICES Stored(c, option, value, d)
  BY <1>0
<1>1. CASE option = "--wf-port"
  <2>1. d = [c EXCEPT !.port = to_uint16(Number[value])]
    BY <1>0, <1>1 DEF store
  <2> QED
    BY <1>1, <2>1 DEF IsConfig, Stored
<1>2. CASE option = "--wf-timeout"
  <2>1. d = [c EXCEPT !.other = @ \cup {option}]
    BY <1>0, <1>2 DEF store
  <2> QED
    BY <1>2, <2>1 DEF IsConfig, Stored
<1>3. CASE option = "--wf-key"
  <2>1. d = [c EXCEPT !.key_path = value, !.use_tls = TRUE]
    BY <1>0, <1>3 DEF store
  <2> QED
    BY <1>3, <2>1 DEF IsConfig, Stored
<1>4. CASE option = "--wf-cert"
  <2>1. d = [c EXCEPT !.cert_path = value, !.use_tls = TRUE]
    BY <1>0, <1>4 DEF store
  <2> QED
    BY <1>4, <2>1 DEF IsConfig, Stored
<1>5. CASE option \notin {"--wf-port", "--wf-timeout", "--wf-key", "--wf-cert"}
  <2>1. d = [c EXCEPT !.other = @ \cup {option}]
    BY <1>0, <1>5 DEF store
  <2> QED
    BY <1>5, <2>1 DEF IsConfig, Stored
<1> QED
  BY <1>1, <1>2, <1>3, <1>4, <1>5

(* std::stoi throws. *)
LEMMA ConfigThrows ==
  ASSUME NEW c, NEW option, NEW value,
         option \in {"--wf-port", "--wf-timeout"}, value \notin DOMAIN Number
  PROVE  store(c, option, value) = abort(c)
BY DEF store

(* Updates of context. *)
LEMMA ContextHelp ==
  ASSUME NEW c, IsContext(c), NEW code, NEW d, d = show_help(c, code)
  PROVE  /\ IsContext(d) /\ d.cmd = "show_help" /\ d.exit_code = code
         /\ d.url = c.url /\ d.token = c.token /\ d.env = c.env
BY DEF IsContext, show_help

(* The value of an option. *)
LEMMA ContextSet ==
  ASSUME NEW c, IsContext(c), NEW option, NEW value, NEW d, d = set(c, option, value)
  PROVE  /\ IsContext(d) /\ d.cmd = c.cmd /\ d.exit_code = c.exit_code /\ d.env = c.env
         /\ d.url = (IF option = "u" THEN value ELSE c.url)
         /\ d.token = (IF option = "t" THEN value ELSE c.token)
<1>1. CASE option = "p"
  <2>1. d = [c EXCEPT !.base_path = value]
    BY <1>1 DEF set
  <2> QED
    BY <1>1, <2>1 DEF IsContext
<1>2. CASE option = "u"
  <2>1. d = [c EXCEPT !.url = value]
    BY <1>2 DEF set
  <2> QED
    BY <1>2, <2>1 DEF IsContext
<1>3. CASE option = "t"
  <2>1. d = [c EXCEPT !.token = value]
    BY <1>3 DEF set
  <2> QED
    BY <1>3, <2>1 DEF IsContext
<1>4. CASE option \notin {"p", "u", "t"}
  <2>1. d = c
    BY <1>4 DEF set
  <2> QED
    BY <1>4, <2>1
<1> QED
  BY <1>1, <1>2, <1>3, <1>4

(* A flag asks for something else than to run. *)
LEMMA ContextFlagged ==
  ASSUME NEW c, IsContext(c), NEW flags, NEW d, d = flagged(c, flags)
  PROVE  /\ IsContext(d) /\ d.exit_code = c.exit_code
         /\ d.url = c.url /\ d.token = c.token /\ d.env = c.env
         /\ d.cmd = "run" <=> c.cmd = "run" /\ flags = <<>>
<1>1. CASE flags = <<>>
  <2>1. d = c
    BY <1>1, Zenon DEF flagged
  <2> QED
    BY <1>1, <2>1, Zenon
<1>2. CASE flags # <<>>
  <2>1. PICK cmd : cmd = IF Last(flags) = "h" THEN "show_help" ELSE "show_version"
    OBVIOUS
  <2>2. d = [c EXCEPT !.cmd = cmd]
    BY <1>2, <2>1, Zenon DEF flagged
  <2>3. cmd # "run"
    BY <2>1
  <2>4. /\ IsContext(d) /\ d.exit_code = c.exit_code /\ d.cmd = cmd
        /\ d.url = c.url /\ d.token = c.token /\ d.env = c.env
    BY <2>2 DEF IsContext
  <2> QED
    BY <1>2, <2>3, <2>4, Zenon
<1> QED
  BY <1>1, <1>2

-----------------------------------------------------------------------------
(* context, when the arguments at some positions have been read as options. *)
ContextOf(line, S, c) ==
    /\ c.url = LastGiven(line, S, "u", "")
    /\ c.token = LastGiven(line, S, "t", c.env)
    /\ \A i \in S : ~Refused(line, i) /\ line[i] # EndOfOptions
    /\ c.cmd = "run" <=> \A i \in S : Found(line[i]).flags = <<>>

(* The loop of context::context after n arguments. *)
ContextRead(line, P, n, c) == ContextOf(line, Seen(P, n), c)

(* Positions that were seen are behind. *)
LEMMA SeenBelow ==
  ASSUME NEW N, NEW P, P \subseteq 1 .. N, NEW n
  PROVE  \A j \in Seen(P, n) : j \in Int /\ j <= n
BY DEF Seen

(* The argument at i is read. *)
ContextTakes(line, i, c, d) ==
    /\ ~Refused(line, i) /\ line[i] # EndOfOptions
    /\ d = set(flagged(c, Found(line[i]).flags), Found(line[i]).option, optarg(line, i))

(* One more argument has been read. *)
LEMMA ContextMore ==
  ASSUME NEW line, NEW S, NEW n \in Nat, \A j \in S : j \in Int /\ j <= n,
         NEW c, IsContext(c), ContextOf(line, S, c), NEW d, ContextTakes(line, n + 1, c, d)
  PROVE  IsContext(d) /\ d.exit_code = c.exit_code /\ ContextOf(line, S \cup {n + 1}, d)
<1>0. /\ ~Refused(line, n + 1) /\ line[n + 1] # EndOfOptions
      /\ d = set(flagged(c, Found(line[n + 1]).flags), Found(line[n + 1]).option,
                 optarg(line, n + 1))
  BY Zenon DEF ContextTakes
<1>1. PICK flags : flags = Found(line[n + 1]).flags
  OBVIOUS
<1>2. PICK letter : letter = Found(line[n + 1]).option
  OBVIOUS
<1>3. PICK value : value = optarg(line, n + 1)
  OBVIOUS
<1>4. PICK b : b = flagged(c, flags)
  OBVIOUS
<1>5. /\ IsContext(b) /\ b.exit_code = c.exit_code
      /\ b.url = c.url /\ b.token = c.token /\ b.env = c.env
      /\ b.cmd = "run" <=> c.cmd = "run" /\ flags = <<>>
  BY <1>4, ContextFlagged
<1>6. d = set(b, letter, value)
  BY <1>0, <1>1, <1>2, <1>3, <1>4, Zenon
<1>7. /\ IsContext(d) /\ d.cmd = b.cmd /\ d.exit_code = b.exit_code /\ d.env = b.env
      /\ d.url = (IF letter = "u" THEN value ELSE b.url)
      /\ d.token = (IF letter = "t" THEN value ELSE b.token)
  BY <1>5, <1>6, ContextSet
<1>8. \A option, default :
        LastGiven(line, S \cup {n + 1}, option, default) =
            IF letter = option THEN value ELSE LastGiven(line, S, option, default)
  BY <1>2, <1>3, LastGivenNew
<1>9. /\ c.url = LastGiven(line, S, "u", "")
      /\ c.token = LastGiven(line, S, "t", c.env)
      /\ \A i \in S : ~Refused(line, i) /\ line[i] # EndOfOptions
      /\ c.cmd = "run" <=> \A i \in S : Found(line[i]).flags = <<>>
  BY Zenon DEF ContextOf
<1>10. d.url = LastGiven(line, S \cup {n + 1}, "u", "")
  BY <1>5, <1>7, <1>8, <1>9, Zenon
<1>11. d.token = LastGiven(line, S \cup {n + 1}, "t", d.env)
  <2>1. LastGiven(line, S \cup {n + 1}, "t", c.env) =
            IF letter = "t" THEN value ELSE LastGiven(line, S, "t", c.env)
    BY <1>8, Zenon
  <2>2. d.env = c.env /\ d.token = (IF letter = "t" THEN value ELSE c.token)
    BY <1>5, <1>7, Zenon
  <2> QED
    BY <1>9, <2>1, <2>2, Zenon
<1>12. \A i \in S \cup {n + 1} : ~Refused(line, i) /\ line[i] # EndOfOptions
  BY <1>0, <1>9, Zenon
<1>13. d.cmd = "run" <=> \A i \in S \cup {n + 1} : Found(line[i]).flags = <<>>
  BY <1>1, <1>5, <1>7, <1>9, Zenon
<1> QED
  BY <1>5, <1>7, <1>10, <1>11, <1>12, <1>13, Zenon DEF ContextOf

(* Options before the end of the options, if it has been found, *)
LEMMA OptionsReadEnd ==
  ASSUME NEW line, NEW P, P = Positions(line, Takers), P \subseteq Int,
         NEW n \in Int, n + 1 \in P, line[n + 1] = EndOfOptions,
         \A i \in Seen(P, n) : line[i] # EndOfOptions
  PROVE  OptionsRead(line) = Seen(P, n)
<1>1. ASSUME NEW i \in P
      PROVE  (\A j \in P : line[j] = EndOfOptions => i < j) <=> i <= n
  <2>1. ASSUME \A j \in P : line[j] = EndOfOptions => i < j PROVE i <= n
    <3>1. i < n + 1
      BY <2>1
    <3> QED
      BY <1>1, <3>1
  <2>2. ASSUME i <= n, NEW j \in P, line[j] = EndOfOptions PROVE i < j
    <3>1. ~(j <= n)
      BY <2>2, Zenon DEF Seen
    <3>2. i \in Int /\ j \in Int
      BY <1>1, <2>2
    <3> QED
      BY <2>2, <3>1, <3>2
  <2> QED
    BY <2>1, <2>2
<1> QED
  BY <1>1, Zenon DEF OptionsRead, Seen

(* and all of them if there is none. *)
LEMMA OptionsReadAll ==
  ASSUME NEW line, NEW P, P = Positions(line, Takers), \A i \in P : line[i] # EndOfOptions
  PROVE  OptionsRead(line) = P
<1>1. \A i \in P : \A j \in P : line[j] = EndOfOptions => i < j
  BY Zenon
<1> QED
  BY <1>1, Zenon DEF OptionsRead

(* An argument before which the options have not ended is read as one. *)
LEMMA OptionsReadHere ==
  ASSUME NEW line, NEW P, P = Positions(line, Takers), P \subseteq Int,
         NEW n \in Int, n + 1 \in P, line[n + 1] # EndOfOptions,
         \A i \in Seen(P, n) : line[i] # EndOfOptions
  PROVE  n + 1 \in OptionsRead(line)
<1>1. ASSUME NEW j \in P, line[j] = EndOfOptions PROVE n + 1 < j
  <2>1. ~(j <= n) /\ j # n + 1
    BY <1>1, Zenon DEF Seen
  <2>2. j \in Int
    BY <1>1
  <2> QED
    BY <2>1, <2>2
<1> QED
  BY <1>1, Zenon DEF OptionsRead

-----------------------------------------------------------------------------
(* Options of the service, which are not for FUSE. *)
OwnOptions == ValueOptions \cup {"-h", "--help", "--wf-version"}
ForFuse(line, S) == {i \in S : line[i] \notin OwnOptions}
UsesTls(line, S) == \E i \in S : line[i] \in {"--wf-key", "--wf-cert"}
PortOf(text)     == IF text = "" THEN DefaultPort ELSE to_uint16(Number[text])
Bad(line, S)     == \E i \in S : /\ line[i] \in {"--wf-port", "--wf-timeout"} /\ i < Len(line)
                                 /\ line[i + 1] \notin DOMAIN Number

(* The loop of ws_config::ws_config after n arguments. *)
ConfigRead(line, P, n, c) ==
    /\ Picked(line, ForFuse(line, Seen(P, n)), c.args)
    /\ c.args \in Seq(STRING) /\ Len(c.args) <= n
    /\ c.port = PortOf(LastValue(line, Seen(P, n), "--wf-port", ""))
    /\ c.use_tls = UsesTls(line, Seen(P, n))
    /\ c.key_path = LastValue(line, Seen(P, n), "--wf-key", "")
    /\ c.cert_path = LastValue(line, Seen(P, n), "--wf-cert", "")

(* One more argument for FUSE, and a longer list of them. *)
LEMMA PickedAppend ==
  ASSUME NEW line \in Seq(STRING), NEW F, NEW n \in Nat, n < Len(line), F \subseteq 1 .. n,
         NEW args \in Seq(STRING), Picked(line, F, args)
  PROVE  Picked(line, F \cup {n + 1}, Append(args, line[n + 1]))
<1> DEFINE G == F \cup {n + 1}
           arg == line[n + 1]
           more == Append(args, arg)
<1>1. arg \in STRING
  BY ElementOfSeq
<1>2. IsFiniteSet(1 .. n) /\ n + 1 \notin F
  BY FS_Interval
<1>3. IsFiniteSet(F)
  BY <1>2, FS_Subset
<1>4. IsFiniteSet(G) /\ Cardinality(G) = Cardinality(F) + 1 /\ Cardinality(F) \in Nat
  BY <1>2, <1>3, FS_AddElement, FS_CardinalityType
<1>5. Len(args) = Cardinality(F) /\ \A i \in F : args[Cardinality({j \in F : j <= i})] = line[i]
  BY DEF Picked
<1>6. /\ Len(more) = Len(args) + 1 /\ more[Len(args) + 1] = arg
      /\ \A k \in 1 .. Len(args) : more[k] = args[k]
  BY <1>1, AppendProperties
<1>7. ASSUME NEW i \in G
      PROVE  more[Cardinality({j \in G : j <= i})] = line[i]
  <2>1. CASE i = n + 1
    <3>1. {j \in G : j <= i} = G
      <4>1. \A j \in G : j <= i
        BY <2>1
      <4> HIDE DEF G
      <4> QED
        BY <4>1
    <3> HIDE DEF more
    <3> QED
      BY <2>1, <3>1, <1>4, <1>5, <1>6
  <2>2. CASE i \in F
    <3>1. {j \in G : j <= i} = {j \in F : j <= i}
      BY <2>2
    <3> DEFINE L == {j \in F : j <= i}
    <3>2. L \subseteq F /\ i \in L
      BY <2>2
    <3> HIDE DEF L
    <3>3. IsFiniteSet(L) /\ Cardinality(L) <= Cardinality(F) /\ Cardinality(L) \in Nat
      BY <3>2, <1>3, FS_Subset, FS_CardinalityType
    <3>4. Cardinality(L) # 0
      BY <3>2, <3>3, FS_EmptySet
    <3>5. Cardinality(L) \in 1 .. Len(args)
      BY <3>3, <3>4, <1>4, <1>5
    <3>6. more[Cardinality(L)] = args[Cardinality(L)]
      BY <3>5, <1>6
    <3>7. args[Cardinality(L)] = line[i]
      BY <1>5, <2>2 DEF L
    <3> QED
      BY <3>1, <3>6, <3>7 DEF L
  <2> QED
    BY <1>7, <2>1, <2>2
<1> QED
  BY <1>4, <1>5, <1>6, <1>7 DEF Picked

(* A key or a certificate turns TLS on. *)
LEMMA UsesTlsNew ==
  ASSUME NEW line, NEW S, NEW k
  PROVE  UsesTls(line, S \cup {k}) =
             IF line[k] \in {"--wf-key", "--wf-cert"} THEN TRUE ELSE UsesTls(line, S)
BY DEF UsesTls

(* An option of the service is not for FUSE. *)
LEMMA ForFuseOwn ==
  ASSUME NEW line, NEW S, NEW k, line[k] \in OwnOptions
  PROVE  ForFuse(line, S \cup {k}) = ForFuse(line, S)
BY DEF ForFuse

(* The last values after one more argument. *)
LEMMA LastValues ==
  ASSUME NEW line, NEW S, NEW n \in Nat, \A j \in S : j \in Int /\ j <= n
  PROVE  \A option, default :
           LastValue(line, S \cup {n + 1}, option, default) =
               IF line[n + 1] = option THEN line[n + 2] ELSE LastValue(line, S, option, default)
BY LastValueNew

(* An option with its value, which std::stoi has accepted if it is a number. *)
LEMMA ConfigValued ==
  ASSUME NEW line \in Seq(STRING), NEW P, Places(line, ValueOptions, P),
         NEW n \in Nat, n + 1 < Len(line), n + 1 \in P, line[n + 1] \in ValueOptions,
         line[n + 1] \in {"--wf-port", "--wf-timeout"} => line[n + 2] \in DOMAIN Number,
         NEW c, IsConfig(c), ConfigRead(line, P, n, c),
         NEW d, d = store(c, line[n + 1], line[n + 2])
  PROVE  /\ IsConfig(d) /\ d.exit_code = c.exit_code /\ d.cmd = c.cmd
         /\ ConfigRead(line, P, n + 2, d)
         /\ n + 2 < Len(line) => n + 3 \in P
<1> DEFINE S == Seen(P, n)
           T == S \cup {n + 1}
<1>0. Len(line) \in Nat
  OBVIOUS
<1>1. Seen(P, n + 2) = T /\ (n + 2 < Len(line) => n + 3 \in P)
  BY <1>0, SeenValued, Zenon
<1>2. \A j \in S : j \in Int /\ j <= n
  BY SeenBelow DEF Places
<1>3. PICK arg : arg = line[n + 1]
  OBVIOUS
<1>4. PICK value : value = line[n + 2]
  OBVIOUS
<1>5. /\ IsConfig(d) /\ d.cmd = c.cmd /\ d.exit_code = c.exit_code /\ d.args = c.args
      /\ d.port = (IF arg = "--wf-port" THEN to_uint16(Number[value]) ELSE c.port)
      /\ d.use_tls = (IF arg \in {"--wf-key", "--wf-cert"} THEN TRUE ELSE c.use_tls)
      /\ d.key_path = (IF arg = "--wf-key" THEN value ELSE c.key_path)
      /\ d.cert_path = (IF arg = "--wf-cert" THEN value ELSE c.cert_path)
  <2>1. /\ d = store(c, arg, value)
        /\ arg \in {"--wf-port", "--wf-timeout"} => value \in DOMAIN Number
    BY <1>3, <1>4
  <2>2. Stored(c, arg, value, d)
    BY <2>1, ConfigStore
  <2> QED
    BY <2>2, Zenon DEF Stored
<1> HIDE DEF S
<1>6. \A option, default :
        LastValue(line, T, option, default) =
            IF arg = option THEN value ELSE LastValue(line, S, option, default)
  BY <1>2, <1>3, <1>4, LastValues
<1>7. /\ Picked(line, ForFuse(line, S), c.args)
      /\ c.args \in Seq(STRING) /\ Len(c.args) <= n
      /\ c.port = PortOf(LastValue(line, S, "--wf-port", ""))
      /\ c.use_tls = UsesTls(line, S)
      /\ c.key_path = LastValue(line, S, "--wf-key", "")
      /\ c.cert_path = LastValue(line, S, "--wf-cert", "")
  BY Zenon DEF ConfigRead, S
<1>8. ForFuse(line, T) = ForFuse(line, S)
  <2>1. line[n + 1] \in OwnOptions
    BY DEF OwnOptions
  <2> QED
    BY <2>1, ForFuseOwn, Zenon
<1>9. UsesTls(line, T) = IF arg \in {"--wf-key", "--wf-cert"} THEN TRUE ELSE UsesTls(line, S)
  BY <1>3, UsesTlsNew, Zenon
<1> HIDE DEF T
<1>10. d.port = PortOf(LastValue(line, T, "--wf-port", ""))
  <2>1. CASE arg = "--wf-port"
    <3>1. value \in DOMAIN Number
      BY <1>3, <1>4, <2>1
    <3>2. value # ""
      BY <3>1, NumberAssumption, Zenon
    <3>3. LastValue(line, T, "--wf-port", "") = value
      BY <1>6, <2>1
    <3>4. d.port = to_uint16(Number[value])
      BY <1>5, <2>1
    <3>5. PortOf(value) = to_uint16(Number[value])
      BY <3>2 DEF PortOf
    <3> QED
      BY <3>3, <3>4, <3>5, Zenon
  <2>2. CASE arg # "--wf-port"
    BY <1>5, <1>6, <1>7, <2>2
  <2> QED
    BY <2>1, <2>2
<1>11. d.use_tls = UsesTls(line, T)
  BY <1>5, <1>7, <1>9
<1>12. d.key_path = LastValue(line, T, "--wf-key", "")
  BY <1>5, <1>6, <1>7
<1>13. d.cert_path = LastValue(line, T, "--wf-cert", "")
  BY <1>5, <1>6, <1>7
<1>14. Picked(line, ForFuse(line, T), d.args) /\ d.args \in Seq(STRING) /\ Len(d.args) <= n + 2
  <2>1. PICK args \in Seq(STRING) : args = c.args
    BY <1>7
  <2>2. Picked(line, ForFuse(line, T), args) /\ d.args = args
    BY <1>5, <1>7, <1>8, <2>1, Zenon
  <2>3. Len(args) <= n + 2
    <3>1. Len(args) <= n
      BY <1>7, <2>1, Zenon
    <3> QED
      BY <3>1
  <2> QED
    BY <2>2, <2>3, Zenon
<1>15. ConfigRead(line, P, n + 2, d)
  BY <1>1, <1>10, <1>11, <1>12, <1>13, <1>14, Zenon DEF ConfigRead
<1> QED
  BY <1>1, <1>5, <1>15

(* An argument without a value. *)
LEMMA ConfigSingle ==
  ASSUME NEW line \in Seq(STRING), NEW P, Places(line, ValueOptions, P),
         NEW n \in Nat, n < Len(line), n + 1 \in P, line[n + 1] \notin ValueOptions,
         NEW c, ConfigRead(line, P, n, c),
         NEW d, d.port = c.port, d.use_tls = c.use_tls,
         d.key_path = c.key_path, d.cert_path = c.cert_path,
         d.args = IF line[n + 1] \in OwnOptions THEN c.args ELSE Append(c.args, line[n + 1])
  PROVE  /\ ConfigRead(line, P, n + 1, d)
         /\ n + 1 < Len(line) => n + 2 \in P
<1> DEFINE S == Seen(P, n)
           T == S \cup {n + 1}
<1>0. Len(line) \in Nat
  OBVIOUS
<1>1. /\ Seen(P, n + 1) = T
      /\ line[n + 1] \notin ValueOptions /\ n + 1 < Len(line) => n + 2 \in P
  BY <1>0, SeenSingle, Zenon
<1>2. \A j \in S : j \in 1 .. n
  BY DEF Places, Seen
<1>3. ForFuse(line, S) \subseteq 1 .. n
  <2> HIDE DEF S
  <2> QED
    BY <1>2 DEF ForFuse
<1> HIDE DEF S
<1>6. \A option, default :
        LastValue(line, T, option, default) =
            IF line[n + 1] = option THEN line[n + 2] ELSE LastValue(line, S, option, default)
  BY <1>2, LastValues
<1>7. /\ Picked(line, ForFuse(line, S), c.args)
      /\ c.args \in Seq(STRING) /\ Len(c.args) <= n
      /\ c.port = PortOf(LastValue(line, S, "--wf-port", ""))
      /\ c.use_tls = UsesTls(line, S)
      /\ c.key_path = LastValue(line, S, "--wf-key", "")
      /\ c.cert_path = LastValue(line, S, "--wf-cert", "")
  BY Zenon DEF ConfigRead, S
<1>8. /\ line[n + 1] # "--wf-port" /\ line[n + 1] # "--wf-key" /\ line[n + 1] # "--wf-cert"
  BY DEF ValueOptions
<1>9. UsesTls(line, T) = UsesTls(line, S)
  BY <1>8, UsesTlsNew
<1>10. Picked(line, ForFuse(line, T), d.args) /\ d.args \in Seq(STRING) /\ Len(d.args) <= n + 1
  <2>1. CASE line[n + 1] \in OwnOptions
    <3>1. PICK args \in Seq(STRING) : args = c.args
      BY <1>7
    <3>2. ForFuse(line, T) = ForFuse(line, S) /\ d.args = args
      BY <2>1, <3>1, ForFuseOwn, Zenon
    <3>3. Picked(line, ForFuse(line, T), args)
      BY <1>7, <3>1, <3>2, Zenon
    <3>4. Len(args) <= n + 1
      <4>1. Len(args) <= n
        BY <1>7, <3>1, Zenon
      <4> QED
        BY <4>1
    <3> QED
      BY <3>2, <3>3, <3>4, Zenon
  <2>2. CASE line[n + 1] \notin OwnOptions
    <3>1. ForFuse(line, T) = ForFuse(line, S) \cup {n + 1}
      BY <2>2 DEF ForFuse
    <3>2. PICK args \in Seq(STRING) : args = c.args
      BY <1>7
    <3>6. d.args = Append(args, line[n + 1])
      BY <2>2, <3>2, Zenon
    <3>3. Picked(line, ForFuse(line, S) \cup {n + 1}, Append(args, line[n + 1]))
      BY <1>3, <1>7, <3>2, PickedAppend
    <3>4. line[n + 1] \in STRING
      BY ElementOfSeq
    <3>5. Append(args, line[n + 1]) \in Seq(STRING) /\ Len(Append(args, line[n + 1])) = Len(args) + 1
      BY <3>4, AppendProperties
    <3>7. Len(Append(args, line[n + 1])) <= n + 1
      <4>1. Len(args) <= n
        BY <1>7, <3>2, Zenon
      <4> QED
        BY <4>1, <3>5
    <3> QED
      BY <3>1, <3>3, <3>5, <3>6, <3>7, Zenon
  <2> QED
    BY <2>1, <2>2
<1>11. /\ d.port = PortOf(LastValue(line, T, "--wf-port", ""))
       /\ d.key_path = LastValue(line, T, "--wf-key", "")
       /\ d.cert_path = LastValue(line, T, "--wf-cert", "")
  <2> HIDE DEF T
  <2> QED
    BY <1>6, <1>7, <1>8
<1>12. d.use_tls = UsesTls(line, T)
  BY <1>7, <1>9
<1>13. ConfigRead(line, P, n + 1, d)
  BY <1>1, <1>10, <1>11, <1>12, Zenon DEF ConfigRead
<1> QED
  BY <1>1, <1>13

-----------------------------------------------------------------------------
ExitCodes == {EXIT_SUCCESS, EXIT_FAILURE, Aborted}

(* ws_config and context, after n arguments. *)
ConfigLoop(line, n, c) ==
    /\ IsConfig(c) /\ c.port \in uint16 /\ c.exit_code \in ExitCodes
    /\ c.exit_code = EXIT_SUCCESS =>
         /\ ConfigRead(line, Positions(line, ValueOptions), n, c)
         /\ n < Len(line) => n + 1 \in Positions(line, ValueOptions)
    /\ c.exit_code = Aborted => Bad(line, Positions(line, ValueOptions))
ContextLoop(line, n, c) ==
    /\ IsContext(c) /\ c.exit_code \in {EXIT_SUCCESS, EXIT_FAILURE}
    /\ c.exit_code = EXIT_SUCCESS =>
         \/ /\ ContextRead(line, Positions(line, Takers), n, c)
            /\ n < Len(line) => n + 1 \in Positions(line, Takers)
         \/ n = Len(line) /\ ContextOf(line, OptionsRead(line), c)
    /\ c.exit_code = EXIT_FAILURE => \E i \in OptionsRead(line) : Refused(line, i)

(* A port keeps 16 bits. *)
LEMMA PortBits == \A k \in Int : to_uint16(k) \in uint16
BY DEF to_uint16, uint16

NewConfig(port, args, other) ==
    [cmd |-> "run", exit_code |-> EXIT_SUCCESS, port |-> port, use_tls |-> FALSE, args |-> args,
     key_path |-> "", cert_path |-> "", other |-> other]

(* The fields of a new ws_config. *)
LEMMA NewConfigShape == \A port, args, other : IsConfig(NewConfig(port, args, other))
BY DEF NewConfig, IsConfig

(* ws_config has all fields of one. *)
LEMMA ConfigShape == IsConfig(ws_config)
<1>1. ws_config = NewConfig(DefaultPort, <<>>, {})
  BY DEF ws_config, NewConfig
<1> QED
  BY <1>1, NewConfigShape

(* The exit codes differ. *)
LEMMA Codes ==
  /\ EXIT_SUCCESS # Aborted /\ EXIT_FAILURE # Aborted /\ EXIT_FAILURE # EXIT_SUCCESS
  /\ EXIT_SUCCESS \in ExitCodes /\ EXIT_FAILURE \in ExitCodes /\ Aborted \in ExitCodes
BY DEF EXIT_SUCCESS, EXIT_FAILURE, Aborted, ExitCodes

(* Before the first argument ws_config has its defaults. *)
LEMMA ConfigLoopBegins ==
  ASSUME NEW line \in Seq(STRING)
  PROVE  ConfigLoop(line, 0, ws_config)
<1> DEFINE P == Positions(line, ValueOptions)
<1>1. Places(line, ValueOptions, P)
  BY PositionsPlaces, Zenon
<1> HIDE DEF P
<1>2. PICK c : c = ws_config
  OBVIOUS
<1>3. /\ IsConfig(c) /\ c.port = DefaultPort /\ c.exit_code = EXIT_SUCCESS /\ c.args = <<>>
      /\ c.use_tls = FALSE /\ c.key_path = "" /\ c.cert_path = ""
  <2>1. IsConfig(c)
    BY <1>2, ConfigShape
  <2>2. c.port = DefaultPort
    BY <1>2 DEF ws_config
  <2>3. c.args = <<>>
    BY <1>2 DEF ws_config
  <2>4. /\ c.exit_code = EXIT_SUCCESS
        /\ c.use_tls = FALSE /\ c.key_path = "" /\ c.cert_path = ""
    BY <1>2 DEF ws_config
  <2> QED
    BY <2>1, <2>2, <2>3, <2>4, Zenon
<1>4. Seen(P, 0) = {}
  BY <1>1, SeenNone DEF Places
<1>5. 0 < Len(line) => 0 + 1 \in P
  BY <1>1 DEF Places
<1>6. \A option : LastValue(line, Seen(P, 0), option, "") = ""
  BY <1>4, LastValueNone
<1>7. ForFuse(line, Seen(P, 0)) = {} /\ UsesTls(line, Seen(P, 0)) = FALSE
  BY <1>4 DEF ForFuse, UsesTls
<1>8. Picked(line, ForFuse(line, Seen(P, 0)), c.args) /\ c.args \in Seq(STRING) /\ Len(c.args) <= 0
  <2>1. <<>> \in Seq(STRING) /\ Len(<<>>) = 0
    OBVIOUS
  <2>2. PICK none \in Seq(STRING) : none = <<>> /\ Len(none) = 0
    BY <2>1
  <2>3. Cardinality({}) = 0
    BY FS_EmptySet
  <2>4. Picked(line, {}, none)
    BY <2>2, <2>3 DEF Picked
  <2>5. c.args = none
    BY <1>3, <2>2, Zenon
  <2>6. Len(none) <= 0
    BY <2>2
  <2> QED
    BY <1>7, <2>4, <2>5, <2>6, Zenon
<1>9. PortOf("") = DefaultPort
  BY DEF PortOf
<1>10. ConfigRead(line, P, 0, c)
  BY <1>3, <1>6, <1>7, <1>8, <1>9, Zenon DEF ConfigRead
<1>11. DefaultPort \in uint16 /\ EXIT_SUCCESS \in ExitCodes /\ EXIT_SUCCESS # Aborted
  BY DEF DefaultPort, uint16, ExitCodes, EXIT_SUCCESS, Aborted
<1> QED
  BY <1>2, <1>3, <1>5, <1>10, <1>11, Zenon DEF ConfigLoop, P

(* So has context, with the token of the environment. *)
LEMMA ContextLoopBegins ==
  ASSUME NEW line \in Seq(STRING), NEW env
  PROVE  ContextLoop(line, 0, context(env))
<1> DEFINE P == Positions(line, Takers)
<1>1. Places(line, Takers, P)
  BY PositionsPlaces, Zenon
<1> HIDE DEF P
<1>2. PICK c : c = context(env)
  OBVIOUS
<1>3. /\ IsContext(c) /\ c.exit_code = EXIT_SUCCESS /\ c.cmd = "run"
      /\ c.url = "" /\ c.token = env /\ c.env = env
  BY <1>2 DEF IsContext, context
<1>4. Seen(P, 0) = {}
  BY <1>1, SeenNone DEF Places
<1>5. 0 < Len(line) => 0 + 1 \in P
  BY <1>1 DEF Places
<1>6. \A option, default : LastGiven(line, {}, option, default) = default
  BY LastGivenNone
<1>7. ContextOf(line, {}, c)
  BY <1>3, <1>6, Zenon DEF ContextOf
<1>8. ContextRead(line, P, 0, c)
  BY <1>4, <1>7, Zenon DEF ContextRead
<1> QED
  BY <1>2, <1>3, <1>5, <1>8, Codes, Zenon DEF ContextLoop, P

(* One turn of the loop of the service. *)
LEMMA ConfigTurn ==
  ASSUME argv \in Seq(STRING), current \in 0 .. Len(argv), ConfigLoop(argv, current, config),
         ReadServiceArgument
  PROVE  current' \in 0 .. Len(argv) /\ ConfigLoop(argv, current', config')
<1> DEFINE P == Positions(argv, ValueOptions)
<1>1. Places(argv, ValueOptions, P)
  BY PositionsPlaces, Zenon
<1> HIDE DEF P
<1>2. /\ config.exit_code = EXIT_SUCCESS /\ current < Len(argv)
      /\ current \in Nat /\ Len(argv) \in Nat
  BY DEF ReadServiceArgument, has_next
<1>3. /\ IsConfig(config) /\ config.port \in uint16 /\ config.exit_code \in ExitCodes
      /\ ConfigRead(argv, P, current, config) /\ current + 1 \in P
  BY <1>2, Zenon DEF ConfigLoop, P
<1>4. PICK line \in Seq(STRING) : line = argv
  OBVIOUS
<1>5. PICK n \in Nat : n = current
  BY <1>2
<1>6. PICK c : c = config
  OBVIOUS
<1>7. PICK d : d = config'
  OBVIOUS
<1>8. /\ n < Len(line) /\ Len(line) \in Nat /\ n + 1 \in P /\ Places(line, ValueOptions, P)
      /\ IsConfig(c) /\ c.port \in uint16 /\ c.exit_code = EXIT_SUCCESS /\ ConfigRead(line, P, n, c)
  BY <1>1, <1>2, <1>3, <1>4, <1>5, <1>6
<1>9. EXIT_SUCCESS # Aborted /\ EXIT_FAILURE # Aborted /\ EXIT_FAILURE # EXIT_SUCCESS
      /\ EXIT_SUCCESS \in ExitCodes /\ EXIT_FAILURE \in ExitCodes /\ Aborted \in ExitCodes
  BY DEF EXIT_SUCCESS, EXIT_FAILURE, Aborted, ExitCodes
<1>10. CASE line[n + 1] \in ValueOptions /\ n + 1 < Len(line)
  <2>1. d = store(c, line[n + 1], line[n + 2]) /\ current' = n + 2
    BY <1>4, <1>5, <1>6, <1>7, <1>10 DEF ReadServiceArgument, get_arg
  <2>2. CASE line[n + 1] \in {"--wf-port", "--wf-timeout"} => line[n + 2] \in DOMAIN Number
    <3>1. /\ IsConfig(d) /\ d.exit_code = c.exit_code /\ d.cmd = c.cmd
          /\ ConfigRead(line, P, n + 2, d)
          /\ n + 2 < Len(line) => n + 3 \in P
      BY <1>8, <1>10, <2>1, <2>2, ConfigValued
    <3>2. d.port \in uint16
      <4>2. ASSUME NEW value \in DOMAIN Number PROVE to_uint16(Number[value]) \in uint16
        BY <4>2, NumberAssumption, PortBits, Zenon
      <4>3. PICK arg, value : arg = line[n + 1] /\ value = line[n + 2]
        OBVIOUS
      <4>4. Stored(c, arg, value, d)
        BY <1>8, <2>1, <2>2, <4>3, ConfigStore
      <4>5. d.port = (IF arg = "--wf-port" THEN to_uint16(Number[value]) ELSE c.port)
        BY <4>4 DEF Stored
      <4> QED
        BY <1>8, <2>2, <4>2, <4>3, <4>5
    <3>3. n + 2 \in 0 .. Len(line) /\ (n + 2) + 1 = n + 3
      BY <1>8, <1>10
    <3> QED
      BY <1>4, <1>7, <1>8, <1>9, <2>1, <3>1, <3>2, <3>3 DEF ConfigLoop, P
  <2>3. CASE ~(line[n + 1] \in {"--wf-port", "--wf-timeout"} => line[n + 2] \in DOMAIN Number)
    <3>1. d = abort(c)
      BY <2>1, <2>3, ConfigThrows
    <3>2. IsConfig(d) /\ d.exit_code = Aborted /\ d.port = c.port
      BY <1>8, <3>1, ConfigAbort
    <3>3. Bad(line, P)
      <4>1. (n + 1) + 1 = n + 2
        OBVIOUS
      <4> QED
        BY <1>8, <1>10, <2>3, <4>1 DEF Bad
    <3>4. n + 2 \in 0 .. Len(line)
      BY <1>8, <1>10
    <3> QED
      BY <1>4, <1>7, <1>8, <1>9, <2>1, <3>2, <3>3, <3>4 DEF ConfigLoop, P
  <2> QED
    BY <2>2, <2>3
<1>11. CASE line[n + 1] \in ValueOptions /\ ~(n + 1 < Len(line))
  <2>1. d = show_help(c, EXIT_FAILURE) /\ current' = n + 1
    BY <1>4, <1>5, <1>6, <1>7, <1>11 DEF ReadServiceArgument, get_arg
  <2>2. IsConfig(d) /\ d.exit_code = EXIT_FAILURE /\ d.port = c.port
    BY <1>8, <2>1, ConfigHelp
  <2>3. n + 1 \in 0 .. Len(line)
    BY <1>8
  <2> QED
    BY <1>4, <1>7, <1>8, <1>9, <2>1, <2>2, <2>3 DEF ConfigLoop, P
<1>12. CASE line[n + 1] \notin ValueOptions
  <2>1. /\ current' = n + 1
        /\ d = CASE line[n + 1] \in {"-h", "--help"} -> show_help(c, c.exit_code)
                 [] line[n + 1] = "--wf-version" -> [c EXCEPT !.cmd = "print_version"]
                 [] OTHER -> push(c, line[n + 1])
    BY <1>4, <1>5, <1>6, <1>7, <1>12 DEF ReadServiceArgument
  <2>2. /\ IsConfig(d) /\ d.exit_code = c.exit_code /\ d.port = c.port /\ d.use_tls = c.use_tls
        /\ d.key_path = c.key_path /\ d.cert_path = c.cert_path
        /\ d.args = IF line[n + 1] \in OwnOptions THEN c.args ELSE Append(c.args, line[n + 1])
    <3>1. CASE line[n + 1] \in {"-h", "--help"}
      <4>1. d = show_help(c, c.exit_code) /\ line[n + 1] \in OwnOptions
        BY <2>1, <3>1 DEF OwnOptions
      <4>2. /\ IsConfig(d) /\ d.exit_code = c.exit_code /\ d.port = c.port
            /\ d.use_tls = c.use_tls /\ d.args = c.args
            /\ d.key_path = c.key_path /\ d.cert_path = c.cert_path
        BY <1>8, <4>1, ConfigHelp
      <4> QED
        BY <4>1, <4>2, Zenon
    <3>2. CASE line[n + 1] = "--wf-version"
      <4>1. d = [c EXCEPT !.cmd = "print_version"] /\ line[n + 1] \in OwnOptions
        BY <2>1, <3>2 DEF OwnOptions
      <4>2. /\ IsConfig(d) /\ d.args = c.args
            /\ d.exit_code = c.exit_code /\ d.port = c.port /\ d.use_tls = c.use_tls
            /\ d.key_path = c.key_path /\ d.cert_path = c.cert_path
        BY <1>8, <4>1 DEF IsConfig
      <4> QED
        BY <4>1, <4>2, Zenon
    <3>3. CASE line[n + 1] \notin {"-h", "--help"} /\ line[n + 1] # "--wf-version"
      <4>1. d = push(c, line[n + 1]) /\ line[n + 1] \notin OwnOptions
        BY <2>1, <3>3, <1>12 DEF OwnOptions
      <4>2. PICK args \in Seq(STRING) : args = c.args /\ Len(args) <= n
        BY <1>8, Zenon DEF ConfigRead
      <4>3. Len(c.args) + 1 < Len(argv) + 1
        BY <4>2, <1>8, <1>4
      <4>4. d = [c EXCEPT !.args = Append(c.args, line[n + 1])]
        BY <4>1, <4>3 DEF push
      <4>5. /\ IsConfig(d) /\ d.args = Append(c.args, line[n + 1])
            /\ d.exit_code = c.exit_code /\ d.port = c.port /\ d.use_tls = c.use_tls
            /\ d.key_path = c.key_path /\ d.cert_path = c.cert_path
        BY <1>8, <4>4 DEF IsConfig
      <4> QED
        BY <4>1, <4>5, Zenon
    <3> QED
      BY <3>1, <3>2, <3>3
  <2>3. ConfigRead(line, P, n + 1, d) /\ (n + 1 < Len(line) => n + 2 \in P)
    BY <1>8, <1>12, <2>2, ConfigSingle
  <2>4. n + 1 \in 0 .. Len(line) /\ (n + 1) + 1 = n + 2
    BY <1>8
  <2> QED
    BY <1>4, <1>7, <1>8, <1>9, <2>1, <2>2, <2>3, <2>4 DEF ConfigLoop, P
<1> QED
  BY <1>10, <1>11, <1>12

(* The end of the options is nothing unknown. *)
LEMMA EndAccepted ==
  ASSUME NEW line, NEW i, line[i] = EndOfOptions
  PROVE  ~Refused(line, i)
<1>1. EndOfOptions \notin DOMAIN Getopt
  BY GetoptAssumption, Zenon
<1>2. EndOfOptions \notin Takers
  BY <1>1, Zenon DEF Takers
<1>3. Found(line[i]) = NoOptions
  BY <1>1, Zenon DEF Found
<1>4. NoOptions.flags = <<>>
  BY DEF NoOptions
<1>5. DOMAIN Found(line[i]).flags = {}
  BY <1>3, <1>4
<1> QED
  BY <1>2, <1>5, Zenon DEF Refused

(* One turn of the loop of the provider. *)
LEMMA ContextTurn ==
  ASSUME argv \in Seq(STRING), current \in 0 .. Len(argv), ContextLoop(argv, current, config),
         getopt_long
  PROVE  current' \in 0 .. Len(argv) /\ ContextLoop(argv, current', config')
<1> DEFINE P == Positions(argv, Takers)
<1>1. Places(argv, Takers, P)
  BY PositionsPlaces, Zenon
<1>0. P = Positions(argv, Takers)
  OBVIOUS
<1> HIDE DEF P
<1>2. /\ config.exit_code = EXIT_SUCCESS /\ current < Len(argv)
      /\ current \in Nat /\ Len(argv) \in Nat /\ current # Len(argv)
  BY DEF getopt_long, end_of_options, unknown_option, read_option, Turn, has_next
<1>3. /\ IsContext(config)
      /\ ContextRead(argv, P, current, config) /\ current + 1 \in P
  BY <1>0, <1>2, Zenon DEF ContextLoop
<1>4. PICK line \in Seq(STRING) : line = argv
  OBVIOUS
<1>5. PICK n \in Nat : n = current
  BY <1>2
<1>6. PICK c : c = config
  OBVIOUS
<1>7. PICK d : d = config'
  OBVIOUS
<1>8. /\ n < Len(line) /\ Len(line) \in Nat /\ n + 1 \in P /\ Places(line, Takers, P)
      /\ IsContext(c) /\ c.exit_code = EXIT_SUCCESS /\ ContextRead(line, P, n, c)
      /\ P = Positions(line, Takers)
  BY <1>0, <1>1, <1>2, <1>3, <1>4, <1>5, <1>6
<1>9. EXIT_FAILURE # EXIT_SUCCESS
  BY DEF EXIT_SUCCESS, EXIT_FAILURE
<1>10. P \subseteq Int /\ P \subseteq 1 .. Len(line)
  BY <1>8 DEF Places
<1>11. \A i \in Seen(P, n) : line[i] # EndOfOptions
  BY <1>8, Zenon DEF ContextRead, ContextOf
<1>12. ContextOf(line, Seen(P, n), c)
  BY <1>8, Zenon DEF ContextRead
<1>13. n + 1 \in 0 .. Len(line) /\ Len(line) \in 0 .. Len(line)
  BY <1>8
<1>14. CASE end_of_options
  <2>1. line[n + 1] = EndOfOptions /\ current' = Len(line) /\ d = c
    BY <1>4, <1>5, <1>6, <1>7, <1>14, Zenon DEF end_of_options, Turn
  <2>2. OptionsRead(line) = Seen(P, n)
    BY <1>8, <1>10, <1>11, <2>1, OptionsReadEnd
  <2>3. ContextOf(line, OptionsRead(line), d)
    BY <1>12, <2>1, <2>2, Zenon
  <2>4. ContextLoop(line, Len(line), d)
    BY <1>8, <1>9, <2>1, <2>3, Zenon DEF ContextLoop
  <2> QED
    BY <1>4, <1>7, <1>13, <2>1, <2>4, Zenon
<1>15. CASE unknown_option
  <2>1. Refused(line, n + 1) /\ current' = n + 1 /\ d = show_help(c, EXIT_FAILURE)
    BY <1>4, <1>5, <1>6, <1>7, <1>15, Zenon DEF unknown_option
  <2>2. line[n + 1] # EndOfOptions
    BY <2>1, EndAccepted
  <2>3. n + 1 \in OptionsRead(line)
    BY <1>8, <1>10, <1>11, <2>2, OptionsReadHere
  <2>4. IsContext(d) /\ d.exit_code = EXIT_FAILURE
    BY <1>8, <2>1, ContextHelp
  <2>5. ContextLoop(line, n + 1, d)
    BY <1>9, <2>1, <2>3, <2>4 DEF ContextLoop
  <2> QED
    BY <1>4, <1>7, <1>13, <2>1, <2>5, Zenon
<1>16. CASE read_option
  <2>1. /\ line[n + 1] # EndOfOptions /\ ~Refused(line, n + 1)
        /\ current' = (IF line[n + 1] \in Takers THEN (n + 1) + 1 ELSE n + 1)
        /\ d = set(flagged(c, Found(line[n + 1]).flags), Found(line[n + 1]).option,
                   optarg(line, n + 1))
    BY <1>4, <1>5, <1>6, <1>7, <1>16, Zenon DEF read_option
  <2>2. \A j \in Seen(P, n) : j \in Int /\ j <= n
    BY <1>10, SeenBelow, Zenon
  <2>3. IsContext(d) /\ d.exit_code = c.exit_code /\ ContextOf(line, Seen(P, n) \cup {n + 1}, d)
    <3>1. PICK S : S = Seen(P, n)
      OBVIOUS
    <3>2. /\ \A j \in S : j \in Int /\ j <= n
          /\ IsContext(c) /\ ContextOf(line, S, c)
      BY <1>8, <1>12, <2>2, <3>1, Zenon
    <3>3. ContextTakes(line, n + 1, c, d)
      BY <2>1, Zenon DEF ContextTakes
    <3>4. IsContext(d) /\ d.exit_code = c.exit_code /\ ContextOf(line, S \cup {n + 1}, d)
      BY <3>2, <3>3, ContextMore
    <3> QED
      BY <3>1, <3>4, Zenon
  <2>4. CASE line[n + 1] \in Takers
    <3>1. n + 1 # Len(line)
      BY <2>1, <2>4, Zenon DEF Refused
    <3>2. n + 1 < Len(line)
      BY <1>8, <3>1
    <3>3. Seen(P, n + 2) = Seen(P, n) \cup {n + 1} /\ (n + 2 < Len(line) => n + 3 \in P)
      BY <1>8, <2>4, <3>2, SeenValued
    <3>4. n + 2 \in 0 .. Len(line) /\ (n + 2) + 1 = n + 3 /\ (n + 1) + 1 = n + 2
      BY <1>8, <3>2
    <3>5. ContextRead(line, P, n + 2, d)
      BY <2>3, <3>3, Zenon DEF ContextRead
    <3>6. ContextLoop(line, n + 2, d)
      BY <1>8, <1>9, <2>3, <3>3, <3>4, <3>5 DEF ContextLoop
    <3>7. current' = n + 2
      BY <2>1, <2>4, <3>4
    <3> QED
      BY <1>4, <1>7, <3>4, <3>6, <3>7, Zenon
  <2>5. CASE line[n + 1] \notin Takers
    <3>1. Seen(P, n + 1) = Seen(P, n) \cup {n + 1} /\ (n + 1 < Len(line) => n + 2 \in P)
      BY <1>8, <2>5, SeenSingle
    <3>2. ContextRead(line, P, n + 1, d)
      BY <2>3, <3>1, Zenon DEF ContextRead
    <3>3. (n + 1) + 1 = n + 2
      OBVIOUS
    <3>4. ContextLoop(line, n + 1, d)
      BY <1>8, <1>9, <2>3, <3>1, <3>2, <3>3 DEF ContextLoop
    <3>5. current' = n + 1
      BY <2>1, <2>5
    <3> QED
      BY <1>4, <1>7, <1>13, <3>4, <3>5, Zenon
  <2> QED
    BY <2>4, <2>5
<1> QED
  BY <1>14, <1>15, <1>16 DEF getopt_long

-----------------------------------------------------------------------------
(* RunsAsAsked and ConnectsAsAsked of any line. *)
RunsAs(line, c) ==
    LET P == Positions(line, ValueOptions) IN
    /\ Running(c) =>
         /\ Picked(line, ForFuse(line, P), c.args)
         /\ AskedPort(line) \in uint16 => c.port = AskedPort(line)
         /\ c.use_tls = UsesTls(line, P)
         /\ UsesTls(line, P) => /\ LastValue(line, P, "--wf-key", "") /= ""
                                /\ LastValue(line, P, "--wf-cert", "") /= ""
    /\ c.exit_code = Aborted => Bad(line, P)

(* A port that is one is not changed by its conversion, *)
LEMMA PortFits == \A k \in uint16 : to_uint16(k) = k
<1> SUFFICES ASSUME NEW k \in uint16 PROVE to_uint16(k) = k
  OBVIOUS
<1>1. k \in Int /\ 0 <= k /\ k < 65536
  BY DEF uint16
<1>2. k % 65536 = k
  BY <1>1
<1> QED
  BY <1>2 DEF to_uint16

(* so that it is the one that was asked for. *)
LEMMA PortMeans ==
  ASSUME NEW line, AskedPort(line) \in uint16
  PROVE  PortOf(LastValue(line, Positions(line, ValueOptions), "--wf-port", "")) = AskedPort(line)
<1>1. PICK text : text = LastValue(line, Positions(line, ValueOptions), "--wf-port", "")
  OBVIOUS
<1>3. CASE text = ""
  <2>1. AskedPort(line) = DefaultPort
    BY <1>1, <1>3, Zenon DEF AskedPort
  <2> QED
    BY <1>1, <1>3, <2>1, Zenon DEF PortOf
<1>4. CASE text # ""
  <2>1. AskedPort(line) = Number[text]
    BY <1>1, <1>4, Zenon DEF AskedPort
  <2>2. PortOf(text) = to_uint16(Number[text])
    BY <1>4, Zenon DEF PortOf
  <2> QED
    BY <1>1, <2>1, <2>2, PortFits, Zenon
<1> QED
  BY <1>3, <1>4

(* A line that was read to its end, with both files if TLS is used. *)
LEMMA RunsAsRead ==
  ASSUME NEW line \in Seq(STRING), NEW n \in Nat, n >= Len(line),
         NEW c, IsConfig(c), c.exit_code = EXIT_SUCCESS,
         ConfigRead(line, Positions(line, ValueOptions), n, c),
         ~(c.use_tls /\ (c.key_path = "" \/ c.cert_path = ""))
  PROVE  RunsAs(line, c)
<1> DEFINE P == Positions(line, ValueOptions)
<1>1. Places(line, ValueOptions, P)
  BY PositionsPlaces, Zenon
<1> HIDE DEF P
<1>2. Seen(P, n) = P
  <2>1. P \subseteq 1 .. Len(line)
    BY <1>1, Zenon DEF Places
  <2>2. Len(line) \in Nat
    BY LenProperties
  <2> QED
    BY <2>1, <2>2, SeenAll, Zenon
<1>3. /\ Picked(line, ForFuse(line, P), c.args)
      /\ c.port = PortOf(LastValue(line, P, "--wf-port", ""))
      /\ c.use_tls = UsesTls(line, P)
      /\ c.key_path = LastValue(line, P, "--wf-key", "")
      /\ c.cert_path = LastValue(line, P, "--wf-cert", "")
  BY <1>2, Zenon DEF ConfigRead, P
<1>4. UsesTls(line, P) => /\ LastValue(line, P, "--wf-key", "") /= ""
                          /\ LastValue(line, P, "--wf-cert", "") /= ""
  BY <1>3
<1>5. AskedPort(line) \in uint16 => c.port = AskedPort(line)
  BY <1>3, PortMeans, Zenon DEF P
<1> QED
  BY <1>3, <1>4, <1>5, Codes, Zenon DEF RunsAs, P

(* The property follows from its form for any line. *)
LEMMA RunsAsMeans == RunsAs(argv, config) => RunsAsAsked
BY Zenon DEF RunsAs, RunsAsAsked, ForFuse, UsesTls, Bad, OwnOptions

ConnectsAs(line, c) ==
    LET S == OptionsRead(line)
        wrong == \E i \in S : Refused(line, i)
        asks == \E i \in S : Found(line[i]).flags /= <<>>
        url == LastGiven(line, S, "u", "")
    IN /\ Running(c) <=> ~wrong /\ ~asks /\ url /= ""
       /\ wrong => c.exit_code = EXIT_FAILURE
       /\ Running(c) => /\ c.url = url
                        /\ c.token \in {c.env, LastGiven(line, S, "t", c.env)}
                        /\ c.env = "" => c.token = LastGiven(line, S, "t", "")

(* A line that was read to the end of its options, with a url or without. *)
LEMMA ConnectsAsRead ==
  ASSUME NEW line, NEW c, IsContext(c), c.exit_code = EXIT_SUCCESS,
         ContextOf(line, OptionsRead(line), c),
         NEW d, d = IF c.cmd = "run" /\ c.url = "" THEN show_help(c, EXIT_FAILURE) ELSE c
  PROVE  ConnectsAs(line, d)
<1>1. PICK S : S = OptionsRead(line)
  OBVIOUS
<1>2. /\ c.url = LastGiven(line, S, "u", "")
      /\ c.token = LastGiven(line, S, "t", c.env)
      /\ \A i \in S : ~Refused(line, i)
      /\ c.cmd = "run" <=> \A i \in S : Found(line[i]).flags = <<>>
  BY <1>1, Zenon DEF ContextOf
<1>3. /\ c.token \in {c.env, LastGiven(line, S, "t", c.env)}
      /\ c.env = "" => c.token = LastGiven(line, S, "t", "")
  BY <1>2
<1>4. CASE c.cmd = "run" /\ c.url = ""
  <2>1. d = show_help(c, EXIT_FAILURE)
    BY <1>4
  <2>2. d.exit_code = EXIT_FAILURE
    BY <2>1 DEF show_help, IsContext
  <2>3. ~Running(d)
    BY <2>2, Codes, Zenon DEF Running
  <2> QED
    BY <1>1, <1>2, <1>4, <2>3, Zenon DEF ConnectsAs
<1>5. CASE ~(c.cmd = "run" /\ c.url = "")
  <2>1. d = c
    BY <1>5
  <2>2. Running(d) <=> c.cmd = "run"
    BY <2>1, Zenon DEF Running
  <2>3. Running(d) => c.url /= ""
    BY <1>5, <2>2, Zenon
  <2> QED
    BY <1>1, <1>2, <1>3, <2>1, <2>2, <2>3, Zenon DEF ConnectsAs
<1> QED
  BY <1>4, <1>5

(* A line over which the program has failed. *)
LEMMA ConnectsAsFailed ==
  ASSUME NEW line, NEW c, c.exit_code = EXIT_FAILURE,
         \E i \in OptionsRead(line) : Refused(line, i)
  PROVE  ConnectsAs(line, c)
<1>1. ~Running(c)
  BY Codes, Zenon DEF Running
<1> QED
  BY <1>1, Zenon DEF ConnectsAs

(* The property follows from its form for any line. *)
LEMMA ConnectsAsMeans == stage = "parsed" /\ ConnectsAs(argv, config) => ConnectsAsAsked
BY Zenon DEF ConnectsAs, ConnectsAsAsked

-----------------------------------------------------------------------------
Stages == {"webfuse", "verified", "launch", "webfuse_provider", "parsed", "application", "started"}

(* The port of a service, or -1. *)
Listening == uint16 \cup {-1}

(* What is known of the command line that is read, at every stage. *)
OptionsInv ==
    /\ stage \in Stages
    /\ argv \in Seq(STRING) /\ current \in 0 .. Len(argv)
    /\ stage = "launch" => current = 0
    /\ service.port \in Listening
    /\ config.exit_code \in ExitCodes
    /\ stage = "webfuse" => ConfigLoop(argv, current, config)
    /\ stage = "verified" => config.port \in uint16 /\ RunsAs(argv, config)
    /\ stage = "webfuse_provider" => ContextLoop(argv, current, config)
    /\ stage = "parsed" => ConnectsAs(argv, config)

(* There is no command line before and after. *)
LEMMA NoLine == <<>> \in Seq(STRING) /\ 0 \in 0 .. Len(<<>>)
OBVIOUS

(* A context begins without an error. *)
LEMMA ContextCode == \A env : context(env).exit_code = EXIT_SUCCESS
BY DEF context

(* A service may listen on any port, *)
LEMMA PortsListen == \A port \in uint16 : port \in Listening
BY DEF Listening

(* or there is none. *)
LEMMA NobodyListens == NoService.port \in Listening
BY DEF NoService, Listening

(* The service is about to read its command line, or an application runs. *)
LEMMA OptionsBegin == Init => OptionsInv
<1> SUFFICES ASSUME Init PROVE OptionsInv
  OBVIOUS
<1>1. current = 0 /\ service = NoService
  BY DEF Init
<1>2. service.port \in Listening
  BY <1>1, NobodyListens
<1>3. CASE stage = "webfuse" /\ argv \in ServiceLines /\ config = ws_config
  <2>1. argv \in Seq(STRING)
    BY <1>3, LinesAssumption
  <2>2. current \in 0 .. Len(argv)
    BY <1>1, <2>1
  <2>3. ConfigLoop(argv, current, config)
    BY <1>1, <1>3, <2>1, ConfigLoopBegins
  <2>4. config.exit_code \in ExitCodes
    BY <2>3, Zenon DEF ConfigLoop
  <2>5. /\ stage \in Stages /\ stage # "launch" /\ stage # "verified"
        /\ stage # "webfuse_provider" /\ stage # "parsed"
    BY <1>3 DEF Stages
  <2> QED
    BY <1>2, <2>1, <2>2, <2>3, <2>4, <2>5, Zenon DEF OptionsInv
<1>4. CASE stage = "application" /\ argv = <<>> /\ config = context("")
  <2>1. argv \in Seq(STRING) /\ current \in 0 .. Len(argv)
    BY <1>1, <1>4, NoLine
  <2>2. config.exit_code \in ExitCodes
    BY <1>4, ContextCode, Codes
  <2>3. /\ stage \in Stages /\ stage # "launch" /\ stage # "verified" /\ stage # "webfuse"
        /\ stage # "webfuse_provider" /\ stage # "parsed"
    BY <1>4 DEF Stages
  <2> QED
    BY <1>2, <2>1, <2>2, <2>3, Zenon DEF OptionsInv
<1> QED
  BY <1>3, <1>4 DEF Init

(* One lemma per action on command lines. *)
LEMMA ReadServiceArgumentStep ==
  ASSUME OptionsInv, ReadServiceArgument
  PROVE  OptionsInv'
<1>1. /\ stage = "webfuse" /\ argv' = argv /\ stage' = stage /\ service' = service
      /\ argv \in Seq(STRING) /\ current \in 0 .. Len(argv) /\ ConfigLoop(argv, current, config)
      /\ service.port \in Listening
  BY Zenon DEF ReadServiceArgument, OptionsInv
<1>2. current' \in 0 .. Len(argv) /\ ConfigLoop(argv, current', config')
  BY <1>1, ConfigTurn
<1>3. config'.exit_code \in ExitCodes
  BY <1>2, Zenon DEF ConfigLoop
<1>4. /\ stage' \in Stages /\ stage' # "launch" /\ stage' # "verified"
      /\ stage' # "webfuse_provider" /\ stage' # "parsed"
  BY <1>1 DEF Stages
<1> QED
  BY <1>1, <1>2, <1>3, <1>4, Zenon DEF OptionsInv

(* The service checks its configuration: this is where RunsAsAsked comes from. *)
LEMMA VerifyStep ==
  ASSUME OptionsInv, verify
  PROVE  OptionsInv'
<1>1. /\ argv' = argv /\ current' = current /\ stage' = "verified" /\ service' = service
      /\ argv \in Seq(STRING) /\ current \in 0 .. Len(argv) /\ ConfigLoop(argv, current, config)
      /\ service.port \in Listening
  BY Zenon DEF verify, OptionsInv
<1>2. PICK line \in Seq(STRING) : line = argv
  BY <1>1
<1>3. PICK n \in Nat : n = current
  BY <1>1
<1>4. PICK c : c = config
  OBVIOUS
<1>5. PICK d : d = config'
  OBVIOUS
<1>6. /\ ConfigLoop(line, n, c)
      /\ c.exit_code /= EXIT_SUCCESS \/ ~(n < Len(line))
      /\ d = IF /\ c.cmd = "run" /\ c.exit_code = EXIT_SUCCESS
                /\ c.use_tls /\ (c.key_path = "" \/ c.cert_path = "")
             THEN show_help(c, EXIT_FAILURE) ELSE c
  BY <1>1, <1>2, <1>3, <1>4, <1>5, Zenon DEF verify, has_next
<1>7. IsConfig(c) /\ c.port \in uint16 /\ c.exit_code \in ExitCodes
  BY <1>6, Zenon DEF ConfigLoop
<1>8. d.exit_code \in ExitCodes /\ d.port \in uint16 /\ RunsAs(line, d)
  <2>1. CASE d = show_help(c, EXIT_FAILURE)
    <3>1. d.exit_code = EXIT_FAILURE /\ d.port = c.port
      BY <1>7, <2>1, ConfigHelp
    <3>2. ~Running(d) /\ d.exit_code # Aborted
      BY <3>1, Codes DEF Running
    <3> QED
      BY <1>7, <3>1, <3>2, Codes, Zenon DEF RunsAs
  <2>2. CASE d = c /\ c.exit_code # EXIT_SUCCESS
    <3>1. ~Running(d)
      BY <2>2 DEF Running
    <3>2. d.exit_code = Aborted => Bad(line, Positions(line, ValueOptions))
      BY <1>6, <2>2, Zenon DEF ConfigLoop
    <3> QED
      BY <1>7, <2>2, <3>1, <3>2, Zenon DEF RunsAs
  <2>3. CASE d = c /\ c.exit_code = EXIT_SUCCESS /\ c.cmd # "run"
    <3>1. ~Running(d) /\ d.exit_code # Aborted
      BY <2>3, Codes DEF Running
    <3> QED
      BY <1>7, <2>3, <3>1, Zenon DEF RunsAs
  <2>4. CASE /\ d = c /\ c.exit_code = EXIT_SUCCESS /\ c.cmd = "run"
             /\ ~(c.use_tls /\ (c.key_path = "" \/ c.cert_path = ""))
    <3>1. n >= Len(line)
      <4>1. ~(n < Len(line))
        BY <1>6, <2>4, Zenon
      <4>2. Len(line) \in Nat
        BY LenProperties
      <4> QED
        BY <4>1, <4>2
    <3>2. ConfigRead(line, Positions(line, ValueOptions), n, c)
      BY <1>6, <2>4, Zenon DEF ConfigLoop
    <3>3. RunsAs(line, c)
      BY <1>7, <2>4, <3>1, <3>2, RunsAsRead
    <3> QED
      BY <1>7, <2>4, <3>3, Zenon
  <2> QED
    BY <1>6, <2>1, <2>2, <2>3, <2>4, Zenon
<1>9. /\ stage' \in Stages /\ stage' # "launch" /\ stage' # "webfuse"
      /\ stage' # "webfuse_provider" /\ stage' # "parsed"
  BY <1>1 DEF Stages
<1> QED
  BY <1>1, <1>2, <1>5, <1>8, <1>9, Zenon DEF OptionsInv

(* The service listens, or has ended. *)
LEMMA AppRunStep ==
  ASSUME OptionsInv, app_run
  PROVE  OptionsInv'
<1>1. /\ stage = "verified" /\ stage' = "launch" /\ argv' = <<>> /\ current' = 0
      /\ config' = context("")
  BY Zenon DEF app_run
<1>2. service'.port \in Listening
  <2>1. CASE service' = NoService
    BY <2>1, NobodyListens
  <2>2. CASE service' = ws_server(config)
    <3>1. config.port \in uint16
      BY <1>1, Zenon DEF OptionsInv
    <3>2. service'.port = config.port
      BY <2>2 DEF ws_server
    <3> QED
      BY <3>1, <3>2, PortsListen, Zenon
  <2> QED
    BY <2>1, <2>2 DEF app_run
<1>3. argv' \in Seq(STRING) /\ current' \in 0 .. Len(argv')
  BY <1>1, NoLine
<1>4. config'.exit_code \in ExitCodes
  BY <1>1, ContextCode, Codes
<1>5. /\ stage' \in Stages /\ stage' # "verified" /\ stage' # "webfuse"
      /\ stage' # "webfuse_provider" /\ stage' # "parsed"
  BY <1>1 DEF Stages
<1> QED
  BY <1>1, <1>2, <1>3, <1>4, <1>5, Zenon DEF OptionsInv

(* A provider gets its command line. *)
LEMMA LaunchStep ==
  ASSUME OptionsInv, launch_provider
  PROVE  OptionsInv'
<1>1. /\ stage' = "webfuse_provider" /\ argv' \in ProviderLines /\ current' = 0 /\ service' = service
      /\ service.port \in Listening
  BY Zenon DEF launch_provider, OptionsInv
<1>2. PICK env : config' = context(env)
  BY Zenon DEF launch_provider
<1>3. argv' \in Seq(STRING)
  BY <1>1, LinesAssumption
<1>4. current' \in 0 .. Len(argv')
  BY <1>1, <1>3
<1>5. ContextLoop(argv', current', config')
  BY <1>1, <1>2, <1>3, ContextLoopBegins
<1>6. config'.exit_code \in ExitCodes
  BY <1>2, ContextCode, Codes
<1>7. /\ stage' \in Stages /\ stage' # "verified" /\ stage' # "webfuse"
      /\ stage' # "launch" /\ stage' # "parsed"
  BY <1>1 DEF Stages
<1> QED
  BY <1>1, <1>3, <1>4, <1>5, <1>6, <1>7, Zenon DEF OptionsInv

(* It reads an argument. *)
LEMMA GetoptStep ==
  ASSUME OptionsInv, getopt_long
  PROVE  OptionsInv'
<1>1. /\ stage = "webfuse_provider" /\ argv' = argv /\ stage' = stage /\ service' = service
      /\ argv \in Seq(STRING) /\ current \in 0 .. Len(argv) /\ ContextLoop(argv, current, config)
      /\ service.port \in Listening
  <2>1. stage = "webfuse_provider" /\ argv' = argv /\ stage' = stage /\ service' = service
    BY DEF getopt_long, end_of_options, unknown_option, read_option, Turn
  <2> QED
    BY <2>1, Zenon DEF OptionsInv
<1>2. current' \in 0 .. Len(argv) /\ ContextLoop(argv, current', config')
  BY <1>1, ContextTurn
<1>3. config'.exit_code \in {EXIT_SUCCESS, EXIT_FAILURE}
  BY <1>2, Zenon DEF ContextLoop
<1>4. config'.exit_code \in ExitCodes
  BY <1>3, Codes
<1>5. /\ stage' \in Stages /\ stage' # "launch" /\ stage' # "verified"
      /\ stage' # "webfuse" /\ stage' # "parsed"
  BY <1>1 DEF Stages
<1> QED
  BY <1>1, <1>2, <1>4, <1>5, Zenon DEF OptionsInv

(* It checks for the url: this is where ConnectsAsAsked comes from. *)
LEMMA UrlGivenStep ==
  ASSUME OptionsInv, url_given
  PROVE  OptionsInv'
<1>1. /\ argv' = argv /\ current' = current /\ stage' = "parsed" /\ service' = service
      /\ argv \in Seq(STRING) /\ current \in 0 .. Len(argv) /\ ContextLoop(argv, current, config)
      /\ service.port \in Listening
  BY Zenon DEF url_given, OptionsInv
<1>2. PICK line \in Seq(STRING) : line = argv
  BY <1>1
<1>3. PICK n \in Nat : n = current
  BY <1>1
<1>4. PICK c : c = config
  OBVIOUS
<1>5. PICK d : d = config'
  OBVIOUS
<1>6. /\ ContextLoop(line, n, c)
      /\ c.exit_code /= EXIT_SUCCESS \/ ~(n < Len(line))
      /\ d = IF c.cmd = "run" /\ c.url = "" THEN show_help(c, EXIT_FAILURE) ELSE c
  BY <1>1, <1>2, <1>3, <1>4, <1>5, Zenon DEF url_given, has_next
<1>7. IsContext(c) /\ c.exit_code \in {EXIT_SUCCESS, EXIT_FAILURE}
  BY <1>6, Zenon DEF ContextLoop
<1>8. d.exit_code \in ExitCodes /\ ConnectsAs(line, d)
  <2>1. CASE c.exit_code = EXIT_FAILURE
    <3>1. \E i \in OptionsRead(line) : Refused(line, i)
      BY <1>6, <2>1, Zenon DEF ContextLoop
    <3>2. CASE d = c
      BY <2>1, <3>1, <3>2, Codes, ConnectsAsFailed, Zenon
    <3>3. CASE d = show_help(c, EXIT_FAILURE)
      <4>1. d.exit_code = EXIT_FAILURE
        BY <1>7, <3>3, ContextHelp
      <4> QED
        BY <3>1, <4>1, Codes, ConnectsAsFailed, Zenon
    <3> QED
      BY <1>6, <3>2, <3>3, Zenon
  <2>2. CASE c.exit_code = EXIT_SUCCESS
    <3>1. Len(line) \in Nat
      BY LenProperties
    <3>2. ~(n < Len(line))
      BY <1>6, <2>2, Zenon
    <3>3. ContextOf(line, OptionsRead(line), c)
      <4>1. CASE ContextRead(line, Positions(line, Takers), n, c)
        <5>1. PICK P : P = Positions(line, Takers)
          OBVIOUS
        <5>2. Places(line, Takers, P)
          BY <5>1, PositionsPlaces, Zenon
        <5>3. P \subseteq 1 .. Len(line)
          BY <5>2, Zenon DEF Places
        <5>4. n >= Len(line)
          BY <3>1, <3>2
        <5>5. Seen(P, n) = P
          BY <3>1, <5>3, <5>4, SeenAll, Zenon
        <5>6. ContextOf(line, P, c)
          BY <4>1, <5>1, <5>5, Zenon DEF ContextRead
        <5>7. OptionsRead(line) = P
          BY <5>1, <5>6, OptionsReadAll, Zenon DEF ContextOf
        <5> QED
          BY <5>6, <5>7, Zenon
      <4>2. CASE n = Len(line) /\ ContextOf(line, OptionsRead(line), c)
        BY <4>2
      <4> QED
        BY <1>6, <2>2, <4>1, <4>2, Zenon DEF ContextLoop
    <3>4. ConnectsAs(line, d)
      BY <1>6, <1>7, <2>2, <3>3, ConnectsAsRead
    <3>5. d.exit_code \in ExitCodes
      <4>1. CASE d = c
        BY <2>2, <4>1, Codes
      <4>2. CASE d = show_help(c, EXIT_FAILURE)
        <5>1. d.exit_code = EXIT_FAILURE
          BY <1>7, <4>2, ContextHelp
        <5> QED
          BY <5>1, Codes
      <4> QED
        BY <1>6, <4>1, <4>2, Zenon
    <3> QED
      BY <3>4, <3>5
  <2> QED
    BY <1>7, <2>1, <2>2
<1>9. /\ stage' \in Stages /\ stage' # "launch" /\ stage' # "webfuse"
      /\ stage' # "webfuse_provider" /\ stage' # "verified"
  BY <1>1 DEF Stages
<1> QED
  BY <1>1, <1>2, <1>5, <1>8, <1>9, Zenon DEF OptionsInv

(* It begins or ends. *)
LEMMA BegunStep ==
  ASSUME NEW code \in ExitCodes, Begun(code)
  PROVE  OptionsInv'
<1>1. /\ stage' = "started" /\ argv' = <<>> /\ current' = 0 /\ service' = NoService
      /\ config' = [context("") EXCEPT !.exit_code = code]
  BY Zenon DEF Begun
<1>2. argv' \in Seq(STRING) /\ current' \in 0 .. Len(argv')
  BY <1>1, NoLine
<1>3. config'.exit_code = code
  BY <1>1 DEF context
<1>4. service'.port \in Listening
  BY <1>1, NobodyListens
<1>5. /\ stage' \in Stages /\ stage' # "launch" /\ stage' # "verified" /\ stage' # "webfuse"
      /\ stage' # "webfuse_provider" /\ stage' # "parsed"
  BY <1>1 DEF Stages
<1> QED
  BY <1>2, <1>3, <1>4, <1>5, Zenon DEF OptionsInv

(* Steps of the client leave the command lines alone. *)
LEMMA OptionsFrame ==
  ASSUME OptionsInv, UNCHANGED optionVars
  PROVE  OptionsInv'
BY Zenon DEF OptionsInv, optionVars

(* All of them. *)
LEMMA OptionsStep ==
  ASSUME OptionsInv, [Next]_vars
  PROVE  OptionsInv'
<1>1. CASE CommandLine
  BY <1>1, ReadServiceArgumentStep, VerifyStep, AppRunStep, LaunchStep, GetoptStep, UrlGivenStep
     DEF CommandLine
<1>2. CASE main_run
  BY <1>2, Codes, BegunStep DEF main_run
<1>3. CASE main_end
  <2>1. main_exit_code(config) \in ExitCodes
    BY Codes DEF OptionsInv, main_exit_code
  <2>2. Begun(main_exit_code(config))
    BY <1>3, Zenon DEF main_end
  <2> QED
    BY <2>1, <2>2, BegunStep
<1>4. CASE application_run
  BY <1>4, Codes, BegunStep DEF application_run
<1>5. CASE UNCHANGED optionVars
  BY <1>5, OptionsFrame
<1>6. CASE UNCHANGED vars
  BY <1>6, OptionsFrame DEF vars
<1> QED
  BY <1>1, <1>2, <1>3, <1>4, <1>5, <1>6 DEF Next

-----------------------------------------------------------------------------
(* The thread of the client, and the flags. *)
ClientTypes ==
    /\ pc \in {"start", "test", "entering", "poll", "handling", "exited"}
    /\ connection \in {"none", "connecting", "open"}
    /\ writable \in BOOLEAN /\ wake \in BOOLEAN /\ shutdown_requested \in BOOLEAN
    /\ overlooked \in BOOLEAN
    /\ connects \in 0 .. MaxConnects
    /\ pc = "start" => connects = 0

(* Before the client is started. *)
LEMMA TypesBegin == Init => ClientTypes
<1> SUFFICES ASSUME Init PROVE ClientTypes
  OBVIOUS
<1>1. /\ pc = "start" /\ connection = "none" /\ connects = 0
      /\ writable = FALSE /\ wake = FALSE /\ shutdown_requested = FALSE /\ overlooked = FALSE
  BY DEF Init, ClientInit
<1>2. 0 \in 0 .. MaxConnects
  BY BoundsAssumption
<1> QED
  BY <1>1, <1>2, Zenon DEF ClientTypes

(* connect() is called for the first time. *)
LEMMA StartTypes ==
  ASSUME ClientTypes, NEW there, Start(there)
  PROVE  ClientTypes'
BY BoundsAssumption DEF ClientTypes, Start

(* The connection is lost; connect() may be called again. *)
LEMMA ListenerTypes ==
  ASSUME ClientTypes, ConnectionListener, Forget, Event, UNCHANGED <<overlooked, wake>>
  PROVE  ClientTypes'
<1>1. connects' \in 0 .. MaxConnects
  BY BoundsAssumption DEF ClientTypes, ConnectionListener
<1>2. connection' \in {"none", "connecting", "open"}
  BY DEF ConnectionListener
<1>3. shutdown_requested' \in BOOLEAN /\ overlooked' \in BOOLEAN
  BY DEF ClientTypes, ConnectionListener
<1>4. pc' = "handling" /\ writable' = FALSE /\ wake' \in BOOLEAN
  BY DEF Event, Forget, ClientTypes
<1> QED
  BY <1>1, <1>2, <1>3, <1>4 DEF ClientTypes

(* All steps. *)
LEMMA ClientTypesStep ==
  ASSUME ClientTypes, [Next]_vars
  PROVE  ClientTypes'
<1>1. CASE UNCHANGED clientVars
  BY <1>1 DEF ClientTypes, clientVars, network
<1>2. CASE main_run
  BY <1>2, StartTypes DEF main_run
<1>3. CASE application_run
  BY <1>3, StartTypes DEF application_run
<1>4. CASE main_end
  BY <1>4 DEF main_end, ClientTypes, network
<1>5. CASE ConnectionError \/ Closed
  BY <1>5, ListenerTypes DEF ConnectionError, Closed
<1>6. CASE Established
  BY <1>6 DEF Established, Event, ClientTypes, network
<1>7. CASE Receive
  <2>1. writable' \in BOOLEAN
    BY <1>7 DEF Receive
  <2> QED
    BY <1>7, <2>1 DEF Receive, Event, ClientTypes
<1>8. CASE Writable
  <2>1. writable' \in BOOLEAN
    BY <1>8 DEF Writable, StillWritable
  <2> QED
    BY <1>8, <2>1 DEF Writable, Event, ClientTypes
<1>9. CASE WakeUp
  BY <1>9 DEF WakeUp, Event, ClientTypes
<1>10. CASE LoopTest
  BY <1>10 DEF LoopTest, Forget, ClientTypes, network
<1>11. CASE EnterPoll
  BY <1>11 DEF EnterPoll, ClientTypes, network
<1>12. CASE ServiceReturn
  BY <1>12 DEF ServiceReturn, ClientTypes, network
<1>13. CASE on_signal
  BY <1>13 DEF on_signal, ClientTypes, network
<1>14. CASE RequestShutdown
  BY <1>14 DEF RequestShutdown, ClientTypes, network
<1>15. CASE Interrupt
  BY <1>15 DEF Interrupt, ClientTypes
<1>16. CASE SendRequest
  BY <1>16 DEF SendRequest, ClientTypes
<1>17. CASE PeerStops
  BY <1>17 DEF PeerStops, ClientTypes
<1>18. CASE PeerStarts
  BY <1>18 DEF PeerStarts, ClientTypes
<1>19. CASE UNCHANGED vars
  BY <1>1, <1>19 DEF vars
<1> QED
  BY <1>1, <1>2, <1>3, <1>4, <1>5, <1>6, <1>7, <1>8, <1>9, <1>10, <1>11, <1>12, <1>13, <1>14,
     <1>15, <1>16, <1>17, <1>18, <1>19 DEF Next, Callback, Loop, Others

(* What the invariants of both parts say about types. *)
LEMMA TypesHold == OptionsInv /\ ClientInv /\ ClientTypes => TypeOK
<1> SUFFICES ASSUME OptionsInv, ClientInv, ClientTypes PROVE TypeOK
  OBVIOUS
<1>1. /\ stage \in Stages /\ current \in 0 .. Len(argv) /\ config.exit_code \in ExitCodes
      /\ service.port \in Listening
  BY Zenon DEF OptionsInv
<1>2. stage \in {"webfuse", "verified"} => config.port \in uint16
  BY Zenon DEF OptionsInv, ConfigLoop
<1>3. /\ current_message \in Seq(Fragments) /\ wire \in Seq(Fragments)
      /\ requests \in Seq(1 .. MaxMessages) /\ answered \in Seq(1 .. MaxMessages)
      /\ count \in 0 .. MaxMessages
  BY Zenon DEF ClientInv, StreamInv, StreamType, Numbers
<1>4. {writable, wake, shutdown_requested, overlooked} \subseteq BOOLEAN
  BY DEF ClientTypes
<1>5. /\ pc \in {"start", "test", "entering", "poll", "handling", "exited"}
      /\ connection \in {"none", "connecting", "open"} /\ connects \in 0 .. MaxConnects
  BY Zenon DEF ClientTypes
<1>6. /\ stage \in {"webfuse", "verified", "launch", "webfuse_provider", "parsed", "application", "started"}
      /\ config.exit_code \in {EXIT_SUCCESS, EXIT_FAILURE, Aborted}
  BY <1>1, Zenon DEF Stages, ExitCodes
<1> QED
  BY <1>1, <1>2, <1>3, <1>4, <1>5, <1>6, Zenon DEF TypeOK, Listening

(* The arguments read are within the command line, ports have 16 bits, exit
   codes are those of the programs, and the client is in a state of its loop,
   for command lines, requests, fragments and connections of any number.    *)
THEOREM ProgramTypes == Spec => []TypeOK
<1>1. Init => OptionsInv /\ ClientInv /\ ClientTypes
  BY OptionsBegin, ClientBegins, TypesBegin
<1>2. /\ OptionsInv /\ ClientInv /\ ClientTypes /\ [Next]_vars
      => OptionsInv' /\ ClientInv' /\ ClientTypes'
  BY OptionsStep, ClientStep, ClientTypesStep
<1> QED
  BY <1>1, <1>2, TypesHold, PTL DEF Spec

(* ws_config::ws_config: a service that runs has handed every argument that is
   none of its own to FUSE, in order, listens on the port given last if that is
   one and uses TLS as it was told to, with both files; it aborts only over a
   number that is none.  For every command line.                            *)
THEOREM ServiceRunsAsAsked == Spec => []RunsAsAsked
<1>1. OptionsInv => RunsAsAsked
  <2>1. CASE stage = "verified"
    BY <2>1, RunsAsMeans, Zenon DEF OptionsInv
  <2>2. CASE stage # "verified"
    BY <2>2, Zenon DEF RunsAsAsked
  <2> QED
    BY <2>1, <2>2
<1>2. OptionsInv /\ [Next]_vars => OptionsInv'
  BY OptionsStep
<1> QED
  BY <1>1, <1>2, OptionsBegin, PTL DEF Spec

(* context::context: a provider connects if and only if its command line has a
   url, asks for nothing else and has nothing unknown or missing, all before the
   end of the options; then it uses the url given last and a token it was given,
   the last one of the line if there is none in the environment.  One whose
   command line is wrong ends with an error.  For every command line and every
   way in which arguments can be options (Getopt).                          *)
THEOREM ProviderConnectsAsAsked == Spec => []ConnectsAsAsked
<1>1. OptionsInv => ConnectsAsAsked
  <2>1. CASE stage = "parsed"
    BY <2>1, ConnectsAsMeans, Zenon DEF OptionsInv
  <2>2. CASE stage # "parsed"
    BY <2>2, Zenon DEF ConnectsAsAsked
  <2> QED
    BY <2>1, <2>2
<1>2. OptionsInv /\ [Next]_vars => OptionsInv'
  BY OptionsStep
<1> QED
  BY <1>1, <1>2, OptionsBegin, PTL DEF Spec
=============================================================================
