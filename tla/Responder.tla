------------------------------ MODULE Responder ------------------------------
(***************************************************************************)
(* What a provider promises to the service at the other end of a           *)
(* connection: the requests it can decode are answered once each, in the   *)
(* order in which they were sent, for as long as the connection lives; no  *)
(* answer crosses from one connection to the next.                         *)
(***************************************************************************)
EXTENDS Naturals, Sequences

CONSTANT Requests   \* records [no, good]: a number, and whether it can be decoded

VARIABLES
    asked,     \* requests of this connection
    answered   \* numbers of the requests answered on it

Answered(no) == \E k \in DOMAIN answered : answered[k] = no

(* The first request that can be decoded and is not answered yet. *)
Due(i) ==
    /\ asked[i].good /\ ~Answered(asked[i].no)
    /\ \A j \in 1 .. i - 1 : asked[j].good => Answered(asked[j].no)

Init == asked = <<>> /\ answered = <<>>

Ask ==
    /\ \E request \in Requests :
         /\ \A i \in DOMAIN asked : asked[i].no /= request.no
         /\ asked' = Append(asked, request)
    /\ UNCHANGED answered

Answer ==
    /\ \E i \in DOMAIN asked : Due(i) /\ answered' = Append(answered, asked[i].no)
    /\ UNCHANGED asked

(* The connection is lost. *)
Drop == asked' = <<>> /\ answered' = <<>>

Next == Ask \/ Answer \/ Drop

Spec == Init /\ [][Next]_<<asked, answered>> /\ WF_<<asked, answered>>(Answer)
=============================================================================
