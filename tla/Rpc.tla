-------------------------------- MODULE Rpc --------------------------------
(***************************************************************************)
(* What ws_server::perform() promises to the filesystem: a remote call     *)
(* with at-most-once execution.  A call ends with the response to its own  *)
(* request or with an exception; after an exception the request may or may *)
(* not have been executed, and may even be executed later.                 *)
(***************************************************************************)
EXTENDS Naturals

CONSTANT Calls

VARIABLES
    status,     \* "new", "open", "answered" or "failed"
    executions  \* how often the provider has executed a call

vars == <<status, executions>>

Init == /\ status = [c \in Calls |-> "new"]
        /\ executions = [c \in Calls |-> 0]

Begin(c) == /\ status[c] = "new"
            /\ status' = [status EXCEPT ![c] = "open"]
            /\ UNCHANGED executions

(* A call that fails before it has begun: the caller is not authenticated. *)
Reject(c) == /\ status[c] = "new"
             /\ status' = [status EXCEPT ![c] = "failed"]
             /\ UNCHANGED executions

Execute(c) == /\ status[c] \in {"open", "failed"}
              /\ executions[c] = 0
              /\ executions' = [executions EXCEPT ![c] = 1]
              /\ UNCHANGED status

Answer(c) == /\ status[c] = "open" /\ executions[c] = 1
             /\ status' = [status EXCEPT ![c] = "answered"]
             /\ UNCHANGED executions

(* Calls fail one by one, or together when a connection is lost. *)
Fail(cs) == /\ cs /= {} /\ \A c \in cs : status[c] = "open"
            /\ status' = [c \in Calls |-> IF c \in cs THEN "failed" ELSE status[c]]
            /\ UNCHANGED executions

Finish(c) == Answer(c) \/ \E cs \in SUBSET Calls : c \in cs /\ Fail(cs)

Next == \E c \in Calls : Begin(c) \/ Reject(c) \/ Execute(c) \/ Finish(c)

(* An open call ends. *)
Spec == /\ Init /\ [][Next]_vars
        /\ \A c \in Calls : WF_vars(Finish(c))
=============================================================================
