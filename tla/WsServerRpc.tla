----------------------------- MODULE WsServerRpc ----------------------------
(* WsServer as an implementation of Rpc. *)
EXTENDS WsServer

(* The state of a call as its caller sees it; "wrong" is no state of Rpc. *)
Status(c) ==
    CASE pc[c] = "idle"                        -> "new"
      [] pc[c] /= "idle" /\ future[c] = "pending" -> "open"
      [] future[c] = "value" /\ got[c] = c     -> "answered"
      [] future[c] = "value" /\ got[c] /= c    -> "wrong"
      [] future[c] \in Failures                -> "failed"

Abstract == INSTANCE Rpc WITH status <- [c \in Calls |-> Status(c)],
                              executions <- executed

(* perform() is a remote call with at-most-once execution: every behaviour of
   the server is, for its callers, a behaviour of Rpc.                     *)
ImplementsRpc == Abstract!Spec
=============================================================================
