----------------------------- MODULE MCWsServer -----------------------------
(* Instances of WsServer for TLC. *)
EXTENDS WsServerRpc, TLC

Symmetry == Permutations(Calls) \cup Permutations(Wsis)
=============================================================================
