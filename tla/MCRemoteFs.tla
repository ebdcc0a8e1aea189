----------------------------- MODULE MCRemoteFs -----------------------------
(* Instances of RemoteFs for TLC. *)
EXTENDS RemoteFs, TLC

Symmetry == Permutations(Threads) \cup Permutations(Files) \cup Permutations(Objects)
            \cup Permutations(Paths \ {Root})
=============================================================================
