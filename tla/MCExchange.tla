----------------------------- MODULE MCExchange -----------------------------
(* Values of the fields for model checking. *)
EXTENDS Exchange

Slash == {0, 1, 2, 3, 5}
A == {0, 5, 6}

MCIds == {{0, 8, 23, 31}}
MCExtra == <<A, {}, {7}>>
MCErrors == {-1, -122, -133}

(* Single flags, with and without O_WRONLY, and O_TRUNC | O_SYNC. *)
FlagSets == {O_Flags[ServiceHost][f] \cup m : f \in DOMAIN OpenFlags, m \in {{}, {0}}}
                \cup {{9, 12, 20}}

MCValues(kind) ==
    CASE kind = "str"   -> {<<Slash, A, {7}>>}
      [] kind = "bytes" -> {<<>>, <<{}>>}
      [] kind = "strings" -> {<<>>, <<<<A>>, <<>>, <<{7}>>>>}
      [] kind = "bool"  -> BOOLEAN
      [] kind = "u8"    -> {{}, {0}, {7}}
      [] kind = "u32"   -> {{}, 0 .. 31}
      [] kind = "u64"   -> {{31}, {1, 32}, 0 .. 63}
      [] kind \in {"mode", "attr_mode"} -> {t \cup {8, 0} : t \in {S_IF[u] : u \in DOMAIN S_IF} \cup {{}}}
      [] kind = "access_mode"  -> SUBSET (0 .. 2)
      [] kind = "rename_flags" -> {{}, {0}, {1}}
      [] kind = "openflags"    -> FlagSets

(* Numbers differ by their position, so that no two fields can be confused. *)
MCBase(kind, i) ==
    CASE kind \in {"u8", "u32", "u64"} -> Word(4 + i)
      [] kind = "str"   -> <<Slash, Word(i)>>
      [] kind = "bytes" -> <<A, {1}>>
      [] kind = "strings" -> <<<<A>>, <<A, {2}>>>>
      [] kind = "bool"  -> TRUE
      [] kind \in {"mode", "attr_mode"} -> S_IF.reg \cup {8, 7}
      [] kind = "access_mode"  -> {2}
      [] kind = "rename_flags" -> {0}
      [] kind = "openflags"    -> {1}
=============================================================================
