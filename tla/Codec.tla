------------------------------- MODULE Codec -------------------------------
(***************************************************************************)
(* messagewriter and messagereader (ws/messagewriter.cpp,                  *)
(* ws/messagereader.cpp): how the values of the protocol are laid out in   *)
(* bytes and read back.                                                    *)
(*                                                                         *)
(* A byte is the set of its one bits, a subset of 0 .. 7, and a message a  *)
(* sequence of bytes.  Integers keep the widths they have in the code.     *)
(***************************************************************************)
EXTENDS Conversions, SequencesExt

(* The word of a small integer, found by shifting it to the right, and the
   integer of a word.                                                       *)
Word(n) ==
    LET shifted[i \in 0 .. 30] == IF i = 0 THEN n ELSE shifted[i - 1] \div 2
    IN {i \in 0 .. 30 : shifted[i] % 2 = 1}
Number(w) ==
    LET above[i \in 0 .. 31] == IF i = 0 THEN 0
                                ELSE 2 * above[i - 1] + (IF 31 - i \in w THEN 1 ELSE 0)
    IN above[31]

(* Conversions between int32_t and uint32_t. *)
to_uint32(n) == IF n >= 0 THEN Word(n) ELSE (0 .. 31) \ Word(-n - 1)
to_int32(w)  == IF 31 \in w THEN -Number((0 .. 31) \ w) - 1 ELSE Number(w)

-----------------------------------------------------------------------------
(* messagewriter: the bytes that a call appends. *)

Bytes == SUBSET (0 .. 7)

FaultyByte(value, k) == {i - 8 * k : i \in value}
Byte(value, k) == {i \in 0 .. 7 : 8 * k + i \in value}

write_u8(value)   == <<Byte(value, 0)>>
write_u32(value)  == [k \in 1 .. 4 |-> Byte(value, 4 - k)]
write_u64(value)  == [k \in 1 .. 8 |-> Byte(value, 8 - k)]
write_i32(value)  == write_u32(to_uint32(value))
write_bool(value) == IF value THEN <<{0}>> ELSE <<{}>>
write_data(s)     == write_u32(Word(Len(s))) \o s
write_strings(l)  == write_u32(Word(Len(l))) \o FlattenSeq([i \in DOMAIN l |-> write_data(l[i])])
write_mode(value) == write_u32(from_mode(value))
write_access_mode(value)     == write_u8(access_from_int(value))
write_rename_flags(value)    == write_u8(rename_flags(value))
write_openflags(value, host) == write_u32(openflags_from_int(value, host))

(* The header: the id, which set_id overwrites, and the type. *)
new_message(type) == write_u32({}) \o write_u8(type)
set_id(message, id) == write_u32(id) \o SubSeq(message, 5, Len(message))

-----------------------------------------------------------------------------
(* messagereader: data and pos of the object, whether a read has thrown, and
   the values read so far.                                                  *)

messagereader(s) == [data |-> s, pos |-> 0, ok |-> TRUE, values |-> <<>>]

(* The byte k places after pos; beyond the end there is a terminator. *)
At(r, k) == IF r.pos + k < Len(r.data) THEN r.data[r.pos + k + 1] ELSE {}
BigEndian(r, n) == UNION {{8 * (n - 1 - k) + i : i \in At(r, k)} : k \in 0 .. n - 1}

throw(r) == [r EXCEPT !.ok = FALSE]
Got(r, n, value) == [r EXCEPT !.pos = @ + n, !.values = Append(@, value)]

FaultyInBounds(r, n) == r.pos + n - 1 <= Len(r.data)
InBounds(r, n) == r.pos + n - 1 < Len(r.data)

(* n bytes, which are read as value. *)
read_fixed(r, n, value) == IF InBounds(r, n) THEN Got(r, n, value) ELSE throw(r)

read_u8(r)   == read_fixed(r, 1, BigEndian(r, 1))
read_u32(r)  == read_fixed(r, 4, BigEndian(r, 4))
read_i32(r)  == read_fixed(r, 4, to_int32(BigEndian(r, 4)))
read_u64(r)  == read_fixed(r, 8, BigEndian(r, 8) \cap (0 .. 31))   \* uint32_t value = ...
read_bool(r) == read_fixed(r, 1, BigEndian(r, 1) = {0})
read_mode(r) == read_fixed(r, 4, to_mode(BigEndian(r, 4)))
read_result(r)      == read_fixed(r, 4, to_fusestatus(to_int32(BigEndian(r, 4))))
read_access_mode(r) == read_fixed(r, 1, access_to_int(BigEndian(r, 1)))
read_openflags(r, host) == read_fixed(r, 4, openflags_to_int(BigEndian(r, 4), host))

(* A size, then as many bytes.  Strings of this model have less than 2^16. *)
FaultyReadBytes(r) ==
    LET s == read_u32(r)
        n == Min({Number(Last(s.values) \cap (0 .. 15)), Len(s.data) - s.pos})
    IN IF s.ok
       THEN [s EXCEPT !.pos = @ + n, !.values = Append(Front(@), SubSeq(s.data, s.pos + 1, s.pos + n))]
       ELSE throw(r)
read_bytes(r) ==
    LET s == read_u32(r)
        n == Number(Last(s.values))
    IN IF ~s.ok \/ ~(Last(s.values) \subseteq 0 .. 15) THEN throw(r)
       ELSE IF s.pos + n <= Len(s.data)
            THEN [s EXCEPT !.pos = @ + n, !.values = Append(Front(@), SubSeq(s.data, s.pos + 1, s.pos + n))]
            ELSE throw(r)

(* A count, then as many strings; read_str is read_bytes.  An exception ends
   the reading.                                                             *)
read_next(r) == IF r.ok THEN read_bytes(r) ELSE r
read_strings(r) ==
    LET s == read_u32(r)
        n == Number(Last(s.values))
        after[i \in 0 .. n] == IF i = 0 THEN [s EXCEPT !.values = <<>>] ELSE read_next(after[i - 1])
        all == after[n]
    IN IF ~s.ok \/ ~(Last(s.values) \subseteq 0 .. 15) \/ ~all.ok THEN throw(r)
       ELSE [all EXCEPT !.values = Append(r.values, all.values)]
=============================================================================
