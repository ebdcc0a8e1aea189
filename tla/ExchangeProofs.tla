--------------------------- MODULE ExchangeProofs ---------------------------
(***************************************************************************)
(* Proofs about a remote call on the wire.  The layouts of the two peers   *)
(* fit together, field by field; hence a message that was not cut is       *)
(* decoded to the values that were sent, whatever follows it, and one that *)
(* was cut either cannot be decoded or has lost nothing that is read.      *)
(***************************************************************************)
EXTENDS Exchange, CodecProofs

Types == AllOps \cup {"unknown"}
ReadKinds == {"u8", "u32", "u64", "bool", "str", "bytes", "strings", "mode", "access_mode",
              "openflags", "result"}

(* The request types of request_type.hpp. *)
LEMMA AllOpsIs ==
  AllOps = {"access", "getattr", "readlink", "symlink", "link", "rename", "chmod", "chown",
            "truncate", "fsync", "open", "mknod", "create", "release", "unlink", "read", "write",
            "mkdir", "readdir", "rmdir", "statfs", "utimens", "getcreds"}
BY DEF AllOps, request_type

(* The layouts that are put together from parts. *)
LEMMA ConcatAt ==
  ASSUME NEW S, NEW u \in Seq(S), NEW w \in Seq(S)
  PROVE  /\ u \o w \in Seq(S) /\ Len(u \o w) = Len(u) + Len(w)
         /\ \A i \in 1 .. Len(u) : (u \o w)[i] = u[i]
         /\ \A i \in 1 .. Len(w) : (u \o w)[Len(u) + i] = w[i]
<1>1. /\ u \o w \in Seq(S) /\ Len(u \o w) = Len(u) + Len(w) /\ Len(u) \in Nat /\ Len(w) \in Nat
      /\ \A i \in 1 .. Len(u) + Len(w) : (u \o w)[i] = IF i <= Len(u) THEN u[i] ELSE w[i - Len(u)]
  BY ConcatProperties, LenProperties
<1>2. \A i \in 1 .. Len(u) : (u \o w)[i] = u[i]
  BY <1>1
<1>3. ASSUME NEW i \in 1 .. Len(w) PROVE (u \o w)[Len(u) + i] = w[i]
  <2>1. Len(u) + i \in 1 .. Len(u) + Len(w) /\ ~(Len(u) + i <= Len(u)) /\ (Len(u) + i) - Len(u) = i
    BY <1>1
  <2> QED
    BY <1>1, <2>1
<1> QED
  BY <1>1, <1>2, <1>3

(* A layout to which a time is appended. *)
LEMMA TimeAt ==
  ASSUME NEW S, "u64" \in S, "u32" \in S, NEW u \in Seq(S), NEW b, b = u \o time
  PROVE  /\ b \in Seq(S) /\ Len(b) = Len(u) + 2
         /\ \A i \in 1 .. Len(u) : b[i] = u[i]
         /\ b[Len(u) + 1] = "u64" /\ b[Len(u) + 2] = "u32"
<1>1. time \in Seq(S) /\ Len(time) = 2 /\ time[1] = "u64" /\ time[2] = "u32"
  BY DEF time
<1>2. PICK t \in Seq(S) : t = time /\ Len(t) = 2 /\ t[1] = "u64" /\ t[2] = "u32"
  BY <1>1
<1>3. PICK c : c = u \o t
  OBVIOUS
<1>4. /\ c \in Seq(S) /\ Len(c) = Len(u) + Len(t)
      /\ \A i \in 1 .. Len(u) : c[i] = u[i]
      /\ \A i \in 1 .. Len(t) : c[Len(u) + i] = t[i]
  BY <1>3, ConcatAt
<1>5. c = b
  BY <1>2, <1>3
<1> QED
  BY <1>2, <1>4, <1>5

(* The layout of utimens. *)
LEMMA UtimensLayout ==
  ASSUME NEW S, "u64" \in S, "u32" \in S, "str" \in S
  PROVE  /\ <<"str">> \o time \o time \o <<"u64">> \in Seq(S)
         /\ Len(<<"str">> \o time \o time \o <<"u64">>) = 6
<1>1. <<"str">> \in Seq(S) /\ Len(<<"str">>) = 1 /\ <<"u64">> \in Seq(S) /\ Len(<<"u64">>) = 1
  OBVIOUS
<1>2. PICK s : s = <<"str">>
  OBVIOUS
<1>3. PICK w : w = <<"u64">>
  OBVIOUS
<1>4. PICK a : a = s \o time
  OBVIOUS
<1>5. s \in Seq(S) /\ Len(s) = 1 /\ w \in Seq(S) /\ Len(w) = 1
  BY <1>1, <1>2, <1>3
<1>6. a \in Seq(S) /\ Len(a) = 3
  <2>1. a \in Seq(S) /\ Len(a) = Len(s) + 2
    BY <1>4, <1>5, TimeAt, Zenon
  <2> QED
    BY <2>1, <1>5
<1>7. PICK b : b = a \o time
  OBVIOUS
<1>8. b \in Seq(S) /\ Len(b) = 5
  <2>1. b \in Seq(S) /\ Len(b) = Len(a) + 2
    BY <1>6, <1>7, TimeAt, Zenon
  <2> QED
    BY <2>1, <1>6
<1>9. b \o w \in Seq(S) /\ Len(b \o w) = 6
  <2>1. b \o w \in Seq(S) /\ Len(b \o w) = Len(b) + Len(w)
    BY <1>5, <1>8, ConcatAt, Zenon
  <2> QED
    BY <2>1, <1>5, <1>8
<1>10. b \o w = <<"str">> \o time \o time \o <<"u64">>
  BY <1>2, <1>3, <1>4, <1>7, Zenon
<1> QED
  BY <1>9, <1>10, Zenon

(* The layout that write_attr writes *)
LEMMA WrittenAttr ==
  /\ written_attr \in Seq(WrittenKinds) /\ Len(written_attr) = 14
  /\ written_attr[3] = "attr_mode"
  /\ \A i \in {1, 2, 6, 7, 8, 9, 11, 13} : written_attr[i] = "u64"
  /\ \A i \in {4, 5, 10, 12, 14} : written_attr[i] = "u32"
<1>1. PICK a : a = <<"u64", "u64", "attr_mode", "u32", "u32", "u64", "u64", "u64">>
  OBVIOUS
<1>2. /\ a \in Seq(WrittenKinds) /\ Len(a) = 8 /\ a[1] = "u64" /\ a[2] = "u64" /\ a[3] = "attr_mode"
      /\ a[4] = "u32" /\ a[5] = "u32" /\ a[6] = "u64" /\ a[7] = "u64" /\ a[8] = "u64"
  BY <1>1 DEF WrittenKinds
<1>w. "u64" \in WrittenKinds /\ "u32" \in WrittenKinds
  BY DEF WrittenKinds
<1> HIDE DEF WrittenKinds
<1>3. PICK b : b = a \o time
  OBVIOUS
<1>4. PICK c : c = b \o time
  OBVIOUS
<1>5. PICK d : d = c \o time
  OBVIOUS
<1>6. d = written_attr
  BY <1>1, <1>3, <1>4, <1>5, Zenon DEF written_attr
<1>7. /\ b \in Seq(WrittenKinds) /\ Len(b) = 10 /\ b[9] = "u64" /\ b[10] = "u32"
      /\ \A i \in 1 .. 8 : b[i] = a[i]
  <2>1. a \in Seq(WrittenKinds) /\ Len(a) = 8
    BY <1>2
  <2> QED
    <3>1. /\ b \in Seq(WrittenKinds) /\ Len(b) = Len(a) + 2
          /\ \A i \in 1 .. Len(a) : b[i] = a[i]
          /\ b[Len(a) + 1] = "u64" /\ b[Len(a) + 2] = "u32"
      BY <2>1, <1>w, <1>3, TimeAt, Zenon
    <3> QED
      BY <2>1, <3>1
<1>8. /\ c \in Seq(WrittenKinds) /\ Len(c) = 12 /\ c[11] = "u64" /\ c[12] = "u32"
      /\ \A i \in 1 .. 10 : c[i] = b[i]
  <2>1. b \in Seq(WrittenKinds) /\ Len(b) = 10
    BY <1>7
  <2> QED
    <3>1. /\ c \in Seq(WrittenKinds) /\ Len(c) = Len(b) + 2
          /\ \A i \in 1 .. Len(b) : c[i] = b[i]
          /\ c[Len(b) + 1] = "u64" /\ c[Len(b) + 2] = "u32"
      BY <2>1, <1>w, <1>4, TimeAt, Zenon
    <3> QED
      BY <2>1, <3>1
<1>9. /\ d \in Seq(WrittenKinds) /\ Len(d) = 14 /\ d[13] = "u64" /\ d[14] = "u32"
      /\ \A i \in 1 .. 12 : d[i] = c[i]
  <2>1. c \in Seq(WrittenKinds) /\ Len(c) = 12
    BY <1>8
  <2> QED
    <3>1. /\ d \in Seq(WrittenKinds) /\ Len(d) = Len(c) + 2
          /\ \A i \in 1 .. Len(c) : d[i] = c[i]
          /\ d[Len(c) + 1] = "u64" /\ d[Len(c) + 2] = "u32"
      BY <2>1, <1>w, <1>5, TimeAt, Zenon
    <3> QED
      BY <2>1, <3>1
<1>10. /\ d[1] = "u64" /\ d[2] = "u64" /\ d[3] = "attr_mode" /\ d[4] = "u32" /\ d[5] = "u32"
       /\ d[6] = "u64" /\ d[7] = "u64" /\ d[8] = "u64"
  BY <1>2, <1>7, <1>8, <1>9
<1>11. d[9] = "u64" /\ d[10] = "u32" /\ d[11] = "u64" /\ d[12] = "u32"
  BY <1>7, <1>8, <1>9
<1> QED
  BY <1>6, <1>9, <1>10, <1>11

(* and the one that read_attr reads. *)
LEMMA ReadAttr ==
  /\ read_attr \in Seq(ReadKinds) /\ Len(read_attr) = 14
  /\ read_attr[3] = "mode"
  /\ \A i \in {1, 2, 6, 7, 8, 9, 11, 13} : read_attr[i] = "u64"
  /\ \A i \in {4, 5, 10, 12, 14} : read_attr[i] = "u32"
BY DEF read_attr, ReadKinds

-----------------------------------------------------------------------------
(* The layouts of the two peers. *)

(* A field of kind w is read as one of kind k, of the same size. *)
Pair(w, k) == k = w \/ (w = "rename_flags" /\ k = "u8") \/ (w = "attr_mode" /\ k = "mode")

(* Two layouts have as many fields and, but for field e if that is the last
   one, fields of the same size at the same place.                          *)
Aligned(ws, ks, e) ==
    /\ ws \in Seq(WrittenKinds) /\ ks \in Seq(ReadKinds)
    /\ Len(ws) = Len(ks) /\ Len(ws) <= MaxFields
    /\ \A i \in 1 .. Len(ws) : \/ Pair(ws[i], ks[i])
                               \/ i = e /\ i = Len(ws) /\ ws[i] = "u64" /\ ks[i] = "u32"

(* The provider reads 32 of the 64 bits of the device of mknod. *)
Misread(o) == IF o = "mknod" THEN 3 ELSE 0

(* The layouts of requests in filesystem.cpp and in provider.cpp fit together. *)
LEMMA RequestLayouts ==
  ASSUME NEW o \in Types
  PROVE  Aligned(written_request(o), read_request(o), Misread(o))
<1>1. CASE o \in {"getattr", "readlink", "unlink", "readdir", "rmdir", "statfs"}
  <2>1. written_request(o) = <<"str">>
    BY <1>1 DEF written_request
  <2>2. read_request(o) = <<"str">>
    BY <1>1 DEF read_request
  <2>3. Aligned(<<"str">>, <<"str">>, Misread(o))
    BY <1>1 DEF Aligned, WrittenKinds, ReadKinds, Pair, MaxFields, Misread
  <2> QED
    BY <2>1, <2>2, <2>3, Zenon
<1>2. CASE o \in {"symlink", "link"}
  <2>1. written_request(o) = <<"str", "str">>
    BY <1>2 DEF written_request
  <2>2. read_request(o) = <<"str", "str">>
    BY <1>2 DEF read_request
  <2>3. Aligned(<<"str", "str">>, <<"str", "str">>, Misread(o))
    BY <1>2 DEF Aligned, WrittenKinds, ReadKinds, Pair, MaxFields, Misread
  <2> QED
    BY <2>1, <2>2, <2>3, Zenon
<1>3. CASE o \in {"chmod", "create", "mkdir"}
  <2>1. written_request(o) = <<"str", "mode">>
    BY <1>3 DEF written_request
  <2>2. read_request(o) = <<"str", "mode">>
    BY <1>3 DEF read_request
  <2>3. Aligned(<<"str", "mode">>, <<"str", "mode">>, Misread(o))
    BY <1>3 DEF Aligned, WrittenKinds, ReadKinds, Pair, MaxFields, Misread
  <2> QED
    BY <2>1, <2>2, <2>3, Zenon
<1>4. CASE o = "access"
  <2>1. written_request(o) = <<"str", "access_mode">>
    BY <1>4 DEF written_request
  <2>2. read_request(o) = <<"str", "access_mode">>
    BY <1>4 DEF read_request
  <2>3. Aligned(<<"str", "access_mode">>, <<"str", "access_mode">>, Misread(o))
    BY <1>4 DEF Aligned, WrittenKinds, ReadKinds, Pair, MaxFields, Misread
  <2> QED
    BY <2>1, <2>2, <2>3, Zenon
<1>5. CASE o = "rename"
  <2>1. written_request(o) = <<"str", "str", "rename_flags">>
    BY <1>5 DEF written_request
  <2>2. read_request(o) = <<"str", "str", "u8">>
    BY <1>5 DEF read_request
  <2>3. Aligned(<<"str", "str", "rename_flags">>, <<"str", "str", "u8">>, Misread(o))
    BY <1>5 DEF Aligned, WrittenKinds, ReadKinds, Pair, MaxFields, Misread
  <2> QED
    BY <2>1, <2>2, <2>3, Zenon
<1>6. CASE o = "chown"
  <2>1. written_request(o) = <<"str", "u32", "u32">>
    BY <1>6 DEF written_request
  <2>2. read_request(o) = <<"str", "u32", "u32">>
    BY <1>6 DEF read_request
  <2>3. Aligned(<<"str", "u32", "u32">>, <<"str", "u32", "u32">>, Misread(o))
    BY <1>6 DEF Aligned, WrittenKinds, ReadKinds, Pair, MaxFields, Misread
  <2> QED
    BY <2>1, <2>2, <2>3, Zenon
<1>7. CASE o = "truncate"
  <2>1. written_request(o) = <<"str", "u64", "u64">>
    BY <1>7 DEF written_request
  <2>2. read_request(o) = <<"str", "u64", "u64">>
    BY <1>7 DEF read_request
  <2>3. Aligned(<<"str", "u64", "u64">>, <<"str", "u64", "u64">>, Misread(o))
    BY <1>7 DEF Aligned, WrittenKinds, ReadKinds, Pair, MaxFields, Misread
  <2> QED
    BY <2>1, <2>2, <2>3, Zenon
<1>8. CASE o = "fsync"
  <2>1. written_request(o) = <<"str", "bool", "u64">>
    BY <1>8 DEF written_request
  <2>2. read_request(o) = <<"str", "bool", "u64">>
    BY <1>8 DEF read_request
  <2>3. Aligned(<<"str", "bool", "u64">>, <<"str", "bool", "u64">>, Misread(o))
    BY <1>8 DEF Aligned, WrittenKinds, ReadKinds, Pair, MaxFields, Misread
  <2> QED
    BY <2>1, <2>2, <2>3, Zenon
<1>9. CASE o = "open"
  <2>1. written_request(o) = <<"str", "openflags">>
    BY <1>9 DEF written_request
  <2>2. read_request(o) = <<"str", "openflags">>
    BY <1>9 DEF read_request
  <2>3. Aligned(<<"str", "openflags">>, <<"str", "openflags">>, Misread(o))
    BY <1>9 DEF Aligned, WrittenKinds, ReadKinds, Pair, MaxFields, Misread
  <2> QED
    BY <2>1, <2>2, <2>3, Zenon
<1>10. CASE o = "mknod"
  <2>1. written_request(o) = <<"str", "mode", "u64">>
    BY <1>10 DEF written_request
  <2>2. read_request(o) = <<"str", "mode", "u32">>
    BY <1>10 DEF read_request
  <2>3. Aligned(<<"str", "mode", "u64">>, <<"str", "mode", "u32">>, Misread(o))
    BY <1>10 DEF Aligned, WrittenKinds, ReadKinds, Pair, MaxFields, Misread
  <2> QED
    BY <2>1, <2>2, <2>3, Zenon
<1>11. CASE o = "release"
  <2>1. written_request(o) = <<"str", "u64">>
    BY <1>11 DEF written_request
  <2>2. read_request(o) = <<"str", "u64">>
    BY <1>11 DEF read_request
  <2>3. Aligned(<<"str", "u64">>, <<"str", "u64">>, Misread(o))
    BY <1>11 DEF Aligned, WrittenKinds, ReadKinds, Pair, MaxFields, Misread
  <2> QED
    BY <2>1, <2>2, <2>3, Zenon
<1>12. CASE o = "read"
  <2>1. written_request(o) = <<"str", "u32", "u64", "u64">>
    BY <1>12 DEF written_request
  <2>2. read_request(o) = <<"str", "u32", "u64", "u64">>
    BY <1>12 DEF read_request
  <2>3. Aligned(<<"str", "u32", "u64", "u64">>, <<"str", "u32", "u64", "u64">>, Misread(o))
    BY <1>12 DEF Aligned, WrittenKinds, ReadKinds, Pair, MaxFields, Misread
  <2> QED
    BY <2>1, <2>2, <2>3, Zenon
<1>13. CASE o = "write"
  <2>1. written_request(o) = <<"str", "bytes", "u64", "u64">>
    BY <1>13 DEF written_request
  <2>2. read_request(o) = <<"str", "bytes", "u64", "u64">>
    BY <1>13 DEF read_request
  <2>3. Aligned(<<"str", "bytes", "u64", "u64">>, <<"str", "bytes", "u64", "u64">>, Misread(o))
    BY <1>13 DEF Aligned, WrittenKinds, ReadKinds, Pair, MaxFields, Misread
  <2> QED
    BY <2>1, <2>2, <2>3, Zenon
<1>14. CASE o \in {"getcreds", "unknown"}
  <2>1. written_request(o) = <<>>
    BY <1>14 DEF written_request
  <2>2. read_request(o) = <<>>
    BY <1>14 DEF read_request
  <2>3. Aligned(<<>>, <<>>, Misread(o))
    BY <1>14 DEF Aligned, WrittenKinds, ReadKinds, Pair, MaxFields, Misread
  <2> QED
    BY <2>1, <2>2, <2>3, Zenon
<1>15. CASE o = "utimens"
  <2>1. PICK s : s = <<"str">> \o time \o time \o <<"u64">>
    OBVIOUS
  <2>2. written_request(o) = s /\ read_request(o) = s
    <3>1. written_request(o) = <<"str">> \o time \o time \o <<"u64">>
      BY <1>15 DEF written_request
    <3>2. read_request(o) = <<"str">> \o time \o time \o <<"u64">>
      BY <1>15 DEF read_request
    <3> QED
      BY <2>1, <3>1, <3>2, Zenon
  <2>3. "u64" \in WrittenKinds /\ "u32" \in WrittenKinds /\ "str" \in WrittenKinds
    BY DEF WrittenKinds
  <2>4. "u64" \in ReadKinds /\ "u32" \in ReadKinds /\ "str" \in ReadKinds
    BY DEF ReadKinds
  <2>5. s \in Seq(WrittenKinds) /\ Len(s) = 6
    BY <2>1, <2>3, UtimensLayout, Zenon
  <2>6. s \in Seq(ReadKinds)
    BY <2>1, <2>4, UtimensLayout, Zenon
  <2>7. Aligned(s, s, Misread(o))
    BY <2>5, <2>6 DEF Aligned, Pair, MaxFields
  <2> QED
    BY <2>2, <2>7, Zenon
<1> QED
  BY AllOpsIs, <1>1, <1>2, <1>3, <1>4, <1>5, <1>6, <1>7, <1>8, <1>9, <1>10,
     <1>11, <1>12, <1>13, <1>14, <1>15 DEF Types

(* So do those of statistics, *)
LEMMA StatisticsLayouts == Aligned(written_statistics, read_statistics, 0)
<1>1. written_statistics = read_statistics
  BY DEF written_statistics, read_statistics
<1>2. /\ written_statistics \in Seq(WrittenKinds) /\ written_statistics \in Seq(ReadKinds)
      /\ Len(written_statistics) = 8
  BY DEF written_statistics, WrittenKinds, ReadKinds
<1> QED
  BY <1>1, <1>2 DEF Aligned, Pair, MaxFields

(* of attributes *)
LEMMA AttrLayouts == Aligned(written_attr, read_attr, 0)
<1>1. ASSUME NEW i \in 1 .. 14 PROVE Pair(written_attr[i], read_attr[i])
  BY WrittenAttr, ReadAttr DEF Pair
<1> QED
  BY <1>1, WrittenAttr, ReadAttr DEF Aligned, MaxFields

(* and of every output. *)
LEMMA OutputLayouts ==
  ASSUME NEW o \in Types
  PROVE  Aligned(written_output(o), read_output(o), 0)
<1>1. CASE o = "getattr"
  BY <1>1, AttrLayouts DEF written_output, read_output
<1>2. CASE o = "statfs"
  BY <1>2, StatisticsLayouts DEF written_output, read_output
<1>3. CASE o \in {"readlink", "getcreds"}
  <2>1. written_output(o) = <<"str">> /\ read_output(o) = <<"str">>
    BY <1>3 DEF written_output, read_output
  <2>2. Aligned(<<"str">>, <<"str">>, 0)
    BY DEF Aligned, WrittenKinds, ReadKinds, Pair, MaxFields
  <2> QED
    BY <2>1, <2>2, Zenon
<1>4. CASE o \in {"open", "create"}
  <2>1. written_output(o) = <<"u64">> /\ read_output(o) = <<"u64">>
    BY <1>4 DEF written_output, read_output
  <2>2. Aligned(<<"u64">>, <<"u64">>, 0)
    BY DEF Aligned, WrittenKinds, ReadKinds, Pair, MaxFields
  <2> QED
    BY <2>1, <2>2, Zenon
<1>5. CASE o = "read"
  <2>1. written_output(o) = <<"bytes">> /\ read_output(o) = <<"bytes">>
    BY <1>5 DEF written_output, read_output
  <2>2. Aligned(<<"bytes">>, <<"bytes">>, 0)
    BY DEF Aligned, WrittenKinds, ReadKinds, Pair, MaxFields
  <2> QED
    BY <2>1, <2>2, Zenon
<1>6. CASE o = "readdir"
  <2>1. written_output(o) = <<"strings">> /\ read_output(o) = <<"strings">>
    BY <1>6 DEF written_output, read_output
  <2>2. Aligned(<<"strings">>, <<"strings">>, 0)
    BY DEF Aligned, WrittenKinds, ReadKinds, Pair, MaxFields
  <2> QED
    BY <2>1, <2>2, Zenon
<1>7. CASE o \notin {"getattr", "statfs", "readlink", "getcreds", "open", "create", "read", "readdir"}
  <2>1. written_output(o) = <<>> /\ read_output(o) = <<>>
    BY <1>7 DEF written_output, read_output
  <2>2. Aligned(<<>>, <<>>, 0)
    BY DEF Aligned, WrittenKinds, ReadKinds, Pair, MaxFields
  <2> QED
    BY <2>1, <2>2, Zenon
<1> QED
  BY <1>1, <1>2, <1>3, <1>4, <1>5, <1>6, <1>7

-----------------------------------------------------------------------------
(* Reading a field. *)

Value == (SUBSET Nat) \cup Int \cup BOOLEAN \cup Seq(Bytes) \cup Seq(Seq(Bytes))

(* What a value may be. *)
LEMMA ValueType ==
  /\ SUBSET Nat \subseteq Value /\ Int \subseteq Value /\ BOOLEAN \subseteq Value
  /\ Seq(Bytes) \subseteq Value /\ Seq(Seq(Bytes)) \subseteq Value
BY Zenon DEF Value

(* Fields of a fixed size: the size, and the value of the word that is found. *)
FixedKinds == ReadKinds \ {"str", "bytes", "strings"}
Size(kind) ==
    CASE kind \in {"u8", "bool", "access_mode"} -> 1
      [] kind \in {"u32", "mode", "openflags", "result"} -> 4
      [] kind = "u64" -> 8
Decoded(kind, w, host) ==
    CASE kind \in {"u8", "u32"} -> w
      [] kind = "u64"           -> w \cap (0 .. 31)
      [] kind = "bool"          -> w = {0}
      [] kind = "mode"          -> to_mode(w)
      [] kind = "result"        -> to_fusestatus(to_int32(w))
      [] kind = "access_mode"   -> access_to_int(w)
      [] kind = "openflags"     -> openflags_to_int(w, host)

(* Reading a field of a fixed size. *)
LEMMA ReadFixed ==
  ASSUME NEW kind \in FixedKinds, NEW r, NEW host
  PROVE  /\ Size(kind) \in Nat
         /\ Read(kind, r, host) =
              read_fixed(r, Size(kind), Decoded(kind, BigEndian(r, Size(kind)), host))
<1>1. CASE kind = "u8"
  <2>1. Size(kind) = 1 /\ Read(kind, r, host) = read_u8(r) /\ \A w : Decoded(kind, w, host) = w
    BY <1>1 DEF Size, Read, Decoded
  <2> QED
    BY <2>1 DEF read_u8
<1>2. CASE kind = "u32"
  <2>1. Size(kind) = 4 /\ Read(kind, r, host) = read_u32(r) /\ \A w : Decoded(kind, w, host) = w
    BY <1>2 DEF Size, Read, Decoded
  <2> QED
    BY <2>1 DEF read_u32
<1>3. CASE kind = "u64"
  <2>1. /\ Size(kind) = 8 /\ Read(kind, r, host) = read_u64(r)
        /\ \A w : Decoded(kind, w, host) = w \cap (0 .. 31)
    BY <1>3 DEF Size, Read, Decoded
  <2>2. Size(kind) \in Nat
    BY <2>1
  <2> QED
    BY <2>1, <2>2, Zenon DEF read_u64
<1>4. CASE kind = "bool"
  <2>1. /\ Size(kind) = 1 /\ Read(kind, r, host) = read_bool(r)
        /\ \A w : Decoded(kind, w, host) = (w = {0})
    BY <1>4 DEF Size, Read, Decoded
  <2> QED
    BY <2>1 DEF read_bool
<1>5. CASE kind = "mode"
  <2>1. Size(kind) = 4 /\ Read(kind, r, host) = read_mode(r) /\ \A w : Decoded(kind, w, host) = to_mode(w)
    BY <1>5 DEF Size, Read, Decoded
  <2> QED
    BY <2>1 DEF read_mode
<1>6. CASE kind = "result"
  <2>1. /\ Size(kind) = 4 /\ Read(kind, r, host) = read_result(r)
        /\ \A w : Decoded(kind, w, host) = to_fusestatus(to_int32(w))
    BY <1>6 DEF Size, Read, Decoded
  <2> QED
    BY <2>1 DEF read_result
<1>7. CASE kind = "access_mode"
  <2>1. /\ Size(kind) = 1 /\ Read(kind, r, host) = read_access_mode(r)
        /\ \A w : Decoded(kind, w, host) = access_to_int(w)
    BY <1>7 DEF Size, Read, Decoded
  <2> QED
    BY <2>1 DEF read_access_mode
<1>8. CASE kind = "openflags"
  <2>1. /\ Size(kind) = 4 /\ Read(kind, r, host) = read_openflags(r, host)
        /\ \A w : Decoded(kind, w, host) = openflags_to_int(w, host)
    BY <1>8 DEF Size, Read, Decoded
  <2> QED
    BY <2>1 DEF read_openflags
<1> QED
  BY <1>1, <1>2, <1>3, <1>4, <1>5, <1>6, <1>7, <1>8 DEF FixedKinds, ReadKinds

(* to_int32 gives an integer. *)
LEMMA Int32Type ==
  ASSUME NEW w
  PROVE  to_int32(w) \in Int
BY NumberType DEF to_int32

(* A decoded word is a value. *)
LEMMA DecodedType ==
  ASSUME NEW kind \in FixedKinds, NEW w \in SUBSET Nat, NEW host \in Hosts
  PROVE  Decoded(kind, w, host) \in Value
<1>1. CASE kind \in {"u8", "u32", "u64"}
  <2>1. Decoded(kind, w, host) \in SUBSET Nat
    BY <1>1 DEF Decoded
  <2> QED
    BY <2>1, ValueType, Zenon
<1>2. CASE kind = "bool"
  <2>1. Decoded(kind, w, host) = (w = {0})
    BY <1>2 DEF Decoded
  <2>2. Decoded(kind, w, host) \in BOOLEAN
    BY <2>1
  <2> QED
    BY <2>2, ValueType, Zenon
<1>3. CASE kind = "mode"
  <2>1. Decoded(kind, w, host) = to_mode(w)
    BY <1>3 DEF Decoded
  <2> QED
    BY <2>1, ToModeType, ValueType, Zenon
<1>4. CASE kind = "result"
  <2>1. Decoded(kind, w, host) = to_fusestatus(to_int32(w))
    BY <1>4 DEF Decoded
  <2>2. to_int32(w) \in Int
    BY Int32Type
  <2>3. to_fusestatus(to_int32(w)) = to_int32(w)
    BY <2>2, StatusKept, Zenon
  <2> QED
    BY <2>1, <2>2, <2>3, ValueType, Zenon
<1>5. CASE kind = "access_mode"
  <2>1. Decoded(kind, w, host) = access_to_int(w)
    BY <1>5 DEF Decoded
  <2> QED
    BY <2>1, AccessType, ValueType, Zenon
<1>6. CASE kind = "openflags"
  <2>1. Decoded(kind, w, host) = openflags_to_int(w, host)
    BY <1>6 DEF Decoded
  <2>2. openflags_to_int(w, host) \in SUBSET (0 .. 31)
    BY OpenflagsType
  <2>3. openflags_to_int(w, host) \in SUBSET Nat
    BY <2>2
  <2> QED
    BY <2>1, <2>3, ValueType, Zenon
<1> QED
  BY <1>1, <1>2, <1>3, <1>4, <1>5, <1>6 DEF FixedKinds, ReadKinds

(* A read throws, or takes some bytes that are there. *)
LEMMA ReadForm ==
  ASSUME NEW kind \in ReadKinds, NEW r \in Readers(Value), r.ok = TRUE, NEW host \in Hosts
  PROVE  \/ Read(kind, r, host) = throw(r)
         \/ \E n, v : v \in Value /\ Took(r, Read(kind, r, host), n, v)
<1>0. r.data \in Seq(Bytes) /\ r.pos \in Nat
  BY DEF Readers
<1>1. CASE kind \in FixedKinds
  <2>1. PICK n \in Nat : n = Size(kind)
    BY <1>1, ReadFixed
  <2>2. BigEndian(r, n) \in SUBSET Nat
    BY <1>0, BigEndianType
  <2>3. PICK v \in Value : v = Decoded(kind, BigEndian(r, n), host)
    BY <1>1, <2>2, DecodedType
  <2>4. Read(kind, r, host) = read_fixed(r, n, v)
    BY <1>1, <2>1, <2>3, ReadFixed, Zenon
  <2>5. read_fixed(r, n, v) = throw(r) \/ Took(r, read_fixed(r, n, v), n, v)
    BY FixedForm
  <2> QED
    BY <2>4, <2>5, Zenon
<1>2. CASE kind \in {"str", "bytes"}
  <2>1. Read(kind, r, host) = read_bytes(r)
    BY <1>2 DEF Read
  <2>2. CASE BytesThere(r)
    <3>1. read_bytes(r) = Got(r, 4 + SizeOf(r), BytesOf(r)) /\ BytesOf(r) \in Seq(Bytes) /\ SizeOf(r) \in Nat
      BY <2>2, BytesForm, BytesSlice, ValueType
    <3>2. r.pos + (4 + SizeOf(r)) <= Len(r.data) /\ 4 + SizeOf(r) \in Nat
      BY <2>2, <3>1 DEF BytesThere
    <3>3. Took(r, read_bytes(r), 4 + SizeOf(r), BytesOf(r)) /\ BytesOf(r) \in Value
      BY <3>1, <3>2, ValueType, Zenon DEF Took
    <3> QED
      BY <2>1, <3>3, Zenon
  <2>3. CASE ~BytesThere(r)
    BY <2>1, <2>3, BytesForm, ValueType
  <2> QED
    BY <2>2, <2>3
<1>3. CASE kind = "strings"
  <2>1. Read(kind, r, host) = read_strings(r)
    BY <1>3 DEF Read
  <2>2. \/ read_strings(r) = throw(r)
        \/ \E n, v : v \in Seq(Seq(Bytes)) /\ Took(r, read_strings(r), n, v)
    BY StringsForm, ValueType
  <2> QED
    BY <2>1, <2>2, ValueType, Zenon
<1> QED
  BY <1>1, <1>2, <1>3 DEF FixedKinds

(* Reading the next field stays within the message and, unless an exception
   was thrown, appends a value.                                             *)
LEMMA ReadNextForm ==
  ASSUME NEW kind \in ReadKinds, NEW r \in Readers(Value), NEW host \in Hosts
  PROVE  /\ ReadNext(kind, r, host) \in Readers(Value) /\ Follows(r, ReadNext(kind, r, host))
         /\ r.ok = FALSE => ReadNext(kind, r, host) = r
         /\ ReadNext(kind, r, host).ok =>
              /\ r.ok = TRUE /\ ReadNext(kind, r, host) = Read(kind, r, host)
              /\ \E v \in Value : ReadNext(kind, r, host).values = Append(r.values, v)
<1>0. r.data \in Seq(Bytes) /\ r.pos \in Nat /\ r.ok \in BOOLEAN /\ Len(r.data) \in Nat
  BY DEF Readers
<1>1. CASE r.ok = FALSE
  <2>1. ReadNext(kind, r, host) = r
    BY <1>1 DEF ReadNext
  <2>2. Follows(r, r)
    BY <1>0 DEF Follows
  <2> QED
    BY <1>1, <2>1, <2>2
<1>2. CASE r.ok = TRUE
  <2>1. ReadNext(kind, r, host) = Read(kind, r, host)
    BY <1>2 DEF ReadNext
  <2>2. PICK s : s = Read(kind, r, host)
    OBVIOUS
  <2>3. CASE s = throw(r)
    <3>1. s \in Readers(Value) /\ ~s.ok /\ s.data = r.data /\ s.pos = r.pos
      BY <2>3, ThrowType
    <3>2. Follows(r, s)
      BY <1>0, <3>1 DEF Follows
    <3> QED
      BY <1>2, <2>1, <2>2, <3>1, <3>2
  <2>4. CASE \E n, v : v \in Value /\ Took(r, s, n, v)
    <3>1. PICK n, v : v \in Value /\ Took(r, s, n, v)
      BY <2>4
    <3>2. /\ s \in Readers(Value) /\ s.data = r.data /\ s.values = Append(r.values, v)
          /\ r.pos <= s.pos /\ s.pos <= Len(s.data)
      BY <3>1, TookType
    <3>3. Follows(r, s)
      BY <1>0, <3>2 DEF Follows
    <3> QED
      BY <1>2, <2>1, <2>2, <3>1, <3>2, <3>3
  <2> QED
    BY <1>2, <2>2, <2>3, <2>4, ReadForm, Zenon
<1> QED
  BY <1>0, <1>1, <1>2

-----------------------------------------------------------------------------
(* Reading the fields of a layout. *)

Reads(f, kinds, r, host) ==
    /\ f \in [0 .. Len(kinds) -> Readers(Value)]
    /\ f[0] = r
    /\ \A i \in 1 .. Len(kinds) : f[i] = ReadNext(kinds[i], f[i - 1], host)

(* The readers that ReadAll goes through, one per field. *)
LEMMA ReadAllSteps ==
  ASSUME NEW kinds \in Seq(ReadKinds), NEW r \in Readers(Value), NEW host \in Hosts
  PROVE  \E f : Reads(f, kinds, r, host) /\ ReadAll(kinds, r, host) = f[Len(kinds)]
<1>1. PICK n \in Nat : n = Len(kinds)
  OBVIOUS
<1>2. PICK V : V = Readers(Value)
  OBVIOUS
<1> DEFINE Is(f) == f = [i \in 0 .. n |-> IF i = 0 THEN r ELSE ReadNext(kinds[i], f[i - 1], host)]
           c == CHOOSE f : Is(f)
           G == [i \in 1 .. n |-> [t \in V |-> ReadNext(kinds[i], t, host)]]
<1>3. \A i \in 1 .. n : kinds[i] \in ReadKinds
  BY <1>1
<1>4. \A i \in 1 .. n : \A t \in V : ReadNext(kinds[i], t, host) \in V
  BY <1>2, <1>3, ReadNextForm
<1>5. r \in V
  BY <1>2
<1>6. PICK g : IsRecursive(g, V, r, n, G)
  <2>1. G \in [1 .. n -> [V -> V]]
    BY <1>4
  <2> HIDE DEF G, Is, c
  <2> QED
    BY <1>5, <2>1, Recursion, Zenon
<1>7. Is(g)
  <2>1. g \in [0 .. n -> V]
    BY <1>6 DEF IsRecursive
  <2>2. \A i \in 1 .. n : g[i - 1] \in V
    BY <2>1
  <2>3. \A i \in 1 .. n : g[i] = ReadNext(kinds[i], g[i - 1], host)
    BY <1>6, <2>2 DEF IsRecursive
  <2>4. g[0] = r
    BY <1>6 DEF IsRecursive
  <2> HIDE DEF G
  <2> QED
    BY <2>1, <2>3, <2>4
<1>8. Is(c)
  <2> HIDE DEF Is
  <2> QED
    BY <1>7
<1>9. ReadAll(kinds, r, host) = c[n]
  BY <1>1 DEF ReadAll
<1> HIDE DEF c
<1>10. c[0] = r /\ \A i \in 1 .. n : c[i] = ReadNext(kinds[i], c[i - 1], host)
  BY <1>8
<1>11. \A i \in 0 .. n : c[i] \in V
  <2> HIDE DEF Is
  <2>1. c[0] \in V
    BY <1>5, <1>10
  <2>2. \A i \in 1 .. n : c[i - 1] \in V => c[i] \in V
    BY <1>4, <1>10
  <2> QED
    BY <2>1, <2>2, RecursionType
<1>12. c \in [0 .. n -> V]
  BY <1>8, <1>11
<1>13. Reads(c, kinds, r, host)
  BY <1>1, <1>2, <1>10, <1>12 DEF Reads
<1> QED
  BY <1>1, <1>9, <1>13

(* The values read are appended to those before, one for each field. *)
Extends(r, s, n) ==
    /\ r.ok = TRUE /\ Len(s.values) = Len(r.values) + n
    /\ \A j \in 1 .. Len(r.values) : s.values[j] = r.values[j]

(* Reading a layout stays within the message and appends a value per field. *)
LEMMA ReadAllForm ==
  ASSUME NEW kinds \in Seq(ReadKinds), NEW r \in Readers(Value), NEW host \in Hosts
  PROVE  /\ ReadAll(kinds, r, host) \in Readers(Value) /\ Follows(r, ReadAll(kinds, r, host))
         /\ ReadAll(kinds, r, host).ok => Extends(r, ReadAll(kinds, r, host), Len(kinds))
<1>1. PICK N \in Nat : N = Len(kinds)
  OBVIOUS
<1>2. PICK f : Reads(f, kinds, r, host) /\ ReadAll(kinds, r, host) = f[N]
  BY <1>1, ReadAllSteps
<1>3. /\ \A i \in 0 .. N : f[i] \in Readers(Value)
      /\ f[0] = r /\ \A i \in 1 .. N : f[i] = ReadNext(kinds[i], f[i - 1], host) /\ kinds[i] \in ReadKinds
  BY <1>1, <1>2 DEF Reads
<1>4. \A t \in Readers(Value) : /\ t.ok \in BOOLEAN /\ t.values \in Seq(Value)
                                /\ t.pos \in Nat /\ t.data \in Seq(Bytes)
  BY DEF Readers
<1> DEFINE T == {i \in 0 .. N : Follows(r, f[i]) /\ (f[i].ok => Extends(r, f[i], i))}
<1>5. 0 \in T
  <2>1. Follows(r, r)
    BY <1>4 DEF Follows
  <2>2. r.ok => Extends(r, r, 0)
    BY <1>4 DEF Extends
  <2> QED
    BY <1>3, <2>1, <2>2
<1>6. ASSUME NEW i \in 0 .. N - 1, i \in T PROVE i + 1 \in T
  <2>1. PICK j \in 1 .. N : j = i + 1 /\ j - 1 = i
    OBVIOUS
  <2>2. PICK s \in Readers(Value) : s = f[i]
    BY <1>3
  <2>3. PICK t \in Readers(Value) : t = f[j]
    BY <1>3
  <2>4. t = ReadNext(kinds[j], s, host) /\ kinds[j] \in ReadKinds
    BY <1>3, <2>1, <2>2, <2>3
  <2>5. /\ Follows(s, t)
        /\ t.ok => s.ok = TRUE /\ \E v \in Value : t.values = Append(s.values, v)
    BY <2>4, ReadNextForm
  <2>6. Follows(r, s) /\ (s.ok => Extends(r, s, i))
    BY <1>6, <2>2
  <2>7. Follows(r, t)
    BY <1>4, <2>5, <2>6 DEF Follows
  <2>8. ASSUME t.ok PROVE Extends(r, t, j)
    <3>1. PICK v \in Value : t.values = Append(s.values, v)
      BY <2>5, <2>8
    <3>2. Extends(r, s, i)
      BY <2>5, <2>6, <2>8
    <3>3. PICK a \in Seq(Value) : a = s.values
      BY <1>4
    <3>4. PICK b \in Seq(Value) : b = r.values
      BY <1>4
    <3>5. Len(a) = Len(b) + i /\ \A k \in 1 .. Len(b) : a[k] = b[k]
      BY <3>2, <3>3, <3>4 DEF Extends
    <3>6. Len(Append(a, v)) = Len(b) + j /\ \A k \in 1 .. Len(b) : Append(a, v)[k] = b[k]
      BY <2>1, <3>5
    <3> QED
      BY <3>1, <3>2, <3>3, <3>4, <3>6 DEF Extends
  <2> QED
    BY <2>1, <2>3, <2>7, <2>8
<1> HIDE DEF T
<1>7. N \in T
  BY <1>5, <1>6, UpTo
<1> QED
  BY <1>1, <1>2, <1>3, <1>7 DEF T

(* A read that succeeds finds the same in every message with this beginning. *)
LEMMA ReadTwin ==
  ASSUME NEW kind \in ReadKinds, NEW r \in Readers(Value), NEW q \in Readers(Value), Twin(r, q),
         r.ok = TRUE, NEW host \in Hosts, Read(kind, r, host).ok
  PROVE  Twin(Read(kind, r, host), Read(kind, q, host))
<1>1. CASE kind \in FixedKinds
  <2>1. PICK n \in Nat : n = Size(kind)
    BY <1>1, ReadFixed
  <2>2. BigEndian(r, n) \in SUBSET Nat /\ BigEndian(q, n) \in SUBSET Nat
    BY BigEndianType DEF Readers
  <2>3. PICK v \in Value : v = Decoded(kind, BigEndian(r, n), host)
    BY <1>1, <2>2, DecodedType
  <2>4. PICK w \in Value : w = Decoded(kind, BigEndian(q, n), host)
    BY <1>1, <2>2, DecodedType
  <2>5. Read(kind, r, host) = read_fixed(r, n, v) /\ Read(kind, q, host) = read_fixed(q, n, w)
    BY <1>1, <2>1, <2>3, <2>4, ReadFixed, Zenon
  <2>6. r.pos + n <= Len(r.data) => v = w
    BY <2>3, <2>4, TwinBigEndian
  <2>7. read_fixed(r, n, v).ok
    BY <2>5
  <2>8. Twin(read_fixed(r, n, v), read_fixed(q, n, w))
    BY <2>6, <2>7, TwinFixed
  <2> QED
    BY <2>5, <2>8, Zenon
<1>2. CASE kind \in {"str", "bytes"}
  <2>1. Read(kind, r, host) = read_bytes(r) /\ Read(kind, q, host) = read_bytes(q)
    BY <1>2 DEF Read
  <2>2. read_bytes(r).ok
    BY <2>1
  <2> QED
    BY <2>1, <2>2, TwinBytes, ValueType
<1>3. CASE kind = "strings"
  <2>1. Read(kind, r, host) = read_strings(r) /\ Read(kind, q, host) = read_strings(q)
    BY <1>3 DEF Read
  <2>2. read_strings(r).ok
    BY <2>1
  <2> QED
    BY <2>1, <2>2, TwinStrings, ValueType
<1> QED
  BY <1>1, <1>2, <1>3 DEF FixedKinds

(* A layout that can be read of the beginning of a message is read alike of the
   whole message.                                                           *)
LEMMA ReadAllTwin ==
  ASSUME NEW kinds \in Seq(ReadKinds), NEW r \in Readers(Value), NEW q \in Readers(Value), Twin(r, q),
         NEW host \in Hosts, ReadAll(kinds, r, host).ok
  PROVE  Twin(ReadAll(kinds, r, host), ReadAll(kinds, q, host))
<1>1. PICK N \in Nat : N = Len(kinds)
  OBVIOUS
<1>2. PICK f : Reads(f, kinds, r, host) /\ ReadAll(kinds, r, host) = f[N]
  BY <1>1, ReadAllSteps
<1>3. PICK g : Reads(g, kinds, q, host) /\ ReadAll(kinds, q, host) = g[N]
  BY <1>1, ReadAllSteps
<1>4. \A i \in 1 .. N : /\ f[i] = ReadNext(kinds[i], f[i - 1], host) /\ kinds[i] \in ReadKinds
                        /\ g[i] = ReadNext(kinds[i], g[i - 1], host)
  BY <1>1, <1>2, <1>3 DEF Reads
<1>5. \A i \in 0 .. N : f[i] \in Readers(Value) /\ g[i] \in Readers(Value)
  BY <1>1, <1>2, <1>3 DEF Reads
<1> DEFINE T == {i \in 0 .. N : f[i].ok => Twin(f[i], g[i])}
<1>6. 0 \in T
  BY <1>2, <1>3 DEF Reads
<1>7. ASSUME NEW i \in 0 .. N - 1, i \in T PROVE i + 1 \in T
  <2>1. PICK j \in 1 .. N : j = i + 1 /\ j - 1 = i
    OBVIOUS
  <2>2. PICK s \in Readers(Value) : s = f[i]
    BY <1>5
  <2>3. PICK u \in Readers(Value) : u = g[i]
    BY <1>5
  <2>4. f[j] = ReadNext(kinds[j], s, host) /\ g[j] = ReadNext(kinds[j], u, host) /\ kinds[j] \in ReadKinds
    BY <1>4, <2>1, <2>2, <2>3
  <2>5. ASSUME f[j].ok PROVE Twin(f[j], g[j])
    <3>0. PICK k \in ReadKinds : k = kinds[j]
      BY <2>4
    <3>a. ReadNext(k, s, host).ok
      BY <2>4, <2>5, <3>0
    <3>1. s.ok = TRUE /\ f[j] = Read(kinds[j], s, host)
      BY <2>4, <3>0, <3>a, ReadNextForm
    <3>2. Twin(s, u)
      BY <1>7, <2>2, <2>3, <3>1
    <3>3. g[j] = Read(kinds[j], u, host)
      BY <2>4, <3>1, <3>2 DEF Twin, ReadNext
    <3>4. Read(kinds[j], s, host).ok
      BY <2>5, <3>1
    <3> QED
      BY <2>4, <3>1, <3>2, <3>3, <3>4, ReadTwin
  <2> QED
    BY <2>1, <2>5
<1> HIDE DEF T
<1>8. \A i \in 0 .. N : i \in T
  BY <1>6, <1>7, UpTo
<1> QED
  BY <1>2, <1>3, <1>8 DEF T

-----------------------------------------------------------------------------
(* Reading a message. *)

(* The two machines. *)
LEMMA HostsType == ServiceHost \in Hosts /\ ProviderHost \in Hosts
BY HostsAssumption, FlagTables DEF Hosts, O_Flags

(* A new messagereader. *)
LEMMA NewReader ==
  ASSUME NEW m \in Seq(Bytes)
  PROVE  /\ messagereader(m) \in Readers(Value) /\ messagereader(m).data = m
         /\ messagereader(m).pos = 0 /\ messagereader(m).ok = TRUE /\ messagereader(m).values = <<>>
BY DEF messagereader, Readers

(* The header of a message. *)
LEMMA HeaderLayout == <<"u32", "u8">> \in Seq(ReadKinds) /\ Len(<<"u32", "u8">>) = 2
BY DEF ReadKinds

(* Reading the header, *)
LEMMA HeaderForm ==
  ASSUME NEW m \in Seq(Bytes)
  PROVE  /\ ReadHeader(m) \in Readers(Value) /\ ReadHeader(m).data = m
         /\ ReadHeader(m).pos <= Len(m)
         /\ ReadHeader(m).ok => Len(ReadHeader(m).values) = 2
<1>1. PICK r \in Readers(Value) : /\ r = messagereader(m) /\ r.data = m
                                  /\ r.pos = 0 /\ r.values = <<>>
  BY NewReader
<1>2. PICK k \in Seq(ReadKinds) : k = <<"u32", "u8">> /\ Len(k) = 2
  BY HeaderLayout
<1>3. PICK s : s = ReadAll(k, r, ServiceHost)
  OBVIOUS
<1>4. s \in Readers(Value) /\ Follows(r, s) /\ (s.ok => Extends(r, s, 2))
  BY <1>2, <1>3, HostsType, ReadAllForm
<1>5. s = ReadHeader(m)
  BY <1>1, <1>2, <1>3, Zenon DEF ReadHeader
<1>6. s.data = m /\ s.pos <= Len(m)
  BY <1>1, <1>4 DEF Follows
<1>7. s.ok => Len(s.values) = 2
  BY <1>1, <1>4 DEF Extends
<1> QED
  BY <1>4, <1>5, <1>6, <1>7

(* Every byte is read as some request type. *)
LEMMA RequestTypeType ==
  ASSUME NEW b
  PROVE  get_request_type(b) \in Types
BY Zenon DEF get_request_type, Types

(* Reading a request stays within it and keeps the header. *)
LEMMA MessageForm ==
  ASSUME NEW m \in Seq(Bytes)
  PROVE  /\ read_message(m) \in Readers(Value) /\ read_message(m).data = m
         /\ read_message(m).pos <= Len(m)
         /\ read_message(m).ok =>
              /\ ReadHeader(m).ok = TRUE
              /\ Len(read_message(m).values) =
                    2 + Len(read_request(get_request_type(TypeOf(ReadHeader(m)))))
              /\ IdOf(read_message(m)) = IdOf(ReadHeader(m))
              /\ TypeOf(read_message(m)) = TypeOf(ReadHeader(m))
<1>1. PICK h \in Readers(Value) : /\ h = ReadHeader(m) /\ h.data = m /\ h.pos <= Len(m)
                                  /\ (h.ok => Len(h.values) = 2)
  BY HeaderForm
<1>2. PICK o \in Types : o = get_request_type(TypeOf(h))
  BY RequestTypeType
<1>3. PICK k \in Seq(ReadKinds) : k = read_request(o)
  BY RequestLayouts DEF Aligned
<1>4. CASE h.ok
  <2>1. PICK s : s = ReadAll(k, h, ProviderHost)
    OBVIOUS
  <2>2. s = read_message(m)
    BY <1>1, <1>2, <1>3, <1>4, <2>1 DEF read_message
  <2>3. s \in Readers(Value) /\ Follows(h, s) /\ (s.ok => Extends(h, s, Len(k)))
    BY <2>1, HostsType, ReadAllForm
  <2>4. s.data = m /\ s.pos <= Len(m)
    BY <1>1, <2>3 DEF Follows
  <2>5. ASSUME s.ok PROVE /\ h.ok = TRUE /\ Len(s.values) = 2 + Len(k)
                          /\ s.values[1] = h.values[1] /\ s.values[2] = h.values[2]
    <3>1. Extends(h, s, Len(k)) /\ Len(h.values) = 2
      BY <1>1, <1>4, <2>3, <2>5
    <3>2. h.ok = TRUE
      BY <3>1 DEF Extends
    <3>3. Len(s.values) = 2 + Len(k) /\ \A j \in 1 .. 2 : s.values[j] = h.values[j]
      BY <3>1 DEF Extends
    <3> QED
      BY <3>2, <3>3
  <2> QED
    BY <1>1, <1>2, <1>3, <2>2, <2>3, <2>4, <2>5 DEF IdOf, TypeOf
<1>5. CASE ~h.ok
  <2>1. read_message(m) = h
    BY <1>1, <1>5 DEF read_message
  <2> QED
    BY <1>1, <1>5, <2>1
<1> QED
  BY <1>4, <1>5

(* The steps of read_reply. *)
Status(h, o) == IF o = "getcreds" THEN h ELSE read_result(h)
More(s, o) == s.ok /\ (o = "getcreds" \/ has_output(o, Last(s.values)))
Output(s, o) == IF More(s, o) THEN ReadAll(read_output(o), s, ServiceHost) ELSE s
TooLong(s, r, o, a) == More(s, o) /\ r.ok /\ o = "read" /\ ~Fits(Len(Last(r.values)), a[2])

(* read_reply in terms of its steps. *)
LEMMA ReplySteps ==
  ASSUME NEW h, NEW o, NEW a, NEW s, s = Status(h, o), NEW r, r = Output(s, o)
  PROVE  /\ TooLong(s, r, o, a) => read_reply(h, o, a) = throw(r)
         /\ ~TooLong(s, r, o, a) => read_reply(h, o, a) = r
BY DEF read_reply, Status, More, Output, TooLong

(* Reading the result, *)
LEMMA StatusForm ==
  ASSUME NEW h \in Readers(Value), h.ok = TRUE, NEW o \in Types
  PROVE  /\ Status(h, o) \in Readers(Value) /\ Follows(h, Status(h, o))
         /\ Status(h, o).ok => /\ Len(Status(h, o).values) >= Len(h.values)
                               /\ \A j \in 1 .. Len(h.values) : Status(h, o).values[j] = h.values[j]
<1>0. h.values \in Seq(Value) /\ h.pos \in Nat
  BY DEF Readers
<1>1. CASE o = "getcreds"
  BY <1>0, <1>1 DEF Status, Follows
<1>2. CASE o /= "getcreds"
  <2>1. Status(h, o) = ReadNext("result", h, ServiceHost)
    BY <1>2 DEF Status, ReadNext, Read
  <2>2. PICK k \in ReadKinds : k = "result"
    BY DEF ReadKinds
  <2>3. PICK s : s = ReadNext(k, h, ServiceHost)
    OBVIOUS
  <2>4. /\ s \in Readers(Value) /\ Follows(h, s)
        /\ s.ok => \E v \in Value : s.values = Append(h.values, v)
    BY <2>3, HostsType, ReadNextForm
  <2>5. s = Status(h, o)
    BY <2>1, <2>2, <2>3
  <2>6. \A v \in Value : /\ Len(Append(h.values, v)) >= Len(h.values)
                         /\ \A j \in 1 .. Len(h.values) : Append(h.values, v)[j] = h.values[j]
    BY <1>0
  <2> QED
    BY <2>4, <2>5, <2>6
<1> QED
  BY <1>1, <1>2

(* and reading a response, stay within the message. *)
LEMMA ReplyForm ==
  ASSUME NEW h \in Readers(Value), h.ok = TRUE, NEW o \in Types, NEW a
  PROVE  read_reply(h, o, a) \in Readers(Value) /\ Follows(h, read_reply(h, o, a))
<1>0. \A t \in Readers(Value) : t.pos \in Nat /\ t.data \in Seq(Bytes)
  BY DEF Readers
<1>1. PICK s \in Readers(Value) : s = Status(h, o) /\ Follows(h, s)
  BY StatusForm
<1>2. PICK k \in Seq(ReadKinds) : k = read_output(o)
  BY OutputLayouts DEF Aligned
<1>3. PICK r : r = Output(s, o)
  OBVIOUS
<1>4. r \in Readers(Value) /\ Follows(s, r)
  <2>1. CASE More(s, o)
    <3>1. r = ReadAll(k, s, ServiceHost)
      BY <1>2, <1>3, <2>1 DEF Output
    <3> QED
      BY <3>1, HostsType, ReadAllForm
  <2>2. CASE ~More(s, o)
    <3>1. r = s
      BY <1>3, <2>2 DEF Output
    <3>2. Follows(s, s)
      BY <1>0 DEF Follows
    <3> QED
      BY <3>1, <3>2
  <2> QED
    BY <2>1, <2>2
<1>5. Follows(h, r)
  BY <1>0, <1>1, <1>4 DEF Follows
<1>6. throw(r) \in Readers(Value) /\ throw(r).data = r.data /\ throw(r).pos = r.pos
  BY <1>4, ThrowType
<1>7. Follows(h, throw(r))
  BY <1>5, <1>6 DEF Follows
<1>8. read_reply(h, o, a) = throw(r) \/ read_reply(h, o, a) = r
  BY <1>1, <1>3, ReplySteps
<1> QED
  BY <1>4, <1>5, <1>6, <1>7, <1>8

(* The same for a message and its beginning. *)
LEMMA HeaderTwin ==
  ASSUME NEW m \in Seq(Bytes), NEW w \in Seq(Bytes), Holds(w, 0, m), ReadHeader(m).ok
  PROVE  Twin(ReadHeader(m), ReadHeader(w))
<1>1. PICK r \in Readers(Value) : /\ r = messagereader(m) /\ r.data = m /\ r.ok = TRUE
                                  /\ r.pos = 0 /\ r.values = <<>>
  BY NewReader
<1>2. PICK q \in Readers(Value) : /\ q = messagereader(w) /\ q.data = w /\ q.ok = TRUE
                                  /\ q.pos = 0 /\ q.values = <<>>
  BY NewReader
<1>3. Twin(r, q)
  BY <1>1, <1>2 DEF Twin
<1>4. PICK k \in Seq(ReadKinds) : k = <<"u32", "u8">>
  BY HeaderLayout
<1>5. ReadHeader(m) = ReadAll(k, r, ServiceHost) /\ ReadHeader(w) = ReadAll(k, q, ServiceHost)
  BY <1>1, <1>2, <1>4, Zenon DEF ReadHeader
<1>6. ReadAll(k, r, ServiceHost).ok
  BY <1>5
<1> QED
  BY <1>3, <1>5, <1>6, HostsType, ReadAllTwin

(* A request *)
LEMMA MessageTwin ==
  ASSUME NEW m \in Seq(Bytes), NEW w \in Seq(Bytes), Holds(w, 0, m), read_message(m).ok
  PROVE  Twin(read_message(m), read_message(w))
<1>1. ReadHeader(m).ok = TRUE
  BY MessageForm
<1>2. PICK h \in Readers(Value) : h = ReadHeader(m)
  BY HeaderForm
<1>3. PICK g \in Readers(Value) : g = ReadHeader(w)
  BY HeaderForm
<1>4. Twin(h, g)
  BY <1>1, <1>2, <1>3, HeaderTwin
<1>5. h.ok = TRUE /\ g.ok = TRUE /\ TypeOf(h) = TypeOf(g)
  BY <1>1, <1>2, <1>4 DEF Twin, TypeOf
<1>6. PICK o \in Types : o = get_request_type(TypeOf(h))
  BY RequestTypeType
<1>7. PICK k \in Seq(ReadKinds) : k = read_request(o)
  BY RequestLayouts DEF Aligned
<1>8. read_message(m) = ReadAll(k, h, ProviderHost) /\ read_message(w) = ReadAll(k, g, ProviderHost)
  BY <1>2, <1>3, <1>5, <1>6, <1>7 DEF read_message
<1>9. ReadAll(k, h, ProviderHost).ok
  BY <1>8
<1> QED
  BY <1>4, <1>8, <1>9, HostsType, ReadAllTwin

(* and a response that can be read after a cut are read as the whole ones. *)
LEMMA ReplyTwin ==
  ASSUME NEW h \in Readers(Value), NEW g \in Readers(Value), Twin(h, g), h.ok = TRUE,
         NEW o \in Types, NEW a, read_reply(h, o, a).ok
  PROVE  Twin(read_reply(h, o, a), read_reply(g, o, a))
<1>0. g.ok = TRUE
  BY DEF Twin
<1>1. PICK s \in Readers(Value) : s = Status(h, o)
  BY StatusForm
<1>2. PICK t \in Readers(Value) : t = Status(g, o)
  BY <1>0, StatusForm
<1>3. PICK k \in Seq(ReadKinds) : k = read_output(o)
  BY OutputLayouts DEF Aligned
<1>4. PICK r : r = Output(s, o)
  OBVIOUS
<1>5. PICK u : u = Output(t, o)
  OBVIOUS
<1>6. r \in Readers(Value)
  <2>1. CASE More(s, o)
    <3>1. r = ReadAll(k, s, ServiceHost)
      BY <1>3, <1>4, <2>1 DEF Output
    <3> QED
      BY <3>1, HostsType, ReadAllForm
  <2>2. CASE ~More(s, o)
    BY <1>4, <2>2 DEF Output
  <2> QED
    BY <2>1, <2>2
<1>7. ~TooLong(s, r, o, a) /\ read_reply(h, o, a) = r
  <2>1. ~throw(r).ok
    BY <1>6, ThrowType
  <2> QED
    BY <1>1, <1>4, <2>1, ReplySteps
<1>8. r.ok
  BY <1>7
<1>9. s.ok = TRUE
  <2>1. CASE More(s, o)
    BY <2>1 DEF More, Readers
  <2>2. CASE ~More(s, o)
    <3>1. r = s
      BY <1>4, <2>2 DEF Output
    <3> QED
      BY <1>8, <3>1 DEF Readers
  <2> QED
    BY <2>1, <2>2
<1>10. Twin(s, t)
  <2>1. CASE o = "getcreds"
    BY <1>1, <1>2, <2>1 DEF Status
  <2>2. CASE o /= "getcreds"
    <3>1. PICK z \in ReadKinds : z = "result"
      BY DEF ReadKinds
    <3>2. s = Read(z, h, ServiceHost) /\ t = Read(z, g, ServiceHost)
      BY <1>1, <1>2, <2>2, <3>1 DEF Status, Read
    <3>3. Read(z, h, ServiceHost).ok
      BY <1>9, <3>2
    <3> QED
      BY <3>2, <3>3, HostsType, ReadTwin
  <2> QED
    BY <2>1, <2>2
<1>11. t.ok = TRUE /\ t.values = s.values
  BY <1>9, <1>10 DEF Twin
<1>12. More(s, o) <=> More(t, o)
  BY <1>9, <1>11 DEF More
<1>13. Twin(r, u)
  <2>1. CASE More(s, o)
    <3>1. r = ReadAll(k, s, ServiceHost) /\ u = ReadAll(k, t, ServiceHost)
      BY <1>3, <1>4, <1>5, <1>12, <2>1 DEF Output
    <3>2. ReadAll(k, s, ServiceHost).ok
      BY <1>8, <3>1
    <3> QED
      BY <1>10, <3>1, <3>2, HostsType, ReadAllTwin
  <2>2. CASE ~More(s, o)
    <3>1. r = s /\ u = t
      BY <1>4, <1>5, <1>12, <2>2 DEF Output
    <3> QED
      BY <1>10, <3>1
  <2> QED
    BY <2>1, <2>2
<1>14. u.values = r.values
  BY <1>13 DEF Twin
<1>15. ~TooLong(t, u, o, a)
  BY <1>7, <1>8, <1>12, <1>14 DEF TooLong
<1>16. read_reply(g, o, a) = u
  BY <1>2, <1>5, <1>15, ReplySteps
<1> QED
  BY <1>7, <1>13, <1>16

-----------------------------------------------------------------------------
(* What is written is read back. *)

(* A value as the reader has it: read_u64 keeps 32 bits, and the flags of open
   are those of the other machine.                                          *)
Received(w, v, from, to) ==
    IF w = "u64" THEN v \cap (0 .. 31)
    ELSE IF w = "openflags" THEN openflags_to_int(openflags_from_int(v, from), to)
    ELSE v

(* A field of a fixed size that is there is taken. *)
LEMMA FixedTook ==
  ASSUME NEW k \in FixedKinds, NEW r \in Readers(Value), NEW host \in Hosts, NEW x \in SUBSET Nat,
         r.pos + Size(k) <= Len(r.data), BigEndian(r, Size(k)) = x
  PROVE  Took(r, Read(k, r, host), Size(k), Decoded(k, x, host)) /\ Decoded(k, x, host) \in Value
<1>1. PICK n \in Nat : n = Size(k)
  BY ReadFixed
<1>2. PICK v \in Value : v = Decoded(k, x, host)
  BY DecodedType
<1>3. Read(k, r, host) = read_fixed(r, n, v)
  BY <1>1, <1>2, ReadFixed, Zenon
<1>4. Took(r, read_fixed(r, n, v), n, v)
  BY <1>1, FixedForm
<1> QED
  BY <1>1, <1>2, <1>3, <1>4, Zenon

(* A word x that was written for a value v of kind w. *)
WrittenAs(w, v, host, b, x) ==
    /\ w \in {"u32", "mode", "attr_mode", "openflags"} => b = write_u32(x) /\ x \in SUBSET (0 .. 31)
    /\ w = "u64" => b = write_u64(x) /\ x \in SUBSET (0 .. 63)
    /\ w \in {"access_mode", "rename_flags"} => b = write_u8(x) /\ x \in SUBSET (0 .. 7)

(* The word that is written for a field of a fixed size. *)
LEMMA WriteWord ==
  ASSUME NEW w \in WrittenKinds \ {"str", "bytes", "strings", "bool"}, NEW v, Valid(w, v), NEW host \in Hosts
  PROVE  /\ WrittenAs(w, v, host, Write(w, v, host),
                      IF w = "openflags" THEN openflags_from_int(v, host) ELSE v)
         /\ w \in {"mode", "attr_mode"} => v \in Modes
         /\ w = "access_mode" => v \in SUBSET (0 .. 2)
<1>1. CASE w = "u32"
  BY <1>1 DEF Write, Valid, WrittenAs
<1>2. CASE w = "u64"
  BY <1>2 DEF Write, Valid, WrittenAs
<1>3. CASE w \in {"mode", "attr_mode"}
  <2>1. v \in Modes
    BY <1>3 DEF Valid, Modes
  <2>2. from_mode(v) = v /\ v \in SUBSET (0 .. 31)
    BY <2>1, ModeKept DEF Modes
  <2>3. Write(w, v, host) = write_mode(v)
    BY <1>3, <2>2 DEF Write
  <2>4. write_mode(v) = write_u32(v)
    BY <2>2 DEF write_mode
  <2> QED
    BY <1>3, <2>1, <2>2, <2>3, <2>4 DEF WrittenAs
<1>4. CASE w = "access_mode"
  <2>1. v \in SUBSET (0 .. 2)
    BY <1>4 DEF Valid
  <2>2. Write(w, v, host) = write_u8(v)
    BY <1>4, <2>1, AccessKept DEF Write, write_access_mode
  <2> QED
    BY <1>4, <2>1, <2>2 DEF WrittenAs
<1>5. CASE w = "rename_flags"
  <2>1. v \in SUBSET (0 .. 1)
    BY <1>5 DEF Valid
  <2>2. Write(w, v, host) = write_u8(v)
    BY <1>5, <2>1, RenameKept DEF Write, write_rename_flags
  <2> QED
    BY <1>5, <2>1, <2>2 DEF WrittenAs
<1>6. CASE w = "openflags"
  <2>1. Write(w, v, host) = write_u32(openflags_from_int(v, host))
    BY <1>6 DEF Write, write_openflags
  <2>2. openflags_from_int(v, host) \in SUBSET (0 .. 31)
    BY OpenflagsType
  <2> QED
    BY <1>6, <2>1, <2>2 DEF WrittenAs
<1> QED
  BY <1>1, <1>2, <1>3, <1>4, <1>5, <1>6 DEF WrittenKinds

(* Every field is written as bytes. *)
LEMMA WriteType ==
  ASSUME NEW w \in WrittenKinds, NEW v, Valid(w, v), NEW host \in Hosts
  PROVE  Write(w, v, host) \in Seq(Bytes)
<1>1. CASE w \in WrittenKinds \ {"str", "bytes", "strings", "bool"}
  <2>1. PICK x : WrittenAs(w, v, host, Write(w, v, host), x)
    BY <1>1, WriteWord
  <2> QED
    BY <1>1, <2>1, WriteFixed DEF WrittenAs, WrittenKinds
<1>2. CASE w = "bool"
  <2>1. Write(w, v, host) = write_bool(v)
    BY <1>2 DEF Write
  <2> QED
    <3>1. {0} \in Bytes /\ {} \in Bytes
      BY DEF Bytes
    <3>2. <<{0}>> \in Seq(Bytes) /\ <<{}>> \in Seq(Bytes)
      BY <3>1
    <3>3. write_bool(v) = <<{0}>> \/ write_bool(v) = <<{}>>
      BY DEF write_bool
    <3> QED
      BY <2>1, <3>2, <3>3, Zenon
<1>3. CASE w \in {"str", "bytes"}
  <2>1. Write(w, v, host) = write_data(v) /\ v \in Seq(Bytes)
    BY <1>3 DEF Write, Valid
  <2> QED
    BY <2>1, WriteData
<1>4. CASE w = "strings"
  <2>1. Write(w, v, host) = write_strings(v) /\ v \in Seq(Seq(Bytes))
    BY <1>4 DEF Write, Valid
  <2> QED
    BY <2>1, WriteStrings
<1> QED
  BY <1>1, <1>2, <1>3, <1>4

(* A field that was written is read back by the other peer. *)
LEMMA FieldThere ==
  ASSUME NEW w \in WrittenKinds, NEW k \in ReadKinds, Pair(w, k), NEW v, Valid(w, v),
         NEW from \in Hosts, NEW to \in Hosts, NEW r \in Readers(Value), r.ok = TRUE,
         Holds(r.data, r.pos, Write(w, v, from))
  PROVE  /\ Took(r, Read(k, r, to), Len(Write(w, v, from)), Received(w, v, from, to))
         /\ Received(w, v, from, to) \in Value
<1>0. r.data \in Seq(Bytes) /\ r.pos \in Nat
  BY DEF Readers
<1>1. CASE w \in {"u32", "mode", "attr_mode", "openflags"}
  <2>1. PICK x : /\ x = IF w = "openflags" THEN openflags_from_int(v, from) ELSE v
                 /\ WrittenAs(w, v, from, Write(w, v, from), x)
    BY <1>1, WriteWord DEF WrittenKinds
  <2>2. Write(w, v, from) = write_u32(x) /\ x \in SUBSET (0 .. 31)
    BY <1>1, <2>1 DEF WrittenAs
  <2>3. Len(Write(w, v, from)) = 4
    BY <2>2, WriteFixed
  <2>4. r.pos + 4 <= Len(r.data) /\ BigEndian(r, 4) = x
    BY <1>0, <2>2, U32There
  <2>5. k \in FixedKinds /\ Size(k) = 4
    BY <1>1 DEF Pair, FixedKinds, ReadKinds, Size
  <2>6. x \in SUBSET Nat
    BY <2>2
  <2>7. Decoded(k, x, to) = Received(w, v, from, to)
    <3>1. CASE w = "u32"
      BY <2>1, <3>1 DEF Pair, Decoded, Received
    <3>2. CASE w \in {"mode", "attr_mode"}
      <4>1. x = v /\ v \in Modes
        BY <2>1, <3>2, WriteWord DEF WrittenKinds
      <4>2. to_mode(v) = v
        BY <4>1, ModeKept
      <4>3. k = "mode"
        BY <3>2 DEF Pair, ReadKinds
      <4> QED
        BY <3>2, <4>1, <4>2, <4>3 DEF Decoded, Received
    <3>3. CASE w = "openflags"
      BY <2>1, <3>3 DEF Pair, Decoded, Received
    <3> QED
      BY <1>1, <3>1, <3>2, <3>3
  <2>8. Took(r, Read(k, r, to), Size(k), Decoded(k, x, to)) /\ Decoded(k, x, to) \in Value
    BY <2>4, <2>5, <2>6, FixedTook
  <2> QED
    BY <2>3, <2>5, <2>7, <2>8
<1>2. CASE w = "u64"
  <2>1. WrittenAs(w, v, from, Write(w, v, from), v)
    BY <1>2, WriteWord DEF WrittenKinds
  <2>2. Write(w, v, from) = write_u64(v) /\ v \in SUBSET (0 .. 63)
    BY <1>2, <2>1 DEF WrittenAs
  <2>3. Len(Write(w, v, from)) = 8
    BY <2>2, WriteFixed
  <2>4. r.pos + 8 <= Len(r.data) /\ BigEndian(r, 8) = v
    BY <1>0, <2>2, U64There
  <2>5. k \in FixedKinds /\ Size(k) = 8
    BY <1>2 DEF Pair, FixedKinds, ReadKinds, Size
  <2>6. v \in SUBSET Nat
    BY <2>2
  <2>7. Decoded(k, v, to) = Received(w, v, from, to)
    BY <1>2 DEF Pair, Decoded, Received
  <2>8. Took(r, Read(k, r, to), Size(k), Decoded(k, v, to)) /\ Decoded(k, v, to) \in Value
    BY <2>4, <2>5, <2>6, FixedTook
  <2> QED
    BY <2>3, <2>5, <2>7, <2>8
<1>3. CASE w \in {"access_mode", "rename_flags"}
  <2>1. WrittenAs(w, v, from, Write(w, v, from), v)
    BY <1>3, WriteWord DEF WrittenKinds
  <2>2. Write(w, v, from) = write_u8(v) /\ v \in SUBSET (0 .. 7)
    BY <1>3, <2>1 DEF WrittenAs
  <2>3. Len(Write(w, v, from)) = 1
    BY <2>2, WriteFixed
  <2>4. r.pos + 1 <= Len(r.data) /\ BigEndian(r, 1) = v
    BY <1>0, <2>2, U8There
  <2>5. k \in FixedKinds /\ Size(k) = 1
    BY <1>3 DEF Pair, FixedKinds, ReadKinds, Size
  <2>6. v \in SUBSET Nat
    BY <2>2
  <2>7. Decoded(k, v, to) = Received(w, v, from, to)
    <3>1. CASE w = "access_mode"
      <4>1. access_to_int(v) = v
        BY <3>1, WriteWord, AccessKept DEF WrittenKinds
      <4>2. k = "access_mode"
        BY <3>1 DEF Pair
      <4> QED
        BY <3>1, <4>1, <4>2 DEF Decoded, Received
    <3>2. CASE w = "rename_flags"
      <4>1. k = "u8"
        BY <3>2 DEF Pair, ReadKinds
      <4> QED
        BY <3>2, <4>1 DEF Decoded, Received
    <3> QED
      BY <1>3, <3>1, <3>2
  <2>8. Took(r, Read(k, r, to), Size(k), Decoded(k, v, to)) /\ Decoded(k, v, to) \in Value
    BY <2>4, <2>5, <2>6, FixedTook
  <2> QED
    BY <2>3, <2>5, <2>7, <2>8
<1>4. CASE w = "bool"
  <2>1. Write(w, v, from) = write_bool(v) /\ v \in BOOLEAN
    BY <1>4 DEF Write, Valid
  <2>2. Len(Write(w, v, from)) = 1
    BY <2>1 DEF write_bool
  <2>3. r.pos + 1 <= Len(r.data) /\ (BigEndian(r, 1) = {0} <=> v)
    BY <1>0, <2>1, BoolThere
  <2>4. k \in FixedKinds /\ Size(k) = 1
    BY <1>4 DEF Pair, FixedKinds, ReadKinds, Size
  <2>5. PICK x \in SUBSET Nat : x = BigEndian(r, 1)
    BY <1>0, BigEndianType
  <2>6. Decoded(k, x, to) = Received(w, v, from, to)
    <3>1. Decoded(k, x, to) = (x = {0}) /\ Received(w, v, from, to) = v
      BY <1>4 DEF Pair, Decoded, Received
    <3>2. (x = {0}) = v
      BY <2>1, <2>3, <2>5
    <3> QED
      BY <3>1, <3>2, Zenon
  <2>7. Took(r, Read(k, r, to), Size(k), Decoded(k, x, to)) /\ Decoded(k, x, to) \in Value
    BY <2>3, <2>4, <2>5, FixedTook
  <2> QED
    BY <2>2, <2>4, <2>6, <2>7
<1>5. CASE w \in {"str", "bytes"}
  <2>1. Write(w, v, from) = write_data(v) /\ v \in Seq(Bytes) /\ Len(v) \in Small
    <3>1. Write(w, v, from) = write_data(v)
      BY <1>5 DEF Write
    <3>2. v \in Seq(Bytes) /\ Len(v) <= MaxSize
      BY <1>5 DEF Valid
    <3> QED
      BY <3>1, <3>2 DEF MaxSize, Small
  <2>2. Len(Write(w, v, from)) = 4 + Len(v)
    BY <2>1, WriteData
  <2>3. BytesThere(r) /\ SizeOf(r) = Len(v) /\ BytesOf(r) = v
    BY <2>1, DataThere
  <2>4. Read(k, r, to) = read_bytes(r)
    BY <1>5 DEF Pair, Read
  <2>5. read_bytes(r) = Got(r, 4 + Len(v), v)
    BY <2>3, BytesForm, ValueType
  <2>6. 4 + Len(v) \in Nat /\ r.pos + (4 + Len(v)) <= Len(r.data)
    BY <2>1, <2>3 DEF BytesThere
  <2>7. Received(w, v, from, to) = v
    BY <1>5 DEF Received
  <2>8. Took(r, Read(k, r, to), 4 + Len(v), v)
    BY <2>4, <2>5, <2>6, Zenon DEF Took
  <2>9. v \in Value
    BY <2>1, ValueType, Zenon
  <2> QED
    BY <2>2, <2>7, <2>8, <2>9, Zenon
<1>6. CASE w = "strings"
  <2>1. Write(w, v, from) = write_strings(v) /\ v \in SmallStrings /\ v \in Seq(Seq(Bytes))
    BY <1>6 DEF Write, Valid, MaxSize, Small, SmallStrings
  <2>2. Read(k, r, to) = read_strings(r)
    BY <1>6 DEF Pair, Read
  <2>3. Took(r, read_strings(r), Len(write_strings(v)), v)
    BY <2>1, StringsThere, ValueType
  <2>4. Received(w, v, from, to) = v
    BY <1>6 DEF Received
  <2>5. v \in Value
    BY <2>1, ValueType, Zenon
  <2> QED
    BY <2>1, <2>2, <2>3, <2>4, <2>5, Zenon
<1> QED
  BY <1>1, <1>2, <1>3, <1>4, <1>5, <1>6 DEF WrittenKinds

(* The fields of a layout are written one after the other. *)
LEMMA WriteAllSteps ==
  ASSUME NEW ws \in Seq(WrittenKinds), NEW vs, NEW from \in Hosts,
         \A i \in 1 .. Len(ws) : Valid(ws[i], vs[i])
  PROVE  \E ss, J :
            /\ ss \in Seq(Seq(Bytes))
            /\ Len(ss) = Len(ws) /\ \A i \in 1 .. Len(ws) : ss[i] = Write(ws[i], vs[i], from)
            /\ Joined(J, ss) /\ WriteAll(ws, vs, from) = J[Len(ws)]
            /\ WriteAll(ws, vs, from) \in Seq(Bytes)
<1>1. PICK N \in Nat : N = Len(ws) /\ DOMAIN ws = 1 .. N
  OBVIOUS
<1>2. PICK ss : ss = [i \in 1 .. N |-> Write(ws[i], vs[i], from)]
  OBVIOUS
<1>3. \A i \in 1 .. N : Write(ws[i], vs[i], from) \in Seq(Bytes)
  BY <1>1, WriteType
<1>4. ss \in Seq(Seq(Bytes)) /\ Len(ss) = N /\ \A i \in 1 .. N : ss[i] = Write(ws[i], vs[i], from)
  BY <1>2, <1>3
<1>5. PICK J : Joined(J, ss) /\ FlattenSeq(ss) = J[Len(ss)]
  BY <1>4, FlattenSteps
<1>6. WriteAll(ws, vs, from) = FlattenSeq(ss)
  BY <1>1, <1>2 DEF WriteAll
<1>7. J[N] \in Seq(Bytes)
  BY <1>4, <1>5 DEF Joined
<1>8. WriteAll(ws, vs, from) = J[N]
  BY <1>4, <1>5, <1>6
<1> QED
  BY <1>1, <1>4, <1>5, <1>7, <1>8

(* A reader that has read i of the fields. *)
Arrived(r, s, i, ws, vs, e, from, to) ==
    /\ s.ok = TRUE /\ s.data = r.data /\ Len(s.values) = Len(r.values) + i
    /\ \A j \in 1 .. Len(r.values) : s.values[j] = r.values[j]
    /\ \A j \in 1 .. i : j /= e => s.values[Len(r.values) + j] = Received(ws[j], vs[j], from, to)

(* One more field has arrived. *)
LEMMA ArrivedNext ==
  ASSUME NEW r \in Readers(Value), NEW s \in Readers(Value), NEW i \in Nat, NEW ws, NEW vs, NEW e,
         NEW from, NEW to, Arrived(r, s, i, ws, vs, e, from, to),
         NEW t \in Readers(Value), t.ok = s.ok, t.data = s.data,
         NEW x \in Value, t.values = Append(s.values, x),
         i + 1 /= e => x = Received(ws[i + 1], vs[i + 1], from, to)
  PROVE  Arrived(r, t, i + 1, ws, vs, e, from, to)
<1>1. PICK a \in Seq(Value) : a = s.values
  BY DEF Readers
<1>2. PICK b \in Seq(Value) : b = r.values
  BY DEF Readers
<1>3. PICK L \in Nat : L = Len(b)
  OBVIOUS
<1>4. /\ Len(a) = L + i /\ \A j \in 1 .. L : a[j] = b[j]
      /\ \A j \in 1 .. i : j /= e => a[L + j] = Received(ws[j], vs[j], from, to)
  BY <1>1, <1>2, <1>3 DEF Arrived
<1>5. t.ok = TRUE /\ t.data = r.data
  BY DEF Arrived
<1>6. PICK c \in Seq(Value) : /\ c = t.values /\ Len(c) = (L + i) + 1 /\ c[(L + i) + 1] = x
                              /\ \A j \in 1 .. L + i : c[j] = a[j]
  <2>1. PICK c \in Seq(Value) : c = t.values /\ c = Append(a, x)
    BY <1>1 DEF Readers
  <2>2. PICK n \in Nat : n = Len(a) /\ n = L + i
    BY <1>4
  <2>3. /\ Len(Append(a, x)) = Len(a) + 1 /\ Append(a, x)[Len(a) + 1] = x
        /\ \A j \in 1 .. Len(a) : Append(a, x)[j] = a[j]
    BY AppendProperties, Zenon
  <2>4. Len(c) = n + 1 /\ c[n + 1] = x /\ \A j \in 1 .. n : c[j] = a[j]
    BY <2>1, <2>2, <2>3, Zenon
  <2> QED
    BY <2>1, <2>2, <2>4
<1>7. Len(c) = L + (i + 1) /\ \A j \in 1 .. L : c[j] = b[j]
  BY <1>4, <1>6
<1>8. ASSUME NEW j \in 1 .. i + 1, j /= e PROVE c[L + j] = Received(ws[j], vs[j], from, to)
  <2>1. CASE j = i + 1
    <3>1. L + j = (L + i) + 1
      BY <2>1
    <3> QED
      BY <1>6, <1>8, <2>1, <3>1
  <2>2. CASE j /= i + 1
    <3>1. j \in 1 .. i /\ L + j \in 1 .. L + i
      BY <2>2
    <3> QED
      BY <1>4, <1>6, <1>8, <3>1
  <2> QED
    BY <2>1, <2>2
<1>9. i + 1 \in Nat
  OBVIOUS
<1> QED
  BY <1>2, <1>3, <1>5, <1>6, <1>7, <1>8 DEF Arrived

(* The fields that messagewriter of one peer has written anywhere in a message
   arrive at messagereader of the other one, in order and with their values:
   for every two layouts that fit together and for all values of their fields. *)
THEOREM LayoutThere ==
  ASSUME NEW ws, NEW ks, NEW e, Aligned(ws, ks, e), NEW vs,
         \A i \in 1 .. Len(ws) : Valid(ws[i], vs[i]),
         NEW from \in Hosts, NEW to \in Hosts, NEW r \in Readers(Value), r.ok = TRUE,
         Holds(r.data, r.pos, WriteAll(ws, vs, from))
  PROVE  Arrived(r, ReadAll(ks, r, to), Len(ws), ws, vs, e, from, to)
<1>1. PICK N \in Nat : N = Len(ws) /\ N = Len(ks)
  BY DEF Aligned
<1>2. ws \in Seq(WrittenKinds) /\ ks \in Seq(ReadKinds)
  BY DEF Aligned
<1>3. \A i \in 1 .. N : /\ ws[i] \in WrittenKinds /\ ks[i] \in ReadKinds /\ Valid(ws[i], vs[i])
                        /\ \/ Pair(ws[i], ks[i])
                           \/ i = e /\ i = N /\ ws[i] = "u64" /\ ks[i] = "u32"
  BY <1>1, <1>2 DEF Aligned
<1>4. PICK d \in Seq(Bytes) : d = r.data
  BY DEF Readers
<1>5. PICK p \in Nat : p = r.pos
  BY DEF Readers
<1>6. PICK ss, J :
         /\ ss \in Seq(Seq(Bytes))
         /\ Len(ss) = N /\ \A i \in 1 .. N : ss[i] = Write(ws[i], vs[i], from)
         /\ Joined(J, ss) /\ WriteAll(ws, vs, from) = J[N]
  <2>1. \E ss, J :
            /\ ss \in Seq(Seq(Bytes))
            /\ Len(ss) = Len(ws) /\ \A i \in 1 .. Len(ws) : ss[i] = Write(ws[i], vs[i], from)
            /\ Joined(J, ss) /\ WriteAll(ws, vs, from) = J[Len(ws)]
            /\ WriteAll(ws, vs, from) \in Seq(Bytes)
    BY <1>2, WriteAllSteps, Zenon
  <2> QED
    BY <1>1, <2>1, Zenon
<1>7. \A n \in 1 .. N : Holds(d, p + Len(J[n - 1]), ss[n])
  <2>1. Holds(d, p, J[Len(ss)])
    BY <1>4, <1>5, <1>6
  <2> QED
    BY <1>6, <2>1, FlattenThere
<1>8. PICK f : Reads(f, ks, r, to) /\ ReadAll(ks, r, to) = f[N]
  BY <1>1, <1>2, ReadAllSteps
<1>9. \A i \in 0 .. N : f[i] \in Readers(Value)
  BY <1>1, <1>8 DEF Reads
<1>10. f[0] = r /\ \A i \in 1 .. N : f[i] = ReadNext(ks[i], f[i - 1], to)
  BY <1>1, <1>8 DEF Reads
<1>11. \A i \in 0 .. N : J[i] \in Seq(Bytes)
  BY <1>6 DEF Joined
<1>12. J[0] = <<>> /\ \A i \in 1 .. N : J[i] = J[i - 1] \o ss[i]
  BY <1>6 DEF Joined
<1> DEFINE P(i) == /\ Arrived(r, f[i], i, ws, vs, e, from, to)
                   /\ i < N => f[i].pos = p + Len(J[i])
           T == {i \in 0 .. N : P(i)}
<1>13. 0 \in T
  <2>1. Arrived(r, r, 0, ws, vs, e, from, to)
    BY DEF Arrived, Readers
  <2>2. Len(J[0]) = 0
    BY <1>12
  <2>3. r.pos = p + Len(J[0])
    BY <1>5, <2>2
  <2> QED
    BY <1>10, <2>1, <2>3
<1>14. ASSUME NEW i \in 0 .. N - 1, i \in T PROVE i + 1 \in T
  <2>1. PICK j \in 1 .. N : j = i + 1 /\ j - 1 = i
    OBVIOUS
  <2>2. PICK s \in Readers(Value) : s = f[i]
    BY <1>9
  <2>3. Arrived(r, s, i, ws, vs, e, from, to) /\ s.pos = p + Len(J[i])
    <3>1. i < N
      OBVIOUS
    <3>2. P(i)
      <4> HIDE DEF P
      <4> QED
        BY <1>14
    <3> QED
      BY <2>2, <3>1, <3>2
  <2>4. s.ok = TRUE /\ s.data = d
    BY <1>4, <2>3 DEF Arrived
  <2>5. PICK w \in WrittenKinds : w = ws[j]
    BY <1>3
  <2>6. PICK k \in ReadKinds : k = ks[j]
    BY <1>3
  <2>7. f[j] = Read(k, s, to)
    BY <1>10, <2>1, <2>2, <2>4, <2>6 DEF ReadNext
  <2>8. PICK t \in Readers(Value) : t = f[j]
    BY <1>9
  <2>9. PICK b \in Seq(Bytes) : b = ss[j]
    BY <1>6
  <2>10. PICK v : v = vs[j]
    OBVIOUS
  <2>11. Valid(w, v) /\ b = Write(w, v, from)
    BY <1>3, <1>6, <2>5, <2>9, <2>10
  <2>12. Holds(s.data, s.pos, b)
    BY <1>7, <2>1, <2>3, <2>4, <2>9
  <2>13. CASE Pair(w, k)
    <3>a. Holds(s.data, s.pos, Write(w, v, from))
      BY <2>11, <2>12
    <3>b. /\ Took(s, Read(k, s, to), Len(Write(w, v, from)), Received(w, v, from, to))
          /\ Received(w, v, from, to) \in Value
      BY <2>4, <2>11, <2>13, <3>a, FieldThere
    <3>1. PICK x \in Value : x = Received(w, v, from, to) /\ Took(s, t, Len(b), x)
      BY <2>7, <2>8, <2>11, <3>b, Zenon
    <3>2. /\ t.ok = s.ok /\ t.data = s.data /\ t.values = Append(s.values, x)
          /\ t.pos = s.pos + Len(b)
      BY <3>1, TookType
    <3>3. x = Received(ws[i + 1], vs[i + 1], from, to)
      BY <2>1, <2>5, <2>10, <3>1
    <3>4. Arrived(r, t, i + 1, ws, vs, e, from, to)
      BY <2>3, <3>2, <3>3, ArrivedNext
    <3>5. PICK g \in Seq(Bytes) : g = J[i]
      BY <1>11
    <3>6. J[j] = g \o b
      BY <1>12, <2>1, <2>9, <3>5
    <3>7. Len(g \o b) = Len(g) + Len(b) /\ Len(g) \in Nat /\ Len(b) \in Nat
      OBVIOUS
    <3>8. t.pos = p + Len(J[j])
      BY <2>3, <3>2, <3>5, <3>6, <3>7
    <3> QED
      BY <2>1, <2>8, <3>4, <3>8
  <2>14. CASE ~Pair(w, k)
    <3>1. j = e /\ j = N /\ w = "u64" /\ k = "u32"
      BY <1>3, <2>5, <2>6, <2>14
    <3>2. Len(b) = 8
      BY <2>11, <3>1, WriteFixed DEF Write
    <3>3. s.pos + 8 <= Len(s.data) /\ s.pos \in Nat /\ s.data \in Seq(Bytes)
      BY <2>12, <3>2 DEF Holds, Readers
    <3>4. k \in FixedKinds /\ Size(k) = 4
      BY <3>1 DEF FixedKinds, ReadKinds, Size
    <3>5. PICK y \in SUBSET Nat : y = BigEndian(s, 4)
      BY <3>3, BigEndianType
    <3>6. s.pos + 4 <= Len(s.data)
      BY <3>3
    <3>7. PICK x \in Value : Took(s, t, 4, x)
      BY <2>7, <2>8, <3>4, <3>5, <3>6, FixedTook
    <3>8. t.ok = s.ok /\ t.data = s.data /\ t.values = Append(s.values, x)
      BY <3>7, TookType
    <3>9. ~(i + 1 /= e)
      BY <2>1, <3>1
    <3>10. Arrived(r, t, i + 1, ws, vs, e, from, to)
      BY <2>3, <3>8, <3>9, ArrivedNext
    <3>11. ~(j < N)
      BY <3>1
    <3> QED
      BY <2>1, <2>8, <3>10, <3>11
  <2> QED
    BY <2>13, <2>14
<1> HIDE DEF T
<1>15. \A i \in 0 .. N : i \in T
  BY <1>13, <1>14, UpTo
<1>16. Arrived(r, f[N], N, ws, vs, e, from, to)
  <2>1. N \in T
    BY <1>15
  <2>2. P(N)
    <3> HIDE DEF P
    <3> QED
      BY <2>1 DEF T
  <2> QED
    BY <2>2
<1> QED
  BY <1>1, <1>8, <1>16

-----------------------------------------------------------------------------
(* The types of messages. *)

(* Once a number is shifted to 0 it stays there. *)
LEMMA ShiftedOut ==
  ASSUME NEW s \in [0 .. 30 -> Nat], \A i \in 1 .. 30 : s[i] = s[i - 1] \div 2,
         NEW k \in 0 .. 30, s[k] = 0
  PROVE  \A i \in 0 .. 30 : k <= i => s[i] = 0
<1> DEFINE T == {i \in 0 .. 30 : k <= i => s[i] = 0}
<1>1. 0 \in T
  OBVIOUS
<1>2. ASSUME NEW i \in 0 .. 30 - 1, i \in T PROVE i + 1 \in T
  <2>1. PICK j \in 1 .. 30 : j = i + 1 /\ j - 1 = i
    OBVIOUS
  <2>2. s[j] = s[i] \div 2
    BY <2>1
  <2>3. ASSUME k <= j PROVE s[j] = 0
    <3>1. CASE k = j
      BY <3>1
    <3>2. CASE k /= j
      <4>1. s[i] = 0
        BY <1>2, <2>1, <2>3, <3>2
      <4> QED
        BY <2>2, <4>1
    <3> QED
      BY <3>1, <3>2
  <2> QED
    BY <2>1, <2>3
<1> HIDE DEF T
<1>3. \A i \in 0 .. 30 : i \in T
  BY <1>1, <1>2, UpTo
<1> QED
  BY <1>3 DEF T

(* The type of a response is that of the request with bit 7. *)
LEMMA TypeWords ==
  ASSUME NEW n \in Nat, n <= 127
  PROVE  /\ Word(n) \subseteq 0 .. 6 /\ Word(128 + n) = {7} \cup Word(n)
         /\ n = 0 => Word(n) = {}
<1>1. PICK s \in [0 .. 30 -> Nat] :
         /\ s[0] = n
         /\ \A i \in 1 .. 30 : s[i] = s[i - 1] \div 2
         /\ Word(n) = {i \in 0 .. 30 : s[i] % 2 = 1}
  BY WordShifts
<1>2. PICK m \in Nat : m = 128 + n
  OBVIOUS
<1>3. PICK t \in [0 .. 30 -> Nat] :
         /\ t[0] = m
         /\ \A i \in 1 .. 30 : t[i] = t[i - 1] \div 2
         /\ Word(m) = {i \in 0 .. 30 : t[i] % 2 = 1}
  BY WordShifts
<1>4. s[0] <= 127 /\ t[0] = s[0] + 128
  BY <1>1, <1>2, <1>3
<1>5. s[1] <= 63 /\ t[1] = s[1] + 64
  <2>1. s[0] \in Nat /\ s[1] = s[0] \div 2 /\ t[1] = t[0] \div 2
    BY <1>1, <1>3
  <2> QED
    BY <1>4, <2>1
<1>6. s[2] <= 31 /\ t[2] = s[2] + 32
  <2>1. s[1] \in Nat /\ s[2] = s[1] \div 2 /\ t[2] = t[1] \div 2
    BY <1>1, <1>3
  <2> QED
    BY <1>5, <2>1
<1>7. s[3] <= 15 /\ t[3] = s[3] + 16
  <2>1. s[2] \in Nat /\ s[3] = s[2] \div 2 /\ t[3] = t[2] \div 2
    BY <1>1, <1>3
  <2> QED
    BY <1>6, <2>1
<1>8. s[4] <= 7 /\ t[4] = s[4] + 8
  <2>1. s[3] \in Nat /\ s[4] = s[3] \div 2 /\ t[4] = t[3] \div 2
    BY <1>1, <1>3
  <2> QED
    BY <1>7, <2>1
<1>9. s[5] <= 3 /\ t[5] = s[5] + 4
  <2>1. s[4] \in Nat /\ s[5] = s[4] \div 2 /\ t[5] = t[4] \div 2
    BY <1>1, <1>3
  <2> QED
    BY <1>8, <2>1
<1>10. s[6] <= 1 /\ t[6] = s[6] + 2
  <2>1. s[5] \in Nat /\ s[6] = s[5] \div 2 /\ t[6] = t[5] \div 2
    BY <1>1, <1>3
  <2> QED
    BY <1>9, <2>1
<1>11. s[7] <= 0 /\ t[7] = s[7] + 1
  <2>1. s[6] \in Nat /\ s[7] = s[6] \div 2 /\ t[7] = t[6] \div 2
    BY <1>1, <1>3
  <2> QED
    BY <1>10, <2>1
<1>12. s[7] = 0 /\ t[7] = 1 /\ s[7] \in Nat
  BY <1>11
<1>13. t[8] = 0
  BY <1>3, <1>12
<1>14. \A i \in 0 .. 30 : 7 <= i => s[i] = 0
  BY <1>1, <1>12, ShiftedOut
<1>15. \A i \in 0 .. 30 : 8 <= i => t[i] = 0
  BY <1>3, <1>13, ShiftedOut
<1>16. \A i \in 0 .. 6 : (t[i] % 2 = 1 <=> s[i] % 2 = 1)
  <2>1. \A x \in Nat : (x + 128) % 2 = x % 2 /\ (x + 64) % 2 = x % 2 /\ (x + 32) % 2 = x % 2
    OBVIOUS
  <2>2. \A x \in Nat : /\ (x + 16) % 2 = x % 2 /\ (x + 8) % 2 = x % 2
                       /\ (x + 4) % 2 = x % 2 /\ (x + 2) % 2 = x % 2
    OBVIOUS
  <2>3. \A i \in 0 .. 6 : s[i] \in Nat
    OBVIOUS
  <2> QED
    BY <1>4, <1>5, <1>6, <1>7, <1>8, <1>9, <1>10, <2>1, <2>2, <2>3
<1>17. \A i \in 0 .. 30 : i \in Word(n) <=> s[i] % 2 = 1
  BY <1>1
<1>18. \A i \in 0 .. 30 : i \in Word(m) <=> t[i] % 2 = 1
  BY <1>3
<1>19. Word(n) \subseteq 0 .. 30 /\ Word(m) \subseteq 0 .. 30
  BY <1>1, <1>3
<1>20. Word(n) \subseteq 0 .. 6
  <2>1. \A i \in 0 .. 30 : i \notin 0 .. 6 => i \notin Word(n)
    BY <1>14, <1>17
  <2> QED
    BY <1>19, <2>1
<1>21. \A i \in 0 .. 30 : i \in Word(m) <=> i = 7 \/ i \in Word(n)
  <2>1. \A i \in 0 .. 6 : i \in Word(m) <=> i \in Word(n)
    BY <1>16, <1>17, <1>18
  <2>2. 7 \in Word(m)
    BY <1>12, <1>18
  <2>3. \A i \in 0 .. 30 : 8 <= i => i \notin Word(m)
    BY <1>15, <1>18
  <2> QED
    BY <1>20, <2>1, <2>2, <2>3
<1>22. Word(m) = {7} \cup Word(n)
  BY <1>19, <1>21
<1>23. ASSUME n = 0 PROVE Word(n) = {}
  <2>1. s[0] = 0
    BY <1>1, <1>23
  <2>2. \A i \in 0 .. 30 : 0 <= i => s[i] = 0
    BY <1>1, <2>1, ShiftedOut
  <2>3. \A i \in 0 .. 30 : i \notin Word(n)
    BY <1>17, <2>2
  <2> QED
    BY <1>19, <2>3
<1> QED
  BY <1>2, <1>20, <1>22, <1>23

(* Request types have different numbers below 24. *)
LEMMA TypeNumbers ==
  /\ \A o \in Types : request_type[o] \in Nat /\ request_type[o] <= 23
  /\ \A o, p \in Types : request_type[o] = request_type[p] => o = p
  /\ request_type["unknown"] = 0
BY AllOpsIs DEF Types, request_type

(* The byte that a request of an operation has as its type. *)
SentType(o) == Word(IF o = "unknown" THEN FutureType ELSE request_type[o])

(* The type of a request is recognised, that of a response has bit 7 set. *)
LEMMA TypeSent ==
  ASSUME NEW o \in Types
  PROVE  /\ SentType(o) \in SUBSET (0 .. 7) /\ get_request_type(SentType(o)) = o
         /\ get_response_type(o) \in SUBSET (0 .. 7)
         /\ get_response_type(o) = {7} \cup (IF o = "unknown" THEN {} ELSE Word(request_type[o]))
<1>1. PICK n \in Nat : n = (IF o = "unknown" THEN 24 ELSE request_type[o]) /\ n <= 24
  BY TypeNumbers
<1>2. PICK c \in Nat : c = request_type[o] /\ c <= 23
  BY TypeNumbers
<1>3. SentType(o) = Word(n)
  BY <1>1, Zenon DEF SentType, FutureType
<1>4. Word(n) \subseteq 0 .. 6 /\ n \in Small
  BY <1>1, TypeWords DEF Small
<1>5. get_response_type(o) = Word(128 + c)
  BY <1>2, Zenon DEF get_response_type
<1>6. Word(128 + c) = {7} \cup Word(c) /\ Word(c) \subseteq 0 .. 6
  BY <1>2, TypeWords
<1>7. get_response_type(o) = {7} \cup (IF o = "unknown" THEN {} ELSE Word(request_type[o]))
  <2>1. CASE o = "unknown"
    <3>1. c = 0
      BY <1>2, <2>1, TypeNumbers
    <3>2. Word(c) = {}
      BY <3>1, TypeWords
    <3> QED
      BY <1>5, <1>6, <2>1, <3>2
  <2>2. CASE o /= "unknown"
    BY <1>2, <1>5, <1>6, <2>2
  <2> QED
    BY <2>1, <2>2
<1>8. \A p \in AllOps : Word(request_type[p]) = Word(n) => request_type[p] = n
  <2>1. ASSUME NEW p \in AllOps, Word(request_type[p]) = Word(n) PROVE request_type[p] = n
    <3>1. PICK q \in Small : q = request_type[p]
      BY TypeNumbers DEF Small, Types
    <3>2. Number(Word(q)) = q /\ Number(Word(n)) = n
      BY <1>4, NumberOfWord
    <3> QED
      BY <2>1, <3>1, <3>2
  <2> QED
    BY <2>1
<1>9. get_request_type(Word(n)) = o
  <2>1. CASE o = "unknown"
    <3>1. \A p \in AllOps : request_type[p] /= n
      BY <1>1, <2>1, TypeNumbers DEF Types
    <3>2. ~\E p \in AllOps : Word(request_type[p]) = Word(n)
      BY <1>8, <3>1
    <3> QED
      BY <2>1, <3>2 DEF get_request_type
  <2>2. CASE o /= "unknown"
    <3>1. o \in AllOps /\ n = request_type[o]
      BY <1>1, <2>2 DEF Types
    <3>2. Word(request_type[o]) = Word(n)
      BY <3>1
    <3>3. \A p \in AllOps : Word(request_type[p]) = Word(n) => p = o
      BY <1>8, <3>1, TypeNumbers DEF Types
    <3>4. PICK p \in AllOps : /\ p = (CHOOSE q \in AllOps : Word(request_type[q]) = Word(n))
                              /\ Word(request_type[p]) = Word(n)
      BY <3>1, <3>2, Zenon
    <3>5. get_request_type(Word(n)) = p
      BY <3>1, <3>2, <3>4, Zenon DEF get_request_type
    <3> QED
      BY <3>3, <3>4, <3>5
  <2> QED
    BY <2>1, <2>2
<1>10. SentType(o) \in SUBSET (0 .. 7) /\ get_response_type(o) \in SUBSET (0 .. 7)
  BY <1>3, <1>4, <1>5, <1>6
<1> QED
  BY <1>3, <1>7, <1>9, <1>10

-----------------------------------------------------------------------------
(* Messages. *)

(* set_id replaces the first four bytes: id, type, payload. *)
LEMMA MessageIs ==
  ASSUME NEW type, NEW rest \in Seq(Bytes), NEW i
  PROVE  /\ set_id(new_message(type) \o rest, i) = write_u32(i) \o (write_u8(type) \o rest)
         /\ set_id(new_message(type) \o rest, i) \in Seq(Bytes)
<1>1. PICK a \in Seq(Bytes) : a = write_u32({}) /\ Len(a) = 4
  BY WriteFixed
<1>2. PICK b \in Seq(Bytes) : b = write_u8(type) /\ Len(b) = 1
  BY WriteFixed
<1>3. PICK c \in Seq(Bytes) : c = write_u32(i)
  BY WriteFixed
<1>4. PICK t \in Seq(Bytes) : t = b \o rest
  BY ConcatAt, Zenon
<1>5. (a \o b) \o rest = a \o (b \o rest)
  BY ConcatAssociative
<1>6. PICK m \in Seq(Bytes) : m = a \o t
  BY ConcatAt, Zenon
<1>7. new_message(type) \o rest = m
  BY <1>1, <1>2, <1>4, <1>5, <1>6, Zenon DEF new_message
<1>8. PICK n \in Nat : n = Len(t)
  OBVIOUS
<1>9. /\ Len(m) = Len(a) + Len(t) /\ \A j \in 1 .. Len(t) : m[Len(a) + j] = t[j]
  <2>1. /\ Len(a \o t) = Len(a) + Len(t) /\ \A j \in 1 .. Len(t) : (a \o t)[Len(a) + j] = t[j]
    BY ConcatAt
  <2> QED
    BY <1>6, <2>1, Zenon
<1>10. Len(m) = 4 + n /\ \A j \in 1 .. n : m[4 + j] = t[j]
  BY <1>1, <1>8, <1>9
<1>11. /\ SubSeq(m, 4 + 1, 4 + n) \in Seq(Bytes) /\ Len(SubSeq(m, 4 + 1, 4 + n)) = n
       /\ \A j \in 1 .. n : SubSeq(m, 4 + 1, 4 + n)[j] = m[4 + j]
  BY <1>10, Slice
<1>12. PICK u \in Seq(Bytes) : u = SubSeq(m, 5, 4 + n) /\ Len(u) = n /\ \A j \in 1 .. n : u[j] = m[4 + j]
  <2>1. 4 + 1 = 5
    OBVIOUS
  <2> QED
    BY <1>11, <2>1, Zenon
<1>13. u = t
  <2>1. Len(u) = Len(t) /\ \A j \in 1 .. Len(u) : u[j] = t[j]
    BY <1>8, <1>10, <1>12
  <2> QED
    BY <2>1, SeqEqual, Zenon
<1>14. set_id(m, i) = c \o t
  <2>1. SubSeq(m, 5, Len(m)) = t
    BY <1>10, <1>12, <1>13
  <2> QED
    BY <1>3, <2>1, Zenon DEF set_id
<1>15. c \o t \in Seq(Bytes)
  BY ConcatAt, Zenon
<1> QED
  BY <1>2, <1>3, <1>4, <1>7, <1>14, <1>15, Zenon

(* What a sequence to which a value is appended is made of. *)
LEMMA AppendAt ==
  ASSUME NEW V, NEW v \in Seq(V), NEW y \in V, NEW x, x = Append(v, y)
  PROVE  Len(x) = Len(v) + 1 /\ x[Len(v) + 1] = y /\ \A j \in 1 .. Len(v) : x[j] = v[j]
BY AppendProperties

(* The header of a message, and of one that begins with it. *)
LEMMA HeaderThere ==
  ASSUME NEW type \in SUBSET (0 .. 7), NEW rest \in Seq(Bytes), NEW i \in SUBSET (0 .. 31),
         NEW m \in Seq(Bytes), Holds(m, 0, set_id(new_message(type) \o rest, i))
  PROVE  /\ ReadHeader(m) \in Readers(Value) /\ ReadHeader(m).ok = TRUE /\ ReadHeader(m).data = m
         /\ IdOf(ReadHeader(m)) = i /\ TypeOf(ReadHeader(m)) = type
         /\ Len(ReadHeader(m).values) = 2
         /\ Holds(m, ReadHeader(m).pos, rest)
<1>1. PICK c \in Seq(Bytes) : c = write_u32(i) /\ Len(c) = 4
  BY WriteFixed
<1>2. PICK b \in Seq(Bytes) : b = write_u8(type) /\ Len(b) = 1
  BY WriteFixed
<1>3. PICK t \in Seq(Bytes) : t = b \o rest
  BY ConcatAt, Zenon
<1>4. Holds(m, 0, c \o t)
  BY <1>1, <1>2, <1>3, MessageIs, Zenon
<1>5. Holds(m, 0, c) /\ Holds(m, 4, t)
  <2>1. Holds(m, 0, c) /\ Holds(m, 0 + Len(c), t)
    BY <1>4, HoldsConcat
  <2> QED
    BY <1>1, <2>1
<1>6. Holds(m, 4, b) /\ Holds(m, 5, rest)
  <2>1. Holds(m, 4, b) /\ Holds(m, 4 + Len(b), rest)
    BY <1>3, <1>5, HoldsConcat
  <2> QED
    BY <1>2, <2>1
<1>7. PICK r \in Readers(Value) : /\ r = messagereader(m) /\ r.data = m /\ r.pos = 0
                                  /\ r.ok = TRUE /\ r.values = <<>>
  BY NewReader
<1>8. PICK ks \in Seq(ReadKinds) : ks = <<"u32", "u8">> /\ Len(ks) = 2
  BY HeaderLayout
<1>9. PICK f : Reads(f, ks, r, ServiceHost) /\ ReadAll(ks, r, ServiceHost) = f[2]
  BY <1>8, HostsType, ReadAllSteps
<1>10. f[2] = ReadHeader(m)
  BY <1>7, <1>8, <1>9, Zenon DEF ReadHeader
<1>11. PICK s \in Readers(Value) : s = f[1]
  BY <1>8, <1>9 DEF Reads
<1>12. f[0] = r /\ f[1] = ReadNext(ks[1], f[0], ServiceHost) /\ f[2] = ReadNext(ks[2], f[1], ServiceHost)
  <2>1. f[0] = r /\ \A j \in 1 .. 2 : f[j] = ReadNext(ks[j], f[j - 1], ServiceHost)
    BY <1>8, <1>9 DEF Reads
  <2>2. 1 \in 1 .. 2 /\ 2 \in 1 .. 2 /\ 1 - 1 = 0 /\ 2 - 1 = 1
    OBVIOUS
  <2> QED
    BY <2>1, <2>2
<1>13. ks[1] = "u32" /\ ks[2] = "u8"
  BY <1>8
<1>14. PICK k \in FixedKinds : k = "u32" /\ Size(k) = 4 /\ \A w : Decoded(k, w, ServiceHost) = w
  <2>1. "u32" \in FixedKinds
    BY DEF FixedKinds, ReadKinds
  <2>2. Size("u32") = 4
    BY DEF Size
  <2>3. \A w : Decoded("u32", w, ServiceHost) = w
    BY DEF Decoded
  <2> QED
    BY <2>1, <2>2, <2>3, Zenon
<1>15. PICK l \in FixedKinds : l = "u8" /\ Size(l) = 1 /\ \A w : Decoded(l, w, ServiceHost) = w
  <2>1. "u8" \in FixedKinds
    BY DEF FixedKinds, ReadKinds
  <2>2. Size("u8") = 1
    BY DEF Size
  <2>3. \A w : Decoded("u8", w, ServiceHost) = w
    BY DEF Decoded
  <2> QED
    BY <2>1, <2>2, <2>3, Zenon
<1>16. s = Read(k, r, ServiceHost)
  BY <1>7, <1>11, <1>12, <1>13, <1>14 DEF ReadNext
<1>17. Took(r, s, 4, i) /\ i \in Value
  <2>1. r.data \in Seq(Bytes) /\ r.pos \in Nat /\ Holds(r.data, r.pos, write_u32(i))
    BY <1>1, <1>5, <1>7
  <2>2. r.pos + 4 <= Len(r.data) /\ BigEndian(r, 4) = i
    BY <2>1, U32There
  <2>3. i \in SUBSET Nat
    OBVIOUS
  <2>4. Took(r, Read(k, r, ServiceHost), Size(k), Decoded(k, i, ServiceHost))
    BY <1>14, <2>2, <2>3, HostsType, FixedTook
  <2> QED
    BY <1>14, <1>16, <2>3, <2>4, ValueType, Zenon
<1>18. s.ok = TRUE /\ s.data = m /\ s.pos = 4 /\ Len(s.values) = 1 /\ s.values[1] = i
  <2>1. s.ok = r.ok /\ s.data = r.data /\ s.values = Append(r.values, i) /\ s.pos = r.pos + 4
    BY <1>17, TookType
  <2>2. Append(<<>>, i) = <<i>>
    OBVIOUS
  <2> QED
    BY <1>7, <2>1, <2>2
<1>19. PICK h \in Readers(Value) : h = f[2]
  BY <1>8, <1>9 DEF Reads
<1>20. h = Read(l, s, ServiceHost)
  BY <1>11, <1>12, <1>13, <1>15, <1>18, <1>19 DEF ReadNext
<1>21. Took(s, h, 1, type) /\ type \in Value
  <2>1. s.data \in Seq(Bytes) /\ s.pos \in Nat /\ Holds(s.data, s.pos, write_u8(type))
    BY <1>2, <1>6, <1>18
  <2>2. s.pos + 1 <= Len(s.data) /\ BigEndian(s, 1) = type
    BY <2>1, U8There
  <2>3. type \in SUBSET Nat
    OBVIOUS
  <2>4. Took(s, Read(l, s, ServiceHost), Size(l), Decoded(l, type, ServiceHost))
    BY <1>15, <2>2, <2>3, HostsType, FixedTook
  <2> QED
    BY <1>15, <1>20, <2>3, <2>4, ValueType, Zenon
<1>22. h.ok = TRUE /\ h.data = m /\ h.pos = 5 /\ h.values = Append(s.values, type)
  <2>1. h.ok = s.ok /\ h.data = s.data /\ h.values = Append(s.values, type) /\ h.pos = s.pos + 1
    BY <1>21, TookType
  <2> QED
    BY <1>18, <2>1
<1>23. h.values[1] = i /\ h.values[2] = type /\ Len(h.values) = 2
  <2>1. PICK v \in Seq(Value) : v = s.values
    BY DEF Readers
  <2>0. PICK y \in Value : y = type
    BY <1>21
  <2>2. PICK x : x = Append(v, y)
    OBVIOUS
  <2>3. Len(x) = Len(v) + 1 /\ x[Len(v) + 1] = y /\ \A j \in 1 .. Len(v) : x[j] = v[j]
    BY <2>2, AppendAt
  <2>4. Len(x) = 1 + 1 /\ x[1 + 1] = y /\ \A j \in 1 .. 1 : x[j] = v[j]
    BY <1>18, <2>1, <2>3, Zenon
  <2>5. Len(x) = 2 /\ x[2] = y /\ x[1] = i
    BY <1>18, <2>1, <2>4
  <2> QED
    BY <1>22, <2>0, <2>1, <2>2, <2>5
<1> QED
  BY <1>6, <1>10, <1>19, <1>22, <1>23 DEF IdOf, TypeOf

(* The values of a layout that applications and file systems give. *)
ValidAll(kinds, a) ==
    /\ a \in Seq(Value) /\ Len(a) = Len(kinds)
    /\ \A i \in 1 .. Len(kinds) : Valid(kinds[i], a[i])

(* What is valid for a field is a value. *)
LEMMA ValidType ==
  ASSUME NEW kind \in WrittenKinds, NEW v, Valid(kind, v)
  PROVE  v \in Value
<1>1. CASE kind \in {"u32", "u64", "mode", "attr_mode", "access_mode", "rename_flags", "openflags"}
  <2>1. v \in SUBSET (0 .. 63)
    <3>1. CASE kind \in {"u32", "openflags"}
      <4>1. v \subseteq 0 .. 31
        BY <3>1 DEF Valid
      <4> QED
        BY <4>1
    <3>2. CASE kind = "u64"
      BY <3>2 DEF Valid
    <3>3. CASE kind \in {"mode", "attr_mode"}
      <4>1. v \subseteq 0 .. 15
        BY <3>3 DEF Valid
      <4> QED
        BY <4>1
    <3>4. CASE kind = "access_mode"
      BY <3>4 DEF Valid
    <3>5. CASE kind = "rename_flags"
      BY <3>5 DEF Valid
    <3> QED
      BY <1>1, <3>1, <3>2, <3>3, <3>4, <3>5
  <2>2. v \in SUBSET Nat
    BY <2>1
  <2> QED
    BY <2>2, ValueType, Zenon
<1>2. CASE kind = "bool"
  <2>1. v \in BOOLEAN
    BY <1>2 DEF Valid
  <2> QED
    BY <2>1, ValueType, Zenon
<1>3. CASE kind \in {"str", "bytes"}
  <2>1. v \in Seq(Bytes)
    BY <1>3 DEF Valid
  <2> QED
    BY <2>1, ValueType, Zenon
<1>4. CASE kind = "strings"
  <2>1. v \in Seq(Seq(Bytes))
    BY <1>4 DEF Valid
  <2> QED
    BY <2>1, ValueType, Zenon
<1> QED
  BY <1>1, <1>2, <1>3, <1>4 DEF WrittenKinds

(* All that is sent is valid. *)
LEMMA VariantsForm ==
  ASSUME NEW kinds \in Seq(WrittenKinds), Len(kinds) <= MaxFields, NEW a \in Variants(kinds)
  PROVE  ValidAll(kinds, a)
<1>1. PICK N \in Nat : N = Len(kinds) /\ DOMAIN kinds = 1 .. N /\ N <= 14
  BY DEF MaxFields
<1>2. \A i \in 1 .. N : kinds[i] \in WrittenKinds
  BY <1>1
<1>3. \A i \in 1 .. N : Valid(kinds[i], Base(kinds[i], i))
  BY <1>1, <1>2, FieldsAssumption DEF MaxFields
<1>4. PICK base : base = [i \in 1 .. N |-> Base(kinds[i], i)]
  OBVIOUS
<1>5. \/ a = base
      \/ \E i \in 1 .. N : \E v \in Values(kinds[i]) : a = [base EXCEPT ![i] = v]
  BY <1>1, <1>4 DEF Variants
<1>6. DOMAIN a = 1 .. N /\ a = [i \in 1 .. N |-> a[i]] /\ \A i \in 1 .. N : Valid(kinds[i], a[i])
  <2>1. CASE a = base
    BY <1>3, <1>4, <2>1
  <2>2. CASE \E i \in 1 .. N : \E v \in Values(kinds[i]) : a = [base EXCEPT ![i] = v]
    <3>1. PICK i, v : i \in 1 .. N /\ v \in Values(kinds[i]) /\ a = [base EXCEPT ![i] = v]
      BY <2>2
    <3>2. Valid(kinds[i], v)
      BY <1>2, <3>1, FieldsAssumption
    <3>3. a = [j \in 1 .. N |-> IF j = i THEN v ELSE base[j]]
      BY <1>4, <3>1
    <3>4. \A j \in 1 .. N : Valid(kinds[j], a[j])
      BY <1>3, <1>4, <3>2, <3>3
    <3> QED
      BY <3>3, <3>4
  <2> QED
    BY <1>5, <2>1, <2>2
<1>7. \A i \in 1 .. N : a[i] \in Value
  BY <1>2, <1>6, ValidType
<1>8. a \in Seq(Value) /\ Len(a) = N
  BY <1>6, <1>7
<1> QED
  BY <1>1, <1>6, <1>8 DEF ValidAll

(* The payload of a message that was read: the values after the header. *)
LEMMA PayloadAt ==
  ASSUME NEW r \in Readers(Value), NEW n \in Nat, Len(r.values) = 2 + n
  PROVE  /\ Payload(r) \in Seq(Value) /\ Len(Payload(r)) = n
         /\ \A j \in 1 .. n : Payload(r)[j] = r.values[2 + j]
<1>1. PICK v \in Seq(Value) : v = r.values
  BY DEF Readers
<1>2. /\ SubSeq(v, 2 + 1, 2 + n) \in Seq(Value) /\ Len(SubSeq(v, 2 + 1, 2 + n)) = n
      /\ \A j \in 1 .. n : SubSeq(v, 2 + 1, 2 + n)[j] = v[2 + j]
  <2>1. 2 + n <= Len(v)
    BY <1>1
  <2> QED
    BY <2>1, Slice
<1>3. 2 + 1 = 3
  OBVIOUS
<1>4. Payload(r) = SubSeq(v, 2 + 1, 2 + n)
  BY <1>1, <1>3, Zenon DEF Payload
<1> QED
  BY <1>1, <1>2, <1>4, Zenon

(* The message that the methods of filesystem write. *)
LEMMA RequestForm ==
  ASSUME NEW o \in Types, NEW a, ValidAll(written_request(o), a), NEW i \in SUBSET (0 .. 31)
  PROVE  request_bytes(o, a, i) \in Seq(Bytes)
<1>1. PICK ws \in Seq(WrittenKinds) : ws = written_request(o)
  BY RequestLayouts DEF Aligned
<1>2. PICK rest \in Seq(Bytes) : rest = WriteAll(ws, a, ServiceHost)
  <2>1. \A j \in 1 .. Len(ws) : Valid(ws[j], a[j])
    BY <1>1 DEF ValidAll
  <2> QED
    BY <2>1, HostsType, WriteAllSteps
<1>3. request_bytes(o, a, i) = set_id(new_message(SentType(o)) \o rest, i)
  BY <1>1, <1>2, Zenon DEF request_bytes, SentType
<1> QED
  BY <1>3, MessageIs

(* A provider that receives it, perhaps with more behind it. *)
LEMMA RequestThere ==
  ASSUME NEW o \in Types, NEW a, ValidAll(written_request(o), a), NEW i \in SUBSET (0 .. 31),
         NEW m \in Seq(Bytes), Holds(m, 0, request_bytes(o, a, i))
  PROVE  /\ read_message(m).ok = TRUE /\ IdOf(read_message(m)) = i
         /\ get_request_type(TypeOf(read_message(m))) = o
         /\ Len(Payload(read_message(m))) = Len(written_request(o))
         /\ \A j \in 1 .. Len(written_request(o)) : j /= Misread(o) =>
              Payload(read_message(m))[j] =
                  Received(written_request(o)[j], a[j], ServiceHost, ProviderHost)
<1>1. PICK ws \in Seq(WrittenKinds) : ws = written_request(o)
  BY RequestLayouts DEF Aligned
<1>2. PICK ks \in Seq(ReadKinds) : ks = read_request(o)
  BY RequestLayouts DEF Aligned
<1>3. PICK e : e = Misread(o)
  OBVIOUS
<1>4. Aligned(ws, ks, e)
  BY <1>1, <1>2, <1>3, RequestLayouts
<1>5. \A j \in 1 .. Len(ws) : Valid(ws[j], a[j])
  BY <1>1 DEF ValidAll
<1>6. PICK rest \in Seq(Bytes) : rest = WriteAll(ws, a, ServiceHost)
  BY <1>5, HostsType, WriteAllSteps
<1>7. PICK ty \in SUBSET (0 .. 7) : ty = SentType(o) /\ get_request_type(ty) = o
  BY TypeSent
<1>8. Holds(m, 0, set_id(new_message(ty) \o rest, i))
  BY <1>1, <1>6, <1>7, Zenon DEF request_bytes, SentType
<1>9. PICK h \in Readers(Value) :
         /\ h = ReadHeader(m) /\ h.ok = TRUE /\ h.data = m /\ IdOf(h) = i /\ TypeOf(h) = ty
         /\ Len(h.values) = 2 /\ Holds(m, h.pos, rest)
  BY <1>8, HeaderThere
<1>10. PICK r : r = ReadAll(ks, h, ProviderHost)
  OBVIOUS
<1>11. r = read_message(m)
  BY <1>2, <1>7, <1>9, <1>10 DEF read_message
<1>12. r \in Readers(Value)
  BY <1>10, HostsType, ReadAllForm
<1>13. PICK N \in Nat : N = Len(ws)
  OBVIOUS
<1>14. Holds(h.data, h.pos, WriteAll(ws, a, ServiceHost))
  BY <1>6, <1>9
<1>15. Arrived(h, r, N, ws, a, e, ServiceHost, ProviderHost)
  BY <1>4, <1>5, <1>9, <1>10, <1>13, <1>14, HostsType, LayoutThere
<1>16. r.ok = TRUE /\ Len(r.values) = 2 + N /\ \A j \in 1 .. 2 : r.values[j] = h.values[j]
  BY <1>9, <1>15 DEF Arrived
<1>17. \A j \in 1 .. N : j /= e => r.values[2 + j] = Received(ws[j], a[j], ServiceHost, ProviderHost)
  BY <1>9, <1>15 DEF Arrived
<1>18. IdOf(r) = i /\ TypeOf(r) = ty
  BY <1>9, <1>16 DEF IdOf, TypeOf
<1>19. Len(Payload(r)) = N /\ \A j \in 1 .. N : Payload(r)[j] = r.values[2 + j]
  BY <1>12, <1>16, PayloadAt
<1> QED
  BY <1>1, <1>3, <1>7, <1>11, <1>13, <1>16, <1>17, <1>18, <1>19

(* What the file system of the provider may give, and what follows the header
   of the response.                                                         *)
AnswerOK(o, result, out) ==
    /\ result \in Int /\ -65535 <= result /\ result <= 65535
    /\ has_output(o, result) => ValidAll(written_output(o), out)
    /\ o \in {"unknown", "getcreds"} => result = 0

Body(o, result, out) ==
    CASE o = "unknown"  -> <<>>
      [] o = "getcreds" -> WriteAll(written_output(o), out, ProviderHost)
      [] OTHER -> write_i32(result) \o
                  IF has_output(o, result)
                  THEN WriteAll(written_output(o), out, ProviderHost) ELSE <<>>

(* What the provider writes after the header. *)
LEMMA BodyForm ==
  ASSUME NEW o \in Types, NEW result, NEW out, AnswerOK(o, result, out)
  PROVE  /\ Body(o, result, out) \in Seq(Bytes)
         /\ has_output(o, result) => WriteAll(written_output(o), out, ProviderHost) \in Seq(Bytes)
         /\ o = "getcreds" => /\ has_output(o, result)
                              /\ Body(o, result, out) = WriteAll(written_output(o), out, ProviderHost)
         /\ o \notin {"getcreds", "unknown"} =>
              /\ has_output(o, result) =>
                    Body(o, result, out) =
                        write_i32(result) \o WriteAll(written_output(o), out, ProviderHost)
              /\ ~has_output(o, result) => Body(o, result, out) = write_i32(result)
<1>1. PICK ws \in Seq(WrittenKinds) : ws = written_output(o)
  BY OutputLayouts DEF Aligned
<1>2. PICK W : W = WriteAll(ws, out, ProviderHost)
  OBVIOUS
<1>3. ASSUME has_output(o, result) PROVE W \in Seq(Bytes)
  <2>1. \A j \in 1 .. Len(ws) : Valid(ws[j], out[j])
    BY <1>1, <1>3 DEF AnswerOK, ValidAll
  <2> QED
    BY <1>2, <2>1, HostsType, WriteAllSteps
<1>4. PICK I \in Seq(Bytes) : I = write_i32(result)
  BY WriteFixed DEF write_i32
<1>5. I \o <<>> = I
  BY ConcatEmptySeq, Zenon
<1>6. CASE o = "unknown"
  <2>1. Body(o, result, out) = <<>>
    BY <1>6 DEF Body
  <2>2. Body(o, result, out) \in Seq(Bytes)
    BY <2>1
  <2>3. o /= "getcreds" /\ ~(o \notin {"getcreds", "unknown"})
    BY <1>6
  <2> QED
    BY <1>1, <1>2, <1>3, <2>2, <2>3, Zenon
<1>7. CASE o = "getcreds"
  <2>1. Body(o, result, out) = WriteAll(written_output(o), out, ProviderHost)
    BY <1>7 DEF Body
  <2>2. has_output(o, result)
    BY <1>7 DEF AnswerOK, has_output
  <2> QED
    BY <1>1, <1>2, <1>3, <1>7, <2>1, <2>2
<1>8. CASE o \notin {"getcreds", "unknown"}
  <2>1. Body(o, result, out) = I \o (IF has_output(o, result) THEN W ELSE <<>>)
    BY <1>1, <1>2, <1>4, <1>8 DEF Body
  <2>2. CASE has_output(o, result)
    <3>1. Body(o, result, out) = I \o W
      BY <2>1, <2>2
    <3>2. I \o W \in Seq(Bytes)
      BY <1>3, <2>2, ConcatAt
    <3> QED
      BY <1>1, <1>2, <1>3, <1>4, <1>8, <2>2, <3>1, <3>2, Zenon
  <2>3. CASE ~has_output(o, result)
    <3>1. Body(o, result, out) = I \o <<>>
      BY <2>1, <2>3
    <3> QED
      BY <1>4, <1>5, <1>8, <2>3, <3>1, Zenon
  <2> QED
    BY <2>2, <2>3
<1> QED
  BY <1>6, <1>7, <1>8

(* A response is a message. *)
LEMMA ResponseForm ==
  ASSUME NEW o \in Types, NEW result, NEW out, AnswerOK(o, result, out), NEW i \in SUBSET (0 .. 31)
  PROVE  /\ response_bytes(o, result, out, i) =
              set_id(new_message(get_response_type(o)) \o Body(o, result, out), i)
         /\ response_bytes(o, result, out, i) \in Seq(Bytes)
<1>1. response_bytes(o, result, out, i) =
         set_id(new_message(get_response_type(o)) \o Body(o, result, out), i)
  BY Zenon DEF response_bytes, Body
<1>2. PICK rest \in Seq(Bytes) : rest = Body(o, result, out)
  BY BodyForm
<1> QED
  BY <1>1, <1>2, MessageIs

HeaderRead(h, m, o, result, out, i) ==
    /\ h \in Readers(Value) /\ h.ok = TRUE /\ h.data = m
    /\ IdOf(h) = i /\ TypeOf(h) = get_response_type(o)
    /\ Len(h.values) = 2 /\ Holds(m, h.pos, Body(o, result, out))

(* A service that receives a response finds its id, its type and its payload. *)
LEMMA ResponseThere ==
  ASSUME NEW o \in Types, NEW result, NEW out, AnswerOK(o, result, out), NEW i \in SUBSET (0 .. 31),
         NEW m \in Seq(Bytes), Holds(m, 0, response_bytes(o, result, out, i))
  PROVE  HeaderRead(ReadHeader(m), m, o, result, out, i)
<1>1. PICK rest \in Seq(Bytes) : rest = Body(o, result, out)
  BY BodyForm
<1>2. PICK ty \in SUBSET (0 .. 7) : ty = get_response_type(o)
  BY TypeSent
<1>3. Holds(m, 0, set_id(new_message(ty) \o rest, i))
  <2>1. response_bytes(o, result, out, i) = set_id(new_message(ty) \o rest, i)
    BY <1>1, <1>2, ResponseForm, Zenon
  <2> QED
    BY <2>1
<1> QED
  BY <1>1, <1>2, <1>3, HeaderThere DEF HeaderRead

(* The result. *)
LEMMA ResultThere ==
  ASSUME NEW r \in Readers(Value), NEW n \in Int, -65535 <= n, n <= 65535,
         Holds(r.data, r.pos, write_i32(n))
  PROVE  Took(r, read_result(r), 4, n) /\ n \in Value /\ Len(write_i32(n)) = 4
<1>1. PICK k \in FixedKinds : k = "result"
  BY DEF FixedKinds, ReadKinds
<1>2. Size(k) = 4 /\ Read(k, r, ServiceHost) = read_result(r)
  BY <1>1 DEF Size, Read
<1>3. \A w : Decoded(k, w, ServiceHost) = to_fusestatus(to_int32(w))
  BY <1>1 DEF Decoded
<1>4. PICK x \in SUBSET (0 .. 31) : x = to_uint32(n) /\ to_int32(x) = n
  BY Int32
<1>5. r.data \in Seq(Bytes) /\ r.pos \in Nat /\ Holds(r.data, r.pos, write_u32(x))
  BY <1>4 DEF write_i32, Readers
<1>6. r.pos + 4 <= Len(r.data) /\ BigEndian(r, 4) = x
  BY <1>5, U32There
<1>7. x \in SUBSET Nat
  OBVIOUS
<1>8. Took(r, Read(k, r, ServiceHost), Size(k), Decoded(k, x, ServiceHost))
  BY <1>2, <1>6, <1>7, HostsType, FixedTook
<1>9. Decoded(k, x, ServiceHost) = n
  BY <1>3, <1>4, StatusKept
<1>10. n \in Value
  BY ValueType
<1>11. Len(write_i32(n)) = 4
  BY WriteFixed DEF write_i32
<1> QED
  BY <1>2, <1>8, <1>9, <1>10, <1>11

(* Results before the output: one, but none in an answer to getcreds. *)
Before(o) == IF o = "getcreds" THEN 0 ELSE 1
Outputs(o, result) == IF has_output(o, result) THEN Len(written_output(o)) ELSE 0

(* It finds the result and knows whether output follows, *)
LEMMA StatusThere ==
  ASSUME NEW o \in Types, o /= "unknown", NEW result, NEW out, AnswerOK(o, result, out),
         NEW h \in Readers(Value), h.ok = TRUE, Len(h.values) = 2,
         Holds(h.data, h.pos, Body(o, result, out))
  PROVE  /\ Status(h, o) \in Readers(Value) /\ Status(h, o).ok = TRUE
         /\ Len(Status(h, o).values) = 2 + Before(o)
         /\ o /= "getcreds" => Status(h, o).values[3] = result
         /\ More(Status(h, o), o) <=> has_output(o, result)
         /\ has_output(o, result) =>
              Holds(Status(h, o).data, Status(h, o).pos,
                    WriteAll(written_output(o), out, ProviderHost))
<1>1. CASE o = "getcreds"
  <2>1. Status(h, o) = h
    BY <1>1 DEF Status
  <2>2. More(h, o)
    BY <1>1 DEF More
  <2>3. has_output(o, result) /\ Body(o, result, out) = WriteAll(written_output(o), out, ProviderHost)
    BY <1>1, BodyForm
  <2>4. Before(o) = 0
    BY <1>1 DEF Before
  <2>5. Len(h.values) = 2 + Before(o)
    BY <2>4
  <2>6. Holds(h.data, h.pos, WriteAll(written_output(o), out, ProviderHost))
    BY <2>3, Zenon
  <2> QED
    BY <1>1, <2>1, <2>2, <2>3, <2>5, <2>6, Zenon
<1>2. CASE o /= "getcreds"
  <2>1. PICK n \in Int : n = result /\ -65535 <= n /\ n <= 65535
    BY DEF AnswerOK
  <2>2. PICK d \in Seq(Bytes) : d = h.data
    BY DEF Readers
  <2>3. PICK p \in Nat : p = h.pos
    BY DEF Readers
  <2>4. PICK I \in Seq(Bytes) : I = write_i32(n)
    BY WriteFixed DEF write_i32
  <2>5. PICK W : W = WriteAll(written_output(o), out, ProviderHost)
    OBVIOUS
  <2>6. o \notin {"getcreds", "unknown"}
    BY <1>2
  <2>7. ASSUME has_output(o, result) PROVE Holds(d, p, I) /\ Holds(d, p + Len(I), W)
    <3>0. /\ Body(o, result, out) = write_i32(result) \o WriteAll(written_output(o), out, ProviderHost)
          /\ WriteAll(written_output(o), out, ProviderHost) \in Seq(Bytes)
      BY <2>6, <2>7, BodyForm
    <3>1. Body(o, result, out) = I \o W /\ W \in Seq(Bytes)
      BY <2>1, <2>4, <2>5, <3>0
    <3>2. Holds(d, p, I \o W)
      BY <2>2, <2>3, <3>1
    <3> QED
      BY <3>1, <3>2, HoldsConcat
  <2>8. ASSUME ~has_output(o, result) PROVE Holds(d, p, I)
    <3>0. Body(o, result, out) = write_i32(result)
      BY <2>6, <2>8, BodyForm
    <3>1. Body(o, result, out) = I
      BY <2>1, <2>4, <3>0
    <3> QED
      BY <2>2, <2>3, <3>1
  <2>9. Holds(h.data, h.pos, write_i32(n))
    BY <2>2, <2>3, <2>4, <2>7, <2>8
  <2>10. PICK s : s = Status(h, o) /\ s = read_result(h)
    BY <1>2 DEF Status
  <2>11. Took(h, s, 4, n) /\ n \in Value /\ Len(I) = 4
    BY <2>1, <2>4, <2>9, <2>10, ResultThere
  <2>12. /\ s \in Readers(Value) /\ s.ok = h.ok /\ s.data = h.data
         /\ s.values = Append(h.values, n) /\ s.pos = h.pos + 4
    BY <2>11, TookType
  <2>13. PICK v \in Seq(Value) : v = h.values
    BY DEF Readers
  <2>14. PICK y \in Value : y = n
    BY <2>11
  <2>15. PICK x : x = s.values
    OBVIOUS
  <2>16. x = Append(v, y)
    BY <2>12, <2>13, <2>14, <2>15
  <2>17. Len(x) = Len(v) + 1 /\ x[Len(v) + 1] = y
    BY <2>16, AppendAt
  <2>18. Len(v) = 2
    BY <2>13
  <2>19. Len(x) = 3 /\ x[3] = y
    BY <2>17, <2>18
  <2>20. Last(s.values) = result
    BY <2>1, <2>14, <2>15, <2>19 DEF Last
  <2>21. s.ok = TRUE
    BY <2>12
  <2>22. More(s, o) <=> has_output(o, result)
    BY <1>2, <2>20, <2>21 DEF More
  <2>23. Before(o) = 1
    BY <1>2 DEF Before
  <2>24. has_output(o, result) => Holds(s.data, s.pos, W)
    BY <2>2, <2>3, <2>7, <2>11, <2>12
  <2>25. Len(s.values) = 2 + Before(o) /\ s.values[3] = result
    BY <2>1, <2>14, <2>15, <2>19, <2>23
  <2> QED
    BY <2>5, <2>10, <2>12, <2>21, <2>22, <2>24, <2>25
<1> QED
  BY <1>1, <1>2

(* What a response has become at the service. *)
Decodes(r, o, result, out) ==
    /\ r.ok = TRUE /\ Len(Payload(r)) = Before(o) + Outputs(o, result)
    /\ o /= "getcreds" => Payload(r)[1] = result
    /\ \A j \in 1 .. Outputs(o, result) :
         Payload(r)[Before(o) + j] =
             Received(written_output(o)[j], out[j], ProviderHost, ServiceHost)

(* and reads the output. *)
LEMMA ReplyThere ==
  ASSUME NEW o \in Types, o /= "unknown", NEW result, NEW out, AnswerOK(o, result, out),
         NEW h \in Readers(Value), h.ok = TRUE, Len(h.values) = 2,
         Holds(h.data, h.pos, Body(o, result, out)),
         NEW a, o = "read" /\ has_output(o, result) => Fits(Len(out[1]), a[2])
  PROVE  Decodes(read_reply(h, o, a), o, result, out)
<1>1. PICK s \in Readers(Value) :
         /\ s = Status(h, o) /\ s.ok = TRUE /\ Len(s.values) = 2 + Before(o)
         /\ o /= "getcreds" => s.values[3] = result
         /\ More(s, o) <=> has_output(o, result)
         /\ has_output(o, result) =>
              Holds(s.data, s.pos, WriteAll(written_output(o), out, ProviderHost))
  BY StatusThere
<1>2. PICK ws \in Seq(WrittenKinds) : ws = written_output(o)
  BY OutputLayouts DEF Aligned
<1>3. PICK ks \in Seq(ReadKinds) : ks = read_output(o)
  BY OutputLayouts DEF Aligned
<1>4. Aligned(ws, ks, 0)
  BY <1>2, <1>3, OutputLayouts
<1>5. PICK b \in {0, 1} : b = Before(o) /\ (o /= "getcreds" => b = 1)
  BY DEF Before
<1>6. PICK n \in Nat : n = Outputs(o, result)
  BY <1>2 DEF Outputs
<1>7. PICK r : r = Output(s, o)
  OBVIOUS
<1>8. /\ r \in Readers(Value) /\ r.ok = TRUE /\ Len(r.values) = (2 + b) + n
      /\ \A j \in 1 .. 2 + b : r.values[j] = s.values[j]
      /\ \A j \in 1 .. n : r.values[(2 + b) + j] = Received(ws[j], out[j], ProviderHost, ServiceHost)
  <2>1. CASE has_output(o, result)
    <3>1. n = Len(ws)
      BY <1>2, <1>6, <2>1 DEF Outputs
    <3>2. r = ReadAll(ks, s, ServiceHost)
      BY <1>1, <1>3, <1>7, <2>1 DEF Output
    <3>3. \A j \in 1 .. Len(ws) : Valid(ws[j], out[j])
      BY <1>2, <2>1 DEF AnswerOK, ValidAll
    <3>4. Holds(s.data, s.pos, WriteAll(ws, out, ProviderHost))
      BY <1>1, <1>2, <2>1
    <3>5. s.ok = TRUE
      BY <1>1
    <3>6. Arrived(s, r, n, ws, out, 0, ProviderHost, ServiceHost)
      BY <1>4, <3>1, <3>2, <3>3, <3>4, <3>5, HostsType, LayoutThere
    <3>7. r \in Readers(Value)
      BY <3>2, HostsType, ReadAllForm
    <3>8. Len(s.values) = 2 + b
      BY <1>1, <1>5
    <3>9. r.ok = TRUE /\ Len(r.values) = (2 + b) + n
      BY <3>6, <3>8 DEF Arrived
    <3>10. \A j \in 1 .. 2 + b : r.values[j] = s.values[j]
      BY <3>6, <3>8 DEF Arrived
    <3>11. \A j \in 1 .. n : j /= 0 =>
             r.values[(2 + b) + j] = Received(ws[j], out[j], ProviderHost, ServiceHost)
      BY <3>6, <3>8 DEF Arrived
    <3>12. \A j \in 1 .. n : j /= 0
      OBVIOUS
    <3> QED
      BY <3>7, <3>9, <3>10, <3>11, <3>12
  <2>2. CASE ~has_output(o, result)
    <3>1. n = 0
      BY <1>6, <2>2 DEF Outputs
    <3>2. r = s
      BY <1>1, <1>7, <2>2 DEF Output
    <3> QED
      BY <1>1, <1>5, <3>1, <3>2
  <2> QED
    BY <2>1, <2>2
<1>9. ~TooLong(s, r, o, a)
  <2>1. SUFFICES ASSUME o = "read", has_output(o, result) PROVE Fits(Len(Last(r.values)), a[2])
    BY <1>1 DEF TooLong
  <2>2. ws = <<"bytes">>
    BY <1>2, <2>1 DEF written_output
  <2>3. n = 1 /\ b = 1
    BY <1>2, <1>5, <1>6, <2>1, <2>2 DEF Outputs
  <2>4. Len(r.values) = 4 /\ r.values[4] = Received(ws[1], out[1], ProviderHost, ServiceHost)
    BY <1>8, <2>3
  <2>5. Received(ws[1], out[1], ProviderHost, ServiceHost) = out[1]
    BY <2>2 DEF Received
  <2>6. Last(r.values) = out[1]
    BY <2>4, <2>5 DEF Last
  <2>7. Fits(Len(out[1]), a[2])
    BY <2>1
  <2> QED
    BY <2>6, <2>7
<1>10. read_reply(h, o, a) = r
  BY <1>1, <1>7, <1>9, ReplySteps
<1>11. PICK N \in Nat : N = b + n /\ Len(r.values) = 2 + N
  BY <1>5, <1>8
<1>12. Len(Payload(r)) = N /\ \A j \in 1 .. N : Payload(r)[j] = r.values[2 + j]
  BY <1>8, <1>11, PayloadAt
<1>13. ASSUME o /= "getcreds" PROVE Payload(r)[1] = result
  <2>1. b = 1 /\ 1 \in 1 .. N /\ s.values[3] = result
    BY <1>1, <1>5, <1>11, <1>13
  <2>2. Payload(r)[1] = r.values[2 + 1]
    BY <1>12, <2>1
  <2>3. r.values[3] = s.values[3]
    BY <1>8, <2>1
  <2> QED
    BY <2>1, <2>2, <2>3
<1>14. ASSUME NEW j \in 1 .. n PROVE Payload(r)[b + j] = Received(ws[j], out[j], ProviderHost, ServiceHost)
  <2>1. b + j \in 1 .. N /\ 2 + (b + j) = (2 + b) + j
    BY <1>5, <1>11
  <2>2. Payload(r)[b + j] = r.values[2 + (b + j)]
    BY <1>12, <2>1
  <2>3. r.values[(2 + b) + j] = Received(ws[j], out[j], ProviderHost, ServiceHost)
    BY <1>8
  <2> QED
    BY <2>1, <2>2, <2>3
<1>15. Len(Payload(r)) = b + n
  BY <1>11, <1>12
<1>16. r.ok = TRUE
  BY <1>8
<1> QED
  BY <1>2, <1>5, <1>6, <1>10, <1>13, <1>14, <1>15, <1>16 DEF Decodes

-----------------------------------------------------------------------------
(* Messages under way. *)

(* Message m is what is left of a whole message after a fault. *)
UnderWay(m, f, whole) ==
    /\ f = "none" => m = whole
    /\ f = "extended" => Holds(m, 0, whole)
    /\ f = "cut" => Holds(whole, 0, m)

Faults == {"none", "cut", "extended"}

(* Without a cut the whole message is there; after it, nothing but its beginning. *)
LEMMA UnderWayHolds ==
  ASSUME NEW m \in Seq(Bytes), NEW w \in Seq(Bytes), NEW f \in Faults, UnderWay(m, f, w)
  PROVE  (f /= "cut" => Holds(m, 0, w)) /\ (f = "cut" => Holds(w, 0, m))
<1>1. Holds(w, 0, w)
  BY DEF Holds
<1> QED
  BY <1>1 DEF UnderWay, Faults

(* What a fault makes of a message. *)
LEMMA UnderWayFaults ==
  ASSUME NEW m \in Seq(Bytes)
  PROVE  /\ m \o Extra \in Seq(Bytes) /\ UnderWay(m \o Extra, "extended", m)
         /\ \A n \in 0 .. Len(m) - 1 :
              SubSeq(m, 1, n) \in Seq(Bytes) /\ UnderWay(SubSeq(m, 1, n), "cut", m)
<1>1. PICK x \in Seq(Bytes) : x = Extra
  BY ExtraAssumption
<1>2. /\ m \o x \in Seq(Bytes) /\ Len(m \o x) = Len(m) + Len(x)
      /\ \A j \in 1 .. Len(m) : (m \o x)[j] = m[j]
  BY ConcatAt
<1>3. Holds(m \o x, 0, m)
  BY <1>2 DEF Holds
<1>4. UnderWay(m \o x, "extended", m)
  BY <1>3 DEF UnderWay
<1>5. ASSUME NEW n \in 0 .. Len(m) - 1
      PROVE  SubSeq(m, 1, n) \in Seq(Bytes) /\ UnderWay(SubSeq(m, 1, n), "cut", m)
  <2>1. PICK k \in Nat : k = n /\ 0 + k <= Len(m)
    OBVIOUS
  <2>2. PICK z \in Nat : z = 0
    OBVIOUS
  <2>3. /\ SubSeq(m, z + 1, z + k) \in Seq(Bytes) /\ Len(SubSeq(m, z + 1, z + k)) = k
        /\ \A j \in 1 .. k : SubSeq(m, z + 1, z + k)[j] = m[z + j]
    BY <2>1, <2>2, Slice
  <2>4. z + 1 = 1 /\ z + k = n
    BY <2>1, <2>2
  <2>5. PICK u \in Seq(Bytes) : u = SubSeq(m, 1, n) /\ Len(u) = n /\ \A j \in 1 .. n : u[j] = m[0 + j]
    BY <2>1, <2>2, <2>3, <2>4, Zenon
  <2>6. Holds(m, 0, u)
    BY <2>1, <2>5 DEF Holds
  <2>7. UnderWay(u, "cut", m)
    BY <2>6 DEF UnderWay
  <2> QED
    BY <2>5, <2>7
<1> QED
  BY <1>1, <1>2, <1>4, <1>5

(* What a request has become at the provider. *)
Understood(r, o, a, i) ==
    /\ IdOf(r) = i /\ get_request_type(TypeOf(r)) = o
    /\ Len(Payload(r)) = Len(written_request(o))
    /\ \A j \in 1 .. Len(written_request(o)) : j /= Misread(o) =>
         Payload(r)[j] = Received(written_request(o)[j], a[j], ServiceHost, ProviderHost)

(* A request is understood unless it was cut, and also then if it can be read. *)
LEMMA RequestArrives ==
  ASSUME NEW o \in Types, NEW a, ValidAll(written_request(o), a), NEW i \in SUBSET (0 .. 31),
         NEW m \in Seq(Bytes), NEW f \in Faults, UnderWay(m, f, request_bytes(o, a, i))
  PROVE  /\ f /= "cut" => read_message(m).ok = TRUE
         /\ read_message(m).ok => Understood(read_message(m), o, a, i)
         /\ read_message(m).ok /\ f = "cut" =>
              Payload(read_message(m)) = Payload(read_message(request_bytes(o, a, i)))
<1>1. PICK w \in Seq(Bytes) : w = request_bytes(o, a, i)
  BY RequestForm
<1>2. UnderWay(m, f, w)
  BY <1>1
<1>3. ASSUME f /= "cut" PROVE read_message(m).ok = TRUE /\ Understood(read_message(m), o, a, i)
  <2>1. Holds(m, 0, request_bytes(o, a, i))
    BY <1>1, <1>2, <1>3, UnderWayHolds
  <2> QED
    BY <2>1, RequestThere DEF Understood
<1>4. ASSUME f = "cut", read_message(m).ok
      PROVE  /\ Understood(read_message(m), o, a, i)
             /\ Payload(read_message(m)) = Payload(read_message(w))
  <2>1. Holds(w, 0, w)
    BY DEF Holds
  <2>2. Holds(w, 0, request_bytes(o, a, i))
    BY <1>1, <2>1
  <2>3. Understood(read_message(w), o, a, i)
    BY <2>2, RequestThere DEF Understood
  <2>4. Holds(w, 0, m)
    BY <1>2, <1>4, UnderWayHolds
  <2>5. Twin(read_message(m), read_message(w))
    BY <1>4, <2>4, MessageTwin
  <2>6. read_message(w).values = read_message(m).values
    BY <2>5 DEF Twin
  <2>7. /\ Payload(read_message(w)) = Payload(read_message(m))
        /\ IdOf(read_message(w)) = IdOf(read_message(m))
        /\ TypeOf(read_message(w)) = TypeOf(read_message(m))
    BY <2>6, Zenon DEF Payload, IdOf, TypeOf
  <2> QED
    BY <2>3, <2>7 DEF Understood
<1> QED
  BY <1>1, <1>3, <1>4

(* What a response has become at the service, whatever the arguments are. *)
Delivered(m, f, o, result, out, i) ==
    /\ f /= "cut" => ReadHeader(m).ok = TRUE
    /\ ReadHeader(m).ok =>
         IdOf(ReadHeader(m)) = i /\ TypeOf(ReadHeader(m)) = get_response_type(o)
    /\ \A a : /\ /\ f /= "cut" /\ o /= "unknown"
                 /\ o = "read" /\ has_output(o, result) => Fits(Len(out[1]), a[2])
                 => Decodes(read_reply(ReadHeader(m), o, a), o, result, out)
              /\ f = "cut" /\ ReadHeader(m).ok /\ read_reply(ReadHeader(m), o, a).ok =>
                   Payload(read_reply(ReadHeader(m), o, a)) =
                       Payload(read_reply(ReadHeader(response_bytes(o, result, out, i)), o, a))

(* A response that was not cut is decoded. *)
LEMMA ResponseArrives ==
  ASSUME NEW o \in Types, NEW result, NEW out, AnswerOK(o, result, out), NEW i \in SUBSET (0 .. 31),
         NEW m \in Seq(Bytes), NEW f \in Faults, UnderWay(m, f, response_bytes(o, result, out, i))
  PROVE  Delivered(m, f, o, result, out, i)
<1>1. PICK w \in Seq(Bytes) : w = response_bytes(o, result, out, i)
  BY ResponseForm
<1>2. UnderWay(m, f, w)
  BY <1>1
<1>3. PICK h \in Readers(Value) : h = ReadHeader(m)
  BY HeaderForm
<1>4. PICK g \in Readers(Value) : g = ReadHeader(w)
  BY HeaderForm
<1>5. ASSUME f /= "cut"
      PROVE  /\ h.ok = TRUE /\ h.data = m /\ IdOf(h) = i /\ TypeOf(h) = get_response_type(o)
             /\ Len(h.values) = 2 /\ Holds(h.data, h.pos, Body(o, result, out))
  <2>1. Holds(m, 0, response_bytes(o, result, out, i))
    BY <1>1, <1>2, <1>5, UnderWayHolds
  <2>2. HeaderRead(ReadHeader(m), m, o, result, out, i)
    BY <2>1, ResponseThere
  <2> QED
    BY <1>3, <2>2 DEF HeaderRead
<1>6. ASSUME f = "cut", h.ok
      PROVE  Twin(h, g) /\ h.ok = TRUE /\ IdOf(h) = i /\ TypeOf(h) = get_response_type(o)
  <2>1. Holds(w, 0, w)
    BY DEF Holds
  <2>2. Holds(w, 0, response_bytes(o, result, out, i))
    BY <1>1, <2>1
  <2>3. IdOf(g) = i /\ TypeOf(g) = get_response_type(o)
    <3>1. HeaderRead(ReadHeader(w), w, o, result, out, i)
      BY <2>2, ResponseThere
    <3> QED
      BY <1>4, <3>1 DEF HeaderRead
  <2>4. Holds(w, 0, m)
    BY <1>2, <1>6, UnderWayHolds
  <2>5. Twin(h, g)
    BY <1>3, <1>4, <1>6, <2>4, HeaderTwin
  <2>6. g.values = h.values
    BY <2>5 DEF Twin
  <2>7. IdOf(h) = i /\ TypeOf(h) = get_response_type(o)
    BY <2>3, <2>6 DEF IdOf, TypeOf
  <2>8. h.ok = TRUE
    BY <1>6 DEF Readers
  <2> QED
    BY <2>5, <2>7, <2>8
<1>7. ASSUME NEW a, f /= "cut", o /= "unknown",
             o = "read" /\ has_output(o, result) => Fits(Len(out[1]), a[2])
      PROVE  Decodes(read_reply(h, o, a), o, result, out)
  <2>1. h.ok = TRUE /\ Len(h.values) = 2 /\ Holds(h.data, h.pos, Body(o, result, out))
    BY <1>5, <1>7
  <2> QED
    BY <1>7, <2>1, ReplyThere
<1>8. ASSUME NEW a, f = "cut", h.ok, read_reply(h, o, a).ok
      PROVE  Payload(read_reply(h, o, a)) = Payload(read_reply(g, o, a))
  <2>1. Twin(h, g) /\ h.ok = TRUE
    BY <1>6, <1>8
  <2>2. Twin(read_reply(h, o, a), read_reply(g, o, a))
    BY <1>8, <2>1, ReplyTwin
  <2>3. read_reply(g, o, a).values = read_reply(h, o, a).values
    BY <2>2 DEF Twin
  <2> QED
    BY <2>3, Zenon DEF Payload
<1> QED
  BY <1>1, <1>3, <1>4, <1>5, <1>6, <1>7, <1>8 DEF Delivered

(* Only getcreds is answered with the type of getcreds. *)
LEMMA ResponseTypes ==
  ASSUME NEW o \in Types, get_response_type(o) = get_response_type("getcreds")
  PROVE  o = "getcreds"
<1>1. "getcreds" \in Types
  BY AllOpsIs DEF Types
<1>2. PICK c \in Nat : c = request_type[o] /\ c <= 23
  BY TypeNumbers
<1>3. PICK d \in Nat : d = request_type["getcreds"] /\ d <= 23
  BY <1>1, TypeNumbers
<1>4. Word(128 + c) = Word(128 + d)
  BY <1>2, <1>3, Zenon DEF get_response_type
<1>5. PICK x \in Small : x = 128 + c
  BY <1>2 DEF Small
<1>6. PICK y \in Small : y = 128 + d
  BY <1>3 DEF Small
<1>7. Number(Word(x)) = x /\ Number(Word(y)) = y
  BY NumberOfWord
<1>8. x = y
  BY <1>4, <1>5, <1>6, <1>7
<1>9. c = d
  BY <1>5, <1>6, <1>8
<1> QED
  BY <1>1, <1>2, <1>3, <1>9, TypeNumbers

-----------------------------------------------------------------------------
(* The inductive invariant: what is under way, and what has been read of it. *)

(* The answer of the provider's file system is one that its response can
   carry, and the buffer of a read has room for it.                         *)
Answered ==
    /\ AnswerOK(op, answer.result, answer.out)
    /\ op = "read" /\ has_output(op, answer.result) => Fits(Len(answer.out[1]), args[2])

ReaderOK == reader \in Readers(Value) /\ NoOverread

Called == stage /= "idle" => ValidAll(written_request(op), args)

Requested == stage = "request" => UnderWay(message, fault, request_bytes(op, args, id))

Serving ==
    stage = "serving" =>
        /\ served = op /\ got = Payload(reader) /\ Understood(reader, op, args, id)
        /\ fault = "cut" => got = Payload(read_message(request_bytes(op, args, id)))

Responding ==
    stage = "response" =>
        /\ Answered
        /\ UnderWay(message, fault, response_bytes(op, answer.result, answer.out, id))

Unanswered ==
    /\ stage = "idle" => fault = "none"
    /\ stage = "silent" => fault \in {"cut", "thrown"}
    /\ fault = "thrown" => stage \in {"silent", "done"}

Done ==
    stage = "done" =>
        \/ reply.how = "fallback" /\ (fault \in {"cut", "thrown"} \/ op = "unknown")
        \/ /\ reply.how = "decoded" /\ Answered
           /\ fault = "cut" => reply.values = Payload(read_reply(
                  ReadHeader(response_bytes(op, answer.result, answer.out, id)), op, args))
           /\ fault /= "cut" /\ op /= "unknown" =>
                  /\ Decodes(reader, op, answer.result, answer.out)
                  /\ reply.values = Payload(reader)

IInv == /\ TypeOK /\ ReaderOK /\ Called /\ Requested /\ Serving /\ Responding
        /\ Unanswered /\ Done

(* The values of the variables before a call. *)
LEMMA FreshType ==
  /\ "unknown" \in Types /\ {} \subseteq 0 .. 31 /\ <<>> \in Seq(Bytes)
  /\ messagereader(<<>>) \in Readers(Value)
  /\ messagereader(<<>>).pos <= Len(messagereader(<<>>).data)
  /\ messagereader(<<>>).data \in Seq(Bytes)
<1>0. <<>> \in Seq(Bytes) /\ Len(<<>>) = 0
  OBVIOUS
<1>1. PICK m \in Seq(Bytes) : m = <<>> /\ Len(m) = 0
  BY <1>0
<1>2. messagereader(m) \in Readers(Value) /\ messagereader(m).data = m /\ messagereader(m).pos = 0
  BY NewReader
<1>3. messagereader(m).pos <= Len(messagereader(m).data)
  BY <1>1, <1>2
<1> QED
  BY <1>1, <1>2, <1>3 DEF Types

(* The invariant holds initially *)
LEMMA IInvInit == Init => IInv
<1> SUFFICES ASSUME Init PROVE IInv
  OBVIOUS
<1>1. TypeOK
  <2>1. answer.result = 0 /\ reply.how = "none"
    BY DEF Init, NoAnswer, NoReply
  <2> QED
    BY <2>1, FreshType DEF Init, TypeOK, Types
<1>2. ReaderOK
  BY FreshType DEF Init, ReaderOK, NoOverread
<1>3. Called /\ Requested /\ Serving /\ Responding /\ Unanswered /\ Done
  BY DEF Init, Called, Requested, Serving, Responding, Unanswered, Done
<1> QED
  BY <1>1, <1>2, <1>3 DEF IInv

(* and is preserved by each action.  The call is over. *)
LEMMA IInvAgain == IInv /\ again => IInv'
<1> SUFFICES ASSUME IInv, again PROVE IInv'
  OBVIOUS
<1>1. TypeOK'
  <2>1. answer'.result = 0 /\ reply'.how = "none"
    BY DEF again, NoAnswer, NoReply
  <2> QED
    BY <2>1, FreshType DEF again, TypeOK, Types
<1>2. ReaderOK'
  BY FreshType DEF again, ReaderOK, NoOverread
<1>3. (Called /\ Requested /\ Serving /\ Responding /\ Unanswered /\ Done)'
  BY DEF again, Called, Requested, Serving, Responding, Unanswered, Done
<1> QED
  BY <1>1, <1>2, <1>3 DEF IInv

(* Nobody answers. *)
LEMMA IInvTimeout == IInv /\ timeout => IInv'
<1> SUFFICES ASSUME IInv, timeout PROVE IInv'
  OBVIOUS
<1>1. /\ stage = "silent" /\ stage' = "done" /\ reply' = Fallback /\ fault' = fault
      /\ fault \in {"cut", "thrown"}
  BY DEF timeout, IInv, Unanswered
<1>2. reply'.how = "fallback"
  BY <1>1 DEF Fallback
<1>3. TypeOK'
  BY <1>1, <1>2 DEF timeout, IInv, TypeOK
<1>4. ReaderOK'
  BY DEF timeout, IInv, ReaderOK, NoOverread
<1>5. Called'
  BY <1>1 DEF timeout, IInv, Called
<1>6. (Requested /\ Serving /\ Responding /\ Unanswered)'
  BY <1>1 DEF Requested, Serving, Responding, Unanswered
<1>7. Done'
  BY <1>1, <1>2 DEF Done
<1> QED
  BY <1>3, <1>4, <1>5, <1>6, <1>7 DEF IInv

(* Nothing happens. *)
LEMMA IInvStutters == IInv /\ UNCHANGED vars => IInv'
<1> SUFFICES ASSUME IInv, UNCHANGED vars PROVE IInv'
  OBVIOUS
<1>1. (TypeOK /\ ReaderOK)'
  BY DEF vars, IInv, TypeOK, ReaderOK, NoOverread
<1>2. (Called /\ Requested /\ Unanswered)'
  BY DEF vars, IInv, Called, Requested, Unanswered
<1>3. (Serving /\ Responding /\ Done)'
  BY DEF vars, IInv, Serving, Responding, Done, Answered
<1> QED
  BY <1>1, <1>2, <1>3 DEF IInv

(* The request is written: its arguments are valid, nothing is wrong yet. *)
LEMMA IInvPerform ==
  ASSUME NEW o \in Ops, NEW i \in Ids
  PROVE  IInv /\ perform(o, i) => IInv'
<1> SUFFICES ASSUME IInv, perform(o, i) PROVE IInv'
  OBVIOUS
<1>1. o \in Types /\ i \in SUBSET (0 .. 31)
  BY OpsAssumption, IdsAssumption DEF Types
<1>2. PICK a \in Variants(written_request(o)) : args' = a /\ message' = request_bytes(o, a, i)
  BY DEF perform
<1>3. /\ stage = "idle" /\ stage' = "request" /\ op' = o /\ id' = i
      /\ UNCHANGED <<fault, served, got, answer, reply, reader>>
  BY DEF perform
<1>4. fault' = "none"
  BY <1>3 DEF IInv, Unanswered
<1>5. ValidAll(written_request(o), a)
  BY <1>1, <1>2, RequestLayouts, VariantsForm DEF Aligned
<1>6. request_bytes(o, a, i) \in Seq(Bytes)
  BY <1>1, <1>5, RequestForm
<1>7. TypeOK'
  BY <1>1, <1>2, <1>3, <1>6 DEF IInv, TypeOK, Types
<1>8. ReaderOK'
  BY <1>3 DEF IInv, ReaderOK, NoOverread
<1>9. Called'
  BY <1>2, <1>3, <1>5 DEF Called
<1>10. Requested'
  BY <1>2, <1>3, <1>4 DEF Requested, UnderWay
<1>11. (Serving /\ Responding /\ Unanswered /\ Done)'
  BY <1>3, <1>4 DEF Serving, Responding, Unanswered, Done
<1> QED
  BY <1>7, <1>8, <1>9, <1>10, <1>11 DEF IInv

(* A fault on the way. *)
Harmed(f) == /\ stage \in {"request", "response"} /\ fault = "none" /\ fault' = f
             /\ message' \in Seq(Bytes) /\ UnderWay(message', f, message)
             /\ UNCHANGED <<stage, op, id, args, served, got, answer, reply, reader>>

(* What is under way stays a part of what was sent. *)
LEMMA IInvHarmed ==
  ASSUME NEW f \in {"cut", "extended"}
  PROVE  IInv /\ Harmed(f) => IInv'
<1> SUFFICES ASSUME IInv, Harmed(f) PROVE IInv'
  OBVIOUS
<1>1. \A w : UnderWay(message, "none", w) => UnderWay(message', f, w)
  BY DEF Harmed, UnderWay
<1>2. TypeOK'
  BY DEF Harmed, IInv, TypeOK
<1>3. ReaderOK'
  BY DEF Harmed, IInv, ReaderOK, NoOverread
<1>4. Called'
  BY DEF Harmed, IInv, Called
<1>5. Requested'
  BY <1>1 DEF Harmed, IInv, Requested
<1>6. Responding'
  BY <1>1 DEF Harmed, IInv, Responding, Answered
<1>7. (Serving /\ Unanswered /\ Done)'
  BY DEF Harmed, Serving, Unanswered, Done
<1> QED
  BY <1>2, <1>3, <1>4, <1>5, <1>6, <1>7 DEF IInv

(* The message loses its end. *)
LEMMA IInvCut == IInv /\ cut => IInv'
<1> SUFFICES ASSUME IInv, cut PROVE IInv'
  OBVIOUS
<1>1. PICK m \in Seq(Bytes) : m = message
  BY DEF IInv, TypeOK
<1>2. PICK n \in 0 .. Len(m) - 1 : message' = SubSeq(m, 1, n)
  BY <1>1 DEF cut
<1>3. SubSeq(m, 1, n) \in Seq(Bytes) /\ UnderWay(SubSeq(m, 1, n), "cut", m)
  BY UnderWayFaults
<1>4. Harmed("cut")
  BY <1>1, <1>2, <1>3 DEF cut, Harmed
<1> QED
  BY <1>4, IInvHarmed

(* The message is one of a newer peer. *)
LEMMA IInvExtend == IInv /\ extend => IInv'
<1> SUFFICES ASSUME IInv, extend PROVE IInv'
  OBVIOUS
<1>1. PICK m \in Seq(Bytes) : m = message
  BY DEF IInv, TypeOK
<1>2. m \o Extra \in Seq(Bytes) /\ UnderWay(m \o Extra, "extended", m)
  BY UnderWayFaults
<1>3. Harmed("extended")
  BY <1>1, <1>2 DEF extend, Harmed
<1> QED
  BY <1>3, IInvHarmed

(* The provider reads what is under way. *)
LEMMA IInvOnMessage == IInv /\ on_message => IInv'
<1> SUFFICES ASSUME IInv, on_message PROVE IInv'
  OBVIOUS
<1>0. stage = "request"
  BY DEF on_message
<1>1. PICK o \in Types : o = op
  BY DEF IInv, TypeOK, Types
<1>2. PICK i \in SUBSET (0 .. 31) : i = id
  BY DEF IInv, TypeOK
<1>3. PICK m \in Seq(Bytes) : m = message
  BY DEF IInv, TypeOK
<1>4. PICK f \in Faults : f = fault
  BY <1>0 DEF IInv, TypeOK, Unanswered, Faults
<1>5. PICK a : a = args
  OBVIOUS
<1>6. stage = "request"
  BY <1>0
<1>7. ValidAll(written_request(o), a)
  BY <1>1, <1>5, <1>6 DEF IInv, Called
<1>8. UnderWay(m, f, request_bytes(o, a, i))
  BY <1>1, <1>2, <1>3, <1>4, <1>5, <1>6 DEF IInv, Requested
<1>9. PICK r \in Readers(Value) : r = read_message(m) /\ r.data = m /\ r.pos <= Len(m)
  BY MessageForm
<1>10. /\ f /= "cut" => r.ok = TRUE
       /\ r.ok => Understood(r, o, a, i)
       /\ r.ok /\ f = "cut" => Payload(r) = Payload(read_message(request_bytes(o, a, i)))
  BY <1>7, <1>8, <1>9, RequestArrives
<1>11. r.ok \in BOOLEAN
  BY DEF Readers
<1>12. /\ reader' = r
       /\ stage' = IF r.ok THEN "serving" ELSE "silent"
       /\ served' = IF r.ok THEN get_request_type(TypeOf(r)) ELSE served
       /\ got' = IF r.ok THEN Payload(r) ELSE got
       /\ UNCHANGED <<op, id, args, message, fault, answer, reply>>
  BY <1>3, <1>9 DEF on_message
<1>13. get_request_type(TypeOf(r)) \in Types
  BY RequestTypeType
<1>14. TypeOK'
  BY <1>9, <1>12, <1>13 DEF IInv, TypeOK, Types
<1>15. ReaderOK'
  BY <1>9, <1>12 DEF ReaderOK, NoOverread
<1>16. Called'
  BY <1>1, <1>5, <1>7, <1>12 DEF Called
<1>17. (Requested /\ Responding /\ Done)'
  BY <1>12 DEF Requested, Responding, Done
<1>18. Serving'
  <2> SUFFICES ASSUME r.ok
               PROVE  /\ served' = o /\ got' = Payload(r) /\ Understood(r, o, a, i)
                      /\ f = "cut" => got' = Payload(read_message(request_bytes(o, a, i)))
    BY <1>1, <1>2, <1>4, <1>5, <1>11, <1>12 DEF Serving
  <2>1. Understood(r, o, a, i)
    BY <1>10
  <2>2. get_request_type(TypeOf(r)) = o
    BY <2>1 DEF Understood
  <2> QED
    BY <1>10, <1>12, <2>1, <2>2
<1>19. Unanswered'
  BY <1>4, <1>10, <1>11, <1>12 DEF Unanswered, Faults
<1> QED
  BY <1>14, <1>15, <1>16, <1>17, <1>18, <1>19 DEF IInv

(* A response is one of the operation that was asked for. *)
LEMMA IInvRespond ==
  ASSUME NEW result, NEW out, IInv, respond(result, out), AnswerOK(op, result, out),
         op = "read" /\ has_output(op, result) => Fits(Len(out[1]), args[2])
  PROVE  IInv'
<1>1. PICK o \in Types : o = op
  BY DEF IInv, TypeOK, Types
<1>2. PICK i \in SUBSET (0 .. 31) : i = id
  BY DEF IInv, TypeOK
<1>3. stage = "serving" /\ served = o /\ IdOf(reader) = i
  BY <1>1, <1>2 DEF respond, IInv, Serving, Understood
<1>4. /\ answer' = [result |-> result, out |-> out]
      /\ message' = response_bytes(o, result, out, i)
      /\ fault' = "none" /\ stage' = "response"
      /\ UNCHANGED <<op, id, args, served, got, reply, reader>>
  BY <1>3 DEF respond
<1>5. answer'.result = result /\ answer'.out = out
  BY <1>4
<1>6. AnswerOK(o, result, out)
  BY <1>1
<1>7. response_bytes(o, result, out, i) \in Seq(Bytes)
  BY <1>6, ResponseForm
<1>8. result \in Int
  BY <1>6 DEF AnswerOK
<1>9. TypeOK'
  BY <1>4, <1>5, <1>7, <1>8 DEF IInv, TypeOK
<1>10. ReaderOK'
  BY <1>4 DEF IInv, ReaderOK, NoOverread
<1>11. Called'
  BY <1>3, <1>4 DEF IInv, Called
<1>12. (Requested /\ Serving /\ Unanswered /\ Done)'
  BY <1>4 DEF Requested, Serving, Unanswered, Done
<1>13. Answered'
  BY <1>4, <1>5 DEF Answered
<1>14. UnderWay(message', fault', response_bytes(op, answer.result, answer.out, id)')
  BY <1>1, <1>2, <1>4, <1>5 DEF UnderWay
<1>15. Responding'
  BY <1>13, <1>14 DEF Responding
<1> QED
  BY <1>9, <1>10, <1>11, <1>12, <1>15 DEF IInv

(* The file system fails: a negative result has no output. *)
LEMMA IInvServeError == IInv /\ serve_error => IInv'
<1> SUFFICES ASSUME IInv, serve_error PROVE IInv'
  OBVIOUS
<1>1. PICK e \in Errors : respond(e, <<>>) /\ served \notin {"unknown", "getcreds"}
  BY DEF serve_error
<1>2. op = served
  BY <1>1 DEF respond, IInv, Serving
<1>3. e \in Int /\ -4095 <= e /\ e < 0
  BY ErrorsAssumption
<1>4. ~has_output(op, e)
  BY <1>3 DEF has_output
<1>5. AnswerOK(op, e, <<>>)
  BY <1>1, <1>2, <1>3, <1>4 DEF AnswerOK
<1> QED
  BY <1>1, <1>4, <1>5, IInvRespond

(* The output of read. *)
LEMMA ReadAnswer == written_output("read") = <<"bytes">>
BY DEF written_output

(* The arguments that the results of read and write depend on. *)
LEMMA SizeArguments ==
  /\ Len(written_request("read")) = 4 /\ written_request("read")[2] = "u32"
  /\ Len(written_request("write")) = 4 /\ written_request("write")[2] = "bytes"
  /\ Misread("read") /= 2 /\ Misread("write") /= 2
<1>1. written_request("read") = <<"str", "u32", "u64", "u64">>
  BY DEF written_request
<1>2. written_request("write") = <<"str", "bytes", "u64", "u64">>
  BY DEF written_request
<1> QED
  BY <1>1, <1>2 DEF Misread

(* The file system succeeds; read returns no more bytes than were asked for. *)
LEMMA IInvServe == IInv /\ serve => IInv'
<1> SUFFICES ASSUME IInv, serve PROVE IInv'
  OBVIOUS
<1> DEFINE Result(o, x) == CASE o = "read"  -> Len(x[1])
                             [] o = "write" -> Len(got[2])
                             [] OTHER -> 0
<1>1. PICK out \in Variants(written_output(served)) :
         /\ served = "read" => Fits(Len(out[1]), got[2])
         /\ respond(Result(served, out), out)
  BY DEF serve
<1>2. PICK result : result = Result(served, out)
  OBVIOUS
<1>3. respond(result, out)
  BY <1>1, <1>2
<1>4. PICK o \in Types : o = op
  BY DEF IInv, TypeOK, Types
<1>5. /\ stage = "serving" /\ served = o /\ got = Payload(reader)
      /\ Understood(reader, o, args, id)
  BY <1>3, <1>4 DEF respond, IInv, Serving
<1>6. PICK ws \in Seq(WrittenKinds) : ws = written_output(o) /\ Len(ws) <= MaxFields
  BY OutputLayouts DEF Aligned
<1>7. ValidAll(written_output(o), out)
  BY <1>1, <1>5, <1>6, VariantsForm
<1>8. ValidAll(written_request(o), args)
  BY <1>4, <1>5 DEF IInv, Called
<1>9. \A j \in 1 .. Len(written_request(o)) : j /= Misread(o) =>
         got[j] = Received(written_request(o)[j], args[j], ServiceHost, ProviderHost)
  BY <1>5 DEF Understood
<1>10. CASE o = "read"
  <2>1. got[2] = args[2]
    <3>1. got[2] = Received("u32", args[2], ServiceHost, ProviderHost)
      BY <1>9, <1>10, SizeArguments
    <3> QED
      BY <3>1 DEF Received
  <2>2. Valid("bytes", out[1])
    BY <1>7, <1>10, ReadAnswer DEF ValidAll
  <2>3. out[1] \in Seq(Bytes) /\ Len(out[1]) <= 65535
    BY <2>2 DEF Valid, MaxSize
  <2>4. result = Len(out[1])
    BY <1>2, <1>5, <1>10
  <2>5. AnswerOK(o, result, out)
    BY <1>7, <1>10, <2>3, <2>4 DEF AnswerOK
  <2>6. Fits(Len(out[1]), args[2])
    BY <1>1, <1>5, <1>10, <2>1
  <2> QED
    BY <1>3, <1>4, <2>5, <2>6, IInvRespond
<1>11. CASE o = "write"
  <2>1. got[2] = args[2]
    <3>1. got[2] = Received("bytes", args[2], ServiceHost, ProviderHost)
      BY <1>9, <1>11, SizeArguments
    <3> QED
      BY <3>1 DEF Received
  <2>2. Valid("bytes", args[2])
    BY <1>8, <1>11, SizeArguments DEF ValidAll
  <2>3. args[2] \in Seq(Bytes) /\ Len(args[2]) <= 65535
    BY <2>2 DEF Valid, MaxSize
  <2>4. result = Len(args[2])
    BY <1>2, <1>5, <1>11, <2>1
  <2>5. AnswerOK(o, result, out)
    BY <1>7, <1>11, <2>3, <2>4 DEF AnswerOK
  <2> QED
    BY <1>3, <1>4, <1>11, <2>5, IInvRespond
<1>12. CASE o \notin {"read", "write"}
  <2>1. result = 0
    BY <1>2, <1>5, <1>12
  <2>2. AnswerOK(o, result, out)
    BY <1>7, <2>1 DEF AnswerOK
  <2> QED
    BY <1>3, <1>4, <1>12, <2>2, IInvRespond
<1> QED
  BY <1>10, <1>11, <1>12

(* The file system throws: nothing is sent. *)
LEMMA IInvServeThrows == IInv /\ serve_throws => IInv'
<1> SUFFICES ASSUME IInv, serve_throws PROVE IInv'
  OBVIOUS
<1>1. /\ stage = "serving" /\ stage' = "silent" /\ fault' = "thrown"
      /\ UNCHANGED <<op, id, args, message, served, got, answer, reply, reader>>
  BY DEF serve_throws
<1>2. TypeOK'
  BY <1>1 DEF IInv, TypeOK
<1>3. ReaderOK'
  BY <1>1 DEF IInv, ReaderOK, NoOverread
<1>4. Called'
  BY <1>1 DEF IInv, Called
<1>5. (Requested /\ Serving /\ Responding /\ Unanswered /\ Done)'
  BY <1>1 DEF Requested, Serving, Responding, Unanswered, Done
<1> QED
  BY <1>2, <1>3, <1>4, <1>5 DEF IInv

(* The service reads what is under way: whatever has a header is for the caller. *)
LEMMA IInvOnReceive == IInv /\ on_receive => IInv'
<1> SUFFICES ASSUME IInv, on_receive PROVE IInv'
  OBVIOUS
<1>0. stage = "response"
  BY DEF on_receive
<1>1. PICK o \in Types : o = op
  BY DEF IInv, TypeOK, Types
<1>2. PICK i \in SUBSET (0 .. 31) : i = id
  BY DEF IInv, TypeOK
<1>3. PICK m \in Seq(Bytes) : m = message
  BY DEF IInv, TypeOK
<1>4. PICK f \in Faults : f = fault
  BY <1>0 DEF IInv, TypeOK, Unanswered, Faults
<1>5. PICK a : a = args
  OBVIOUS
<1>6. PICK result, out : result = answer.result /\ out = answer.out
  OBVIOUS
<1>7. stage = "response"
  BY <1>0
<1>8. /\ AnswerOK(o, result, out)
      /\ o = "read" /\ has_output(o, result) => Fits(Len(out[1]), a[2])
  BY <1>1, <1>5, <1>6, <1>7 DEF IInv, Responding, Answered
<1>9. UnderWay(m, f, response_bytes(o, result, out, i))
  BY <1>1, <1>2, <1>3, <1>4, <1>6, <1>7 DEF IInv, Responding
<1>10. PICK h \in Readers(Value) : h = ReadHeader(m) /\ h.data = m /\ h.pos <= Len(m)
  BY HeaderForm
<1>11. h.ok \in BOOLEAN
  BY DEF Readers
<1>12. /\ f /= "cut" => h.ok = TRUE
       /\ h.ok => IdOf(h) = i /\ TypeOf(h) = get_response_type(o)
       /\ f /= "cut" /\ o /= "unknown" => Decodes(read_reply(h, o, a), o, result, out)
       /\ f = "cut" /\ h.ok /\ read_reply(h, o, a).ok =>
            Payload(read_reply(h, o, a)) =
                Payload(read_reply(ReadHeader(response_bytes(o, result, out, i)), o, a))
  <2>1. Delivered(m, f, o, result, out, i)
    BY <1>8, <1>9, ResponseArrives
  <2> QED
    BY <1>8, <1>10, <2>1 DEF Delivered
<1> DEFINE mine == h.ok /\ IF TypeOf(h) = get_response_type("getcreds")
                           THEN o = "getcreds" ELSE IdOf(h) = i
<1>13. mine <=> h.ok
  BY <1>12, ResponseTypes
<1>14. PICK r : r = IF mine THEN read_reply(h, o, a) ELSE h
  OBVIOUS
<1>15. /\ reader' = r
       /\ stage' = IF mine THEN "done" ELSE "silent"
       /\ reply' = CASE ~mine -> reply
                     [] mine /\ r.ok -> [how |-> "decoded", values |-> Payload(r)]
                     [] OTHER -> Fallback
       /\ UNCHANGED <<op, id, args, message, fault, served, got, answer>>
  BY <1>1, <1>2, <1>3, <1>5, <1>10, <1>14 DEF on_receive
<1> HIDE DEF mine
<1>16. CASE ~h.ok
  <2>1. r = h /\ stage' = "silent" /\ reply' = reply
    BY <1>13, <1>14, <1>15, <1>16
  <2>2. f = "cut"
    BY <1>12, <1>16
  <2>3. TypeOK'
    BY <1>10, <1>15, <2>1 DEF IInv, TypeOK
  <2>4. ReaderOK'
    BY <1>10, <1>15, <2>1 DEF ReaderOK, NoOverread
  <2>5. Called'
    BY <1>7, <1>15 DEF IInv, Called
  <2>6. (Requested /\ Serving /\ Responding /\ Done)'
    BY <2>1 DEF Requested, Serving, Responding, Done
  <2>7. Unanswered'
    BY <1>4, <1>15, <2>1, <2>2 DEF Unanswered
  <2> QED
    BY <2>3, <2>4, <2>5, <2>6, <2>7 DEF IInv
<1>17. CASE h.ok
  <2>1. h.ok = TRUE
    BY <1>11, <1>17
  <2>2. r = read_reply(h, o, a) /\ stage' = "done"
    BY <1>13, <1>14, <1>15, <1>17
  <2>3. r \in Readers(Value) /\ Follows(h, r)
    BY <2>1, <2>2, ReplyForm
  <2>4. r.ok \in BOOLEAN /\ r.data \in Seq(Bytes)
    BY <2>3 DEF Readers
  <2>5. r.data = m /\ r.pos <= Len(m)
    BY <1>10, <2>3 DEF Follows
  <2>6. \/ r.ok /\ reply' = [how |-> "decoded", values |-> Payload(r)]
        \/ ~r.ok /\ reply' = Fallback
    BY <1>13, <1>15, <1>17, <2>4
  <2>7. \/ r.ok /\ reply'.how = "decoded" /\ reply'.values = Payload(r)
        \/ ~r.ok /\ reply'.how = "fallback"
    BY <2>6 DEF Fallback
  <2>8. TypeOK'
    BY <1>15, <2>2, <2>4, <2>7 DEF IInv, TypeOK
  <2>9. ReaderOK'
    BY <1>15, <2>3, <2>5 DEF ReaderOK, NoOverread
  <2>10. Called'
    BY <1>7, <1>15 DEF IInv, Called
  <2>11. (Requested /\ Serving /\ Responding /\ Unanswered)'
    BY <2>2 DEF Requested, Serving, Responding, Unanswered
  <2>12. ASSUME ~r.ok PROVE f = "cut" \/ o = "unknown"
    BY <1>12, <2>2, <2>12 DEF Decodes
  <2>13. Answered'
    BY <1>1, <1>5, <1>6, <1>8, <1>15 DEF Answered
  <2>14. ASSUME r.ok, f = "cut"
         PROVE  Payload(r) = Payload(read_reply(ReadHeader(response_bytes(o, result, out, i)), o, a))
    BY <1>12, <1>17, <2>2, <2>14
  <2>15. ASSUME f /= "cut", o /= "unknown" PROVE Decodes(r, o, result, out)
    BY <1>12, <2>2, <2>15
  <2>16. op' = o /\ id' = i /\ args' = a /\ answer'.result = result /\ answer'.out = out /\ fault' = f
    BY <1>1, <1>2, <1>4, <1>5, <1>6, <1>15
  <2>17. Done'
    <3>1. CASE ~r.ok
      BY <2>7, <2>12, <2>16, <3>1 DEF Done
    <3>2. CASE r.ok
      <4>1. reply'.how = "decoded" /\ reply'.values = Payload(r)
        BY <2>7, <3>2
      <4>2. (fault = "cut" => reply.values = Payload(read_reply(
                  ReadHeader(response_bytes(op, answer.result, answer.out, id)), op, args)))'
        BY <2>14, <2>16, <3>2, <4>1
      <4>3. (fault /= "cut" /\ op /= "unknown" =>
                  /\ Decodes(reader, op, answer.result, answer.out)
                  /\ reply.values = Payload(reader))'
        BY <1>15, <2>15, <2>16, <4>1
      <4> QED
        BY <2>13, <4>1, <4>2, <4>3 DEF Done
    <3> QED
      BY <3>1, <3>2
  <2> QED
    BY <2>8, <2>9, <2>10, <2>11, <2>17 DEF IInv
<1> QED
  BY <1>16, <1>17

(* All of them. *)
LEMMA IInvNext == IInv /\ [Next]_vars => IInv'
BY IInvPerform, IInvCut, IInvExtend, IInvOnMessage, IInvServeError, IInvServe, IInvServeThrows,
   IInvOnReceive, IInvTimeout, IInvAgain, IInvStutters DEF Next

(* Of every behaviour of a call, whatever the values and whatever the faults. *)
THEOREM ExchangeInvariant == Spec => []IInv
BY IInvInit, IInvNext, PTL DEF Spec

(* Messages are sequences of bytes, and the reader's data are one: what is
   written by messagewriter and read by messagereader fits together.        *)
THEOREM ExchangeTypes == Spec => []TypeOK
<1>1. IInv => TypeOK
  BY DEF IInv
<1> QED
  BY <1>1, ExchangeInvariant, PTL

(* No read of messagereader goes beyond the end of its message, however long
   that is.                                                                 *)
THEOREM ExchangeNoOverread == Spec => []NoOverread
<1>1. IInv => NoOverread
  BY DEF IInv, ReaderOK
<1> QED
  BY <1>1, ExchangeInvariant, PTL

(* If on_message or a method of filesystem can decode a message that was cut
   at any byte, it has decoded what the whole message says.                 *)
THEOREM ExchangeCutHarmless == Spec => []CutHarmless
<1>1. IInv => CutHarmless
  BY DEF IInv, Serving, Done, CutHarmless
<1> QED
  BY <1>1, ExchangeInvariant, PTL

(* The invariant implies OwnAnswer, *)
LEMMA OwnAnswerHolds == IInv => OwnAnswer
<1> SUFFICES ASSUME IInv PROVE OwnAnswer
  OBVIOUS
<1>1. stage = "silent" => fault \in {"cut", "thrown"}
  BY DEF IInv, Unanswered
<1>2. ASSUME stage = "response", fault /= "cut"
      PROVE  LET h == ReadHeader(message)
             IN /\ IdOf(h) = id
                /\ TypeOf(h) = {7} \cup (IF op = "unknown" THEN {} ELSE Word(request_type[op]))
  <2>1. PICK o \in Types : o = op
    BY DEF IInv, TypeOK, Types
  <2>2. PICK i \in SUBSET (0 .. 31) : i = id
    BY DEF IInv, TypeOK
  <2>3. PICK m \in Seq(Bytes) : m = message
    BY DEF IInv, TypeOK
  <2>4. PICK f \in Faults : f = fault
    BY <1>2 DEF IInv, TypeOK, Unanswered, Faults
  <2>5. PICK result, out : result = answer.result /\ out = answer.out
    OBVIOUS
  <2>6. AnswerOK(o, result, out)
    BY <1>2, <2>1, <2>5 DEF IInv, Responding, Answered
  <2>7. UnderWay(m, f, response_bytes(o, result, out, i))
    BY <1>2, <2>1, <2>2, <2>3, <2>4, <2>5 DEF IInv, Responding
  <2>8. IdOf(ReadHeader(m)) = i /\ TypeOf(ReadHeader(m)) = get_response_type(o)
    <3>1. Delivered(m, f, o, result, out, i)
      BY <2>6, <2>7, ResponseArrives
    <3> QED
      BY <1>2, <2>4, <3>1 DEF Delivered
  <2>9. get_response_type(o) = {7} \cup (IF o = "unknown" THEN {} ELSE Word(request_type[o]))
    BY TypeSent
  <2> QED
    BY <2>1, <2>2, <2>3, <2>8, <2>9
<1> QED
  BY <1>1, <1>2 DEF OwnAnswer

(* A request that the provider can decode is answered, one of a type it does
   not know too, with the id of the request and the type that belongs to it,
   unless the method of filesystem_i throws.                                *)
THEOREM ExchangeOwnAnswer == Spec => []OwnAnswer
BY OwnAnswerHolds, ExchangeInvariant, PTL

(* Values arrive as they were sent, but for the upper half of a wide one. *)
LEMMA ReceivedSame ==
  ASSUME NEW kind \in WrittenKinds, NEW v, Valid(kind, v), NEW from \in Hosts, NEW to \in Hosts
  PROVE  Wide(kind, v) \/ Same(kind, v, Received(kind, v, from, to), from, to)
<1>1. CASE kind = "u64"
  <2>1. v \subseteq 0 .. 31 => v \cap (0 .. 31) = v
    BY Zenon
  <2>2. Received(kind, v, from, to) = v \cap (0 .. 31)
    BY <1>1 DEF Received
  <2>3. Same(kind, v, Received(kind, v, from, to), from, to) <=> v = Received(kind, v, from, to)
    BY <1>1 DEF Same
  <2>4. Wide(kind, v) <=> ~(v \subseteq 0 .. 31)
    BY <1>1 DEF Wide
  <2> QED
    BY <2>1, <2>2, <2>3, <2>4, Zenon
<1>2. CASE kind = "openflags"
  <2>1. Received(kind, v, from, to) = openflags_to_int(openflags_from_int(v, from), to)
    BY <1>2 DEF Received
  <2>2. DOMAIN OpenFlags = FlagNames
    BY FlagTables DEF FlagTable
  <2>3. \A f \in FlagNames \ {"largefile"} :
           O_Flags[from][f] \subseteq v <=>
           O_Flags[to][f] \subseteq openflags_to_int(openflags_from_int(v, from), to)
    BY OpenflagsKept
  <2> QED
    BY <1>2, <2>1, <2>2, <2>3, Zenon DEF Same
<1>3. CASE kind \notin {"u64", "openflags"}
  <2>1. Received(kind, v, from, to) = v
    BY <1>3 DEF Received
  <2> QED
    BY <1>3, <2>1 DEF Same
<1> QED
  BY <1>1, <1>2, <1>3

(* ArgumentsArrive, *)
LEMMA ArgumentsArriveHolds == IInv => ArgumentsArrive
<1> SUFFICES ASSUME IInv, stage = "serving", fault /= "cut"
             PROVE  /\ served = op
                    /\ \A i \in DOMAIN args :
                         LET kind == written_request(op)[i] IN
                         \/ Wide(kind, args[i])
                         \/ op = "mknod" /\ i = 3
                         \/ Same(kind, args[i], got[i], ServiceHost, ProviderHost)
  BY DEF ArgumentsArrive
<1>1. PICK o \in Types : o = op
  BY DEF IInv, TypeOK, Types
<1>2. served = o /\ got = Payload(reader) /\ Understood(reader, o, args, id)
  BY <1>1 DEF IInv, Serving
<1>3. ValidAll(written_request(o), args)
  BY <1>1 DEF IInv, Called
<1>4. PICK ws \in Seq(WrittenKinds) : ws = written_request(o)
  BY RequestLayouts DEF Aligned
<1>5. DOMAIN args = 1 .. Len(ws) /\ \A j \in 1 .. Len(ws) : Valid(ws[j], args[j])
  BY <1>3, <1>4 DEF ValidAll
<1>6. ASSUME NEW i \in 1 .. Len(ws)
      PROVE  \/ Wide(ws[i], args[i])
             \/ o = "mknod" /\ i = 3
             \/ Same(ws[i], args[i], got[i], ServiceHost, ProviderHost)
  <2>1. PICK kind \in WrittenKinds : kind = ws[i]
    BY <1>6
  <2>2. Valid(kind, args[i])
    BY <1>5, <1>6, <2>1
  <2>3. \/ Wide(kind, args[i])
        \/ Same(kind, args[i], Received(kind, args[i], ServiceHost, ProviderHost),
                ServiceHost, ProviderHost)
    BY <2>2, HostsType, ReceivedSame
  <2>4. CASE i = Misread(o)
    BY <1>6, <2>4 DEF Misread
  <2>5. CASE i /= Misread(o)
    <3>1. got[i] = Received(kind, args[i], ServiceHost, ProviderHost)
      BY <1>2, <1>4, <1>6, <2>1, <2>5 DEF Understood
    <3> QED
      BY <2>1, <2>3, <3>1
  <2> QED
    BY <2>4, <2>5
<1> QED
  BY <1>1, <1>2, <1>4, <1>5, <1>6

(* Whatever an application asks of filesystem, the provider's file system is
   asked for: the values that on_message reads are those the method has
   written, on machines with other open flags too.                          *)
THEOREM ExchangeArgumentsArrive == Spec => []ArgumentsArrive
BY ArgumentsArriveHolds, ExchangeInvariant, PTL

(* No output carries open flags. *)
LEMMA OutputKinds ==
  ASSUME NEW o, NEW i \in 1 .. Len(written_output(o))
  PROVE  written_output(o)[i] /= "openflags"
<1>1. CASE o = "getattr"
  <2>1. written_output(o) = written_attr
    BY <1>1 DEF written_output
  <2>2. Len(written_attr) = 14
    BY WrittenAttr
  <2> QED
    BY <2>1, <2>2, WrittenAttr
<1>2. CASE o = "statfs"
  <2>1. written_output(o) = written_statistics
    BY <1>2 DEF written_output
  <2> QED
    BY <2>1 DEF written_statistics
<1>3. CASE o \in {"readlink", "getcreds"}
  <2>1. written_output(o) = <<"str">>
    BY <1>3 DEF written_output
  <2> QED
    BY <2>1
<1>4. CASE o \in {"open", "create"}
  <2>1. written_output(o) = <<"u64">>
    BY <1>4 DEF written_output
  <2> QED
    BY <2>1
<1>5. CASE o = "read"
  <2>1. written_output(o) = <<"bytes">>
    BY <1>5 DEF written_output
  <2> QED
    BY <2>1
<1>6. CASE o = "readdir"
  <2>1. written_output(o) = <<"strings">>
    BY <1>6 DEF written_output
  <2> QED
    BY <2>1
<1>7. CASE o \notin {"getattr", "statfs", "readlink", "getcreds", "open", "create", "read", "readdir"}
  <2>1. written_output(o) = <<>>
    BY <1>7 DEF written_output
  <2> QED
    BY <2>1
<1> QED
  BY <1>1, <1>2, <1>3, <1>4, <1>5, <1>6, <1>7

(* The result and the output that filesystem_i gave, and their kinds. *)
StatusOf(o, result) == IF o = "getcreds" THEN <<>> ELSE <<result>>
Sent(o, result, out) == StatusOf(o, result) \o IF has_output(o, result) THEN out ELSE <<>>
SentKinds(o, result) == [i \in DOMAIN StatusOf(o, result) |-> "result"] \o written_output(o)

(* The values that a response carries. *)
LEMMA SentForm ==
  ASSUME NEW o \in Types, NEW result, NEW out, AnswerOK(o, result, out)
  PROVE  /\ Sent(o, result, out) \in Seq(Value)
         /\ Len(Sent(o, result, out)) = Before(o) + Outputs(o, result)
         /\ o /= "getcreds" => Sent(o, result, out)[1] = result
         /\ \A j \in 1 .. Outputs(o, result) :
              /\ Sent(o, result, out)[Before(o) + j] = out[j]
              /\ SentKinds(o, result)[Before(o) + j] = written_output(o)[j]
<1>0. result \in Int /\ (has_output(o, result) => ValidAll(written_output(o), out))
  BY DEF AnswerOK
<1>1. result \in Value
  BY <1>0, ValueType
<1>2. PICK u \in Seq(Value) : /\ u = StatusOf(o, result) /\ Len(u) = Before(o)
                              /\ o /= "getcreds" => u[1] = result
  <2>1. CASE o = "getcreds"
    <3>1. StatusOf(o, result) = <<>> /\ Before(o) = 0
      BY <2>1 DEF StatusOf, Before
    <3>2. <<>> \in Seq(Value) /\ Len(<<>>) = 0
      OBVIOUS
    <3> QED
      BY <2>1, <3>1, <3>2
  <2>2. CASE o /= "getcreds"
    <3>1. StatusOf(o, result) = <<result>> /\ Before(o) = 1
      BY <2>2 DEF StatusOf, Before
    <3>2. <<result>> \in Seq(Value) /\ Len(<<result>>) = 1 /\ <<result>>[1] = result
      BY <1>1
    <3> QED
      BY <3>1, <3>2
  <2> QED
    BY <2>1, <2>2
<1>3. PICK x \in Seq(Value) : /\ x = (IF has_output(o, result) THEN out ELSE <<>>)
                              /\ Len(x) = Outputs(o, result)
  <2>1. CASE has_output(o, result)
    <3>1. out \in Seq(Value) /\ Len(out) = Len(written_output(o))
      BY <1>0, <2>1 DEF ValidAll
    <3>2. Outputs(o, result) = Len(written_output(o))
      BY <2>1 DEF Outputs
    <3> QED
      BY <2>1, <3>1, <3>2
  <2>2. CASE ~has_output(o, result)
    <3>1. <<>> \in Seq(Value) /\ Len(<<>>) = 0
      OBVIOUS
    <3>2. Outputs(o, result) = 0
      BY <2>2 DEF Outputs
    <3> QED
      BY <2>2, <3>1, <3>2
  <2> QED
    BY <2>1, <2>2
<1>4. PICK z : z = u \o x
  OBVIOUS
<1>5. /\ z \in Seq(Value) /\ Len(z) = Len(u) + Len(x)
      /\ \A i \in 1 .. Len(u) : z[i] = u[i]
      /\ \A i \in 1 .. Len(x) : z[Len(u) + i] = x[i]
  BY <1>4, ConcatAt
<1>6. z = Sent(o, result, out)
  BY <1>2, <1>3, <1>4, Zenon DEF Sent
<1>7. PICK S : S = WrittenKinds \cup {"result"}
  OBVIOUS
<1>8. PICK k \in Seq(S) : k = [i \in DOMAIN u |-> "result"] /\ Len(k) = Len(u)
  <2>1. DOMAIN u = 1 .. Len(u) /\ Len(u) \in Nat
    OBVIOUS
  <2>2. [i \in 1 .. Len(u) |-> "result"] \in Seq(S) /\ Len([i \in 1 .. Len(u) |-> "result"]) = Len(u)
    BY <1>7, <2>1
  <2> QED
    BY <2>1, <2>2
<1>9. PICK ws \in Seq(S) : ws = written_output(o) /\ Len(ws) = Len(written_output(o))
  BY <1>7, OutputLayouts DEF Aligned
<1>10. PICK y : y = k \o ws
  OBVIOUS
<1>11. /\ y \in Seq(S) /\ Len(y) = Len(k) + Len(ws)
       /\ \A i \in 1 .. Len(ws) : y[Len(k) + i] = ws[i]
  BY <1>10, ConcatAt
<1>12. y = SentKinds(o, result)
  BY <1>2, <1>8, <1>9, <1>10, Zenon DEF SentKinds
<1>13. PICK b \in Nat : b = Before(o) /\ (o /= "getcreds" => b = 1)
  BY DEF Before
<1>14. PICK n \in Nat : n = Outputs(o, result) /\ (n > 0 => has_output(o, result) /\ n = Len(ws))
  BY <1>9 DEF Outputs
<1>15. Len(z) = b + n
  BY <1>2, <1>3, <1>5, <1>13, <1>14
<1>16. o /= "getcreds" => z[1] = result
  BY <1>2, <1>5, <1>13
<1>17. ASSUME NEW j \in 1 .. n PROVE z[b + j] = out[j] /\ y[b + j] = ws[j]
  <2>1. has_output(o, result) /\ n = Len(ws) /\ n = Len(x)
    BY <1>3, <1>14, <1>17
  <2>2. x = out
    BY <1>3, <2>1
  <2>3. z[b + j] = x[j]
    BY <1>2, <1>5, <1>13, <1>17, <2>1
  <2>4. y[b + j] = ws[j]
    BY <1>2, <1>8, <1>11, <1>13, <1>17, <2>1
  <2> QED
    BY <2>2, <2>3, <2>4
<1> QED
  BY <1>5, <1>6, <1>9, <1>12, <1>13, <1>14, <1>15, <1>16, <1>17

(* A decoded response has the values that were sent. *)
LEMMA DecodesSent ==
  ASSUME NEW o \in Types, NEW result, NEW out, AnswerOK(o, result, out),
         NEW r, Decodes(r, o, result, out)
  PROVE  /\ Len(Payload(r)) = Len(Sent(o, result, out))
         /\ \A i \in DOMAIN Sent(o, result, out) :
              \/ Wide(SentKinds(o, result)[i], Sent(o, result, out)[i])
              \/ Sent(o, result, out)[i] = Payload(r)[i]
<1>1. PICK z \in Seq(Value) :
        /\ z = Sent(o, result, out)
        /\ Len(z) = Before(o) + Outputs(o, result)
        /\ o /= "getcreds" => z[1] = result
        /\ \A j \in 1 .. Outputs(o, result) :
              /\ z[Before(o) + j] = out[j]
              /\ SentKinds(o, result)[Before(o) + j] = written_output(o)[j]
  BY SentForm
<1>2. PICK ws \in Seq(WrittenKinds) : ws = written_output(o)
  BY OutputLayouts DEF Aligned
<1>3. PICK b \in {0, 1} : b = Before(o) /\ (b = 1 <=> o /= "getcreds")
  BY DEF Before
<1>4. PICK n \in Nat : n = Outputs(o, result) /\ (n > 0 => has_output(o, result) /\ n = Len(ws))
  BY <1>2 DEF Outputs
<1>5. PICK p : p = Payload(r) /\ Len(p) = b + n /\ (o /= "getcreds" => p[1] = result)
  BY <1>3, <1>4 DEF Decodes
<1>6. \A j \in 1 .. n : p[b + j] = Received(ws[j], out[j], ProviderHost, ServiceHost)
  BY <1>2, <1>3, <1>4, <1>5 DEF Decodes
<1>7. PICK K : K = SentKinds(o, result)
  OBVIOUS
<1>8. \A j \in 1 .. n : z[b + j] = out[j] /\ K[b + j] = ws[j]
  BY <1>1, <1>2, <1>3, <1>4, <1>7
<1>9. Len(z) = b + n /\ DOMAIN z = 1 .. b + n
  BY <1>1, <1>3, <1>4
<1>10. ASSUME NEW j \in 1 .. n PROVE Wide(ws[j], out[j]) \/ out[j] = p[b + j]
  <2>1. has_output(o, result) /\ n = Len(ws)
    BY <1>4, <1>10
  <2>2. ValidAll(ws, out)
    BY <1>2, <2>1 DEF AnswerOK
  <2>3. PICK kind \in WrittenKinds : kind = ws[j]
    BY <1>10, <2>1
  <2>4. Valid(kind, out[j])
    BY <1>10, <2>1, <2>2, <2>3 DEF ValidAll
  <2>5. kind /= "openflags"
    BY <1>2, <1>10, <2>1, <2>3, OutputKinds
  <2>6. \/ Wide(kind, out[j])
        \/ Same(kind, out[j], Received(kind, out[j], ProviderHost, ServiceHost),
                ProviderHost, ServiceHost)
    BY <2>4, HostsType, ReceivedSame
  <2>7. Wide(kind, out[j]) \/ out[j] = Received(kind, out[j], ProviderHost, ServiceHost)
    BY <2>5, <2>6 DEF Same
  <2> QED
    BY <1>6, <1>10, <2>3, <2>7
<1>11. ASSUME NEW i \in 1 .. b + n PROVE Wide(K[i], z[i]) \/ z[i] = p[i]
  <2>1. CASE i <= b
    <3>1. i = 1 /\ b = 1
      BY <1>3, <1>11, <2>1
    <3> QED
      BY <1>1, <1>3, <1>5, <3>1
  <2>2. CASE i > b
    <3>1. PICK j \in 1 .. n : i = b + j
      <4>1. i - b \in 1 .. n /\ i = b + (i - b)
        BY <1>3, <1>11, <2>2
      <4> QED
        BY <4>1
    <3>2. Wide(ws[j], out[j]) \/ out[j] = p[b + j]
      BY <1>10
    <3> QED
      BY <1>8, <3>1, <3>2
  <2> QED
    BY <1>3, <1>11, <2>1, <2>2
<1> QED
  BY <1>1, <1>5, <1>7, <1>9, <1>11

(* and ResultArrives. *)
LEMMA ResultArrivesHolds == IInv => ResultArrives
<1> SUFFICES ASSUME IInv, stage = "done", fault \notin {"cut", "thrown"}, op /= "unknown"
             PROVE  LET status == IF op = "getcreds" THEN <<>> ELSE <<answer.result>>
                        kinds == [i \in DOMAIN status |-> "result"] \o written_output(op)
                        sent == status \o IF has_output(op, answer.result) THEN answer.out ELSE <<>>
                    IN /\ reply.how = "decoded" /\ Len(reply.values) = Len(sent)
                       /\ \A i \in DOMAIN sent :
                            Wide(kinds[i], sent[i]) \/ sent[i] = reply.values[i]
  BY DEF ResultArrives
<1>1. PICK o \in Types : o = op
  BY DEF IInv, TypeOK, Types
<1>2. PICK result, out : result = answer.result /\ out = answer.out
  OBVIOUS
<1>3. /\ reply.how = "decoded" /\ AnswerOK(o, result, out)
      /\ Decodes(reader, o, result, out) /\ reply.values = Payload(reader)
  BY <1>1, <1>2 DEF IInv, Done, Answered
<1>4. /\ Len(reply.values) = Len(Sent(o, result, out))
      /\ \A i \in DOMAIN Sent(o, result, out) :
           \/ Wide(SentKinds(o, result)[i], Sent(o, result, out)[i])
           \/ Sent(o, result, out)[i] = reply.values[i]
  BY <1>3, DecodesSent
<1> QED
  BY <1>1, <1>2, <1>3, <1>4, Zenon DEF Sent, SentKinds, StatusOf

(* Whatever the provider's file system answers, the caller of filesystem gets:
   its result and, if there is one, its output.                             *)
THEOREM ExchangeResultArrives == Spec => []ResultArrives
BY ResultArrivesHolds, ExchangeInvariant, PTL
=============================================================================
