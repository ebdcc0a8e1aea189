---------------------------- MODULE CodecProofs ----------------------------
(***************************************************************************)
(* Proofs about messagewriter and messagereader: a read takes bytes that   *)
(* are there or throws; what was written is read back, wherever it is in a *)
(* message; and what can be read of the beginning of a message is what the *)
(* whole message says.                                                     *)
(*                                                                         *)
(* Induction is over sets of numbers, so that no theorem with an operator  *)
(* as its parameter is needed: a step that holds for 0 and, with n, for    *)
(* n + 1 holds up to N (UpTo), as there is no least number without it.     *)
(***************************************************************************)
EXTENDS Codec, SequenceTheorems, WellFoundedInduction, TLAPS

(* Induction up to N, for sets: T is the set of numbers with the property. *)
LEMMA UpTo ==
  ASSUME NEW N \in Nat, NEW T, 0 \in T, \A n \in 0 .. N - 1 : n \in T => n + 1 \in T
  PROVE  \A n \in 0 .. N : n \in T
<1> DEFINE R == OpToRel(<, Nat)
           B == (0 .. N) \ T
<1>1. SUFFICES ASSUME B /= {} PROVE FALSE
  OBVIOUS
<1>2. IsWellFoundedOn(R, Nat)
  BY NatLessThanWellFounded
<1>3. B \subseteq Nat
  OBVIOUS
<1> HIDE DEF R, B
<1>4. PICK m \in B : \A k \in B : ~(<<k, m>> \in R)
  BY <1>1, <1>2, <1>3, WFMin
<1>5. \A k, l \in Nat : k < l => <<k, l>> \in R
  BY DEF R, OpToRel
<1>6. m \in 0 .. N /\ m \notin T /\ m /= 0
  BY <1>4 DEF B
<1>7. m - 1 \in 0 .. N - 1 /\ m - 1 \in Nat /\ m - 1 < m /\ m \in Nat
  BY <1>6
<1>8. m - 1 \notin T
  BY <1>6, <1>7
<1>9. m - 1 \in B
  BY <1>7, <1>8 DEF B
<1> QED
  BY <1>4, <1>5, <1>7, <1>9

(* A function that is defined by recursion on its argument exists. *)
IsRecursive(f, S, a, N, G) ==
    f \in [0 .. N -> S] /\ f[0] = a /\ \A n \in 1 .. N : f[n] = G[n][f[n - 1]]

(* Such a function exists, whatever the steps are. *)
LEMMA Recursion ==
  ASSUME NEW S, NEW a \in S, NEW N \in Nat, NEW G \in [1 .. N -> [S -> S]]
  PROVE  \E f : IsRecursive(f, S, a, N, G)
<1> DEFINE Good(n, f) == f[0] = a /\ \A k \in 1 .. n : f[k] = G[k][f[k - 1]]
           T == {n \in 0 .. N : \E f \in [0 .. n -> S] : Good(n, f)}
<1>1. 0 \in T
  <2> DEFINE f == [k \in 0 .. 0 |-> a]
  <2>1. f \in [0 .. 0 -> S] /\ Good(0, f)
    OBVIOUS
  <2>2. \E h \in [0 .. 0 -> S] : Good(0, h)
    <3> HIDE DEF f, Good
    <3> QED
      BY <2>1
  <2> QED
    BY <2>2
<1>2. ASSUME NEW n \in 0 .. N - 1, n \in T PROVE n + 1 \in T
  <2>1. PICK f \in [0 .. n -> S] : Good(n, f)
    BY <1>2
  <2> DEFINE g == [k \in 0 .. n + 1 |-> IF k = n + 1 THEN G[n + 1][f[n]] ELSE f[k]]
  <2>2. G[n + 1][f[n]] \in S
    <3>1. G[n + 1] \in [S -> S]
      OBVIOUS
    <3> QED
      BY <3>1
  <2>3. g \in [0 .. n + 1 -> S]
    BY <2>2
  <2>4. g[0] = a
    BY <2>1
  <2>5. ASSUME NEW k \in 1 .. n + 1 PROVE g[k] = G[k][g[k - 1]]
    <3>1. CASE k = n + 1
      BY <3>1
    <3>2. CASE k /= n + 1
      BY <2>1, <3>2
    <3> QED
      BY <3>1, <3>2
  <2>6. \E h \in [0 .. n + 1 -> S] : Good(n + 1, h)
    <3>1. Good(n + 1, g)
      BY <2>4, <2>5
    <3> HIDE DEF g, Good
    <3> QED
      BY <2>3, <3>1
  <2>7. n + 1 \in 0 .. N
    OBVIOUS
  <2> HIDE DEF Good
  <2> QED
    BY <2>6, <2>7
<1>3. \A n \in 0 .. N : n \in T
  <2> HIDE DEF T
  <2> QED
    BY <1>1, <1>2, UpTo
<1>4. PICK f \in [0 .. N -> S] : Good(N, f)
  BY <1>3
<1> QED
  BY <1>4 DEF IsRecursive

(* Its values have the type that each step preserves. *)
LEMMA RecursionType ==
  ASSUME NEW S, NEW N \in Nat, NEW c, c[0] \in S,
         \A n \in 1 .. N : c[n - 1] \in S => c[n] \in S
  PROVE  \A n \in 0 .. N : c[n] \in S
<1> DEFINE T == {n \in 0 .. N : c[n] \in S}
<1>1. 0 \in T
  OBVIOUS
<1>2. \A n \in 0 .. N - 1 : n \in T => n + 1 \in T
  OBVIOUS
<1>3. \A n \in 0 .. N : n \in T
  <2> HIDE DEF T
  <2> QED
    BY <1>1, <1>2, UpTo
<1> QED
  BY <1>3

(* The same for a step that keeps natural numbers. *)
LEMMA RecursionTypeNat ==
  ASSUME NEW K \in Nat, NEW c, c[0] \in Nat, \A n \in 1 .. K : c[n - 1] \in Nat => c[n] \in Nat
  PROVE  \A n \in 0 .. K : c[n] \in Nat
<1>1. \A S, N : c[0] \in S /\ N \in Nat /\ (\A n \in 1 .. N : c[n - 1] \in S => c[n] \in S) =>
                \A n \in 0 .. N : c[n] \in S
  BY RecursionType
<1> QED
  BY <1>1, Zenon

(* The bits of a number are the parities of what is left after each shift. *)
LEMMA WordShifts ==
  ASSUME NEW n \in Nat
  PROVE  \E f \in [0 .. 30 -> Nat] :
            /\ f[0] = n
            /\ \A i \in 1 .. 30 : f[i] = f[i - 1] \div 2
            /\ Word(n) = {i \in 0 .. 30 : f[i] % 2 = 1}
<1> DEFINE Is(f) == f = [i \in 0 .. 30 |-> IF i = 0 THEN n ELSE f[i - 1] \div 2]
           c == CHOOSE f : Is(f)
           G == [i \in 1 .. 30 |-> [m \in Nat |-> m \div 2]]
<1>1. PICK g : IsRecursive(g, Nat, n, 30, G)
  <2>1. G \in [1 .. 30 -> [Nat -> Nat]] /\ 30 \in Nat
    OBVIOUS
  <2> HIDE DEF G, Is, c
  <2> QED
    BY <2>1, Recursion, Zenon
<1>2. Is(g)
  <2>1. g \in [0 .. 30 -> Nat] /\ \A i \in 1 .. 30 : g[i - 1] \in Nat
    BY <1>1 DEF IsRecursive
  <2> QED
    BY <1>1, <2>1 DEF IsRecursive
<1>3. Is(c)
  <2> HIDE DEF Is
  <2> QED
    BY <1>2
<1>4. Word(n) = {i \in 0 .. 30 : c[i] % 2 = 1}
  BY DEF Word
<1> HIDE DEF c
<1>5. c[0] = n /\ \A i \in 1 .. 30 : c[i] = c[i - 1] \div 2
  BY <1>3
<1>6. \A i \in 0 .. 30 : c[i] \in Nat
  <2> HIDE DEF Is
  <2>1. c[0] \in Nat /\ \A i \in 1 .. 30 : c[i - 1] \in Nat => c[i] \in Nat
    BY <1>5
  <2> QED
    BY <2>1, RecursionTypeNat
<1>7. c \in [0 .. 30 -> Nat]
  BY <1>3, <1>6
<1> QED
  BY <1>4, <1>5, <1>7

(* The steps of Number, from the most significant bit down. *)
LEMMA NumberSteps ==
  ASSUME NEW w
  PROVE  \E f \in [0 .. 31 -> Nat] :
            /\ f[0] = 0
            /\ \A i \in 1 .. 31 : f[i] = 2 * f[i - 1] + (IF 31 - i \in w THEN 1 ELSE 0)
            /\ Number(w) = f[31]
<1> DEFINE Is(f) == f = [i \in 0 .. 31 |-> IF i = 0 THEN 0
                                           ELSE 2 * f[i - 1] + (IF 31 - i \in w THEN 1 ELSE 0)]
           c == CHOOSE f : Is(f)
           G == [i \in 1 .. 31 |-> [m \in Nat |-> 2 * m + (IF 31 - i \in w THEN 1 ELSE 0)]]
<1>1. PICK g : IsRecursive(g, Nat, 0, 31, G)
  <2>1. G \in [1 .. 31 -> [Nat -> Nat]] /\ 31 \in Nat /\ 0 \in Nat
    OBVIOUS
  <2> HIDE DEF G, Is, c
  <2> QED
    BY <2>1, Recursion, Zenon
<1>2. Is(g)
  <2>1. g \in [0 .. 31 -> Nat] /\ \A i \in 1 .. 31 : g[i - 1] \in Nat
    BY <1>1 DEF IsRecursive
  <2> QED
    BY <1>1, <2>1 DEF IsRecursive
<1>3. Is(c)
  <2> HIDE DEF Is
  <2> QED
    BY <1>2
<1>4. Number(w) = c[31]
  BY DEF Number
<1> HIDE DEF c
<1>5. c[0] = 0 /\ \A i \in 1 .. 31 : c[i] = 2 * c[i - 1] + (IF 31 - i \in w THEN 1 ELSE 0)
  BY <1>3
<1>6. \A i \in 0 .. 31 : c[i] \in Nat
  <2> HIDE DEF Is
  <2>1. c[0] \in Nat
    BY <1>5
  <2>2. ASSUME NEW i \in 1 .. 31, c[i - 1] \in Nat PROVE c[i] \in Nat
    <3>1. CASE 31 - i \in w
      BY <1>5, <2>2, <3>1
    <3>2. CASE 31 - i \notin w
      BY <1>5, <2>2, <3>2
    <3> QED
      BY <3>1, <3>2
  <2> QED
    BY <2>1, <2>2, RecursionTypeNat
<1>7. c \in [0 .. 31 -> Nat]
  BY <1>3, <1>6
<1> QED
  BY <1>4, <1>5, <1>7

(* A word is read as a natural number. *)
LEMMA NumberType ==
  ASSUME NEW w
  PROVE  Number(w) \in Nat
BY NumberSteps

(* Word gives 31 bits. *)
LEMMA WordType ==
  ASSUME NEW n \in Nat
  PROVE  Word(n) \subseteq 0 .. 30
BY WordShifts

(* Numbers up to 2^16, the sizes of strings and lists. *)
Small == {n \in Nat : n <= 65535}

(* A small number survives the way into a word and back. *)
LEMMA NumberOfWord ==
  ASSUME NEW n \in Small
  PROVE  Number(Word(n)) = n /\ Word(n) \subseteq 0 .. 15
<1>1. n \in Nat
  BY DEF Small
<1>2. PICK s \in [0 .. 30 -> Nat] :
         /\ s[0] = n
         /\ \A i \in 1 .. 30 : s[i] = s[i - 1] \div 2
         /\ Word(n) = {i \in 0 .. 30 : s[i] % 2 = 1}
  BY <1>1, WordShifts
<1>3. PICK a \in [0 .. 31 -> Nat] :
         /\ a[0] = 0
         /\ \A i \in 1 .. 31 : a[i] = 2 * a[i - 1] + (IF 31 - i \in Word(n) THEN 1 ELSE 0)
         /\ Number(Word(n)) = a[31]
  BY NumberSteps
<1>4. s[0] <= 65535
  <2>1. n <= 65535
    BY DEF Small
  <2> QED
    BY <1>2, <2>1
<1>5. s[4] <= 4095
  <2>1. s[1] <= 32767
    BY <1>2, <1>4
  <2>2. s[2] <= 16383
    BY <1>2, <2>1
  <2>3. s[3] <= 8191
    BY <1>2, <2>2
  <2> QED
    BY <1>2, <2>3
<1>6. s[8] <= 255
  <2>1. s[5] <= 2047
    BY <1>2, <1>5
  <2>2. s[6] <= 1023
    BY <1>2, <2>1
  <2>3. s[7] <= 511
    BY <1>2, <2>2
  <2> QED
    BY <1>2, <2>3
<1>7. s[12] <= 15
  <2>1. s[9] <= 127
    BY <1>2, <1>6
  <2>2. s[10] <= 63
    BY <1>2, <2>1
  <2>3. s[11] <= 31
    BY <1>2, <2>2
  <2> QED
    BY <1>2, <2>3
<1>8. s[16] = 0
  <2>1. s[13] <= 7
    BY <1>2, <1>7
  <2>2. s[14] <= 3
    BY <1>2, <2>1
  <2>3. s[15] <= 1
    BY <1>2, <2>2
  <2> QED
    BY <1>2, <2>3
<1>9. \A i \in 0 .. 14 : s[16 + i] = 0
  <2> DEFINE T == {i \in 0 .. 14 : s[16 + i] = 0}
  <2>1. 0 \in T
    BY <1>8
  <2>2. ASSUME NEW i \in 0 .. 14 - 1, i \in T PROVE i + 1 \in T
    <3>1. s[16 + i] = 0 /\ 16 + (i + 1) \in 1 .. 30 /\ (16 + (i + 1)) - 1 = 16 + i
      BY <2>2
    <3>2. s[16 + (i + 1)] = s[16 + i] \div 2
      BY <1>2, <3>1
    <3> QED
      BY <3>1, <3>2
  <2> HIDE DEF T
  <2>3. \A i \in 0 .. 14 : i \in T
    BY <2>1, <2>2, UpTo
  <2> QED
    BY <2>3 DEF T
<1>10. Word(n) \subseteq 0 .. 15
  <2>1. ASSUME NEW i \in 0 .. 30, i \notin 0 .. 15 PROVE s[i] = 0
    <3>1. i - 16 \in 0 .. 14 /\ 16 + (i - 16) = i
      BY <2>1
    <3> QED
      BY <1>9, <3>1
  <2> QED
    BY <1>2, <2>1
<1>11. \A i \in 0 .. 30 : a[i + 1] = s[30 - i]
  <2> DEFINE T == {i \in 0 .. 30 : a[i + 1] = s[30 - i]}
  <2>1. \A i \in 0 .. 30 : (IF i \in Word(n) THEN 1 ELSE 0) = s[i] % 2
    <3>1. \A i \in 0 .. 30 : s[i] \in Nat
      OBVIOUS
    <3>2. \A i \in 0 .. 30 : s[i] % 2 = 0 \/ s[i] % 2 = 1
      BY <3>1
    <3> QED
      BY <1>2, <3>2
  <2>2. 0 \in T
    <3>1. s[30] = 0
      <4>1. 14 \in 0 .. 14 /\ 16 + 14 = 30
        OBVIOUS
      <4> QED
        BY <1>9, <4>1
    <3>2. a[1] = 2 * a[0] + (s[30] % 2)
      BY <1>3, <2>1
    <3> QED
      BY <1>3, <3>1, <3>2
  <2>3. ASSUME NEW i \in 0 .. 30 - 1, i \in T PROVE i + 1 \in T
    <3>1. (i + 1) + 1 \in 1 .. 31 /\ ((i + 1) + 1) - 1 = i + 1 /\ 31 - ((i + 1) + 1) = 30 - (i + 1)
      OBVIOUS
    <3>2. a[(i + 1) + 1] = 2 * a[i + 1] + (s[30 - (i + 1)] % 2)
      <4>1. PICK j \in 1 .. 31 : j = (i + 1) + 1
        BY <3>1
      <4>2. a[j] = 2 * a[j - 1] + (IF 31 - j \in Word(n) THEN 1 ELSE 0)
        BY <1>3
      <4>3. 31 - j \in 0 .. 30
        OBVIOUS
      <4>4. (IF 31 - j \in Word(n) THEN 1 ELSE 0) = s[31 - j] % 2
        BY <2>1, <4>3
      <4> QED
        BY <3>1, <4>1, <4>2, <4>4
    <3>3. 30 - i \in 1 .. 30 /\ (30 - i) - 1 = 30 - (i + 1)
      OBVIOUS
    <3>4. s[30 - i] = s[30 - (i + 1)] \div 2
      BY <1>2, <3>3
    <3>5. a[i + 1] = s[30 - i]
      BY <2>3
    <3>6. s[30 - (i + 1)] \in Nat
      OBVIOUS
    <3>7. a[(i + 1) + 1] = s[30 - (i + 1)]
      BY <3>2, <3>4, <3>5, <3>6
    <3> QED
      BY <3>7
  <2> HIDE DEF T
  <2>4. \A i \in 0 .. 30 : i \in T
    BY <2>2, <2>3, UpTo
  <2> QED
    BY <2>4 DEF T
<1>12. a[31] = n
  <2>1. a[30 + 1] = s[30 - 30]
    BY <1>11
  <2> QED
    BY <1>2, <2>1
<1> QED
  BY <1>3, <1>10, <1>12

-----------------------------------------------------------------------------
(* Numbers of a fixed width. *)

(* The bytes of w are found in data after the first p. *)
Holds(data, p, w) == p + Len(w) <= Len(data) /\ \A j \in 1 .. Len(w) : data[p + j] = w[j]

(* A byte of a word is a byte. *)
LEMMA ByteType ==
  ASSUME NEW v, NEW k
  PROVE  Byte(v, k) \in Bytes
BY DEF Byte, Bytes

(* What write_u8, write_u32 and write_u64 append, most significant byte first. *)
LEMMA WriteFixed ==
  ASSUME NEW v
  PROVE  /\ write_u8(v) \in Seq(Bytes) /\ Len(write_u8(v)) = 1 /\ write_u8(v)[1] = Byte(v, 0)
         /\ write_u32(v) \in Seq(Bytes) /\ Len(write_u32(v)) = 4
         /\ \A k \in 1 .. 4 : write_u32(v)[k] = Byte(v, 4 - k)
         /\ write_u64(v) \in Seq(Bytes) /\ Len(write_u64(v)) = 8
         /\ \A k \in 1 .. 8 : write_u64(v)[k] = Byte(v, 8 - k)
<1>1. write_u8(v) \in Seq(Bytes) /\ Len(write_u8(v)) = 1 /\ write_u8(v)[1] = Byte(v, 0)
  BY ByteType DEF write_u8
<1>2. write_u32(v) \in Seq(Bytes) /\ Len(write_u32(v)) = 4
  /\ \A k \in 1 .. 4 : write_u32(v)[k] = Byte(v, 4 - k)
  BY ByteType DEF write_u32
<1>3. write_u64(v) \in Seq(Bytes) /\ Len(write_u64(v)) = 8
  /\ \A k \in 1 .. 8 : write_u64(v)[k] = Byte(v, 8 - k)
  BY ByteType DEF write_u64
<1> QED
  BY <1>1, <1>2, <1>3

(* The most significant byte comes first: from the bytes of a word a reader
   gets the word.                                                           *)
LEMMA BigEndianOfBytes ==
  ASSUME NEW r, NEW n \in Nat, NEW v \in SUBSET (0 .. 8 * n - 1),
         \A k \in 0 .. n - 1 : At(r, k) = Byte(v, (n - 1) - k)
  PROVE  BigEndian(r, n) = v
<1>1. BigEndian(r, n) \subseteq v
  <2>1. ASSUME NEW k \in 0 .. n - 1, NEW i \in At(r, k) PROVE 8 * (n - 1 - k) + i \in v
    BY <2>1 DEF Byte
  <2> QED
    BY <2>1 DEF BigEndian
<1>2. ASSUME NEW e \in v PROVE e \in BigEndian(r, n)
  <2>1. e \in Nat /\ e < 8 * n
    OBVIOUS
  <2>2. PICK q, i \in Nat : e = 8 * q + i /\ i \in 0 .. 7 /\ q \in Nat
    <3>1. e = 8 * (e \div 8) + (e % 8) /\ e % 8 \in 0 .. 7 /\ e \div 8 \in Nat
      BY <2>1
    <3> QED
      BY <3>1
  <2>3. q \in 0 .. n - 1
    BY <2>1, <2>2
  <2>4. (n - 1) - q \in 0 .. n - 1 /\ (n - 1) - ((n - 1) - q) = q
    BY <2>3
  <2>5. i \in At(r, (n - 1) - q)
    BY <2>2, <2>4 DEF Byte
  <2>6. 8 * (n - 1 - ((n - 1) - q)) + i = e
    BY <2>2, <2>3
  <2> QED
    BY <2>4, <2>5, <2>6 DEF BigEndian
<1> QED
  BY <1>1, <1>2

-----------------------------------------------------------------------------
(* Readers.  A read either throws or takes some bytes that are there, and
   appends one value.                                                       *)

Readers(V) == [data : Seq(Bytes), pos : Nat, ok : BOOLEAN, values : Seq(V)]

Took(r, s, n, v) == n \in Nat /\ r.pos + n <= Len(r.data) /\ s = Got(r, n, v)

(* An exception changes nothing but ok. *)
LEMMA ThrowType ==
  ASSUME NEW V, NEW r \in Readers(V)
  PROVE  /\ throw(r) \in Readers(V) /\ ~throw(r).ok
         /\ throw(r).data = r.data /\ throw(r).pos = r.pos /\ throw(r).values = r.values
BY DEF Readers, throw

(* Taking n bytes moves pos and appends one value. *)
LEMMA GotType ==
  ASSUME NEW V, NEW r \in Readers(V), NEW n \in Nat, NEW v \in V
  PROVE  /\ Got(r, n, v) \in Readers(V) /\ Got(r, n, v).ok = r.ok /\ Got(r, n, v).data = r.data
         /\ Got(r, n, v).pos = r.pos + n /\ Got(r, n, v).values = Append(r.values, v)
         /\ Last(Got(r, n, v).values) = v /\ Front(Got(r, n, v).values) = r.values
<1>1. /\ r.values \in Seq(V) /\ r.pos \in Nat /\ r.data \in Seq(Bytes) /\ r.ok \in BOOLEAN
      /\ r = [data |-> r.data, pos |-> r.pos, ok |-> r.ok, values |-> r.values]
  BY DEF Readers
<1>2. Append(r.values, v) \in Seq(V) /\ r.pos + n \in Nat
  BY <1>1, AppendProperties
<1>3. /\ Got(r, n, v) \in Readers(V) /\ Got(r, n, v).ok = r.ok /\ Got(r, n, v).data = r.data
      /\ Got(r, n, v).pos = r.pos + n /\ Got(r, n, v).values = Append(r.values, v)
  BY <1>1, <1>2 DEF Got, Readers
<1>4. Last(Append(r.values, v)) = v
  BY <1>1, AppendProperties DEF Last
<1>5. Front(Append(r.values, v)) = r.values
  <2>1. Len(Append(r.values, v)) = Len(r.values) + 1 /\ Len(r.values) \in Nat
        /\ \A i \in 1 .. Len(r.values) : Append(r.values, v)[i] = r.values[i] /\ r.values[i] \in V
    BY <1>1, AppendProperties, ElementOfSeq, LenProperties
  <2>2. Front(Append(r.values, v)) = SubSeq(Append(r.values, v), 1, Len(r.values))
    BY <2>1 DEF Front
  <2>3. /\ Front(Append(r.values, v)) \in Seq(V) /\ Len(Front(Append(r.values, v))) = Len(r.values)
        /\ \A i \in 1 .. Len(r.values) : Front(Append(r.values, v))[i] = r.values[i]
    BY <2>1, <2>2, SubSeqProperties
  <2> QED
    BY <1>1, <2>3, SeqEqual
<1> QED
  BY <1>3, <1>4, <1>5

(* read_fixed takes its bytes if they are there, and throws otherwise. *)
LEMMA FixedForm ==
  ASSUME NEW V, NEW r \in Readers(V), NEW n \in Nat, NEW v \in V
  PROVE  /\ InBounds(r, n) <=> r.pos + n <= Len(r.data)
         /\ InBounds(r, n) => read_fixed(r, n, v) = Got(r, n, v) /\ Took(r, read_fixed(r, n, v), n, v)
         /\ ~InBounds(r, n) => read_fixed(r, n, v) = throw(r)
<1>1. r.pos \in Nat /\ Len(r.data) \in Nat
  BY LenProperties DEF Readers
<1> QED
  BY <1>1 DEF InBounds, read_fixed, Took

(* The bytes at pos are read as a word. *)
LEMMA BigEndianType ==
  ASSUME NEW r, r.data \in Seq(Bytes), r.pos \in Nat, NEW n \in Nat
  PROVE  BigEndian(r, n) \in SUBSET Nat
<1>1. ASSUME NEW k \in 0 .. n - 1 PROVE At(r, k) \in SUBSET (0 .. 7)
  <2>1. CASE r.pos + k < Len(r.data)
    <3>1. r.pos + k + 1 \in 1 .. Len(r.data)
      BY <2>1, LenProperties
    <3>2. r.data[r.pos + k + 1] \in Bytes
      BY <3>1, ElementOfSeq
    <3> QED
      BY <2>1, <3>2 DEF At, Bytes
  <2>2. CASE ~(r.pos + k < Len(r.data))
    BY <2>2 DEF At
  <2> QED
    BY <2>1, <2>2
<1> QED
  BY <1>1 DEF BigEndian

(* A reader is what its four fields are. *)
LEMMA ReadersEqual ==
  ASSUME NEW V, NEW r \in Readers(V), NEW s \in Readers(V),
         r.data = s.data, r.pos = s.pos, r.ok = s.ok, r.values = s.values
  PROVE  r = s
BY DEF Readers

(* A reader of fewer values is one of more. *)
LEMMA ReadersMonotonic ==
  ASSUME NEW V, NEW W, V \subseteq W, NEW r \in Readers(V)
  PROVE  r \in Readers(W)
<1>1. r.values \in Seq(W)
  BY SeqMonotonic DEF Readers
<1> QED
  BY <1>1 DEF Readers

(* What a part of a sequence is made of. *)
LEMMA Slice ==
  ASSUME NEW S, NEW d \in Seq(S), NEW p \in Nat, NEW n \in Nat, p + n <= Len(d)
  PROVE  /\ SubSeq(d, p + 1, p + n) \in Seq(S) /\ Len(SubSeq(d, p + 1, p + n)) = n
         /\ \A j \in 1 .. n : SubSeq(d, p + 1, p + n)[j] = d[p + j]
<1>1. \A i \in p + 1 .. p + n : d[i] \in S
  BY ElementOfSeq, LenProperties
<1>2. /\ SubSeq(d, p + 1, p + n) \in Seq(S)
      /\ Len(SubSeq(d, p + 1, p + n)) = IF p + 1 <= p + n THEN (p + n) - (p + 1) + 1 ELSE 0
      /\ \A i \in 1 .. (p + n) - (p + 1) + 1 : SubSeq(d, p + 1, p + n)[i] = d[(p + 1) + i - 1]
  BY <1>1, SubSeqProperties
<1>3. (p + n) - (p + 1) + 1 = n /\ \A i \in 1 .. n : (p + 1) + i - 1 = p + i
  OBVIOUS
<1>4. Len(SubSeq(d, p + 1, p + n)) = n
  <2>1. CASE n = 0
    BY <2>1, <1>2
  <2>2. CASE n # 0
    BY <2>2, <1>2
  <2> QED
    BY <2>1, <2>2
<1>5. ASSUME NEW j \in 1 .. n
      PROVE  SubSeq(d, p + 1, p + n)[j] = d[p + j]
  BY <1>2, <1>3, <1>5
<1> QED
  BY <1>2, <1>4, <1>5, Zenon

(* A string is there if its size and as many bytes are. *)
SizeOf(r)     == Number(BigEndian(r, 4))
BytesThere(r) == BigEndian(r, 4) \subseteq 0 .. 15 /\ r.pos + (4 + SizeOf(r)) <= Len(r.data)
BytesOf(r)    == SubSeq(r.data, r.pos + 4 + 1, r.pos + 4 + SizeOf(r))

(* read_u32, which read_bytes and read_strings call first. *)
LEMMA U32Form ==
  ASSUME NEW V, NEW r \in Readers(V)
  PROVE  /\ r.pos + 4 <= Len(r.data) =>
              /\ read_u32(r) \in Readers(V \cup SUBSET Nat)
              /\ read_u32(r).ok = r.ok /\ read_u32(r).data = r.data /\ read_u32(r).pos = r.pos + 4
              /\ Last(read_u32(r).values) = BigEndian(r, 4) /\ Front(read_u32(r).values) = r.values
         /\ ~(r.pos + 4 <= Len(r.data)) => read_u32(r) = throw(r)
<1> DEFINE W == V \cup SUBSET Nat
           size == BigEndian(r, 4)
<1>1. r \in Readers(W)
  BY ReadersMonotonic
<1>2. size \in W
  <2>1. r.pos \in Nat /\ r.data \in Seq(Bytes)
    BY DEF Readers
  <2> QED
    BY <2>1, BigEndianType
<1>3. read_u32(r) = read_fixed(r, 4, size)
  BY DEF read_u32
<1> HIDE DEF W, size
<1>4. 4 \in Nat
  OBVIOUS
<1>5. CASE r.pos + 4 <= Len(r.data)
  <2>1. read_u32(r) = Got(r, 4, size)
    BY <1>1, <1>2, <1>3, <1>4, <1>5, FixedForm
  <2> QED
    BY <1>1, <1>2, <1>4, <1>5, <2>1, GotType DEF W, size
<1>6. CASE ~(r.pos + 4 <= Len(r.data))
  BY <1>1, <1>2, <1>3, <1>4, <1>6, FixedForm
<1> QED
  BY <1>5, <1>6

(* The bytes that read_bytes returns if they are there. *)
LEMMA BytesSlice ==
  ASSUME NEW V, NEW r \in Readers(V)
  PROVE  /\ SizeOf(r) \in Nat
         /\ BytesThere(r) => /\ BytesOf(r) \in Seq(Bytes) /\ Len(BytesOf(r)) = SizeOf(r)
                             /\ \A j \in 1 .. SizeOf(r) : BytesOf(r)[j] = r.data[r.pos + 4 + j]
<1>1. SizeOf(r) \in Nat
  BY NumberType DEF SizeOf
<1>2. ASSUME BytesThere(r)
      PROVE  /\ BytesOf(r) \in Seq(Bytes) /\ Len(BytesOf(r)) = SizeOf(r)
             /\ \A j \in 1 .. SizeOf(r) : BytesOf(r)[j] = r.data[r.pos + 4 + j]
  <2>1. PICK d \in Seq(Bytes) : d = r.data
    BY DEF Readers
  <2>2. PICK p \in Nat : p = r.pos + 4
    BY DEF Readers
  <2>3. PICK m \in Nat : m = SizeOf(r)
    BY <1>1
  <2>4. p + m <= Len(d)
    <3>1. r.pos \in Nat /\ Len(d) \in Nat
      BY LenProperties DEF Readers
    <3> QED
      BY <1>2, <2>1, <2>2, <2>3, <3>1 DEF BytesThere
  <2>5. /\ SubSeq(d, p + 1, p + m) \in Seq(Bytes) /\ Len(SubSeq(d, p + 1, p + m)) = m
        /\ \A j \in 1 .. m : SubSeq(d, p + 1, p + m)[j] = d[p + j]
    BY <2>4, Slice
  <2>6. BytesOf(r) = SubSeq(d, p + 1, p + m)
    BY <2>1, <2>2, <2>3 DEF BytesOf
  <2> QED
    BY <2>1, <2>2, <2>3, <2>5, <2>6
<1> QED
  BY <1>1, <1>2

(* read_bytes replaces the size it has read by the bytes. *)
LEMMA BytesRecord ==
  ASSUME NEW V, NEW r \in Readers(V), Seq(Bytes) \subseteq V, BytesThere(r), NEW b \in Seq(Bytes)
  PROVE  [read_u32(r) EXCEPT !.pos = @ + SizeOf(r), !.values = Append(Front(@), b)]
             = Got(r, 4 + SizeOf(r), b)
<1> DEFINE W == V \cup SUBSET Nat
<1>1. r \in Readers(W)
  BY ReadersMonotonic
<1>2. PICK n \in Nat : n = SizeOf(r)
  BY BytesSlice
<1>3. r.pos \in Nat /\ Len(r.data) \in Nat /\ r.values \in Seq(W)
  BY <1>1, LenProperties DEF Readers
<1>4. r.pos + 4 <= Len(r.data)
  BY <1>2, <1>3 DEF BytesThere
<1>5. PICK g : g = read_u32(r)
  OBVIOUS
<1>6. g \in Readers(W) /\ g.ok = r.ok /\ g.data = r.data /\ g.pos = r.pos + 4 /\ Front(g.values) = r.values
  BY <1>4, <1>5, U32Form
<1>7. b \in W
  OBVIOUS
<1> DEFINE h == [g EXCEPT !.pos = @ + n, !.values = Append(Front(@), b)]
<1>8. /\ h \in Readers(W) /\ h.ok = r.ok /\ h.data = r.data /\ h.pos = r.pos + (4 + n)
      /\ h.values = Append(r.values, b)
  <2> HIDE DEF W
  <2>1. Append(r.values, b) \in Seq(W)
    BY <1>3, <1>7, AppendProperties
  <2>2. r.pos + 4 + n \in Nat /\ r.pos + 4 + n = r.pos + (4 + n)
    BY <1>2, <1>3
  <2> QED
    BY <1>6, <2>1, <2>2 DEF Readers
<1>9. /\ Got(r, 4 + n, b) \in Readers(W) /\ Got(r, 4 + n, b).ok = r.ok
      /\ Got(r, 4 + n, b).data = r.data /\ Got(r, 4 + n, b).pos = r.pos + (4 + n)
      /\ Got(r, 4 + n, b).values = Append(r.values, b)
  <2> HIDE DEF W
  <2>1. 4 + n \in Nat
    OBVIOUS
  <2> QED
    BY <1>1, <1>7, <2>1, GotType
<1>10. h = Got(r, 4 + n, b)
  <2> HIDE DEF W, h
  <2> QED
    BY <1>8, <1>9, ReadersEqual
<1> QED
  BY <1>2, <1>5, <1>10

(* read_bytes takes its size and its bytes, or throws. *)
LEMMA BytesForm ==
  ASSUME NEW V, NEW r \in Readers(V), r.ok = TRUE, Seq(Bytes) \subseteq V
  PROVE  /\ BytesThere(r) => read_bytes(r) = Got(r, 4 + SizeOf(r), BytesOf(r))
         /\ ~BytesThere(r) => read_bytes(r) = throw(r)
<1>1. r.pos \in Nat /\ Len(r.data) \in Nat /\ SizeOf(r) \in Nat
  BY LenProperties, BytesSlice DEF Readers
<1> DEFINE s == read_u32(r)
<1>2. ASSUME BytesThere(r) PROVE read_bytes(r) = Got(r, 4 + SizeOf(r), BytesOf(r))
  <2>1. r.pos + 4 + SizeOf(r) <= Len(r.data) /\ r.pos + 4 <= Len(r.data) /\ BigEndian(r, 4) \subseteq 0 .. 15
    BY <1>1, <1>2 DEF BytesThere
  <2>2. s.ok = TRUE /\ s.data = r.data /\ s.pos = r.pos + 4 /\ Last(s.values) = BigEndian(r, 4)
    BY <2>1, U32Form
  <2>3. Number(Last(s.values)) = SizeOf(r) /\ s.pos + SizeOf(r) <= Len(s.data)
        /\ SubSeq(s.data, s.pos + 1, s.pos + SizeOf(r)) = BytesOf(r)
    BY <2>1, <2>2 DEF SizeOf, BytesOf
  <2>4. read_bytes(r) = [s EXCEPT !.pos = @ + SizeOf(r), !.values = Append(Front(@), BytesOf(r))]
    <3> HIDE DEF s
    <3> QED
      BY <2>1, <2>2, <2>3 DEF read_bytes, s
  <2> QED
    BY <1>2, <2>4, BytesRecord, BytesSlice
<1>3. ASSUME ~BytesThere(r) PROVE read_bytes(r) = throw(r)
  <2> DEFINE big == [s EXCEPT !.pos = @ + Number(Last(s.values)),
                              !.values = Append(Front(@), SubSeq(s.data, s.pos + 1,
                                                                 s.pos + Number(Last(s.values))))]
  <2>1. read_bytes(r) = IF ~s.ok \/ ~(Last(s.values) \subseteq 0 .. 15) THEN throw(r)
                        ELSE IF s.pos + Number(Last(s.values)) <= Len(s.data) THEN big ELSE throw(r)
    BY DEF read_bytes
  <2> HIDE DEF big
  <2>2. CASE ~(r.pos + 4 <= Len(r.data))
    <3>1. s = throw(r)
      BY <2>2, U32Form
    <3>2. ~s.ok
      BY <3>1, ThrowType
    <3> HIDE DEF s
    <3> QED
      BY <2>1, <3>2
  <2>3. CASE r.pos + 4 <= Len(r.data)
    <3>1. s.data = r.data /\ s.pos = r.pos + 4 /\ Last(s.values) = BigEndian(r, 4)
      BY <2>3, U32Form
    <3> HIDE DEF s
    <3>2. CASE ~(BigEndian(r, 4) \subseteq 0 .. 15)
      BY <2>1, <3>1, <3>2
    <3>3. CASE BigEndian(r, 4) \subseteq 0 .. 15
      <4>1. SizeOf(r) = Number(Last(s.values))
        BY <3>1 DEF SizeOf
      <4>2. ~(r.pos + (4 + SizeOf(r)) <= Len(r.data))
        BY <1>3, <3>3 DEF BytesThere
      <4>3. ~(s.pos + SizeOf(r) <= Len(s.data))
        BY <1>1, <3>1, <4>2
      <4> QED
        BY <2>1, <4>1, <4>3
    <3> QED
      BY <3>2, <3>3
  <2> QED
    BY <2>2, <2>3
<1> QED
  BY <1>2, <1>3

(* A read that has taken bytes is within the message. *)
LEMMA TookType ==
  ASSUME NEW V, NEW r \in Readers(V), NEW s, NEW n, NEW v \in V, Took(r, s, n, v)
  PROVE  /\ s \in Readers(V) /\ s.ok = r.ok /\ s.data = r.data /\ s.values = Append(r.values, v)
         /\ s.pos = r.pos + n /\ r.pos <= s.pos /\ s.pos <= Len(s.data)
<1>1. n \in Nat /\ r.pos \in Nat /\ s = Got(r, n, v) /\ r.pos + n <= Len(r.data)
  BY DEF Took, Readers
<1>2. /\ Got(r, n, v) \in Readers(V) /\ Got(r, n, v).ok = r.ok /\ Got(r, n, v).data = r.data
      /\ Got(r, n, v).pos = r.pos + n /\ Got(r, n, v).values = Append(r.values, v)
  BY <1>1, GotType
<1>3. r.pos <= r.pos + n
  BY <1>1
<1> QED
  BY <1>1, <1>2, <1>3

(* Reading goes forward, and not beyond the end. *)
Follows(r, s) == s.data = r.data /\ r.pos <= s.pos /\ (r.pos <= Len(r.data) => s.pos <= Len(s.data))

(* A step of read_strings stays within the message. *)
LEMMA BytesNext ==
  ASSUME NEW V, NEW r \in Readers(V), Seq(Bytes) \subseteq V
  PROVE  read_next(r) \in Readers(V) /\ Follows(r, read_next(r))
<1>0. r.pos \in Nat
  BY DEF Readers
<1>1. CASE r.ok = TRUE /\ BytesThere(r)
  <2>1. read_next(r) = Got(r, 4 + SizeOf(r), BytesOf(r))
    BY <1>1, BytesForm DEF read_next
  <2>2. BytesOf(r) \in V /\ 4 + SizeOf(r) \in Nat
    BY <1>1, BytesSlice
  <2>3. r.pos + (4 + SizeOf(r)) <= Len(r.data)
    BY <1>1 DEF BytesThere
  <2>4. Took(r, read_next(r), 4 + SizeOf(r), BytesOf(r))
    BY <2>1, <2>2, <2>3 DEF Took
  <2> QED
    BY <2>2, <2>4, TookType DEF Follows
<1>2. CASE r.ok = TRUE /\ ~BytesThere(r)
  <2>1. read_next(r) = throw(r)
    BY <1>2, BytesForm DEF read_next
  <2> QED
    BY <1>0, <2>1, ThrowType DEF Follows
<1>3. CASE r.ok # TRUE
  <2>1. r.ok = FALSE
    BY <1>3 DEF Readers
  <2>2. read_next(r) = r
    BY <2>1 DEF read_next
  <2> QED
    BY <1>0, <2>2 DEF Follows
<1> QED
  BY <1>1, <1>2, <1>3

(* The readers between the strings of a list. *)
StringsFrom(r) == [data |-> r.data, pos |-> r.pos + 4, ok |-> TRUE, values |-> <<>>]

StringReaders(f, r, n) ==
    /\ f \in [0 .. n -> Readers(Seq(Bytes))]
    /\ f[0] = StringsFrom(r)
    /\ \A i \in 1 .. n : f[i] = read_next(f[i - 1])

(* The readers that read_strings goes through, one per string. *)
LEMMA StringsSteps ==
  ASSUME NEW V, NEW r \in Readers(V), r.ok = TRUE, r.pos + 4 <= Len(r.data)
  PROVE  \E f : /\ StringReaders(f, r, SizeOf(r))
                /\ read_strings(r) =
                     IF ~(BigEndian(r, 4) \subseteq 0 .. 15) \/ ~f[SizeOf(r)].ok THEN throw(r)
                     ELSE [f[SizeOf(r)] EXCEPT !.values = Append(r.values, f[SizeOf(r)].values)]
<1>1. PICK n \in Nat : n = SizeOf(r)
  BY BytesSlice
<1>2. PICK s : s = read_u32(r)
  OBVIOUS
<1>3. /\ s \in Readers(V \cup SUBSET Nat) /\ s.data = r.data
      /\ s.pos = r.pos + 4 /\ Last(s.values) = BigEndian(r, 4)
  BY <1>2, U32Form
<1>4. s.ok = TRUE
  BY <1>2, U32Form
<1>5. PICK a : a = [s EXCEPT !.values = <<>>]
  OBVIOUS
<1>6. a = StringsFrom(r)
  <2>1. a = [data |-> s.data, pos |-> s.pos, ok |-> s.ok, values |-> <<>>]
    BY <1>3, <1>5 DEF Readers
  <2> QED
    BY <1>3, <1>4, <2>1 DEF StringsFrom
<1>7. a \in Readers(Seq(Bytes))
  <2>1. r.data \in Seq(Bytes) /\ r.pos + 4 \in Nat /\ <<>> \in Seq(Seq(Bytes)) /\ TRUE \in BOOLEAN
    BY DEF Readers
  <2> QED
    BY <1>6, <2>1 DEF StringsFrom, Readers
<1> DEFINE Is(f) == f = [i \in 0 .. n |-> IF i = 0 THEN a ELSE read_next(f[i - 1])]
           c == CHOOSE f : Is(f)
           G == [i \in 1 .. n |-> [t \in Readers(Seq(Bytes)) |-> read_next(t)]]
<1>8. \A t \in Readers(Seq(Bytes)) : read_next(t) \in Readers(Seq(Bytes))
  BY BytesNext
<1>9. PICK g : IsRecursive(g, Readers(Seq(Bytes)), a, n, G)
  <2>1. G \in [1 .. n -> [Readers(Seq(Bytes)) -> Readers(Seq(Bytes))]]
    BY <1>8
  <2> HIDE DEF G, Is, c
  <2> QED
    BY <1>7, <2>1, Recursion, Zenon
<1>10. Is(g)
  <2>1. g \in [0 .. n -> Readers(Seq(Bytes))]
    BY <1>9 DEF IsRecursive
  <2>2. \A i \in 1 .. n : g[i - 1] \in Readers(Seq(Bytes))
    BY <2>1
  <2>3. \A i \in 1 .. n : g[i] = read_next(g[i - 1])
    BY <1>9, <2>2 DEF IsRecursive
  <2>4. g[0] = a
    BY <1>9 DEF IsRecursive
  <2> HIDE DEF G
  <2> QED
    BY <2>1, <2>3, <2>4
<1>11. Is(c)
  <2> HIDE DEF Is
  <2> QED
    BY <1>10
<1>12. read_strings(r) = IF ~s.ok \/ ~(Last(s.values) \subseteq 0 .. 15) \/ ~c[n].ok THEN throw(r)
                         ELSE [c[n] EXCEPT !.values = Append(r.values, c[n].values)]
  <2>1. n = Number(Last(s.values))
    BY <1>1, <1>3 DEF SizeOf
  <2> QED
    BY <1>2, <1>5, <2>1 DEF read_strings
<1> HIDE DEF c
<1>13. c[0] = a /\ \A i \in 1 .. n : c[i] = read_next(c[i - 1])
  BY <1>11
<1>14. \A i \in 0 .. n : c[i] \in Readers(Seq(Bytes))
  <2> HIDE DEF Is
  <2>1. c[0] \in Readers(Seq(Bytes))
    BY <1>7, <1>13
  <2>2. \A i \in 1 .. n : c[i - 1] \in Readers(Seq(Bytes)) => c[i] \in Readers(Seq(Bytes))
    BY <1>8, <1>13
  <2> QED
    BY <2>1, <2>2, RecursionType
<1>15. c \in [0 .. n -> Readers(Seq(Bytes))]
  BY <1>11, <1>14
<1>16. StringReaders(c, r, n)
  BY <1>6, <1>13, <1>15 DEF StringReaders
<1>17. read_strings(r) =
          IF ~(BigEndian(r, 4) \subseteq 0 .. 15) \/ ~c[n].ok THEN throw(r)
          ELSE [c[n] EXCEPT !.values = Append(r.values, c[n].values)]
  BY <1>3, <1>4, <1>12
<1> QED
  BY <1>1, <1>16, <1>17

(* Without a count, read_strings throws. *)
LEMMA StringsNoBytes ==
  ASSUME NEW V, NEW r \in Readers(V), ~(r.pos + 4 <= Len(r.data))
  PROVE  read_strings(r) = throw(r)
<1> DEFINE s == read_u32(r)
           all == (CHOOSE f : f = [i \in 0 .. Number(Last(s.values)) |->
                     IF i = 0 THEN [s EXCEPT !.values = <<>>] ELSE read_next(f[i - 1])])[Number(Last(s.values))]
           big == [all EXCEPT !.values = Append(r.values, all.values)]
<1>1. read_strings(r) = IF ~s.ok \/ ~(Last(s.values) \subseteq 0 .. 15) \/ ~all.ok THEN throw(r) ELSE big
  BY DEF read_strings
<1>2. s = throw(r)
  BY U32Form
<1>3. ~s.ok
  BY <1>2, ThrowType
<1> HIDE DEF s, all, big
<1> QED
  BY <1>1, <1>3

(* The strings become one value of the outer reader. *)
LEMMA StringsRecord ==
  ASSUME NEW V, NEW r \in Readers(V), Seq(Seq(Bytes)) \subseteq V,
         NEW e \in Readers(Seq(Bytes)), e.data = r.data, e.ok = r.ok, r.pos <= e.pos, e.pos <= Len(r.data)
  PROVE  Took(r, [e EXCEPT !.values = Append(r.values, e.values)], e.pos - r.pos, e.values)
<1>1. r.pos \in Nat /\ e.pos \in Nat /\ e.values \in Seq(Seq(Bytes)) /\ r.values \in Seq(V)
  BY DEF Readers
<1>2. PICK n \in Nat : n = e.pos - r.pos
  BY <1>1
<1>3. e.pos = r.pos + n
  BY <1>1, <1>2
<1>4. e.values \in V
  BY <1>1
<1>5. Append(r.values, e.values) \in Seq(V)
  BY <1>1, <1>4, AppendProperties
<1> DEFINE h == [e EXCEPT !.values = Append(r.values, e.values)]
<1>6. /\ h \in Readers(V) /\ h.data = r.data /\ h.pos = r.pos + n
      /\ h.ok = r.ok /\ h.values = Append(r.values, e.values)
  BY <1>3, <1>5 DEF Readers
<1>7. /\ Got(r, n, e.values) \in Readers(V) /\ Got(r, n, e.values).ok = r.ok
      /\ Got(r, n, e.values).data = r.data
      /\ Got(r, n, e.values).pos = r.pos + n /\ Got(r, n, e.values).values = Append(r.values, e.values)
  BY <1>4, GotType
<1>8. h = Got(r, n, e.values)
  <2> HIDE DEF h
  <2> QED
    BY <1>6, <1>7, ReadersEqual
<1> QED
  BY <1>2, <1>3, <1>8 DEF Took

(* read_strings takes a list of strings, or throws. *)
LEMMA StringsForm ==
  ASSUME NEW V, NEW r \in Readers(V), r.ok = TRUE, Seq(Seq(Bytes)) \subseteq V
  PROVE  \/ read_strings(r) = throw(r)
         \/ \E n, v : v \in Seq(Seq(Bytes)) /\ Took(r, read_strings(r), n, v)
<1>1. CASE ~(r.pos + 4 <= Len(r.data))
  BY <1>1, StringsNoBytes
<1>2. CASE r.pos + 4 <= Len(r.data)
  <2>1. PICK n \in Nat : n = SizeOf(r)
    BY BytesSlice
  <2>2. PICK f : /\ StringReaders(f, r, n)
                 /\ read_strings(r) = IF ~(BigEndian(r, 4) \subseteq 0 .. 15) \/ ~f[n].ok THEN throw(r)
                                      ELSE [f[n] EXCEPT !.values = Append(r.values, f[n].values)]
    BY <1>2, <2>1, StringsSteps
  <2>3. r.pos \in Nat /\ Len(r.data) \in Nat
    BY LenProperties DEF Readers
  <2> DEFINE S == {t \in Readers(Seq(Bytes)) : t.data = r.data /\ r.pos <= t.pos /\ t.pos <= Len(r.data)}
  <2>4. f[n] \in S
    <3>1. f[0] \in S
      <4>1. f[0] \in Readers(Seq(Bytes)) /\ f[0] = StringsFrom(r)
        BY <2>1, <2>2 DEF StringReaders
      <4>2. f[0].data = r.data /\ f[0].pos = r.pos + 4
        BY <4>1 DEF StringsFrom
      <4> QED
        BY <1>2, <2>3, <4>1, <4>2
    <3>2. ASSUME NEW i \in 1 .. n, f[i - 1] \in S PROVE f[i] \in S
      <4>1. f[i] = read_next(f[i - 1])
        BY <2>2 DEF StringReaders
      <4>2. f[i] \in Readers(Seq(Bytes)) /\ Follows(f[i - 1], f[i])
        BY <3>2, <4>1, BytesNext
      <4>3. f[i].pos \in Nat /\ f[i - 1].pos \in Nat
        BY <3>2, <4>2 DEF Readers
      <4>4. f[i].data = r.data /\ f[i - 1].pos <= f[i].pos /\ f[i].pos <= Len(r.data) /\ r.pos <= f[i - 1].pos
        BY <3>2, <4>2 DEF Follows
      <4> QED
        BY <2>3, <4>2, <4>3, <4>4
    <3> HIDE DEF S
    <3>3. \A i \in 0 .. n : f[i] \in S
      BY <3>1, <3>2, RecursionType
    <3> QED
      BY <2>1, <3>3
  <2>5. PICK e : e = f[n]
    OBVIOUS
  <2>6. e \in Readers(Seq(Bytes)) /\ e.data = r.data /\ r.pos <= e.pos /\ e.pos <= Len(r.data)
    BY <2>4, <2>5
  <2>7. CASE e.ok = TRUE /\ BigEndian(r, 4) \subseteq 0 .. 15
    <3>1. Took(r, [e EXCEPT !.values = Append(r.values, e.values)], e.pos - r.pos, e.values)
      BY <2>6, <2>7, StringsRecord
    <3>2. e.values \in Seq(Seq(Bytes))
      BY <2>6 DEF Readers
    <3>3. read_strings(r) = [e EXCEPT !.values = Append(r.values, e.values)]
      BY <2>2, <2>5, <2>7
    <3> QED
      BY <3>1, <3>2, <3>3
  <2>8. CASE e.ok # TRUE \/ ~(BigEndian(r, 4) \subseteq 0 .. 15)
    <3>1. e.ok # TRUE => e.ok = FALSE
      BY <2>6 DEF Readers
    <3> DEFINE big == [f[n] EXCEPT !.values = Append(r.values, f[n].values)]
    <3>2. read_strings(r) = IF ~(BigEndian(r, 4) \subseteq 0 .. 15) \/ ~f[n].ok THEN throw(r) ELSE big
      BY <2>2
    <3> HIDE DEF big
    <3>3. read_strings(r) = throw(r)
      BY <2>5, <2>8, <3>1, <3>2
    <3> QED
      BY <3>3
  <2> QED
    BY <2>7, <2>8
<1> QED
  BY <1>1, <1>2

-----------------------------------------------------------------------------
(* What can be read of the beginning of a message is what can be read of the
   message: q is r, but for more data.                                      *)

Twin(r, q) == q.pos = r.pos /\ q.ok = r.ok /\ q.values = r.values /\ Holds(q.data, 0, r.data)

(* The same word is found in both messages. *)
LEMMA TwinBigEndian ==
  ASSUME NEW V, NEW r \in Readers(V), NEW q \in Readers(V), Twin(r, q),
         NEW n \in Nat, r.pos + n <= Len(r.data)
  PROVE  BigEndian(q, n) = BigEndian(r, n) /\ q.pos + n <= Len(q.data)
<1>1. r.pos \in Nat /\ Len(r.data) \in Nat /\ Len(q.data) \in Nat /\ q.pos = r.pos
  BY LenProperties DEF Readers, Twin
<1>2. Len(r.data) <= Len(q.data) /\ \A j \in 1 .. Len(r.data) : q.data[0 + j] = r.data[j]
  BY <1>1 DEF Twin, Holds
<1>3. ASSUME NEW k \in 0 .. n - 1 PROVE At(q, k) = At(r, k)
  <2>1. r.pos + k + 1 \in 1 .. Len(r.data) /\ r.pos + k < Len(r.data) /\ r.pos + k < Len(q.data)
        /\ 0 + (r.pos + k + 1) = r.pos + k + 1
    BY <1>1, <1>2
  <2>2. q.data[r.pos + k + 1] = r.data[r.pos + k + 1]
    BY <1>2, <2>1
  <2> QED
    BY <1>1, <2>1, <2>2 DEF At
<1>4. BigEndian(q, n) = BigEndian(r, n)
  BY <1>3 DEF BigEndian
<1> QED
  BY <1>1, <1>2, <1>4

(* Taking the same bytes keeps the two readers alike. *)
LEMMA TwinGot ==
  ASSUME NEW V, NEW r \in Readers(V), NEW q \in Readers(V), Twin(r, q), NEW n \in Nat, NEW v \in V
  PROVE  Twin(Got(r, n, v), Got(q, n, v))
<1>1. /\ Got(r, n, v).ok = r.ok /\ Got(r, n, v).data = r.data
      /\ Got(r, n, v).pos = r.pos + n /\ Got(r, n, v).values = Append(r.values, v)
  BY GotType
<1>2. /\ Got(q, n, v).ok = q.ok /\ Got(q, n, v).data = q.data
      /\ Got(q, n, v).pos = q.pos + n /\ Got(q, n, v).values = Append(q.values, v)
  BY GotType
<1> QED
  BY <1>1, <1>2 DEF Twin

(* So does reading a field of a fixed size that is there, *)
LEMMA TwinFixed ==
  ASSUME NEW V, NEW r \in Readers(V), NEW q \in Readers(V), Twin(r, q), r.ok = TRUE,
         NEW n \in Nat, NEW v \in V, NEW w \in V,
         r.pos + n <= Len(r.data) => v = w, read_fixed(r, n, v).ok
  PROVE  Twin(read_fixed(r, n, v), read_fixed(q, n, w))
<1>1. r.pos + n <= Len(r.data) /\ read_fixed(r, n, v) = Got(r, n, v)
  BY FixedForm, ThrowType
<1>2. read_fixed(q, n, v) = Got(q, n, v)
  BY <1>1, FixedForm, TwinBigEndian
<1> QED
  BY <1>1, <1>2, TwinGot

(* reading bytes, *)
LEMMA TwinBytes ==
  ASSUME NEW V, NEW r \in Readers(V), NEW q \in Readers(V), Twin(r, q), r.ok = TRUE,
         Seq(Bytes) \subseteq V, read_bytes(r).ok
  PROVE  Twin(read_bytes(r), read_bytes(q))
<1>1. BytesThere(r) /\ read_bytes(r) = Got(r, 4 + SizeOf(r), BytesOf(r))
  BY BytesForm, ThrowType
<1>2. r.pos \in Nat /\ Len(r.data) \in Nat /\ Len(q.data) \in Nat /\ SizeOf(r) \in Nat /\ q.pos = r.pos
  BY LenProperties, BytesSlice DEF Readers, Twin
<1>3. r.pos + 4 <= Len(r.data) /\ r.pos + (4 + SizeOf(r)) <= Len(r.data) /\ BigEndian(r, 4) \subseteq 0 .. 15
  <2>1. r.pos + (4 + SizeOf(r)) <= Len(r.data) /\ BigEndian(r, 4) \subseteq 0 .. 15
    BY <1>1 DEF BytesThere
  <2>2. r.pos + 4 <= r.pos + (4 + SizeOf(r)) /\ r.pos + 4 \in Nat /\ r.pos + (4 + SizeOf(r)) \in Nat
    BY <1>2
  <2> QED
    BY <1>2, <2>1, <2>2
<1>4. BigEndian(q, 4) = BigEndian(r, 4)
  BY <1>3, TwinBigEndian
<1>5. SizeOf(q) = SizeOf(r)
  BY <1>4 DEF SizeOf
<1>6. Len(r.data) <= Len(q.data) /\ \A j \in 1 .. Len(r.data) : q.data[j] = r.data[j]
  BY <1>2 DEF Twin, Holds
<1>7. BytesThere(q)
  BY <1>2, <1>3, <1>4, <1>5, <1>6 DEF BytesThere
<1>8. BytesOf(q) = BytesOf(r)
  <2>1. /\ BytesOf(r) \in Seq(Bytes) /\ Len(BytesOf(r)) = SizeOf(r)
        /\ \A j \in 1 .. SizeOf(r) : BytesOf(r)[j] = r.data[r.pos + 4 + j]
    BY <1>1, BytesSlice
  <2>2. /\ BytesOf(q) \in Seq(Bytes) /\ Len(BytesOf(q)) = SizeOf(r)
        /\ \A j \in 1 .. SizeOf(r) : BytesOf(q)[j] = q.data[r.pos + 4 + j]
    BY <1>2, <1>5, <1>7, BytesSlice
  <2>3. \A j \in 1 .. SizeOf(r) : r.pos + 4 + j \in 1 .. Len(r.data)
    BY <1>2, <1>3
  <2>4. \A j \in 1 .. SizeOf(r) : BytesOf(q)[j] = BytesOf(r)[j]
    BY <1>6, <2>1, <2>2, <2>3
  <2> QED
    BY <2>1, <2>2, <2>4, SeqEqual
<1>9. read_bytes(q) = Got(q, 4 + SizeOf(r), BytesOf(r))
  <2>1. q.ok = TRUE
    BY DEF Twin
  <2> QED
    BY <1>5, <1>7, <1>8, <2>1, BytesForm
<1>10. 4 + SizeOf(r) \in Nat /\ BytesOf(r) \in V
  BY <1>1, <1>2, BytesSlice
<1> QED
  BY <1>1, <1>9, <1>10, TwinGot

(* and reading a list of strings. *)
LEMMA TwinStrings ==
  ASSUME NEW V, NEW r \in Readers(V), NEW q \in Readers(V), Twin(r, q), r.ok = TRUE,
         Seq(Seq(Bytes)) \subseteq V, read_strings(r).ok
  PROVE  Twin(read_strings(r), read_strings(q))
<1> DEFINE B == Seq(Bytes)
<1>1. r.pos + 4 <= Len(r.data)
  <2>1. ~throw(r).ok
    BY ThrowType
  <2> QED
    BY <2>1, StringsNoBytes
<1>2. BigEndian(q, 4) = BigEndian(r, 4) /\ q.pos + 4 <= Len(q.data)
  BY <1>1, TwinBigEndian
<1>3. PICK n \in Nat : n = SizeOf(r) /\ n = SizeOf(q)
  BY <1>2, BytesSlice DEF SizeOf
<1>4. PICK f : /\ StringReaders(f, r, n)
               /\ read_strings(r) = IF ~(BigEndian(r, 4) \subseteq 0 .. 15) \/ ~f[n].ok THEN throw(r)
                                    ELSE [f[n] EXCEPT !.values = Append(r.values, f[n].values)]
  BY <1>1, <1>3, StringsSteps
<1>5. q.ok = TRUE
  BY DEF Twin
<1>6. PICK g : /\ StringReaders(g, q, n)
               /\ read_strings(q) = IF ~(BigEndian(q, 4) \subseteq 0 .. 15) \/ ~g[n].ok THEN throw(q)
                                    ELSE [g[n] EXCEPT !.values = Append(q.values, g[n].values)]
  BY <1>2, <1>3, <1>5, StringsSteps
<1>7. BigEndian(r, 4) \subseteq 0 .. 15 /\ f[n].ok
  <2> DEFINE big == [f[n] EXCEPT !.values = Append(r.values, f[n].values)]
  <2>1. read_strings(r) = IF ~(BigEndian(r, 4) \subseteq 0 .. 15) \/ ~f[n].ok THEN throw(r) ELSE big
    BY <1>4
  <2>2. ~throw(r).ok
    BY ThrowType
  <2> HIDE DEF big
  <2> QED
    BY <2>1, <2>2
<1>8. \A i \in 0 .. n : f[i] \in Readers(B) /\ g[i] \in Readers(B)
  BY <1>4, <1>6 DEF StringReaders
<1>9. \A i \in 0 .. n : f[i].ok => Twin(f[i], g[i])
  <2> DEFINE T == {i \in 0 .. n : f[i].ok => Twin(f[i], g[i])}
  <2>1. 0 \in T
    <3>1. f[0] = StringsFrom(r) /\ g[0] = StringsFrom(q)
      BY <1>4, <1>6 DEF StringReaders
    <3>2. Twin(f[0], g[0])
      BY <3>1 DEF StringsFrom, Twin
    <3> QED
      BY <3>2
  <2>2. ASSUME NEW i \in 0 .. n - 1, i \in T PROVE i + 1 \in T
    <3>1. PICK j \in 1 .. n : j = i + 1
      OBVIOUS
    <3>2. j - 1 = i /\ i \in 0 .. n /\ j \in 0 .. n
      BY <3>1
    <3>3. f[j] = read_next(f[i]) /\ g[j] = read_next(g[i])
      BY <1>4, <1>6, <3>2 DEF StringReaders
    <3>4. f[i] \in Readers(B) /\ g[i] \in Readers(B)
      BY <1>8, <3>2
    <3>5. ASSUME f[j].ok PROVE Twin(f[j], g[j])
      <4>1. f[i].ok
        BY <3>3, <3>5 DEF read_next
      <4>2. Twin(f[i], g[i])
        BY <2>2, <4>1
      <4>3. f[i].ok = TRUE
        BY <3>4, <4>1 DEF Readers
      <4>4. g[i].ok = TRUE
        BY <4>2, <4>3 DEF Twin
      <4>5. f[j] = read_bytes(f[i]) /\ g[j] = read_bytes(g[i])
        BY <3>3, <4>3, <4>4 DEF read_next
      <4>6. read_bytes(f[i]).ok
        BY <3>5, <4>5
      <4> QED
        BY <3>4, <4>2, <4>3, <4>5, <4>6, TwinBytes
    <3> QED
      BY <3>1, <3>2, <3>5
  <2> HIDE DEF T
  <2>3. \A i \in 0 .. n : i \in T
    BY <2>1, <2>2, UpTo
  <2> QED
    BY <2>3 DEF T
<1>10. PICK e, h : e = f[n] /\ h = g[n]
  OBVIOUS
<1>11. e \in Readers(B) /\ h \in Readers(B) /\ Twin(e, h)
  BY <1>7, <1>8, <1>9, <1>10
<1>12. h.ok
  BY <1>7, <1>10, <1>11 DEF Twin
<1>13. read_strings(r) = [e EXCEPT !.values = Append(r.values, e.values)]
  BY <1>4, <1>7, <1>10
<1>14. read_strings(q) = [h EXCEPT !.values = Append(q.values, h.values)]
  BY <1>2, <1>6, <1>7, <1>10, <1>12
<1>15. /\ read_strings(r).data = e.data /\ read_strings(r).pos = e.pos /\ read_strings(r).ok = e.ok
       /\ read_strings(r).values = Append(r.values, e.values)
  BY <1>11, <1>13 DEF Readers
<1>16. /\ read_strings(q).data = h.data /\ read_strings(q).pos = h.pos /\ read_strings(q).ok = h.ok
       /\ read_strings(q).values = Append(q.values, h.values)
  BY <1>11, <1>14 DEF Readers
<1> QED
  BY <1>11, <1>15, <1>16 DEF Twin

-----------------------------------------------------------------------------
(* What was written is read. *)

(* The parts of what is there are there, one after the other. *)
LEMMA HoldsConcat ==
  ASSUME NEW d \in Seq(Bytes), NEW p \in Nat, NEW u \in Seq(Bytes), NEW w \in Seq(Bytes),
         Holds(d, p, u \o w)
  PROVE  Holds(d, p, u) /\ Holds(d, p + Len(u), w)
<1>1. /\ Len(u \o w) = Len(u) + Len(w) /\ Len(u) \in Nat /\ Len(w) \in Nat /\ Len(d) \in Nat
      /\ \A i \in 1 .. Len(u) + Len(w) : (u \o w)[i] = IF i <= Len(u) THEN u[i] ELSE w[i - Len(u)]
  BY ConcatProperties, LenProperties
<1>2. p + (Len(u) + Len(w)) <= Len(d) /\ \A j \in 1 .. Len(u) + Len(w) : d[p + j] = (u \o w)[j]
  BY <1>1 DEF Holds
<1>3. Holds(d, p, u)
  BY <1>1, <1>2 DEF Holds
<1>4. p + Len(u) + Len(w) <= Len(d)
  BY <1>1, <1>2
<1>5. ASSUME NEW j \in 1 .. Len(w) PROVE d[p + Len(u) + j] = w[j]
  <2>1. Len(u) + j \in 1 .. Len(u) + Len(w) /\ ~(Len(u) + j <= Len(u)) /\ (Len(u) + j) - Len(u) = j
        /\ p + (Len(u) + j) = p + Len(u) + j
    BY <1>1
  <2> QED
    BY <1>1, <1>2, <2>1
<1> QED
  BY <1>3, <1>4, <1>5 DEF Holds

(* A word whose bytes are there is read back. *)
LEMMA FixedThere ==
  ASSUME NEW r, r.data \in Seq(Bytes), r.pos \in Nat, NEW n \in Nat, NEW v \in SUBSET (0 .. 8 * n - 1),
         NEW w, Len(w) = n, \A k \in 1 .. n : w[k] = Byte(v, n - k), Holds(r.data, r.pos, w)
  PROVE  r.pos + n <= Len(r.data) /\ BigEndian(r, n) = v
<1>1. r.pos + n <= Len(r.data) /\ \A j \in 1 .. n : r.data[r.pos + j] = w[j]
  BY DEF Holds
<1>2. Len(r.data) \in Nat
  BY LenProperties
<1>3. ASSUME NEW k \in 0 .. n - 1 PROVE At(r, k) = Byte(v, (n - 1) - k)
  <2>1. /\ k + 1 \in 1 .. n /\ n - (k + 1) = (n - 1) - k
        /\ r.pos + k < Len(r.data) /\ r.pos + (k + 1) = r.pos + k + 1
    BY <1>1, <1>2
  <2>2. r.data[r.pos + k + 1] = Byte(v, (n - 1) - k)
    BY <1>1, <2>1
  <2> QED
    BY <2>1, <2>2 DEF At
<1>4. BigEndian(r, n) = v
  BY <1>3, BigEndianOfBytes
<1> QED
  BY <1>1, <1>4

(* The same for 32 bits, *)
LEMMA U32There ==
  ASSUME NEW r, r.data \in Seq(Bytes), r.pos \in Nat, NEW v \in SUBSET (0 .. 31),
         Holds(r.data, r.pos, write_u32(v))
  PROVE  r.pos + 4 <= Len(r.data) /\ BigEndian(r, 4) = v
<1>1. Len(write_u32(v)) = 4 /\ \A k \in 1 .. 4 : write_u32(v)[k] = Byte(v, 4 - k)
  BY WriteFixed
<1>2. v \in SUBSET (0 .. 8 * 4 - 1) /\ 4 \in Nat
  OBVIOUS
<1> QED
  BY <1>1, <1>2, FixedThere

(* for 64 bits, *)
LEMMA U64There ==
  ASSUME NEW r, r.data \in Seq(Bytes), r.pos \in Nat, NEW v \in SUBSET (0 .. 63),
         Holds(r.data, r.pos, write_u64(v))
  PROVE  r.pos + 8 <= Len(r.data) /\ BigEndian(r, 8) = v
<1>1. Len(write_u64(v)) = 8 /\ \A k \in 1 .. 8 : write_u64(v)[k] = Byte(v, 8 - k)
  BY WriteFixed
<1>2. v \in SUBSET (0 .. 8 * 8 - 1) /\ 8 \in Nat
  OBVIOUS
<1> QED
  BY <1>1, <1>2, FixedThere

(* for 8 bits *)
LEMMA U8There ==
  ASSUME NEW r, r.data \in Seq(Bytes), r.pos \in Nat, NEW v \in SUBSET (0 .. 7),
         Holds(r.data, r.pos, write_u8(v))
  PROVE  r.pos + 1 <= Len(r.data) /\ BigEndian(r, 1) = v
<1>1. Len(write_u8(v)) = 1 /\ \A k \in 1 .. 1 : write_u8(v)[k] = Byte(v, 1 - k)
  BY WriteFixed
<1>2. v \in SUBSET (0 .. 8 * 1 - 1) /\ 1 \in Nat
  OBVIOUS
<1> QED
  BY <1>1, <1>2, FixedThere

(* and for a Boolean value. *)
LEMMA BoolThere ==
  ASSUME NEW r, r.data \in Seq(Bytes), r.pos \in Nat, NEW v \in BOOLEAN,
         Holds(r.data, r.pos, write_bool(v))
  PROVE  r.pos + 1 <= Len(r.data) /\ (BigEndian(r, 1) = {0} <=> v)
<1>1. PICK w : w = IF v THEN {0} ELSE {}
  OBVIOUS
<1>2. w \in SUBSET (0 .. 7) /\ (w = {0} <=> v)
  BY <1>1
<1>3. write_bool(v) = write_u8(w)
  <2>1. Byte({0}, 0) = {0} /\ Byte({}, 0) = {}
    BY DEF Byte
  <2> QED
    BY <1>1, <2>1 DEF write_bool, write_u8
<1>4. r.pos + 1 <= Len(r.data) /\ BigEndian(r, 1) = w
  BY <1>2, <1>3, U8There
<1> QED
  BY <1>2, <1>4

(* write_data appends a size of four bytes and the bytes. *)
LEMMA WriteData ==
  ASSUME NEW s \in Seq(Bytes)
  PROVE  write_data(s) \in Seq(Bytes) /\ Len(write_data(s)) = 4 + Len(s)
<1>1. PICK u \in Seq(Bytes) : u = write_u32(Word(Len(s))) /\ Len(u) = 4
  BY WriteFixed
<1>2. write_data(s) = u \o s
  BY <1>1 DEF write_data
<1>3. u \o s \in Seq(Bytes) /\ Len(u \o s) = Len(u) + Len(s)
  BY ConcatProperties
<1> QED
  BY <1>1, <1>2, <1>3

(* A string of a size that fits into 16 bits. *)
LEMMA DataThere ==
  ASSUME NEW V, NEW r \in Readers(V), NEW s \in Seq(Bytes), Len(s) \in Small,
         Holds(r.data, r.pos, write_data(s))
  PROVE  BytesThere(r) /\ SizeOf(r) = Len(s) /\ BytesOf(r) = s
<1>1. r.data \in Seq(Bytes) /\ r.pos \in Nat /\ Len(s) \in Nat /\ Len(r.data) \in Nat
  BY LenProperties DEF Readers
<1>2. Number(Word(Len(s))) = Len(s) /\ Word(Len(s)) \subseteq 0 .. 15
  BY NumberOfWord
<1>3. PICK w \in SUBSET (0 .. 31) : w = Word(Len(s))
  BY <1>2
<1>4. write_u32(w) \in Seq(Bytes) /\ Len(write_u32(w)) = 4 /\ write_data(s) = write_u32(w) \o s
  BY <1>3, WriteFixed DEF write_data
<1>5. Holds(r.data, r.pos, write_u32(w)) /\ Holds(r.data, r.pos + 4, s)
  BY <1>1, <1>4, HoldsConcat
<1>6. r.pos + 4 <= Len(r.data) /\ BigEndian(r, 4) = w
  BY <1>1, <1>5, U32There
<1>7. SizeOf(r) = Len(s)
  BY <1>2, <1>3, <1>6 DEF SizeOf
<1>8. r.pos + 4 + Len(s) <= Len(r.data) /\ \A j \in 1 .. Len(s) : r.data[r.pos + 4 + j] = s[j]
  BY <1>5 DEF Holds
<1>9. BytesThere(r)
  <2>1. r.pos + (4 + Len(s)) <= Len(r.data)
    BY <1>1, <1>8
  <2> QED
    BY <1>2, <1>3, <1>6, <1>7, <2>1 DEF BytesThere
<1>10. BytesOf(r) = s
  <2>1. /\ BytesOf(r) \in Seq(Bytes) /\ Len(BytesOf(r)) = Len(s)
        /\ \A j \in 1 .. Len(s) : BytesOf(r)[j] = r.data[r.pos + 4 + j]
    BY <1>7, <1>9, BytesSlice
  <2>2. \A j \in 1 .. Len(s) : BytesOf(r)[j] = s[j]
    BY <1>8, <2>1
  <2> QED
    BY <2>1, <2>2, SeqEqual
<1> QED
  BY <1>7, <1>9, <1>10

(* Results and errors. *)
LEMMA Int32 ==
  ASSUME NEW n \in Int, -65535 <= n, n <= 65535
  PROVE  to_uint32(n) \in SUBSET (0 .. 31) /\ to_int32(to_uint32(n)) = n
<1>1. CASE n >= 0
  <2>1. n \in Small
    BY <1>1 DEF Small
  <2>2. Number(Word(n)) = n /\ Word(n) \subseteq 0 .. 15
    BY <2>1, NumberOfWord
  <2>3. to_uint32(n) = Word(n) /\ 31 \notin Word(n)
    BY <1>1, <2>2 DEF to_uint32
  <2> QED
    BY <2>2, <2>3 DEF to_int32
<1>2. CASE n < 0
  <2>1. PICK m \in Small : m = -n - 1
    BY <1>2 DEF Small
  <2>2. Number(Word(m)) = m /\ Word(m) \subseteq 0 .. 15
    BY NumberOfWord
  <2>3. to_uint32(n) = (0 .. 31) \ Word(m)
    BY <1>2, <2>1 DEF to_uint32
  <2>4. 31 \in to_uint32(n) /\ (0 .. 31) \ to_uint32(n) = Word(m)
    BY <2>2, <2>3
  <2>5. to_int32(to_uint32(n)) = -m - 1
    BY <2>2, <2>4 DEF to_int32
  <2>6. -m - 1 = n
    BY <2>1 DEF Small
  <2> QED
    BY <2>3, <2>5, <2>6
<1> QED
  BY <1>1, <1>2

-----------------------------------------------------------------------------
(* Sequences that are written one after the other. *)

(* f[n] is what has been written after n of them. *)
Joined(f, ss) ==
    /\ f \in [0 .. Len(ss) -> Seq(Bytes)]
    /\ f[0] = <<>>
    /\ \A n \in 1 .. Len(ss) : f[n] = f[n - 1] \o ss[n]

(* FlattenSeq joins its sequences one by one. *)
LEMMA FlattenSteps ==
  ASSUME NEW ss \in Seq(Seq(Bytes))
  PROVE  \E f : Joined(f, ss) /\ FlattenSeq(ss) = f[Len(ss)]
<1>1. Len(ss) \in Nat /\ \A n \in 1 .. Len(ss) : ss[n] \in Seq(Bytes)
  BY LenProperties, ElementOfSeq
<1>2. PICK N \in Nat : N = Len(ss)
  BY <1>1
<1> DEFINE G == [n \in 1 .. N |-> [t \in Seq(Bytes) |-> t \o ss[n]]]
<1>3. PICK g : IsRecursive(g, Seq(Bytes), <<>>, N, G)
  <2>1. G \in [1 .. N -> [Seq(Bytes) -> Seq(Bytes)]]
    BY <1>1, <1>2, ConcatProperties
  <2>2. <<>> \in Seq(Bytes)
    BY EmptySeq
  <2> HIDE DEF G
  <2> QED
    BY <2>1, <2>2, Recursion, Zenon
<1>4. Joined(g, ss)
  <2>1. g \in [0 .. N -> Seq(Bytes)] /\ g[0] = <<>>
    BY <1>3 DEF IsRecursive
  <2>2. \A n \in 1 .. N : g[n - 1] \in Seq(Bytes)
    BY <2>1
  <2>3. \A n \in 1 .. N : g[n] = g[n - 1] \o ss[n]
    BY <1>3, <2>2 DEF IsRecursive
  <2> QED
    BY <1>2, <2>1, <2>3 DEF Joined
<1>5. FlattenSeq(ss) = g[N]
  <2>1. CASE N = 0
    <3>1. FlattenSeq(ss) = ss
      BY <1>2, <2>1 DEF FlattenSeq
    <3>2. ss = <<>>
      BY <1>2, <2>1, EmptySeq
    <3> QED
      BY <1>3, <2>1, <3>1, <3>2 DEF IsRecursive
  <2>2. CASE N # 0
    <3> DEFINE Is(f) == f = [i \in 1 .. N |-> IF i = 1 THEN ss[i] ELSE f[i - 1] \o ss[i]]
               c == CHOOSE f : Is(f)
               h == [i \in 1 .. N |-> g[i]]
    <3>1. \A i \in 1 .. N : g[i] = IF i = 1 THEN ss[i] ELSE g[i - 1] \o ss[i]
      <4>1. \A i \in 1 .. N : g[i] = g[i - 1] \o ss[i]
        BY <1>2, <1>4 DEF Joined
      <4>2. g[0] = <<>>
        BY <1>4 DEF Joined
      <4>3. 1 \in 1 .. N
        BY <2>2
      <4>4. ss[1] \in Seq(Bytes)
        BY <1>1, <1>2, <4>3
      <4>5. g[1] = ss[1]
        <5>1. <<>> \o ss[1] = ss[1]
          BY <4>4, ConcatEmptySeq
        <5>2. PICK i \in 1 .. N : i = 1
          BY <4>3
        <5>3. g[i] = g[i - 1] \o ss[i]
          BY <4>1
        <5>4. i - 1 = 0
          BY <5>2
        <5> QED
          BY <4>2, <5>1, <5>2, <5>3, <5>4
      <4> QED
        BY <4>1, <4>5
    <3>2. Is(h)
      <4>1. \A i \in 1 .. N : i # 1 => i - 1 \in 1 .. N
        OBVIOUS
      <4> QED
        BY <3>1, <4>1
    <3>3. Is(c)
      <4> HIDE DEF Is
      <4> QED
        BY <3>2
    <3>4. FlattenSeq(ss) = c[N]
      BY <1>2, <2>2 DEF FlattenSeq
    <3>5. \A i \in 1 .. N : c[i] = IF i = 1 THEN ss[i] ELSE c[i - 1] \o ss[i]
      <4> HIDE DEF c
      <4> QED
        BY <3>3
    <3>6. \A i \in 0 .. N - 1 : c[i + 1] = g[i + 1]
      <4> DEFINE T == {i \in 0 .. N - 1 : c[i + 1] = g[i + 1]}
      <4> HIDE DEF c, Is, h, G
      <4>1. 0 \in T
        BY <2>2, <3>1, <3>5
      <4>2. ASSUME NEW i \in 0 .. (N - 1) - 1, i \in T PROVE i + 1 \in T
        <5>1. PICK j \in 1 .. N : j = (i + 1) + 1
          OBVIOUS
        <5>2. j # 1 /\ j - 1 = i + 1
          BY <5>1
        <5>3. c[j] = c[j - 1] \o ss[j] /\ g[j] = g[j - 1] \o ss[j]
          BY <3>1, <3>5, <5>2
        <5>4. c[i + 1] = g[i + 1]
          BY <4>2
        <5>5. c[j] = g[j]
          BY <5>2, <5>3, <5>4
        <5> QED
          BY <5>1, <5>5
      <4>3. N - 1 \in Nat
        BY <2>2
      <4> HIDE DEF T
      <4>4. \A i \in 0 .. N - 1 : i \in T
        BY <4>1, <4>2, <4>3, UpTo
      <4> QED
        BY <4>4 DEF T
    <3>7. N - 1 \in 0 .. N - 1 /\ (N - 1) + 1 = N
      BY <2>2
    <3> HIDE DEF c, G
    <3> QED
      BY <3>4, <3>6, <3>7
  <2> QED
    BY <2>1, <2>2
<1> QED
  BY <1>2, <1>4, <1>5

(* Each of them is found where those before it end. *)
LEMMA FlattenThere ==
  ASSUME NEW ss \in Seq(Seq(Bytes)), NEW f, Joined(f, ss), NEW d \in Seq(Bytes), NEW p \in Nat,
         Holds(d, p, f[Len(ss)])
  PROVE  \A n \in 1 .. Len(ss) : Holds(d, p + Len(f[n - 1]), ss[n])
<1>1. PICK N \in Nat : N = Len(ss)
  BY LenProperties
<1> DEFINE T == {k \in 0 .. N : Holds(d, p, f[N - k])}
<1>2. \A n \in 1 .. N : /\ f[n] = f[n - 1] \o ss[n] /\ f[n - 1] \in Seq(Bytes) /\ ss[n] \in Seq(Bytes)
  <2>1. f \in [0 .. N -> Seq(Bytes)] /\ \A n \in 1 .. N : f[n] = f[n - 1] \o ss[n]
    BY <1>1 DEF Joined
  <2>2. \A n \in 1 .. N : n - 1 \in 0 .. N
    OBVIOUS
  <2>3. \A n \in 1 .. N : ss[n] \in Seq(Bytes)
    BY <1>1, ElementOfSeq
  <2> QED
    BY <2>1, <2>2, <2>3
<1>3. 0 \in T
  BY <1>1
<1>4. ASSUME NEW k \in 0 .. N - 1, k \in T PROVE k + 1 \in T
  <2>1. PICK n \in 1 .. N : n = N - k
    OBVIOUS
  <2>2. Holds(d, p, f[n - 1] \o ss[n])
    BY <1>2, <1>4, <2>1
  <2>3. Holds(d, p, f[n - 1])
    BY <1>2, <2>2, HoldsConcat
  <2>4. n - 1 = N - (k + 1) /\ k + 1 \in 0 .. N
    BY <2>1
  <2> QED
    BY <2>3, <2>4
<1> HIDE DEF T
<1>5. \A k \in 0 .. N : k \in T
  BY <1>3, <1>4, UpTo
<1>6. ASSUME NEW n \in 1 .. N PROVE Holds(d, p + Len(f[n - 1]), ss[n])
  <2>1. PICK k \in 0 .. N : N - k = n
    <3>1. N - n \in 0 .. N /\ N - (N - n) = n
      OBVIOUS
    <3> QED
      BY <3>1
  <2>2. Holds(d, p, f[n - 1] \o ss[n])
    BY <1>2, <1>5, <2>1 DEF T
  <2> QED
    BY <1>2, <2>2, HoldsConcat
<1> QED
  BY <1>1, <1>6

(* A list of strings. *)
SmallStrings == {l \in Seq(Seq(Bytes)) : Len(l) \in Small /\ \A i \in 1 .. Len(l) : Len(l[i]) \in Small}

(* write_strings appends a count and then each of the strings. *)
LEMMA WriteStrings ==
  ASSUME NEW l \in Seq(Seq(Bytes))
  PROVE  \E ss, J :
            /\ ss \in Seq(Seq(Bytes))
            /\ Len(ss) = Len(l) /\ \A i \in 1 .. Len(l) : ss[i] = write_data(l[i])
            /\ Joined(J, ss)
            /\ write_strings(l) = write_u32(Word(Len(l))) \o J[Len(l)]
            /\ J[Len(l)] \in Seq(Bytes)
            /\ write_strings(l) \in Seq(Bytes) /\ Len(write_strings(l)) = 4 + Len(J[Len(l)])
<1>1. PICK N \in Nat : N = Len(l) /\ DOMAIN l = 1 .. N
  BY LenProperties
<1>2. \A i \in 1 .. N : l[i] \in Seq(Bytes)
  BY <1>1, ElementOfSeq
<1>3. \A i \in 1 .. N : write_data(l[i]) \in Seq(Bytes)
  BY <1>2, WriteData
<1>4. PICK ss : ss = [i \in 1 .. N |-> write_data(l[i])]
  OBVIOUS
<1>5. ss \in Seq(Seq(Bytes)) /\ Len(ss) = N /\ \A i \in 1 .. N : ss[i] = write_data(l[i])
  BY <1>3, <1>4
<1>6. PICK J : Joined(J, ss) /\ FlattenSeq(ss) = J[N]
  BY <1>5, FlattenSteps
<1>7. PICK u \in Seq(Bytes) : u = write_u32(Word(Len(l))) /\ Len(u) = 4
  BY WriteFixed
<1>8. write_strings(l) = u \o J[N]
  BY <1>1, <1>4, <1>6, <1>7 DEF write_strings
<1>9. J[N] \in Seq(Bytes)
  BY <1>5, <1>6 DEF Joined
<1>10. u \o J[N] \in Seq(Bytes) /\ Len(u \o J[N]) = Len(u) + Len(J[N])
  BY <1>9, ConcatProperties
<1> QED
  BY <1>1, <1>5, <1>6, <1>7, <1>8, <1>9, <1>10

(* A list of strings that write_strings has appended anywhere in a message is
   what read_strings returns there: the names of a directory in a response to
   readdir, however many and however long.                                 *)
THEOREM StringsThere ==
  ASSUME NEW V, NEW r \in Readers(V), r.ok = TRUE, Seq(Seq(Bytes)) \subseteq V,
         NEW l \in SmallStrings, Holds(r.data, r.pos, write_strings(l))
  PROVE  Took(r, read_strings(r), Len(write_strings(l)), l)
<1>1. l \in Seq(Seq(Bytes)) /\ Len(l) \in Small /\ \A i \in 1 .. Len(l) : Len(l[i]) \in Small
  BY DEF SmallStrings
<1>2. PICK N \in Nat : N = Len(l)
  BY <1>1, LenProperties
<1>3. PICK ss, J :
         /\ ss \in Seq(Seq(Bytes))
         /\ Len(ss) = N /\ \A i \in 1 .. N : ss[i] = write_data(l[i])
         /\ Joined(J, ss)
         /\ write_strings(l) = write_u32(Word(Len(l))) \o J[N]
         /\ J[N] \in Seq(Bytes)
         /\ write_strings(l) \in Seq(Bytes) /\ Len(write_strings(l)) = 4 + Len(J[N])
  BY <1>1, <1>2, WriteStrings
<1>4. r.data \in Seq(Bytes) /\ r.pos \in Nat /\ Len(r.data) \in Nat /\ r.pos + 4 \in Nat
  BY LenProperties DEF Readers
<1>5. Number(Word(Len(l))) = Len(l) /\ Word(Len(l)) \subseteq 0 .. 15
  BY <1>1, NumberOfWord
<1>6. PICK w \in SUBSET (0 .. 31) : w = Word(Len(l))
  BY <1>5
<1>7. Holds(r.data, r.pos, write_u32(w)) /\ Holds(r.data, r.pos + 4, J[N])
  <2>1. write_u32(w) \in Seq(Bytes) /\ Len(write_u32(w)) = 4
    BY WriteFixed
  <2> QED
    BY <1>3, <1>4, <1>6, <2>1, HoldsConcat
<1>8. r.pos + 4 <= Len(r.data) /\ BigEndian(r, 4) = w
  BY <1>4, <1>7, U32There
<1>9. SizeOf(r) = N
  BY <1>2, <1>5, <1>6, <1>8 DEF SizeOf
<1>10. PICK f : /\ StringReaders(f, r, N)
                /\ read_strings(r) = IF ~(BigEndian(r, 4) \subseteq 0 .. 15) \/ ~f[N].ok THEN throw(r)
                                     ELSE [f[N] EXCEPT !.values = Append(r.values, f[N].values)]
  BY <1>8, <1>9, StringsSteps
<1>11. \A i \in 0 .. N : f[i] \in Readers(Seq(Bytes))
  BY <1>10 DEF StringReaders
<1>12. \A i \in 1 .. N : Holds(r.data, r.pos + 4 + Len(J[i - 1]), write_data(l[i]))
  <2>1. \A i \in 1 .. Len(ss) : Holds(r.data, (r.pos + 4) + Len(J[i - 1]), ss[i])
    BY <1>3, <1>4, <1>7, FlattenThere
  <2> QED
    BY <1>3, <2>1
<1>13. \A i \in 0 .. N : J[i] \in Seq(Bytes) /\ Len(J[i]) \in Nat
  <2>1. \A i \in 0 .. N : J[i] \in Seq(Bytes)
    BY <1>3 DEF Joined
  <2> QED
    BY <2>1, LenProperties
<1> DEFINE Good(i) == /\ f[i].ok = TRUE /\ f[i].data = r.data /\ f[i].pos = r.pos + 4 + Len(J[i])
                      /\ Len(f[i].values) = i /\ \A j \in 1 .. i : f[i].values[j] = l[j]
           T == {i \in 0 .. N : Good(i)}
<1>14. 0 \in T
  <2>1. f[0] = StringsFrom(r)
    BY <1>10 DEF StringReaders
  <2>2. J[0] = <<>> /\ Len(<<>>) = 0
    BY <1>3, EmptySeq DEF Joined
  <2>3. f[0].ok = TRUE /\ f[0].data = r.data /\ f[0].pos = r.pos + 4 /\ f[0].values = <<>>
    BY <2>1 DEF StringsFrom
  <2>4. Good(0)
    BY <1>4, <2>2, <2>3
  <2> QED
    BY <2>4
<1>15. ASSUME NEW i \in 0 .. N - 1, i \in T PROVE i + 1 \in T
  <2>1. PICK k \in 1 .. N : k = i + 1
    OBVIOUS
  <2>2. k - 1 = i /\ i \in 0 .. N /\ k \in 0 .. N
    BY <2>1
  <2>3. Good(i)
    BY <1>15
  <2>4. PICK t \in Readers(Seq(Bytes)) : t = f[i]
    BY <1>11, <2>2
  <2>5. PICK s \in Seq(Bytes) : s = l[k]
    BY <1>1, <1>2, ElementOfSeq
  <2>6. Len(s) \in Small
    BY <1>1, <1>2, <2>5
  <2>7. Holds(t.data, t.pos, write_data(s))
    BY <1>12, <2>2, <2>3, <2>4, <2>5
  <2>8. BytesThere(t) /\ SizeOf(t) = Len(s) /\ BytesOf(t) = s
    BY <2>6, <2>7, DataThere
  <2>9. t.ok = TRUE
    BY <2>3, <2>4
  <2>10. f[k] = Got(t, 4 + Len(s), s)
    <3>1. f[k] = read_next(t)
      BY <1>10, <2>2, <2>4 DEF StringReaders
    <3>2. read_next(t) = read_bytes(t)
      BY <2>9 DEF read_next
    <3> QED
      BY <2>8, <2>9, <3>1, <3>2, BytesForm
  <2>11. 4 + Len(s) \in Nat /\ Len(s) \in Nat
    BY LenProperties
  <2>12. /\ f[k].ok = t.ok /\ f[k].data = t.data /\ f[k].pos = t.pos + (4 + Len(s))
         /\ f[k].values = Append(t.values, s)
    <3>1. PICK m \in Nat : m = 4 + Len(s)
      BY <2>11
    <3>2. /\ Got(t, m, s).ok = t.ok /\ Got(t, m, s).data = t.data /\ Got(t, m, s).pos = t.pos + m
          /\ Got(t, m, s).values = Append(t.values, s)
      BY GotType
    <3> QED
      BY <2>10, <3>1, <3>2
  <2>13. Len(J[k]) = Len(J[i]) + (4 + Len(s))
    <3>1. PICK x, y \in Seq(Bytes) : x = J[i] /\ y = write_data(s) /\ x \in Seq(Bytes) /\ Len(y) = 4 + Len(s)
      BY <1>13, <2>2, WriteData
    <3>2. J[k] = x \o y
      BY <1>3, <2>2, <2>5, <3>1 DEF Joined
    <3>3. Len(x \o y) = Len(x) + Len(y)
      BY <3>1, ConcatProperties
    <3> QED
      BY <3>1, <3>2, <3>3
  <2>14. f[k].pos = r.pos + 4 + Len(J[k])
    <3>1. PICK a, b \in Nat : a = Len(J[i]) /\ b = 4 + Len(s) /\ a \in Nat
      BY <1>13, <2>2, <2>11
    <3>2. f[k].pos = t.pos + b /\ t.pos = r.pos + 4 + a /\ Len(J[k]) = a + b
      BY <2>3, <2>4, <2>12, <2>13, <3>1
    <3>3. PICK p \in Nat : p = r.pos
      BY <1>4
    <3>4. (p + 4 + a) + b = p + 4 + (a + b)
      <4>1. \A x, y, z \in Nat : (x + 4 + y) + z = x + 4 + (y + z)
        OBVIOUS
      <4> QED
        BY <3>1, <4>1
    <3> QED
      BY <3>2, <3>3, <3>4
  <2>15. Len(f[k].values) = k /\ \A j \in 1 .. k : f[k].values[j] = l[j]
    <3>1. t.values \in Seq(Seq(Bytes)) /\ Len(t.values) = i /\ \A j \in 1 .. i : t.values[j] = l[j]
      BY <2>3, <2>4 DEF Readers
    <3>2. /\ Len(Append(t.values, s)) = i + 1 /\ Append(t.values, s)[i + 1] = s
          /\ \A j \in 1 .. i : Append(t.values, s)[j] = t.values[j]
      BY <3>1, AppendProperties
    <3> QED
      BY <2>1, <2>5, <2>12, <3>1, <3>2
  <2>16. Good(k)
    BY <2>3, <2>4, <2>9, <2>12, <2>14, <2>15
  <2> QED
    BY <2>1, <2>2, <2>16
<1>16. Good(N)
  <2>1. \A i \in 0 .. N : i \in T
    <3> HIDE DEF T
    <3> QED
      BY <1>14, <1>15, UpTo
  <2>2. N \in T
    BY <2>1
  <2> QED
    BY <2>2
<1>17. PICK e \in Readers(Seq(Bytes)) : e = f[N]
  BY <1>11
<1>18. e.values = l
  <2>1. e.values \in Seq(Seq(Bytes)) /\ Len(e.values) = Len(l) /\ \A j \in 1 .. Len(l) : e.values[j] = l[j]
    BY <1>2, <1>16, <1>17 DEF Readers
  <2> QED
    BY <1>1, <2>1, SeqEqual
<1>19. read_strings(r) = [e EXCEPT !.values = Append(r.values, e.values)]
  <2>1. BigEndian(r, 4) \subseteq 0 .. 15
    BY <1>5, <1>6, <1>8
  <2> QED
    BY <1>10, <1>16, <1>17, <2>1
<1>20. e.data = r.data /\ e.ok = r.ok /\ e.pos = r.pos + 4 + Len(J[N])
  BY <1>16, <1>17
<1>21. PICK m \in Nat : m = Len(J[N])
  BY <1>13
<1>22. r.pos <= e.pos /\ e.pos <= Len(r.data) /\ e.pos - r.pos = Len(write_strings(l))
  <2>1. r.pos + 4 + m <= Len(r.data)
    BY <1>7, <1>21 DEF Holds
  <2>2. Len(write_strings(l)) = 4 + m /\ e.pos = r.pos + 4 + m
    BY <1>3, <1>20, <1>21
  <2> QED
    BY <1>4, <2>1, <2>2
<1>23. Took(r, [e EXCEPT !.values = Append(r.values, e.values)], e.pos - r.pos, e.values)
  BY <1>20, <1>22, StringsRecord
<1> QED
  BY <1>18, <1>19, <1>22, <1>23

-----------------------------------------------------------------------------
(* Conversions. *)

(* The modes of files of a known type, and modes without a type. *)
Modes == {v \in SUBSET (0 .. 15) : v \cap TypeMask = {} \/ \E u \in DOMAIN S_IF : v \cap TypeMask = S_IF[u]}

(* A mode of a known type of file survives both conversions. *)
LEMMA ModeKept ==
  ASSUME NEW v \in Modes
  PROVE  from_mode(v) = v /\ to_mode(v) = v
<1>1. v = (v \cap Permissions) \cup (v \cap TypeMask)
  BY DEF Modes, Permissions, TypeMask
<1>2. PICK F : F = FileTypes
  OBVIOUS
<1>3. v \cap TypeMask = {} \/ \E u \in DOMAIN F : v \cap TypeMask = F[u]
  BY <1>2 DEF Modes, S_IF
<1>4. UNION {F[t] : t \in {u \in DOMAIN F : v \cap TypeMask = F[u]}} = v \cap TypeMask
  <2>1. CASE v \cap TypeMask = {}
    BY <2>1
  <2>2. CASE \E u \in DOMAIN F : v \cap TypeMask = F[u]
    BY <2>2
  <2> QED
    BY <1>3, <2>1, <2>2
<1>5. Retype(v, F, F) = v
  BY <1>1, <1>4 DEF Retype
<1> QED
  BY <1>2, <1>5 DEF from_mode, to_mode, S_IF

(* to_mode gives a word, *)
LEMMA ToModeType ==
  ASSUME NEW v \in SUBSET Nat
  PROVE  to_mode(v) \in SUBSET Nat
<1>1. \A u \in DOMAIN FileTypes : S_IF[u] \in SUBSET Nat
  BY DEF FileTypes, S_IF
<1> QED
  BY <1>1 DEF to_mode, Retype

(* A table with a flag of its own for every bit of a word keeps the word. *)
LEMMA TranslateKept ==
  ASSUME NEW A, NEW v, \A e \in v : \E g \in DOMAIN A : A[g] = {e}
  PROVE  Translate(v, A, A) = v
<1>1. Translate(v, A, A) \subseteq v
  BY DEF Translate
<1>2. ASSUME NEW e \in v PROVE e \in Translate(v, A, A)
  <2>1. PICK g \in DOMAIN A : A[g] = {e}
    OBVIOUS
  <2>2. A[g] \subseteq v /\ e \in A[g]
    BY <2>1
  <2> QED
    BY <2>2 DEF Translate
<1> QED
  BY <1>1, <1>2

(* Access modes survive, *)
LEMMA AccessKept ==
  ASSUME NEW v \in SUBSET (0 .. 2)
  PROVE  access_from_int(v) = v /\ access_to_int(v) = v
<1>1. Translate(v, AccessModes, AccessModes) = v
  <2>1. DOMAIN AccessModes = {"x_ok", "w_ok", "r_ok"}
    BY DEF AccessModes
  <2>2. AccessModes["x_ok"] = {0} /\ AccessModes["w_ok"] = {1} /\ AccessModes["r_ok"] = {2}
    BY DEF AccessModes
  <2>3. \A e \in v : e = 0 \/ e = 1 \/ e = 2
    OBVIOUS
  <2>4. \A e \in v : \E g \in DOMAIN AccessModes : AccessModes[g] = {e}
    BY <2>1, <2>2, <2>3
  <2> QED
    BY <2>4, TranslateKept
<1> QED
  BY <1>1 DEF access_from_int, access_to_int

(* so does access_to_int, *)
LEMMA AccessType ==
  ASSUME NEW v
  PROVE  access_to_int(v) \in SUBSET Nat
<1>1. \A u \in DOMAIN AccessModes : AccessModes[u] \in SUBSET Nat
  BY DEF AccessModes
<1> QED
  BY <1>1 DEF access_to_int, Translate

(* and so do rename flags. *)
LEMMA RenameKept ==
  ASSUME NEW v \in SUBSET (0 .. 1)
  PROVE  rename_flags(v) = v
<1>1. DOMAIN RenameFlags = {"noreplace", "exchange"}
  BY DEF RenameFlags
<1>2. RenameFlags["noreplace"] = {0} /\ RenameFlags["exchange"] = {1}
  BY DEF RenameFlags
<1>3. \A e \in v : e = 0 \/ e = 1
  OBVIOUS
<1>4. \A e \in v : \E g \in DOMAIN RenameFlags : RenameFlags[g] = {e}
  BY <1>1, <1>2, <1>3
<1> QED
  BY <1>4, TranslateKept DEF rename_flags

(* to_fusestatus changes no code, as both tables have the same numbers. *)
LEMMA StatusKept ==
  ASSUME NEW n \in Int
  PROVE  to_fusestatus(n) = n
BY DEF to_fusestatus, errno

(* The tables of open flags differ in few bits: those of O_LARGEFILE,
   O_DIRECTORY, which O_TMPFILE contains, O_NOFOLLOW and O_DIRECT.         *)
FlagNames == {"rdonly", "wronly", "rdwr", "append", "async", "cloexec", "creat", "direct",
              "directory", "dsync", "excl", "largefile", "noatime", "noctty", "nofollow",
              "nonblock", "ndelay", "path", "sync", "tmpfile", "trunc"}
FlagTable(T, large, directory, nofollow, direct) ==
    /\ DOMAIN T = FlagNames
    /\ T["rdonly"] = {}
    /\ T["wronly"] = {0}
    /\ T["rdwr"] = {1}
    /\ T["append"] = {10}
    /\ T["async"] = {13}
    /\ T["cloexec"] = {19}
    /\ T["creat"] = {6}
    /\ T["dsync"] = {12}
    /\ T["excl"] = {7}
    /\ T["noatime"] = {18}
    /\ T["noctty"] = {8}
    /\ T["nonblock"] = {11}
    /\ T["ndelay"] = {11}
    /\ T["path"] = {21}
    /\ T["sync"] = {12, 20}
    /\ T["trunc"] = {9}
    /\ T["largefile"] = large /\ T["directory"] = {directory} /\ T["tmpfile"] = {directory, 22}
    /\ T["nofollow"] = {nofollow} /\ T["direct"] = {direct}

(* The flags of the protocol and of the two machines. *)
LEMMA FlagTables ==
  /\ FlagTable(OpenFlags, {15}, 16, 17, 14)
  /\ FlagTable(O_Flags["x86_64"], {}, 16, 17, 14)
  /\ FlagTable(O_Flags["aarch64"], {}, 14, 15, 16)
<1>1. FlagTable(OpenFlags, {15}, 16, 17, 14)
  BY DEF OpenFlags, FlagTable, FlagNames
<1>2. O_Flags["x86_64"] = [OpenFlags EXCEPT !.largefile = {}]
  BY DEF O_Flags
<1>3. FlagTable(O_Flags["x86_64"], {}, 16, 17, 14)
  BY <1>1, <1>2 DEF FlagTable, FlagNames
<1>4. O_Flags["aarch64"] = [OpenFlags EXCEPT !.largefile = {}, !.directory = {14}, !.nofollow = {15},
                                             !.direct = {16}, !.tmpfile = {14, 22}]
  BY DEF O_Flags
<1>5. FlagTable(O_Flags["aarch64"], {}, 14, 15, 16)
  BY <1>1, <1>4 DEF FlagTable, FlagNames
<1> QED
  BY <1>1, <1>3, <1>5

(* A flag of B has a bit that only flags have whose counterparts in A contain
   its own, or it is empty in both.                                         *)
Keyed(A, B, f) ==
    \/ A[f] = {} /\ B[f] = {}
    \/ \E b \in B[f] : \A g \in DOMAIN B : b \in B[g] => A[f] \subseteq A[g]

(* That is so for every flag but O_LARGEFILE. *)
LEMMA KeyedFlags ==
  ASSUME NEW A, NEW la, NEW da, NEW na, NEW xa, FlagTable(A, la, da, na, xa),
         NEW B, \/ FlagTable(B, {}, 16, 17, 14) \/ FlagTable(B, {15}, 16, 17, 14)
                \/ FlagTable(B, {}, 14, 15, 16)
  PROVE  \A f \in FlagNames \ {"largefile"} : Keyed(A, B, f)
<1>1. Keyed(A, B, "rdonly")
  BY DEF FlagTable, Keyed
<1>2. Keyed(A, B, "wronly")
  <2>1. 0 \in B["wronly"] /\ \A g \in FlagNames : 0 \in B[g] => g \in {"wronly"}
    BY DEF FlagTable, FlagNames
  <2> QED
    BY <2>1 DEF FlagTable, Keyed
<1>3. Keyed(A, B, "rdwr")
  <2>1. 1 \in B["rdwr"] /\ \A g \in FlagNames : 1 \in B[g] => g \in {"rdwr"}
    BY DEF FlagTable, FlagNames
  <2> QED
    BY <2>1 DEF FlagTable, Keyed
<1>4. Keyed(A, B, "append")
  <2>1. 10 \in B["append"] /\ \A g \in FlagNames : 10 \in B[g] => g \in {"append"}
    BY DEF FlagTable, FlagNames
  <2> QED
    BY <2>1 DEF FlagTable, Keyed
<1>5. Keyed(A, B, "async")
  <2>1. 13 \in B["async"] /\ \A g \in FlagNames : 13 \in B[g] => g \in {"async"}
    BY DEF FlagTable, FlagNames
  <2> QED
    BY <2>1 DEF FlagTable, Keyed
<1>6. Keyed(A, B, "cloexec")
  <2>1. 19 \in B["cloexec"] /\ \A g \in FlagNames : 19 \in B[g] => g \in {"cloexec"}
    BY DEF FlagTable, FlagNames
  <2> QED
    BY <2>1 DEF FlagTable, Keyed
<1>7. Keyed(A, B, "creat")
  <2>1. 6 \in B["creat"] /\ \A g \in FlagNames : 6 \in B[g] => g \in {"creat"}
    BY DEF FlagTable, FlagNames
  <2> QED
    BY <2>1 DEF FlagTable, Keyed
<1>8. Keyed(A, B, "direct")
  <2>1. PICK b : b \in B["direct"] /\ \A g \in FlagNames : b \in B[g] => g \in {"direct"}
    <3>1. CASE FlagTable(B, {}, 16, 17, 14) \/ FlagTable(B, {15}, 16, 17, 14)
      <4>1. 14 \in B["direct"] /\ \A g \in FlagNames : 14 \in B[g] => g \in {"direct"}
        BY <3>1 DEF FlagTable, FlagNames
      <4> QED
        BY <4>1
    <3>2. CASE FlagTable(B, {}, 14, 15, 16)
      <4>1. 16 \in B["direct"] /\ \A g \in FlagNames : 16 \in B[g] => g \in {"direct"}
        BY <3>2 DEF FlagTable, FlagNames
      <4> QED
        BY <4>1
    <3> QED
      BY <3>1, <3>2
  <2> QED
    BY <2>1 DEF FlagTable, Keyed
<1>9. Keyed(A, B, "directory")
  <2>1. PICK b : b \in B["directory"] /\ \A g \in FlagNames : b \in B[g] => g \in {"directory", "tmpfile"}
    <3>1. CASE FlagTable(B, {}, 16, 17, 14) \/ FlagTable(B, {15}, 16, 17, 14)
      <4>1. 16 \in B["directory"] /\ \A g \in FlagNames : 16 \in B[g] => g \in {"directory", "tmpfile"}
        BY <3>1 DEF FlagTable, FlagNames
      <4> QED
        BY <4>1
    <3>2. CASE FlagTable(B, {}, 14, 15, 16)
      <4>1. 14 \in B["directory"] /\ \A g \in FlagNames : 14 \in B[g] => g \in {"directory", "tmpfile"}
        BY <3>2 DEF FlagTable, FlagNames
      <4> QED
        BY <4>1
    <3> QED
      BY <3>1, <3>2
  <2> QED
    BY <2>1 DEF FlagTable, Keyed
<1>10. Keyed(A, B, "dsync")
  <2>1. 12 \in B["dsync"] /\ \A g \in FlagNames : 12 \in B[g] => g \in {"dsync", "sync"}
    BY DEF FlagTable, FlagNames
  <2> QED
    BY <2>1 DEF FlagTable, Keyed
<1>11. Keyed(A, B, "excl")
  <2>1. 7 \in B["excl"] /\ \A g \in FlagNames : 7 \in B[g] => g \in {"excl"}
    BY DEF FlagTable, FlagNames
  <2> QED
    BY <2>1 DEF FlagTable, Keyed
<1>12. Keyed(A, B, "noatime")
  <2>1. 18 \in B["noatime"] /\ \A g \in FlagNames : 18 \in B[g] => g \in {"noatime"}
    BY DEF FlagTable, FlagNames
  <2> QED
    BY <2>1 DEF FlagTable, Keyed
<1>13. Keyed(A, B, "noctty")
  <2>1. 8 \in B["noctty"] /\ \A g \in FlagNames : 8 \in B[g] => g \in {"noctty"}
    BY DEF FlagTable, FlagNames
  <2> QED
    BY <2>1 DEF FlagTable, Keyed
<1>14. Keyed(A, B, "nofollow")
  <2>1. PICK b : b \in B["nofollow"] /\ \A g \in FlagNames : b \in B[g] => g \in {"nofollow"}
    <3>1. CASE FlagTable(B, {}, 16, 17, 14) \/ FlagTable(B, {15}, 16, 17, 14)
      <4>1. 17 \in B["nofollow"] /\ \A g \in FlagNames : 17 \in B[g] => g \in {"nofollow"}
        BY <3>1 DEF FlagTable, FlagNames
      <4> QED
        BY <4>1
    <3>2. CASE FlagTable(B, {}, 14, 15, 16)
      <4>1. 15 \in B["nofollow"] /\ \A g \in FlagNames : 15 \in B[g] => g \in {"nofollow"}
        BY <3>2 DEF FlagTable, FlagNames
      <4> QED
        BY <4>1
    <3> QED
      BY <3>1, <3>2
  <2> QED
    BY <2>1 DEF FlagTable, Keyed
<1>15. Keyed(A, B, "nonblock")
  <2>1. 11 \in B["nonblock"] /\ \A g \in FlagNames : 11 \in B[g] => g \in {"nonblock", "ndelay"}
    BY DEF FlagTable, FlagNames
  <2> QED
    BY <2>1 DEF FlagTable, Keyed
<1>16. Keyed(A, B, "ndelay")
  <2>1. 11 \in B["ndelay"] /\ \A g \in FlagNames : 11 \in B[g] => g \in {"nonblock", "ndelay"}
    BY DEF FlagTable, FlagNames
  <2> QED
    BY <2>1 DEF FlagTable, Keyed
<1>17. Keyed(A, B, "path")
  <2>1. 21 \in B["path"] /\ \A g \in FlagNames : 21 \in B[g] => g \in {"path"}
    BY DEF FlagTable, FlagNames
  <2> QED
    BY <2>1 DEF FlagTable, Keyed
<1>18. Keyed(A, B, "sync")
  <2>1. 20 \in B["sync"] /\ \A g \in FlagNames : 20 \in B[g] => g \in {"sync"}
    BY DEF FlagTable, FlagNames
  <2> QED
    BY <2>1 DEF FlagTable, Keyed
<1>19. Keyed(A, B, "tmpfile")
  <2>1. 22 \in B["tmpfile"] /\ \A g \in FlagNames : 22 \in B[g] => g \in {"tmpfile"}
    BY DEF FlagTable, FlagNames
  <2> QED
    BY <2>1 DEF FlagTable, Keyed
<1>20. Keyed(A, B, "trunc")
  <2>1. 9 \in B["trunc"] /\ \A g \in FlagNames : 9 \in B[g] => g \in {"trunc"}
    BY DEF FlagTable, FlagNames
  <2> QED
    BY <2>1 DEF FlagTable, Keyed
<1> QED
  BY <1>1, <1>2, <1>3, <1>4, <1>5, <1>6, <1>7, <1>8, <1>9, <1>10,
     <1>11, <1>12, <1>13, <1>14, <1>15, <1>16, <1>17, <1>18, <1>19, <1>20 DEF FlagNames

(* Flags that can be told apart survive a translation. *)
LEMMA TranslateKeyed ==
  ASSUME NEW A, NEW B, DOMAIN A = DOMAIN B, NEW v, NEW f \in DOMAIN A, Keyed(A, B, f)
  PROVE  A[f] \subseteq v <=> B[f] \subseteq Translate(v, A, B)
<1>1. ASSUME A[f] \subseteq v PROVE B[f] \subseteq Translate(v, A, B)
  BY <1>1 DEF Translate
<1>2. ASSUME B[f] \subseteq Translate(v, A, B) PROVE A[f] \subseteq v
  <2>1. CASE A[f] = {}
    BY <2>1
  <2>2. CASE \E b \in B[f] : \A g \in DOMAIN B : b \in B[g] => A[f] \subseteq A[g]
    <3>1. PICK b \in B[f] : \A g \in DOMAIN B : b \in B[g] => A[f] \subseteq A[g]
      BY <2>2
    <3>2. PICK g \in DOMAIN A : A[g] \subseteq v /\ b \in B[g]
      BY <1>2 DEF Translate
    <3> QED
      BY <3>1, <3>2
  <2> QED
    BY <2>1, <2>2 DEF Keyed
<1> QED
  BY <1>1, <1>2

Hosts == {"x86_64", "aarch64"}

(* The table of a machine is one of the two. *)
LEMMA HostTables ==
  ASSUME NEW h \in Hosts
  PROVE  FlagTable(O_Flags[h], {}, 16, 17, 14) \/ FlagTable(O_Flags[h], {}, 14, 15, 16)
BY FlagTables DEF Hosts

(* Flags are words. *)
LEMMA TableType ==
  ASSUME NEW T, NEW l \in SUBSET (0 .. 31), NEW d \in 0 .. 31, NEW n \in 0 .. 31, NEW x \in 0 .. 31,
         FlagTable(T, l, d, n, x)
  PROVE  \A f \in DOMAIN T : T[f] \in SUBSET (0 .. 31)
<1>1. DOMAIN T = FlagNames
  BY DEF FlagTable
<1>2. \A f \in {"rdonly", "wronly", "rdwr", "append", "async", "cloexec", "creat"} : T[f] \subseteq 0 .. 31
  BY DEF FlagTable
<1>3. \A f \in {"dsync", "excl", "noatime", "noctty", "nonblock", "ndelay", "path", "sync", "trunc"} :
         T[f] \subseteq 0 .. 31
  BY DEF FlagTable
<1>4. \A f \in {"direct", "directory", "largefile", "nofollow", "tmpfile"} : T[f] \subseteq 0 .. 31
  <2>1. /\ T["largefile"] = l /\ T["directory"] = {d} /\ T["tmpfile"] = {d, 22}
        /\ T["nofollow"] = {n} /\ T["direct"] = {x}
    BY DEF FlagTable
  <2>2. /\ l \subseteq 0 .. 31 /\ {d} \subseteq 0 .. 31 /\ {d, 22} \subseteq 0 .. 31
        /\ {n} \subseteq 0 .. 31 /\ {x} \subseteq 0 .. 31
    OBVIOUS
  <2> QED
    BY <2>1, <2>2
<1>5. \A f \in FlagNames : T[f] \subseteq 0 .. 31
  BY <1>2, <1>3, <1>4 DEF FlagNames
<1> QED
  BY <1>1, <1>5

(* The flags of open mean the same to the service and to the provider, for
   every combination of flags and for machines with other numbers for them: a
   flag but O_LARGEFILE, which is 0 there, is set on one machine if and only if
   it was set on the other one.                                             *)
THEOREM OpenflagsKept ==
  ASSUME NEW s \in Hosts, NEW t \in Hosts, NEW v, NEW f \in FlagNames \ {"largefile"}
  PROVE  O_Flags[s][f] \subseteq v <=>
         O_Flags[t][f] \subseteq openflags_to_int(openflags_from_int(v, s), t)
<1>1. PICK A, B, M : A = O_Flags[s] /\ B = O_Flags[t] /\ M = OpenFlags
  OBVIOUS
<1>2. DOMAIN A = FlagNames /\ DOMAIN B = FlagNames /\ DOMAIN M = FlagNames
  BY <1>1, HostTables, FlagTables DEF FlagTable
<1>3. Keyed(A, M, f)
  BY <1>1, HostTables, FlagTables, KeyedFlags
<1>4. Keyed(M, B, f)
  BY <1>1, HostTables, FlagTables, KeyedFlags
<1>5. A[f] \subseteq v <=> M[f] \subseteq Translate(v, A, M)
  BY <1>2, <1>3, TranslateKeyed
<1>6. M[f] \subseteq Translate(v, A, M) <=> B[f] \subseteq Translate(Translate(v, A, M), M, B)
  BY <1>2, <1>4, TranslateKeyed
<1> QED
  BY <1>1, <1>5, <1>6 DEF openflags_to_int, openflags_from_int

(* A translated word has bits of the target table only. *)
LEMMA TranslateType ==
  ASSUME NEW v, NEW A, NEW B, DOMAIN A = DOMAIN B, NEW S, \A f \in DOMAIN B : B[f] \in SUBSET S
  PROVE  Translate(v, A, B) \in SUBSET S
BY DEF Translate

(* Converted open flags are words. *)
LEMMA OpenflagsType ==
  ASSUME NEW h \in Hosts, NEW v
  PROVE  openflags_from_int(v, h) \in SUBSET (0 .. 31) /\ openflags_to_int(v, h) \in SUBSET (0 .. 31)
<1>1. PICK B, M : B = O_Flags[h] /\ M = OpenFlags
  OBVIOUS
<1>2. DOMAIN B = FlagNames /\ DOMAIN M = FlagNames
  BY <1>1, HostTables, FlagTables DEF FlagTable
<1>3. \A f \in DOMAIN M : M[f] \in SUBSET (0 .. 31)
  <2>1. FlagTable(M, {15}, 16, 17, 14)
    BY <1>1, FlagTables
  <2>2. {15} \in SUBSET (0 .. 31) /\ 16 \in 0 .. 31 /\ 17 \in 0 .. 31 /\ 14 \in 0 .. 31
    OBVIOUS
  <2> QED
    BY <2>1, <2>2, TableType
<1>4. \A f \in DOMAIN B : B[f] \in SUBSET (0 .. 31)
  <2>1. FlagTable(B, {}, 16, 17, 14) \/ FlagTable(B, {}, 14, 15, 16)
    BY <1>1, HostTables
  <2>2. {} \in SUBSET (0 .. 31) /\ \A i \in {14, 15, 16, 17} : i \in 0 .. 31
    OBVIOUS
  <2> QED
    BY <2>1, <2>2, TableType
<1>5. Translate(v, B, M) \in SUBSET (0 .. 31) /\ Translate(v, M, B) \in SUBSET (0 .. 31)
  BY <1>2, <1>3, <1>4, TranslateType
<1> QED
  BY <1>1, <1>5 DEF openflags_to_int, openflags_from_int
=============================================================================
