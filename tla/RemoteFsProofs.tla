--------------------------- MODULE RemoteFsProofs ---------------------------
(***************************************************************************)
(* Proofs about RemoteFs, for any number of threads, files, paths, objects *)
(* and descriptors, any widths and any bounds.                             *)
(***************************************************************************)
EXTENDS RemoteFs, SequenceTheorems, WellFoundedInduction, TLAPS

(* A handle read from a message is a 32 bit number, so invalid_handle is never
   found in one.                                                            *)
LEMMA ReadHandle ==
  ASSUME NEW h \in 0 .. U64 - 1
  PROVE  read_u64(h) \in 0 .. U64 - 1 /\ read_u64(h) /= invalid_handle
  BY WidthAssumption DEF read_u64, invalid_handle

(* A descriptor is a handle that survives the way through the message and the
   conversion to int.                                                       *)
LEMMA Descriptor ==
  ASSUME NEW d \in Fds
  PROVE  d \in 0 .. U64 - 1 /\ d \in Nat /\ read_u64(d) = d /\ static_cast_int(read_u64(d)) = d
<1>1. d \in 0 .. (U32 \div 2) - 1
  BY FdsAssumption
<1>2. (U32 \div 2) \in Nat /\ U32 \div 2 <= U32
  BY WidthAssumption
<1>3. d \in Nat /\ d < U32 \div 2 /\ d < U32 /\ d <= U64 - 1
  BY <1>1, <1>2, WidthAssumption
<1>4. d % U32 = d
  BY <1>3, WidthAssumption
<1> QED
  BY <1>3, <1>4 DEF read_u64, static_cast_int

(* A set of natural numbers has a least element. *)
LEMMA LeastNatural ==
  ASSUME NEW S, S \subseteq Nat, S /= {}
  PROVE  \E d \in S : \A e \in S : d <= e
<1> DEFINE less == {pair \in Nat \X Nat : pair[1] < pair[2]}
<1>1. OpToRel(<, Nat) = less
  BY Zenon DEF OpToRel
<1>2. IsWellFoundedOn(less, Nat)
  BY <1>1, NatLessThanWellFounded, Zenon
<1> HIDE DEF less
<1>3. PICK d \in S : \A e \in S : ~(<<e, d>> \in less)
  BY <1>2, WFMin
<1>4. ASSUME NEW e \in S, ~(d <= e) PROVE FALSE
  <2>1. <<e, d>> \in Nat \X Nat /\ e < d
    BY <1>4
  <2> QED
    BY <1>3, <2>1 DEF less
<1> QED
  BY <1>4

(* ::open finds the lowest free descriptor if there is one. *)
LEMMA LowestFree ==
  ASSUME FreeFds /= {}
  PROVE  LowestFd \in Fds /\ fds[LowestFd] = NoObject
<1>1. FreeFds \subseteq Nat
  BY Descriptor DEF FreeFds
<1>2. PICK d \in FreeFds : \A e \in FreeFds : d <= e
  BY <1>1, LeastNatural
<1>3. LowestFd \in FreeFds
  BY <1>2 DEF LowestFd
<1> QED
  BY <1>3 DEF FreeFds

-----------------------------------------------------------------------------
(***************************************************************************)
(* Types.  That a path is followed to an object needs more than the types  *)
(* themselves: symbolic links contain paths, and the argument of mknod is  *)
(* a number.                                                               *)
(***************************************************************************)
Numbered(r) == r.op = "mknod" => r.arg \in 0 .. U64 - 1 \cup {Empty}

TypeInv ==
    /\ TypeOK
    /\ \A o \in Objects : kind[o] = "link" => data[o] \in Paths
    /\ \A i \in DOMAIN channel : Numbered(channel[i].req)

LEMMA OpsFacts == Ops \subseteq AllOps /\ "idle" \notin Ops /\ Idle.op = "idle"
  BY BoundsAssumption DEF AllOps, HandleOps, QueryOps, TreeOps, MakeOps, MetaOps, Idle, Request

LEMMA HeadEntry ==
  ASSUME TypeInv, channel /= <<>>
  PROVE  /\ Head(channel) \in Entry /\ Req \in Requests /\ Numbered(Req)
         /\ Tail(channel) \in Seq(Entry)
         /\ \A i \in DOMAIN Tail(channel) : i + 1 \in DOMAIN channel /\ Tail(channel)[i] = channel[i + 1]
<1>1. channel \in Seq(Entry)
  BY DEF TypeInv, TypeOK, WireTypeOK
<1>2. /\ Len(channel) \in Nat /\ Len(channel) > 0 /\ DOMAIN channel = 1 .. Len(channel)
      /\ Head(channel) = channel[1] /\ Tail(channel) \in Seq(Entry)
      /\ DOMAIN Tail(channel) = 1 .. Len(channel) - 1
      /\ \A i \in 1 .. Len(channel) - 1 : Tail(channel)[i] = channel[i + 1]
  BY <1>1, HeadTailProperties
<1>3. 1 \in DOMAIN channel /\ Head(channel) \in Entry
  BY <1>1, <1>2
<1>4. Req \in Requests /\ Numbered(Req)
  BY <1>2, <1>3 DEF Req, Entry, TypeInv
<1> QED
  BY <1>2, <1>3, <1>4

(* Where a path leads to. *)
LEMMA FollowType ==
  ASSUME TypeInv, NEW p \in Paths
  PROVE  Deref(p) \in Paths /\ Follow(p) \in Objects \cup {NoObject}
  BY DEF TypeInv, TypeOK, ProviderTypeOK, Deref, Follow

LEMMA FdObjectType ==
  ASSUME TypeInv, NEW d
  PROVE  FdObject(d) \in Objects \cup {NoObject}
  BY DEF TypeInv, TypeOK, ProviderTypeOK, FdObject

(* Sending a request. *)
LEMMA PerformType ==
  ASSUME TypeInv, NEW t \in Threads, NEW r \in Requests, Numbered(r), Perform(t, r),
         file' \in [Files -> [state : {"free", "opening", "open", "releasing"},
                              fh : 0 .. U64 - 1, path : Paths]]
  PROVE  TypeInv'
<1>1. MountTypeOK'
  BY DEF TypeInv, TypeOK, MountTypeOK, Perform, Results
<1>2. channel' = channel \/ \E m \in Entry : m.req = r /\ channel' = Append(channel, m)
  <2> DEFINE m == [req |-> r, thread |-> t,
                   object |-> IF r.file = NoFile THEN NoObject ELSE opened[r.file]]
  <2>1. m \in Entry
    BY DEF Entry, Requests, TypeInv, TypeOK, MountTypeOK
  <2> QED
    BY <2>1 DEF Perform, Send
<1>3. /\ channel' \in Seq(Entry)
      /\ \A i \in DOMAIN channel' : Numbered(channel'[i].req)
  BY <1>2, AppendProperties DEF TypeInv, TypeOK, WireTypeOK
<1>4. WireTypeOK' /\ ProviderTypeOK'
  BY <1>3 DEF TypeInv, TypeOK, WireTypeOK, ProviderTypeOK, Perform, fsVars
<1> QED
  BY <1>1, <1>3, <1>4 DEF TypeInv, TypeOK, Perform, fsVars

(* Answering one. *)
LEMMA RespondType ==
  ASSUME TypeInv, channel /= <<>>, NEW res \in Results, NEW h \in 0 .. U64 - 1,
         NEW entries \in SUBSET (Paths \cup {Dot, DotDot}), Respond(res, h, entries),
         opened' \in [Files -> Objects \cup {NoObject}]
  PROVE  MountTypeOK' /\ WireTypeOK' /\ \A i \in DOMAIN channel' : Numbered(channel'[i].req)
<1>1. Head(channel) \in Entry /\ channel' \in Seq(Entry)
  BY HeadEntry DEF Respond
<1>2. \A i \in DOMAIN channel' : Numbered(channel'[i].req)
  BY HeadEntry DEF Respond, TypeInv
<1>3. [result |-> res, handle |-> h, entries |-> entries] \in Responses
  BY DEF Responses
<1>4. resp' \in [Threads -> Responses \cup {NoResp}]
  BY <1>1, <1>3 DEF Respond, Entry, TypeInv, TypeOK, MountTypeOK
<1> QED
  BY <1>1, <1>2, <1>4 DEF Respond, mountVars, TypeInv, TypeOK, MountTypeOK, WireTypeOK

(* A thread's call comes to its end. *)
LEMMA EndType ==
  ASSUME TypeInv, NEW t \in Threads, call[t] /= Idle, NEW res \in Results,
         NEW h \in 0 .. U64 - 1, End(t, res, h),
         channel' \in Seq(Entry), failures' \in Nat,
         provider = "down" => channel' = <<>>,
         \A i \in DOMAIN channel' : Numbered(channel'[i].req)
  PROVE  TypeInv'
<1>1. call[t] \in Requests
  BY DEF TypeInv, TypeOK, MountTypeOK
<1>2. read_u64(h) \in 0 .. U64 - 1
  BY ReadHandle
<1>3. 0 \in 0 .. U64 - 1 /\ Root \in Paths
  BY WidthAssumption, SetsAssumption
<1>4. /\ FileAfter(call[t], res, h) \in
            [Files -> [state : {"free", "opening", "open", "releasing"},
                       fh : 0 .. U64 - 1, path : Paths]]
  <2> DEFINE FileType == [state : {"free", "opening", "open", "releasing"},
                          fh : 0 .. U64 - 1, path : Paths]
  <2>1. Free \in FileType
    BY <1>3 DEF Free
  <2>2. file \in [Files -> FileType]
    BY DEF TypeInv, TypeOK, MountTypeOK
  <2>3. Moved(call[t]) \in [Files -> FileType]
    BY <1>1, <2>2 DEF Moved, Requests
  <2>4. \A f \in Files : [file[f] EXCEPT !.state = "open", !.fh = read_u64(h)] \in FileType
    BY <1>2, <2>2
  <2> QED
    BY <2>1, <2>2, <2>3, <2>4 DEF FileAfter
<1>5. MountTypeOK'
  BY <1>4 DEF End, TypeInv, TypeOK, MountTypeOK
<1>6. WireTypeOK' /\ ProviderTypeOK'
  BY DEF End, TypeInv, TypeOK, WireTypeOK, ProviderTypeOK, fsVars
<1> QED
  BY <1>5, <1>6 DEF End, TypeInv, TypeOK, fsVars

LEMMA AbandonType ==
  ASSUME TypeInv, NEW t
  PROVE  /\ Abandon(t) \in Seq(Entry)
         /\ channel = <<>> => Abandon(t) = <<>>
         /\ DOMAIN Abandon(t) = DOMAIN channel
         /\ \A i \in DOMAIN Abandon(t) : Abandon(t)[i].req = channel[i].req
<1>1. channel \in Seq(Entry) /\ DOMAIN channel = 1 .. Len(channel) /\ Len(channel) \in Nat
  BY DEF TypeInv, TypeOK, WireTypeOK
<1>2. ASSUME NEW i \in DOMAIN channel
      PROVE  Abandon(t)[i] \in Entry /\ Abandon(t)[i].req = channel[i].req
  <2>1. channel[i] \in Entry
    BY <1>1
  <2>2. /\ [channel[i] EXCEPT !.thread = NoThread] \in Entry
        /\ [channel[i] EXCEPT !.thread = NoThread].req = channel[i].req
    BY <2>1 DEF Entry
  <2>3. \/ Abandon(t)[i] = channel[i]
        \/ Abandon(t)[i] = [channel[i] EXCEPT !.thread = NoThread]
    BY DEF Abandon
  <2> QED
    BY <2>1, <2>2, <2>3
<1>3. DOMAIN Abandon(t) = 1 .. Len(channel)
  BY <1>1 DEF Abandon
<1>4. Abandon(t) \in Seq(Entry)
  BY <1>1, <1>2, <1>3 DEF Abandon
<1>5. channel = <<>> => Abandon(t) = <<>>
  BY <1>3, <1>4, EmptySeq
<1> QED
  BY <1>1, <1>2, <1>3, <1>4, <1>5

(* A step of the provider that makes a new object. *)
LEMMA MakeType ==
  ASSUME TypeInv, NEW p, NEW o \in Objects, NEW k \in {"file", "dir", "link", "device"},
         NEW v \in Files \cup Paths \cup 0 .. U64 - 1 \cup {Empty}, k = "link" => v \in Paths,
         Make(p, o, k, v), UNCHANGED <<fds, provider>>,
         provider = "up" \/ UNCHANGED channel
  PROVE  ProviderTypeOK' /\ \A q \in Objects : kind'[q] = "link" => data'[q] \in Paths
  BY DEF Make, TypeInv, TypeOK, ProviderTypeOK

-----------------------------------------------------------------------------
(***************************************************************************)
(* The steps of the mount and of the provider, by what they do to open     *)
(* files, requests and descriptors.                                        *)
(***************************************************************************)
OpenOps == {"open", "create"}

Opening(t, r) ==
    /\ r.op \in OpenOps /\ r.file \in Files /\ file[r.file] = Free
    /\ file' = [file EXCEPT ![r.file] = [state |-> "opening", fh |-> 0, path |-> r.path]]
    /\ Perform(t, r)

Releasing(t, r) ==
    /\ r.op = "release" /\ r.file \in Files
    /\ file[r.file].state = "open" /\ r.handle = file[r.file].fh
    /\ \A u \in Threads : call[u].file /= r.file
    /\ file' = [file EXCEPT ![r.file].state = "releasing"]
    /\ Perform(t, r)

(* An operation on an open file. *)
Using(t, r) ==
    /\ r.op \notin OpenOps \cup {"release"} /\ r.file \in Files
    /\ file[r.file].state = "open" /\ r.handle = file[r.file].fh
    /\ UNCHANGED file
    /\ Perform(t, r)

(* An operation on paths. *)
Naming(t, r) ==
    /\ r.op \notin OpenOps \cup {"release"} /\ r.file = NoFile
    /\ UNCHANGED file
    /\ Perform(t, r)

Sending(t, r) == Opening(t, r) \/ Releasing(t, r) \/ Using(t, r) \/ Naming(t, r)

(* The locks that libfuse takes on the paths of an operation. *)
Guards(op, p, q, a) ==
    IF op \in TreeOps
    THEN /\ ~Busy(p) /\ ~Busy(q)
         /\ op = "rename" => a \in 0 .. 2 /\ p /= q
         /\ op /= "rename" => p = q
         /\ ~(op = "rename" /\ a = 2) => ~Held(q)
    ELSE ~Locked(p) /\ ~Locked(q)

Guarded(r) ==
    /\ Guards(r.op, r.path, r.to, r.arg)
    /\ (r.file \in Files /\ r.op \notin OpenOps) => r.path = file[r.file].path
    /\ r.op = "read" => r.file \in Files

LEMMA RequestType ==
  ASSUME NEW op \in Ops, NEW f \in Files \cup {NoFile}, NEW p \in Paths, NEW q \in Paths,
         NEW h \in 0 .. U64 - 1, NEW a \in Args
  PROVE  /\ Request(op, f, p, q, h, a) \in Requests
         /\ Request(op, f, p, q, h, a).op = op /\ Request(op, f, p, q, h, a).file = f
         /\ Request(op, f, p, q, h, a).path = p /\ Request(op, f, p, q, h, a).to = q
         /\ Request(op, f, p, q, h, a).handle = h /\ Request(op, f, p, q, h, a).arg = a
  BY DEF Request, Requests

LEMMA MountSteps ==
  ASSUME TypeInv, NEW t \in Threads, Mount(t)
  PROVE  \/ \E r \in Requests : Numbered(r) /\ Guarded(r) /\ Sending(t, r)
         \/ Return(t) \/ Catch(t)
<1> USE DEF Sending, OpenOps
<1>0. /\ 0 \in 0 .. U64 - 1 /\ invalid_handle \in 0 .. U64 - 1 /\ Root \in Paths
      /\ Empty \in Args /\ Files \subseteq Args /\ 0 .. 2 \subseteq Args /\ Devices \subseteq Args
  <2>1. U64 \in Nat /\ U64 > 2
    BY WidthAssumption
  <2> QED
    BY <2>1, SetsAssumption, DevicesAssumption DEF invalid_handle, Args
<1>1. ASSUME NEW f \in Files PROVE file[f].fh \in 0 .. U64 - 1 /\ file[f].path \in Paths
  BY DEF TypeInv, TypeOK, MountTypeOK
<1>2. ASSUME NEW r, Perform(t, r) PROVE r.op \in Ops
  BY <1>2 DEF Perform
<1>3. ASSUME NEW f \in Files, fs_release(t, f)
      PROVE  \E r \in Requests : Numbered(r) /\ Guarded(r) /\ Releasing(t, r)
  <2> DEFINE r == Request("release", f, file[f].path, file[f].path, fs_get_handle(f), Empty)
  <2>1. Perform(t, r) /\ r.op = "release" /\ fs_get_handle(f) = file[f].fh
    BY <1>3, SetsAssumption DEF fs_release, Request, fs_get_handle
  <2>2. r \in Requests /\ r.file = f /\ r.handle = file[f].fh
    BY <1>0, <1>1, <1>2, <2>1, RequestType
  <2>3. r.path = file[f].path /\ r.to = file[f].path
    BY DEF Request
  <2> QED
    BY <1>3, <2>1, <2>2, <2>3 DEF fs_release, Releasing, Numbered, Guarded, Guards, TreeOps
<1>4. ASSUME NEW f \in Files, NEW p \in Paths, fs_open(t, f, p)
      PROVE  \E r \in Requests : Numbered(r) /\ Guarded(r) /\ Opening(t, r)
  <2>1. PICK op \in OpenOps : Perform(t, Request(op, f, p, p, 0, Empty))
    BY <1>4 DEF fs_open
  <2> DEFINE r == Request(op, f, p, p, 0, Empty)
  <2>2. r.op = op
    BY DEF Request
  <2>3. r \in Requests /\ r.file = f /\ r.path = p /\ r.to = p
    BY <1>0, <1>2, <2>1, <2>2, RequestType
  <2> QED
    BY <1>4, <2>1, <2>2, <2>3 DEF fs_open, Opening, Numbered, Guarded, Guards, TreeOps
<1>5. ASSUME NEW f \in Files, NEW op \in HandleOps \ {"open", "create", "release"}, fs_file(t, op, f)
      PROVE  \E r \in Requests : Numbered(r) /\ Guarded(r) /\ Using(t, r)
  <2> DEFINE r == Request(op, f, file[f].path, file[f].path, fs_get_handle(f), f)
  <2>1. Perform(t, r) /\ r.op = op /\ fs_get_handle(f) = file[f].fh
    BY <1>5, SetsAssumption DEF fs_file, Request, fs_get_handle
  <2>2. r \in Requests /\ r.file = f /\ r.handle = file[f].fh
    BY <1>0, <1>1, <1>2, <2>1, RequestType
  <2>3. r.path = file[f].path /\ r.to = file[f].path
    BY DEF Request
  <2> QED
    BY <1>5, <2>1, <2>2, <2>3 DEF fs_file, Using, Numbered, HandleOps, Guarded, Guards, TreeOps
<1>6. ASSUME NEW op \in AllOps \ {"open", "create", "release"}, NEW p \in Paths, NEW q \in Paths,
             NEW h \in {0, invalid_handle}, NEW a \in Args,
             op = "mknod" => a \in 0 .. U64 - 1 \cup {Empty},
             Guards(op, p, q, a), op /= "read",
             Perform(t, Request(op, NoFile, p, q, h, a)), UNCHANGED file
      PROVE  \E r \in Requests : Numbered(r) /\ Guarded(r) /\ Naming(t, r)
  <2> DEFINE r == Request(op, NoFile, p, q, h, a)
  <2>1. r.op = op
    BY DEF Request
  <2>2. op \in Ops /\ h \in 0 .. U64 - 1 /\ NoFile \in Files \cup {NoFile}
    BY <1>0, <1>2, <1>6, <2>1
  <2>3. r \in Requests /\ r.file = NoFile /\ r.arg = a /\ r.path = p /\ r.to = q
    BY <2>2 DEF Request, Requests
  <2> QED
    BY <1>6, <2>1, <2>3, SetsAssumption DEF Naming, Numbered, Guarded
<1>7. ASSUME NEW p \in Paths, NEW op \in {"truncate", "utimens"}, fs_path(t, op, p)
      PROVE  \E r \in Requests : Numbered(r) /\ Guarded(r) /\ Naming(t, r)
  BY <1>0, <1>6, <1>7 DEF fs_path, fs_get_handle, AllOps, HandleOps, Guards, TreeOps
<1>8. ASSUME NEW p \in Paths, NEW op \in QueryOps, fs_query(t, op, p)
      PROVE  \E r \in Requests : Numbered(r) /\ Guarded(r) /\ Naming(t, r)
  BY <1>0, <1>6, <1>8 DEF fs_query, AllOps, QueryOps, Guards, TreeOps
<1>9. ASSUME NEW p \in Paths, NEW op \in MetaOps, fs_chmod(t, op, p)
      PROVE  \E r \in Requests : Numbered(r) /\ Guarded(r) /\ Naming(t, r)
  BY <1>0, <1>6, <1>9 DEF fs_chmod, AllOps, MetaOps, Guards, TreeOps
<1>10. ASSUME NEW p \in Paths,
              \/ fs_make(t, "mkdir", p, Empty)
              \/ \E dev \in Devices \cup {Empty} : fs_make(t, "mknod", p, dev)
              \/ \E op \in TreeOps \ {"rename"} : fs_remove(t, op, p)
       PROVE  \E r \in Requests : Numbered(r) /\ Guarded(r) /\ Naming(t, r)
  <2>1. CASE fs_make(t, "mkdir", p, Empty)
    BY <1>0, <1>6, <2>1 DEF fs_make, AllOps, MakeOps, Guards, TreeOps
  <2>2. ASSUME NEW dev \in Devices \cup {Empty}, fs_make(t, "mknod", p, dev)
        PROVE  \E r \in Requests : Numbered(r) /\ Guarded(r) /\ Naming(t, r)
    BY <1>0, <1>6, <2>2, DevicesAssumption DEF fs_make, AllOps, MakeOps, Guards, TreeOps
  <2>3. ASSUME NEW op \in TreeOps \ {"rename"}, fs_remove(t, op, p)
        PROVE  \E r \in Requests : Numbered(r) /\ Guarded(r) /\ Naming(t, r)
    BY <1>0, <1>6, <2>3 DEF fs_remove, AllOps, Guards, TreeOps
  <2> QED
    BY <1>10, <2>1, <2>2, <2>3
<1>11. ASSUME NEW p \in Paths, NEW q \in Paths, NEW op \in {"link", "symlink"}, fs_link(t, op, p, q)
       PROVE  \E r \in Requests : Numbered(r) /\ Guarded(r) /\ Naming(t, r)
  BY <1>0, <1>6, <1>11 DEF fs_link, AllOps, MakeOps, Guards, TreeOps
<1>12. ASSUME NEW p \in Paths, NEW q \in Paths, NEW flags \in 0 .. 2, fs_rename(t, p, q, flags)
       PROVE  \E r \in Requests : Numbered(r) /\ Guarded(r) /\ Naming(t, r)
  BY <1>0, <1>6, <1>12 DEF fs_rename, AllOps, Guards, TreeOps
<1> QED
  BY <1>3, <1>4, <1>5, <1>7, <1>8, <1>9, <1>10, <1>11, <1>12 DEF Mount

(* The provider opens a file. *)
Opened(o) == /\ provider = "up" /\ channel /= <<>> /\ Req.op \in OpenOps
             /\ FreeFds /= {} /\ OpenFd(o)

(* The provider answers without opening or closing one. *)
Answered(res, entries) ==
    /\ provider = "up" /\ channel /= <<>> /\ Req.op /= "release"
    /\ Req.op \in OpenOps => res /= "OK"
    /\ Respond(res, 0, entries)
    /\ UNCHANGED <<fds, opened>>

Answers == \E res \in Results, entries \in SUBSET (Paths \cup {Dot, DotDot}) : Answered(res, entries)
Opens == \E o \in Objects : Opened(o)

(* The objects of the provider's file system keep their types. *)
FsTypeOK == ProviderTypeOK /\ \A o \in Objects : kind[o] = "link" => data[o] \in Paths

LEMMA TargetType ==
  ASSUME TypeInv, channel /= <<>>
  PROVE  /\ Target(Req) \in Objects \cup {NoObject}
         /\ Missing(Req) \in Results
         /\ Follow(Req.path) \in Objects \cup {NoObject} /\ Deref(Req.path) \in Paths
         /\ names[Req.path] \in Objects \cup {NoObject}
         /\ names[Req.to] \in Objects \cup {NoObject}
<1>1. Req \in Requests
  BY HeadEntry
<1>2. Req.path \in Paths /\ Req.to \in Paths
  BY <1>1 DEF Requests
<1> QED
  BY <1>2, FollowType, FdObjectType
     DEF Target, Missing, Results, TypeInv, TypeOK, ProviderTypeOK

LEMMA OpenSteps ==
  ASSUME TypeInv, provider_open \/ provider_create
  PROVE  (Opens \/ Answers) /\ FsTypeOK'
<1> USE DEF OpenOps
<1>0. /\ provider = "up" /\ channel /= <<>> /\ Req.op \in OpenOps
      /\ {} \in SUBSET (Paths \cup {Dot, DotDot})
  BY DEF provider_open, provider_create, Serving
<1>1. /\ Follow(Req.path) \in Objects \cup {NoObject}
      /\ Follow(Req.path) = NoObject => OpenError(Follow(Req.path)) /= "OK"
      /\ OpenError(Follow(Req.path)) \in Results
      /\ OpenError(Follow(Req.path)) \in {"OK", "ENOENT"} => FreeFds /= {}
      /\ OpenError(Follow(Req.path)) = "OK" => kind[Follow(Req.path)] /= "link"
  BY <1>0, TargetType DEF OpenError, Results
<1>2. ASSUME NEW o \in Objects, FreeFds /= {}, OpenFd(o) PROVE Opens /\ UNCHANGED provider
  BY <1>0, <1>2 DEF Opens, Opened, OpenFd, Respond
<1>3. ASSUME NEW res \in Results, res /= "OK", Reply(res), UNCHANGED <<fds, opened>>
      PROVE  Answers /\ UNCHANGED provider
  <2>1. Answered(res, {})
    BY <1>0, <1>3 DEF Answered, Reply
  <2> QED
    BY <1>0, <1>3, <2>1 DEF Answers, Reply, Respond
<1>4. ASSUME NEW o \in Objects, FreeFds /= {}, OpenFd(o), UNCHANGED <<names, kind, meta>>,
             data' = data \/ (data' = [data EXCEPT ![o] = Empty] /\ kind[o] /= "link")
      PROVE  FsTypeOK'
  <2>1. fds' \in [Fds -> Objects \cup {NoObject}]
    BY <1>4 DEF OpenFd, TypeInv, TypeOK, ProviderTypeOK
  <2> QED
    BY <1>0, <1>2, <1>4, <2>1 DEF TypeInv, TypeOK, ProviderTypeOK, FsTypeOK
<1>5. ASSUME NEW o \in Objects, FreeFds /= {}, OpenFd(o), NEW p, Make(p, o, "file", Empty)
      PROVE  FsTypeOK'
  <2>1. fds' \in [Fds -> Objects \cup {NoObject}]
    BY <1>5 DEF OpenFd, TypeInv, TypeOK, ProviderTypeOK
  <2> QED
    BY <1>0, <1>2, <1>5, <2>1 DEF TypeInv, TypeOK, ProviderTypeOK, FsTypeOK, Make
<1>6. ASSUME UNCHANGED <<fds, fsVars, provider>> PROVE FsTypeOK'
  BY <1>0, <1>6 DEF TypeInv, TypeOK, ProviderTypeOK, FsTypeOK, fsVars
<1>7. CASE provider_open
  BY <1>1, <1>2, <1>3, <1>4, <1>6, <1>7 DEF provider_open, fsVars
<1>8. CASE provider_create
  <2>1. Fresh \subseteq Objects
    BY DEF Fresh
  <2> QED
    BY <1>1, <1>2, <1>3, <1>4, <1>5, <1>6, <1>8, <2>1 DEF provider_create, Results
<1> QED
  BY <1>7, <1>8

LEMMA ReleaseStep ==
  ASSUME TypeInv, provider_release
  PROVE  /\ \E res \in Results : Respond(res, 0, {})
         /\ FsTypeOK' /\ UNCHANGED <<opened, provider>>
         /\ provider = "up" /\ channel /= <<>> /\ Req.op = "release"
<1>1. PICK res \in {"EBADF", "OK"} : Reply(res)
  BY DEF provider_release
<1>2. fds' \in [Fds -> Objects \cup {NoObject}]
  BY DEF provider_release, Close, TypeInv, TypeOK, ProviderTypeOK
<1>3. UNCHANGED <<fsVars, opened, provider>> /\ provider = "up" /\ channel /= <<>> /\ Req.op = "release"
  BY <1>1 DEF provider_release, Reply, Respond, Serving
<1> QED
  BY <1>1, <1>2, <1>3 DEF Reply, Results, TypeInv, TypeOK, ProviderTypeOK, FsTypeOK, fsVars

(* The other requests. *)
OtherRequest ==
    \/ provider_read \/ provider_write \/ provider_fsync \/ provider_utimens
    \/ provider_query \/ provider_chmod \/ provider_make \/ provider_link
    \/ provider_remove \/ provider_rename

LEMMA OtherSteps ==
  ASSUME TypeInv, OtherRequest
  PROVE  Answers /\ FsTypeOK' /\ Req.op \notin OpenOps
<1>1. /\ provider = "up" /\ channel /= <<>> /\ Req.op \notin OpenOps \cup {"release"}
      /\ UNCHANGED <<fds, opened>>
  BY DEF OtherRequest, provider_read, provider_write, provider_fsync, provider_utimens,
     provider_query, provider_chmod, provider_make, provider_link, provider_remove,
     provider_rename, Serving, OpenOps, QueryOps, MetaOps, MakeOps
<1>2. Req \in Requests /\ Numbered(Req) /\ Target(Req) \in Objects \cup {NoObject}
  BY <1>1, HeadEntry, TargetType
<1>3. ASSUME NEW res \in Results, NEW entries \in SUBSET (Paths \cup {Dot, DotDot}),
             Respond(res, 0, entries)
      PROVE  Answers /\ UNCHANGED provider
  <2>1. Answered(res, entries)
    BY <1>1, <1>3 DEF Answered
  <2> QED
    BY <1>3, <2>1 DEF Answers, Respond
<1>4. ASSUME NEW res \in Results, Reply(res) PROVE Answers /\ UNCHANGED provider
  BY <1>3, <1>4 DEF Reply
<1>5. ASSUME UNCHANGED <<provider, names, kind>>,
             \/ UNCHANGED data
             \/ \E o \in Objects : kind[o] = "file" /\ data' = [data EXCEPT ![o] = Req.arg],
             \/ UNCHANGED meta
             \/ \E o \in Objects, m \in {"utimens", "chmod", "chown"} : meta' = [meta EXCEPT ![o] = m]
      PROVE  FsTypeOK'
  <2>1. Req.arg \in Files \cup 0 .. U64 - 1 \cup {Empty}
    BY <1>2 DEF Requests, Args
  <2> QED
    BY <1>1, <1>5, <2>1 DEF FsTypeOK, TypeInv, TypeOK, ProviderTypeOK
<1>6. ASSUME UNCHANGED <<provider, kind, data, meta>>,
             names' \in [Paths -> Objects \cup {NoObject}]
      PROVE  FsTypeOK'
  BY <1>1, <1>6 DEF FsTypeOK, TypeInv, TypeOK, ProviderTypeOK
<1>7. CASE provider_read \/ provider_fsync
  <2>1. PICK res \in {"ENOENT", "EISDIR", "OK", "EBADF"} : Reply(res)
    BY <1>7 DEF provider_read, provider_fsync
  <2> QED
    BY <1>1, <1>4, <1>5, <1>7, <2>1 DEF provider_read, provider_fsync, fsVars, Results
<1>8. CASE provider_write
  <2>1. Missing(Req) \in Results /\ "OK" \in Results /\ "EINVAL" \in Results
    BY <1>1, TargetType DEF Results
  <2>2. \E res \in Results : Reply(res)
    BY <1>8, <2>1 DEF provider_write
  <2>3. \/ UNCHANGED data
        \/ \E o \in Objects : kind[o] = "file" /\ data' = [data EXCEPT ![o] = Req.arg]
    BY <1>2, <1>8 DEF provider_write, IsA
  <2> QED
    BY <1>1, <1>4, <1>5, <1>8, <2>2, <2>3 DEF provider_write
<1>9. CASE provider_utimens \/ provider_chmod
  <2>1. Missing(Req) \in Results /\ "OK" \in Results /\ "ENOENT" \in Results
    BY <1>1, TargetType DEF Results
  <2>2. \E res \in Results : Reply(res)
    BY <1>9, <2>1 DEF provider_utimens, provider_chmod
  <2>3. \/ UNCHANGED meta
        \/ \E o \in Objects, m \in {"utimens", "chmod", "chown"} : meta' = [meta EXCEPT ![o] = m]
    BY <1>1, <1>2, <1>9, TargetType DEF provider_utimens, provider_chmod, Serving, MetaOps
  <2> QED
    BY <1>1, <1>4, <1>5, <1>9, <2>2, <2>3 DEF provider_utimens, provider_chmod
<1>10. CASE provider_query
  <2>1. QueryResult(Req.op, Req.path) \in Results /\ Entries(Req.path) \subseteq Paths \cup {Dot, DotDot}
    BY DEF QueryResult, Results, Entries
  <2>2. Answers /\ UNCHANGED provider
    BY <1>3, <1>10, <2>1 DEF provider_query
  <2> QED
    BY <1>1, <1>5, <1>10, <2>2 DEF provider_query, fsVars
<1>11. CASE provider_make
  <2>1. \E res \in Results : Reply(res)
    BY <1>11 DEF provider_make, Results
  <2>2. ASSUME NEW new \in Fresh, Make(Req.to, new, NewKind(Req), NewData(Req)) PROVE FsTypeOK'
    <3>1. Req.op \in {"mknod", "mkdir", "symlink"}
      BY <1>11 DEF provider_make, Serving, MakeOps
    <3>2. /\ NewKind(Req) \in {"file", "dir", "link", "device"}
          /\ NewKind(Req) = "link" => NewData(Req) = Req.path
      BY <3>1 DEF NewKind, NewData
    <3>3. Req.path \in Paths /\ (Req.op = "mknod" => Req.arg \in 0 .. U64 - 1 \cup {Empty})
      BY <1>2 DEF Requests, Numbered
    <3>4. ASSUME NEW a \in 0 .. U64 - 1 PROVE read_first_u32(a) \in 0 .. U64 - 1
      BY <3>4, WidthAssumption DEF read_first_u32
    <3>5. NewData(Req) \in Paths \cup 0 .. U64 - 1 \cup {Empty}
      BY <3>1, <3>3, <3>4 DEF NewData
    <3>6. new \in Objects
      BY DEF Fresh
    <3> QED
      BY <1>1, <1>4, <2>1, <2>2, <3>2, <3>3, <3>5, <3>6, MakeType DEF FsTypeOK
  <2> QED
    BY <1>1, <1>4, <1>5, <1>11, <2>1, <2>2 DEF provider_make, fsVars
<1>12. CASE provider_link \/ provider_remove \/ provider_rename
  <2>1. names[Req.path] \in Objects \cup {NoObject} /\ names[Req.to] \in Objects \cup {NoObject}
    BY <1>1, TargetType
  <2>2. \E res \in Results : Reply(res)
    BY <1>12 DEF provider_link, provider_remove, provider_rename, RenameResult, Results
  <2>3. names' \in [Paths -> Objects \cup {NoObject}]
    BY <1>12, <2>1 DEF provider_link, provider_remove, provider_rename,
       TypeInv, TypeOK, ProviderTypeOK
  <2> QED
    BY <1>1, <1>4, <1>6, <1>12, <2>2, <2>3 DEF provider_link, provider_remove, provider_rename
<1> QED
  BY <1>1, <1>7, <1>8, <1>9, <1>10, <1>11, <1>12 DEF OtherRequest

(* What survives a reconnect is the end of the queue. *)
LEMMA Survivors ==
  ASSUME TypeInv, provider_reconnect
  PROVE  /\ channel' \in Seq(Entry)
         /\ \E k \in Nat : \A i \in DOMAIN channel' :
              i \in Nat /\ i + k \in DOMAIN channel /\ channel'[i] = channel[i + k]
<1>1. channel \in Seq(Entry) /\ Len(channel) \in Nat /\ DOMAIN channel = 1 .. Len(channel)
  BY DEF TypeInv, TypeOK, WireTypeOK
<1>2. PICK n \in Nat : n = Len(channel)
  BY <1>1
<1>3. PICK k \in 0 .. n : channel' = SubSeq(channel, k + 1, n)
  BY <1>2 DEF provider_reconnect
<1>4. k \in Nat /\ k + 1 \in Int /\ n \in Int /\ \A i \in k + 1 .. n : channel[i] \in Entry
  BY <1>1, <1>2
<1>5. /\ SubSeq(channel, k + 1, n) \in Seq(Entry)
      /\ Len(SubSeq(channel, k + 1, n)) = IF k + 1 <= n THEN n - (k + 1) + 1 ELSE 0
      /\ \A i \in 1 .. n - (k + 1) + 1 : SubSeq(channel, k + 1, n)[i] = channel[(k + 1) + i - 1]
  BY <1>4, SubSeqProperties
<1>6. channel' \in Seq(Entry) /\ DOMAIN channel' = 1 .. n - k
  <2>1. Len(channel') = n - k
    BY <1>3, <1>4, <1>5
  <2> QED
    BY <1>3, <1>5, <2>1
<1>7. ASSUME NEW i \in 1 .. n - k PROVE i \in Nat /\ i + k \in 1 .. n /\ channel'[i] = channel[i + k]
  <2>1. i \in 1 .. n - (k + 1) + 1 /\ (k + 1) + i - 1 = i + k /\ i \in Nat /\ i + k \in 1 .. n
    BY <1>4, <1>7
  <2> QED
    BY <1>3, <1>5, <2>1
<1> QED
  BY <1>1, <1>2, <1>4, <1>6, <1>7

(* Every step is one of these. *)
Sends      == \E t \in Threads, r \in Requests : Numbered(r) /\ Guarded(r) /\ Sending(t, r)
EndsCall   == \E t \in Threads : Return(t) \/ Catch(t)
Elsewhere  == UNCHANGED <<mountVars, resp, channel, provider, sessions, failures, fds, opened>>

LEMMA Steps ==
  ASSUME TypeInv, [Next]_vars
  PROVE  Sends \/ EndsCall \/ Opens \/ Answers \/ provider_release
         \/ provider_connect \/ provider_exit \/ provider_reconnect \/ Elsewhere
<1>1. ASSUME NEW t \in Threads, Mount(t) PROVE Sends \/ EndsCall
  BY <1>1, MountSteps DEF Sends, EndsCall
<1>2. CASE Provider
  BY <1>2, OpenSteps, OtherSteps DEF Provider, OtherRequest
<1>3. CASE \E p \in Paths \ {Root} : local_replace(p)
  BY <1>3 DEF local_replace, Elsewhere
<1>4. CASE UNCHANGED vars
  BY <1>4 DEF vars, Elsewhere
<1> QED
  BY <1>1, <1>2, <1>3, <1>4 DEF Next

(* The answers of the fallback. *)
LEMMA FallbackType ==
  ASSUME NEW op \in AllOps, NEW p
  PROVE  /\ fallback(op, p) \in Results
         /\ fallback(op, p) = "OK" => op \in QueryOps \cup {"fsync", "release"}
  BY DEF fallback, AllOps, HandleOps, QueryOps, TreeOps, MakeOps, MetaOps, Results

LEMMA TypeStep ==
  ASSUME TypeInv, [Next]_vars
  PROVE  TypeInv'
<1>0. 0 \in 0 .. U64 - 1 /\ {} \in SUBSET (Paths \cup {Dot, DotDot})
  BY WidthAssumption
<1>1. ASSUME NEW t \in Threads, NEW r \in Requests, Numbered(r), Sending(t, r) PROVE TypeInv'
  <2>1. file' \in [Files -> [state : {"free", "opening", "open", "releasing"},
                             fh : 0 .. U64 - 1, path : Paths]]
    BY <1>0, <1>1 DEF Sending, Opening, Releasing, Using, Naming, Requests,
       TypeInv, TypeOK, MountTypeOK
  <2>2. Perform(t, r)
    BY <1>1 DEF Sending, Opening, Releasing, Using, Naming
  <2> QED
    BY <1>1, <2>1, <2>2, PerformType
<1>2. ASSUME NEW t \in Threads, Return(t) PROVE TypeInv'
  <2>1. resp[t] \in Responses
    BY <1>2 DEF Return, TypeInv, TypeOK, MountTypeOK
  <2>2. resp[t].result \in Results /\ resp[t].handle \in 0 .. U64 - 1
    BY <2>1 DEF Responses
  <2>3. /\ channel' \in Seq(Entry) /\ failures' \in Nat /\ (provider = "down" => channel' = <<>>)
        /\ \A i \in DOMAIN channel' : Numbered(channel'[i].req)
    BY <1>2 DEF Return, TypeInv, TypeOK, WireTypeOK, ProviderTypeOK
  <2> QED
    BY <1>2, <2>2, <2>3, EndType DEF Return
<1>3. ASSUME NEW t \in Threads, Catch(t) PROVE TypeInv'
  <2>1. call[t] \in Requests
    BY <1>3 DEF Catch, TypeInv, TypeOK, MountTypeOK
  <2>2. fallback(call[t].op, call[t].path) \in Results
    BY <2>1, FallbackType, OpsFacts DEF Requests
  <2>3. failures' \in Nat
    BY <1>3 DEF Catch, Counted, TypeInv, TypeOK, WireTypeOK
  <2>4. /\ channel' \in Seq(Entry) /\ (provider = "down" => channel' = <<>>)
        /\ \A i \in DOMAIN channel' : Numbered(channel'[i].req)
    BY <1>3, AbandonType DEF Catch, TypeInv, TypeOK, ProviderTypeOK
  <2> QED
    BY <1>0, <1>3, <2>2, <2>3, <2>4, EndType DEF Catch
<1>4. ASSUME channel /= <<>>, NEW res \in Results, NEW h \in 0 .. U64 - 1,
             NEW entries \in SUBSET (Paths \cup {Dot, DotDot}), Respond(res, h, entries),
             opened' \in [Files -> Objects \cup {NoObject}], FsTypeOK'
      PROVE  TypeInv'
  BY <1>4, RespondType DEF TypeInv, TypeOK, FsTypeOK
<1>5. ASSUME Opens, FsTypeOK' PROVE TypeInv'
  <2>1. PICK o \in Objects : Opened(o)
    BY <1>5 DEF Opens
  <2>2. LowestFd \in 0 .. U64 - 1
    BY <2>1, LowestFree, Descriptor DEF Opened
  <2>3. opened' \in [Files -> Objects \cup {NoObject}]
    BY <2>1 DEF Opened, OpenFd, TypeInv, TypeOK, MountTypeOK
  <2> QED
    BY <1>0, <1>4, <1>5, <2>1, <2>2, <2>3 DEF Opened, OpenFd, Results
<1>6. ASSUME Answers, FsTypeOK' PROVE TypeInv'
  <2>1. opened' \in [Files -> Objects \cup {NoObject}]
    BY <1>6 DEF Answers, Answered, TypeInv, TypeOK, MountTypeOK
  <2> QED
    BY <1>0, <1>4, <1>6, <2>1 DEF Answers, Answered
<1>7. CASE provider_release
  <2>1. opened' \in [Files -> Objects \cup {NoObject}]
    BY <1>7, ReleaseStep DEF TypeInv, TypeOK, MountTypeOK
  <2> QED
    BY <1>0, <1>4, <1>7, <2>1, ReleaseStep
<1>8. CASE provider_connect
  BY <1>8 DEF provider_connect, mountVars, fsVars, TypeInv, TypeOK, MountTypeOK, WireTypeOK,
     ProviderTypeOK
<1>9. CASE provider_exit
  BY <1>9 DEF provider_exit, ClosedAll, mountVars, fsVars, TypeInv, TypeOK, MountTypeOK,
     WireTypeOK, ProviderTypeOK
<1>r. CASE provider_reconnect
  <2>1. channel' \in Seq(Entry) /\ \A i \in DOMAIN channel' : Numbered(channel'[i].req)
    BY <1>r, Survivors DEF TypeInv
  <2> QED
    BY <1>r, <2>1 DEF provider_reconnect, ClosedAll, mountVars, fsVars, TypeInv, TypeOK,
       MountTypeOK, WireTypeOK, ProviderTypeOK
<1>10. ASSUME NEW p \in Paths, local_replace(p) PROVE TypeInv'
  <2>1. ASSUME NEW new \in Objects, Make(p, new, "file", Empty) PROVE FsTypeOK'
    BY <1>10, <2>1, MakeType DEF local_replace, FsTypeOK
  <2>2. ASSUME names' = [names EXCEPT ![p] = NoObject], UNCHANGED <<kind, data, meta>>
        PROVE  FsTypeOK'
    BY <1>10, <2>2 DEF local_replace, FsTypeOK, TypeInv, TypeOK, ProviderTypeOK
  <2>3. FsTypeOK'
    BY <1>10, <2>1, <2>2 DEF local_replace, Fresh
  <2> QED
    BY <1>10, <2>3 DEF local_replace, mountVars, FsTypeOK, TypeInv, TypeOK, MountTypeOK, WireTypeOK
<1>11. CASE UNCHANGED vars
  BY <1>11 DEF vars, mountVars, fsVars, TypeInv, TypeOK, MountTypeOK, WireTypeOK, ProviderTypeOK
<1>12. ASSUME NEW t \in Threads, Mount(t) PROVE TypeInv'
  BY <1>1, <1>2, <1>3, <1>12, MountSteps
<1>13. CASE Provider
  BY <1>5, <1>6, <1>7, <1>8, <1>9, <1>r, <1>13, OpenSteps, OtherSteps DEF Provider, OtherRequest
<1> QED
  BY <1>10, <1>11, <1>12, <1>13 DEF Next

LEMMA TypeInit == Init => TypeInv
<1> SUFFICES ASSUME Init PROVE TypeInv
  OBVIOUS
<1>1. 0 \in 0 .. U64 - 1 /\ Root \in Paths /\ channel \in Seq(Entry) /\ DOMAIN channel = {}
  BY WidthAssumption, SetsAssumption DEF Init
<1>2. MountTypeOK
  BY <1>1 DEF Init, MountTypeOK, Free, Results
<1>3. WireTypeOK /\ ProviderTypeOK
  BY <1>1 DEF Init, WireTypeOK, ProviderTypeOK
<1> QED
  BY <1>1, <1>2, <1>3 DEF Init, TypeInv, TypeOK

LEMMA TypeHolds == Spec => []TypeInv
  BY TypeInit, TypeStep, PTL DEF Spec

(* Every variable keeps its type, whatever calls fail, however providers come and
   go and whatever other programs do to the exported directory: a handle stays
   a 64 bit number, a followed link leads to a path, and a provider that is gone
   leaves no request and no descriptor behind.                              *)
THEOREM TypeCorrect == Spec => []TypeOK
<1>1. TypeInv => TypeOK
  BY DEF TypeInv
<1> QED
  BY <1>1, TypeHolds, PTL

(* Success is reported only for what the provider has done: whatever times out,
   an operation that changes something returns "OK" only if the provider's
   response said so (filesystem.cpp returns the fallback's answer otherwise). *)
THEOREM SuccessTheorem == Spec => SuccessMeansExecuted
<1> DEFINE A == \A t \in Threads :
         (call[t] /= Idle /\ call'[t] = Idle /\ result'[t] = "OK"
          /\ call[t].op \notin QueryOps \cup {"fsync", "release"})
         => resp[t] /= NoResp /\ resp[t].result = "OK"
<1>1. ASSUME TypeInv, [Next]_vars PROVE [A]_vars
  <2> SUFFICES ASSUME NEW t \in Threads, call[t] /= Idle, call'[t] = Idle, result'[t] = "OK",
                      call[t].op \notin QueryOps \cup {"fsync", "release"}
               PROVE  resp[t] /= NoResp /\ resp[t].result = "OK"
    OBVIOUS
  <2>0. call \in [Threads -> Requests \cup {Idle}] /\ result \in [Threads -> Results]
        /\ call[t] \in Requests
    BY <1>1 DEF TypeInv, TypeOK, MountTypeOK
  <2>1. ASSUME UNCHANGED call PROVE FALSE
    BY <2>1
  <2>2. ASSUME NEW u \in Threads, NEW r \in Requests, Perform(u, r) PROVE FALSE
    <3>1. r /= Idle
      BY OpsFacts DEF Requests
    <3> QED
      BY <2>0, <2>2, <3>1 DEF Perform
  <2>3. ASSUME NEW u \in Threads, Return(u) PROVE u = t /\ resp[t] /= NoResp /\ resp[t].result = "OK"
    BY <2>0, <2>3 DEF Return, End
  <2>4. ASSUME NEW u \in Threads, Catch(u) PROVE FALSE
    <3>1. u = t /\ result'[t] = fallback(call[t].op, call[t].path)
      BY <2>0, <2>4 DEF Catch, End
    <3>2. call[t].op \in AllOps
      BY <2>0, OpsFacts DEF Requests
    <3> QED
      BY <3>1, <3>2, FallbackType
  <2>5. ASSUME NEW res, NEW h, NEW entries, Respond(res, h, entries) PROVE FALSE
    BY <2>1, <2>5 DEF Respond, mountVars
  <2>6. CASE Sends
    BY <2>2, <2>6 DEF Sends, Sending, Opening, Releasing, Using, Naming
  <2>7. CASE EndsCall
    BY <2>3, <2>4, <2>7 DEF EndsCall
  <2>8. CASE Opens \/ Answers
    BY <2>5, <2>8 DEF Opens, Opened, OpenFd, Answers, Answered
  <2>9. CASE provider_release
    BY <1>1, <2>5, <2>9, ReleaseStep
  <2>10. CASE provider_connect \/ provider_exit \/ provider_reconnect \/ Elsewhere
    BY <2>1, <2>10 DEF provider_connect, provider_exit, provider_reconnect, Elsewhere, mountVars
  <2> QED
    BY <1>1, <2>6, <2>7, <2>8, <2>9, <2>10, Steps
<1> QED
  BY <1>1, TypeHolds, PTL DEF Spec, SuccessMeansExecuted
=============================================================================
