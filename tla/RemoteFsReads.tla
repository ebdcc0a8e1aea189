---------------------------- MODULE RemoteFsReads ----------------------------
(***************************************************************************)
(* Proofs about reading by path.  The provider opens the path of a read    *)
(* request and ignores its handle.  That this reads the open file rests on *)
(* the locks of libfuse and on three conditions: calls fail only with      *)
(* their provider, nobody else changes the exported directory, and there   *)
(* are no symbolic links.                                                  *)
(***************************************************************************)
EXTENDS RemoteFsHandles

Undisturbed == Reliable /\ ~LocalChanges /\ "symlink" \notin Ops

(* Calls hold locks on their paths: one that removes or moves a name is alone on
   its paths, and no file is open where a name goes away.                   *)
LocksOK ==
    \A t \in Threads : call[t].op \in TreeOps =>
        /\ \A u \in Threads : (u /= t /\ call[u] /= Idle)
              => {call[u].path, call[u].to} \cap {call[t].path, call[t].to} = {}
        /\ call[t].op = "rename" => call[t].arg \in 0 .. 2 /\ call[t].path /= call[t].to
        /\ call[t].op /= "rename" => call[t].path = call[t].to
        /\ ~(call[t].op = "rename" /\ call[t].arg = 2) => ~Held(call[t].to)

(* A call on a file has the path of that file; read is a call on a file. *)
CallPathsOK ==
    \A t \in Threads :
        /\ call[t].file \in Files => file[call[t].file].path = call[t].path
        /\ call[t].op = "read" => call[t].file \in Files

(* Every request has a caller that waits, and there are no links. *)
Attended == \A i \in DOMAIN channel : channel[i].thread /= NoThread
NoLinks  == \A o \in Objects : kind[o] /= "link"

(* The provider has moved names, and libfuse does not know it yet. *)
Done(t) == call[t].op = "rename" /\ resp[t] /= NoResp /\ resp[t].result = "OK"

(* The object of an open file has the name that libfuse has for it. *)
NamedOK ==
    \A f \in Files : file[f].state = "open" =>
        /\ opened[f] /= NoObject
        /\ (\A t \in Threads : Done(t) => file[f].path \notin {call[t].path, call[t].to})
              => names[file[f].path] = opened[f]
        /\ \A t \in Threads : Done(t) =>
              /\ file[f].path = call[t].path => names[call[t].to] = opened[f]
              /\ file[f].path = call[t].to => names[call[t].path] = opened[f]

(* So has the object that an open was answered with. *)
GrantedOK ==
    \A t \in Threads : (call[t].op \in OpenOps /\ resp[t] /= NoResp /\ resp[t].result = "OK")
        => opened[call[t].file] /= NoObject /\ names[call[t].path] = opened[call[t].file]

PathInv == LocksOK /\ CallPathsOK /\ Attended /\ NoLinks /\ NamedOK /\ GrantedOK

-----------------------------------------------------------------------------
(* The locks. *)
LEMMA LocksSend ==
  ASSUME TypeInv, Structure, LocksOK, CallPathsOK,
         NEW t \in Threads, NEW r \in Requests, Guarded(r), Sending(t, r)
  PROVE  LocksOK' /\ CallPathsOK'
<1>0. /\ file \in [Files -> [state : {"free", "opening", "open", "releasing"},
                             fh : 0 .. U64 - 1, path : Paths]]
      /\ call \in [Threads -> Requests \cup {Idle}]
      /\ call[t] = Idle /\ call' = [call EXCEPT ![t] = r]
      /\ Idle.op \notin TreeOps \cup {"read"} /\ Idle.file \notin Files
  <2>1. Perform(t, r)
    BY DEF Sending, Opening, Releasing, Using, Naming
  <2> QED
    BY <2>1, SendStep, OpsFacts, SetsAssumption DEF TypeInv, TypeOK, MountTypeOK, TreeOps, Idle, Request
<1>1. \A f \in Files : \/ file'[f].path = file[f].path /\ (file'[f].state = "free" <=> file[f].state = "free")
                       \/ r.op \in OpenOps /\ f = r.file /\ file'[f].path = r.path /\ file[f] = Free
  BY <1>0 DEF Sending, Opening, Releasing, Using, Naming
<1>2. \A u \in Threads : call[u].file \in Files => file[call[u].file] /= Free
  BY <1>0 DEF Structure, CallsOK, Free
<1>3. CallPathsOK'
  <2>1. r.file \in Files => file'[r.file].path = r.path
    <3>1. CASE Opening(t, r)
      BY <1>0, <3>1 DEF Opening
    <3>2. CASE Releasing(t, r) \/ Using(t, r)
      <4>1. r.file \in Files /\ r.op \notin OpenOps
        BY <3>2 DEF Releasing, Using, OpenOps
      <4>2. r.path = file[r.file].path
        BY <4>1 DEF Guarded
      <4> QED
        BY <1>1, <4>1, <4>2
    <3>3. CASE Naming(t, r)
      BY <3>3, SetsAssumption DEF Naming
    <3> QED
      BY <3>1, <3>2, <3>3 DEF Sending
  <2> QED
    BY <1>0, <1>1, <1>2, <2>1 DEF CallPathsOK, Guarded
<1>4. ASSUME NEW p, Held(p)' PROVE Held(p) \/ (r.op \in OpenOps /\ p = r.path)
  BY <1>0, <1>1, <1>4 DEF Held
<1>5. ASSUME NEW u \in Threads, call'[u].op \in TreeOps
      PROVE  /\ \A v \in Threads : (v /= u /\ call'[v] /= Idle)
                   => {call'[v].path, call'[v].to} \cap {call'[u].path, call'[u].to} = {}
             /\ call'[u].op = "rename" => call'[u].arg \in 0 .. 2 /\ call'[u].path /= call'[u].to
             /\ call'[u].op /= "rename" => call'[u].path = call'[u].to
             /\ ~(call'[u].op = "rename" /\ call'[u].arg = 2)
                   => \A f \in Files : ~(file'[f].state /= "free" /\ file'[f].path = call'[u].to)
  <2>1. CASE u = t
    <3>1. call'[u] = r /\ r.op \in TreeOps /\ r.op \notin OpenOps
      BY <1>0, <1>5, <2>1 DEF TreeOps, OpenOps
    <3>2. Guards(r.op, r.path, r.to, r.arg)
      BY DEF Guarded
    <3>3. /\ \A v \in Threads : v /= u => call'[v] = call[v]
          /\ \A f \in Files : file'[f].path = file[f].path /\ (file'[f].state = "free" <=> file[f].state = "free")
      BY <1>0, <1>1, <2>1, <3>1
    <3> QED
      BY <2>1, <3>1, <3>2, <3>3 DEF Guards, Busy, Held
  <2>2. CASE u /= t
    <3>1. call'[u] = call[u] /\ call'[t] = r /\ call[u] /= Idle
      BY <1>0, <1>5, <2>2
    <3>2. {r.path, r.to} \cap {call[u].path, call[u].to} = {}
      <4>1. CASE r.op \in TreeOps
        BY <3>1, <4>1 DEF Guarded, Guards, Busy
      <4>2. CASE r.op \notin TreeOps
        BY <1>5, <3>1, <4>2 DEF Guarded, Guards, Locked
      <4> QED
        BY <4>1, <4>2
    <3>3. \A v \in Threads : v /= t => call'[v] = call[v]
      BY <1>0
    <3>4. ~(call[u].op = "rename" /\ call[u].arg = 2)
             => \A f \in Files : ~(file'[f].state /= "free" /\ file'[f].path = call[u].to)
      BY <1>1, <1>5, <3>1, <3>2 DEF LocksOK, Held
    <3> QED
      BY <1>5, <3>1, <3>2, <3>3, <3>4 DEF LocksOK
  <2> QED
    BY <2>1, <2>2
<1>6. LocksOK'
  BY <1>5 DEF LocksOK, Held
<1> QED
  BY <1>3, <1>6

(* What the end of a call does to the paths of the open files. *)
LEMMA EndPaths ==
  ASSUME TypeInv, NEW t \in Threads, call[t] /= Idle, NEW res \in Results,
         NEW h \in 0 .. U64 - 1, End(t, res, h)
  PROVE  \A f \in Files :
            \/ file'[f] = Free
            \/ /\ file'[f].path = file[f].path
               /\ (call[t].op = "rename" /\ res = "OK") =>
                     file[f].path /= call[t].path /\ (file[f].path /= call[t].to \/ call[t].arg /= 2)
            \/ /\ call[t].op = "rename" /\ res = "OK"
               /\ \/ file[f].path = call[t].path /\ file'[f].path = call[t].to
                  \/ /\ file[f].path = call[t].to /\ call[t].arg = 2
                     /\ file'[f].path = call[t].path
<1>1. /\ file \in [Files -> [state : {"free", "opening", "open", "releasing"},
                             fh : 0 .. U64 - 1, path : Paths]]
      /\ call[t] \in Requests /\ file' = FileAfter(call[t], res, h)
  BY DEF TypeInv, TypeOK, MountTypeOK, End
<1>2. CASE call[t].op \in OpenOps
  <2>1. file' = [file EXCEPT ![call[t].file] =
                   IF res = "OK" THEN [file[call[t].file] EXCEPT !.state = "open", !.fh = read_u64(h)]
                   ELSE Free]
    BY <1>1, <1>2 DEF FileAfter, OpenOps
  <2> QED
    BY <1>1, <1>2, <2>1 DEF OpenOps
<1>3. CASE call[t].op = "release"
  <2>1. file' = [file EXCEPT ![call[t].file] = Free]
    BY <1>1, <1>3 DEF FileAfter
  <2> QED
    BY <1>1, <1>3, <2>1
<1>4. CASE call[t].op = "rename" /\ res = "OK"
  <2>1. file' = Moved(call[t])
    BY <1>1, <1>4 DEF FileAfter
  <2>2. ASSUME NEW f \in Files, file[f].path = call[t].path PROVE file'[f].path = call[t].to
    BY <1>1, <2>1, <2>2 DEF Moved
  <2>3. ASSUME NEW f \in Files, file[f].path /= call[t].path, file[f].path = call[t].to, call[t].arg = 2
        PROVE  file'[f].path = call[t].path
    BY <1>1, <2>1, <2>3 DEF Moved
  <2>4. ASSUME NEW f \in Files, file[f].path /= call[t].path, file[f].path /= call[t].to \/ call[t].arg /= 2
        PROVE  file'[f] = file[f]
    BY <1>1, <2>1, <2>4 DEF Moved
  <2> QED
    BY <1>4, <2>2, <2>3, <2>4
<1>5. CASE call[t].op \notin OpenOps \cup {"release"} /\ ~(call[t].op = "rename" /\ res = "OK")
  <2>1. file' = file
    BY <1>1, <1>5 DEF FileAfter, OpenOps
  <2> QED
    BY <1>5, <2>1
<1> QED
  BY <1>2, <1>3, <1>4, <1>5

LEMMA LocksEnd ==
  ASSUME TypeInv, Structure, LocksOK, CallPathsOK, NEW t \in Threads, Return(t) \/ Catch(t)
  PROVE  LocksOK' /\ CallPathsOK'
<1>1. PICK res \in Results, h \in 0 .. U64 - 1 : End(t, res, h)
  BY EndsSteps
<1>2. /\ call[t] /= Idle /\ call' = [call EXCEPT ![t] = Idle]
      /\ call \in [Threads -> Requests \cup {Idle}]
      /\ Idle.op \notin TreeOps \cup {"read"} /\ Idle.file \notin Files
      /\ Free.state = "free" /\ "rename" \in TreeOps
  BY <1>1, EndsSteps, OpsFacts, SetsAssumption
     DEF End, TypeInv, TypeOK, MountTypeOK, TreeOps, Idle, Request, Free
<1>3. \A f \in Files :
            \/ file'[f] = Free
            \/ file'[f].path = file[f].path
            \/ /\ call[t].op \in TreeOps
               /\ file[f].path \in {call[t].path, call[t].to}
               /\ file'[f].path \in {call[t].path, call[t].to}
  BY <1>1, <1>2, EndPaths
<1>4. \A f \in Files : file'[f].state /= "free" => file[f].state /= "free"
  <2>1. \A f \in Files : call[t].op \in OpenOps /\ call[t].file = f => file[f].state /= "free"
    BY DEF Structure, CallsOK
  <2> QED
    BY <1>1, <1>2, <2>1, EndStep DEF Structure
<1>5. \A u \in Threads : u /= t => call'[u] = call[u]
  BY <1>2
<1>6. CallPathsOK'
  <2> SUFFICES ASSUME NEW u \in Threads, u /= t
               PROVE  /\ call[u].file \in Files => file'[call[u].file].path = call[u].path
                      /\ call[u].op = "read" => call[u].file \in Files
    BY <1>2, <1>5 DEF CallPathsOK
  <2>1. ASSUME call[u].file \in Files PROVE file'[call[u].file].path = call[u].path
    <3>1. call[u] /= Idle /\ file[call[u].file].path = call[u].path
      BY <1>2, <2>1 DEF CallPathsOK
    <3>2. ~(call[t].op \in OpenOps \cup {"release"} /\ call[t].file = call[u].file)
      BY <2>1 DEF Structure, CallsOK
    <3>3. file'[call[u].file].state = file[call[u].file].state /\ file[call[u].file].state /= "free"
      BY <1>1, <1>2, <2>1, <3>2, EndStep DEF Structure, CallsOK
    <3>4. call[t].op \in TreeOps => call[u].path \notin {call[t].path, call[t].to}
      BY <3>1 DEF LocksOK
    <3> QED
      BY <1>2, <1>3, <2>1, <3>1, <3>3, <3>4
  <2> QED
    BY <2>1 DEF CallPathsOK
<1>7. ASSUME NEW u \in Threads, call'[u].op \in TreeOps
      PROVE  /\ u /= t /\ call[u].op \in TreeOps /\ call'[u] = call[u]
             /\ \A f \in Files : (file'[f].state /= "free" /\ file'[f].path = call[u].to)
                                    => Held(call[u].to)
  <2>1. u /= t /\ call'[u] = call[u] /\ call[u].op \in TreeOps
    BY <1>2, <1>7
  <2>2. {call[t].path, call[t].to} \cap {call[u].path, call[u].to} = {}
    BY <1>2, <2>1 DEF LocksOK
  <2> QED
    BY <1>2, <1>3, <1>4, <2>1, <2>2 DEF Held
<1>8. \A v \in Threads : call'[v] /= Idle => call'[v] = call[v]
  BY <1>2
<1>9. LocksOK'
  BY <1>7, <1>8 DEF LocksOK, Held
<1> QED
  BY <1>6, <1>9

-----------------------------------------------------------------------------
(***************************************************************************)
(* What the provider does to names: of those in use it changes only the    *)
(* ones of an unlink, an rmdir or a rename.                                *)
(***************************************************************************)
NameStep(res) ==
    \/ /\ Req.op \notin TreeOps
       /\ \A p \in Paths : names[p] /= NoObject => names'[p] = names[p]
    \/ /\ Req.op \in TreeOps \ {"rename"}
       /\ \A p \in Paths : p /= Req.path => names'[p] = names[p]
    \/ /\ Req.op = "rename" /\ res /= "OK" /\ UNCHANGED names
    \/ /\ Req.op = "rename" /\ res = "OK"
       /\ Req.arg \in 0 .. 2 =>
            /\ names'[Req.to] = names[Req.path]
            /\ Req.arg = 2 => names'[Req.path] = names[Req.to]
       /\ \A p \in Paths : p \notin {Req.path, Req.to} => names'[p] = names[p]

(* An open that succeeds, for a thread that waits, opens the object of the path. *)
OpenStep(res) ==
    \/ UNCHANGED opened /\ (Req.op \in OpenOps => res /= "OK")
    \/ /\ Req.op \in OpenOps /\ res = "OK"
       /\ \E o \in Objects : opened' = [opened EXCEPT ![Req.file] = o] /\ names'[Req.path] = o

RequestStep ==
    \E res, h, entries : Respond(res, h, entries) /\ NameStep(res) /\ OpenStep(res)

LEMMA PathOf ==
  ASSUME TypeInv, NoLinks, NEW p \in Paths
  PROVE  Deref(p) = p /\ Follow(p) = names[p] /\ names[p] \in Objects \cup {NoObject}
  BY DEF TypeInv, TypeOK, ProviderTypeOK, NoLinks, Deref, Follow

LEMMA ProviderNames ==
  ASSUME TypeInv, NoLinks, Undisturbed, provider_open \/ provider_create \/ provider_release \/ OtherRequest,
         channel /= <<>>, Head(channel).thread /= NoThread
  PROVE  RequestStep /\ NoLinks'
<1>0. /\ names \in [Paths -> Objects \cup {NoObject}] /\ NoObject \notin Objects
      /\ kind \in [Objects -> {"file", "dir", "link", "device"}]
      /\ Req.path \in Paths /\ Req.to \in Paths /\ Fresh \subseteq Objects
      /\ Req.op /= "symlink"
  <2>1. Req \in Requests
    BY HeadEntry
  <2> QED
    BY <2>1, SetsAssumption DEF TypeInv, TypeOK, ProviderTypeOK, Requests, Fresh, Undisturbed
<1>1. /\ Deref(Req.path) = Req.path /\ Follow(Req.path) = names[Req.path]
  BY <1>0, PathOf
<1>2. ASSUME NEW res, Reply(res), UNCHANGED <<names, opened>>,
             Req.op \in OpenOps => res /= "OK", Req.op \notin TreeOps
      PROVE  RequestStep
  <2>1. NameStep(res) /\ OpenStep(res)
    BY <1>2 DEF NameStep, OpenStep
  <2> QED
    BY <1>2, <2>1 DEF Reply, RequestStep
<1>3. CASE provider_open
  <2>1. Req.op = "open" /\ UNCHANGED fsVars
    BY <1>3 DEF provider_open, Serving
  <2>2. CASE OpenError(names[Req.path]) = "OK" /\ OpenFd(names[Req.path])
    <3>1. names[Req.path] \in Objects
      BY <1>0, <2>2 DEF OpenError
    <3>2. NameStep("OK") /\ OpenStep("OK")
      BY <2>1, <2>2, <3>1 DEF NameStep, OpenStep, OpenFd, OpenOps, TreeOps, fsVars
    <3> QED
      BY <2>1, <2>2, <3>2 DEF OpenFd, RequestStep, NoLinks, fsVars
  <2>3. CASE OpenError(names[Req.path]) /= "OK" /\ Reply(OpenError(names[Req.path])) /\ UNCHANGED opened
    BY <1>2, <2>1, <2>3 DEF OpenOps, TreeOps, NoLinks, fsVars
  <2> QED
    BY <1>1, <1>3, <2>2, <2>3 DEF provider_open
<1>4. CASE provider_create
  <2>1. Req.op = "create"
    BY <1>4 DEF provider_create, Serving
  <2>2. CASE OpenError(names[Req.path]) = "OK" /\ OpenFd(names[Req.path]) /\ UNCHANGED <<names, kind>>
    <3>1. names[Req.path] \in Objects
      BY <1>0, <2>2 DEF OpenError
    <3>2. NameStep("OK") /\ OpenStep("OK")
      BY <2>1, <2>2, <3>1 DEF NameStep, OpenStep, OpenFd, OpenOps, TreeOps
    <3> QED
      BY <2>1, <2>2, <3>2 DEF OpenFd, RequestStep, NoLinks
  <2>3. ASSUME NEW new \in Fresh, OpenError(names[Req.path]) = "ENOENT",
               Make(Req.path, new, "file", Empty), OpenFd(new)
        PROVE  RequestStep /\ NoLinks'
    <3>1. names[Req.path] = NoObject
      BY <2>3 DEF OpenError
    <3>2. NameStep("OK") /\ OpenStep("OK")
      BY <1>0, <2>1, <2>3, <3>1 DEF NameStep, OpenStep, OpenFd, Make, OpenOps, TreeOps
    <3> QED
      BY <1>0, <2>3, <3>2 DEF OpenFd, RequestStep, NoLinks, Make
  <2>4. ASSUME NEW res, res /= "OK", Reply(res), UNCHANGED <<opened, fsVars>>
        PROVE  RequestStep /\ NoLinks'
    BY <1>2, <2>1, <2>4 DEF OpenOps, TreeOps, NoLinks, fsVars
  <2> QED
    BY <1>1, <1>4, <2>2, <2>3, <2>4 DEF provider_create
<1>5. CASE provider_release \/ provider_read \/ provider_fsync
  <2>1. \E res : Reply(res)
    BY <1>5 DEF provider_release, provider_read, provider_fsync
  <2>2. Req.op \in {"release", "read", "fsync"} /\ UNCHANGED <<fsVars, opened>>
    BY <1>5 DEF provider_release, provider_read, provider_fsync, Serving
  <2> QED
    BY <1>2, <2>1, <2>2 DEF OpenOps, TreeOps, NoLinks, fsVars
<1>6. CASE provider_write \/ provider_utimens \/ provider_chmod
  <2>1. \E res : Reply(res)
    BY <1>6 DEF provider_write, provider_utimens, provider_chmod
  <2>2. Req.op \notin OpenOps \cup TreeOps /\ UNCHANGED <<names, kind, opened>>
    BY <1>6 DEF provider_write, provider_utimens, provider_chmod, Serving, OpenOps, TreeOps, MetaOps
  <2> QED
    BY <1>2, <2>1, <2>2 DEF NoLinks
<1>7. CASE provider_query
  <2>1. Req.op \in QueryOps /\ UNCHANGED <<names, kind, opened>>
    BY <1>7 DEF provider_query, Serving, fsVars
  <2>2. \A res : NameStep(res) /\ OpenStep(res)
    BY <2>1 DEF NameStep, OpenStep, OpenOps, TreeOps, QueryOps
  <2> QED
    BY <1>7, <2>1, <2>2 DEF provider_query, RequestStep, NoLinks
<1>8. CASE provider_make
  <2>1. Req.op \in {"mknod", "mkdir"} /\ UNCHANGED opened
    BY <1>0, <1>8 DEF provider_make, Serving, MakeOps
  <2>2. ASSUME names[Req.to] = NoObject, NEW new \in Fresh,
               Make(Req.to, new, NewKind(Req), NewData(Req)), Reply("OK")
        PROVE  RequestStep /\ NoLinks'
    <3>1. NameStep("OK") /\ OpenStep("OK")
      BY <1>0, <2>1, <2>2 DEF NameStep, OpenStep, Make, OpenOps, TreeOps
    <3>2. NewKind(Req) /= "link"
      BY <2>1 DEF NewKind
    <3> QED
      BY <1>0, <2>2, <3>1, <3>2 DEF Reply, RequestStep, NoLinks, Make
  <2>3. ASSUME NEW res, Reply(res), UNCHANGED fsVars PROVE RequestStep /\ NoLinks'
    BY <1>2, <2>1, <2>3 DEF OpenOps, TreeOps, NoLinks, fsVars
  <2> QED
    BY <1>8, <2>2, <2>3 DEF provider_make
<1>9. CASE provider_link
  <2>1. Req.op = "link" /\ UNCHANGED <<kind, opened>>
    BY <1>9 DEF provider_link, Serving
  <2>2. PICK res : Reply(res) /\ (UNCHANGED names \/ (names[Req.to] = NoObject
                                    /\ names' = [names EXCEPT ![Req.to] = names[Req.path]]))
    BY <1>9 DEF provider_link
  <2>3. NameStep(res) /\ OpenStep(res)
    BY <1>0, <2>1, <2>2 DEF NameStep, OpenStep, OpenOps, TreeOps
  <2> QED
    BY <2>1, <2>2, <2>3 DEF Reply, RequestStep, NoLinks
<1>10. CASE provider_remove
  <2>1. Req.op \in TreeOps \ {"rename"} /\ Req.op \notin OpenOps /\ UNCHANGED <<kind, opened>>
    BY <1>10 DEF provider_remove, Serving, TreeOps, OpenOps
  <2>2. PICK res : Reply(res) /\ (UNCHANGED names \/ names' = [names EXCEPT ![Req.path] = NoObject])
    BY <1>10 DEF provider_remove
  <2>3. NameStep(res) /\ OpenStep(res)
    BY <1>0, <2>1, <2>2 DEF NameStep, OpenStep
  <2> QED
    BY <2>1, <2>2, <2>3 DEF Reply, RequestStep, NoLinks
<1>11. CASE provider_rename
  <2> DEFINE old == names[Req.path]
             new == names[Req.to]
             flags == write_rename_flags(Req.arg)
             res == RenameResult(old, new, flags)
  <2>1. Req.op = "rename" /\ UNCHANGED <<kind, opened>> /\ Reply(res)
        /\ names' = IF res /= "OK" \/ old = new THEN names
                    ELSE [names EXCEPT ![Req.to] = old,
                                       ![Req.path] = IF flags = 2 THEN new ELSE NoObject]
    BY <1>11 DEF provider_rename, Serving
  <2>2. Req.arg \in 0 .. 2 => flags = Req.arg
    BY DEF write_rename_flags
  <2> HIDE DEF res, flags
  <2>3. NameStep(res)
    <3>1. CASE res /= "OK" \/ old = new
      BY <2>1, <3>1 DEF NameStep
    <3>2. CASE res = "OK" /\ old /= new
      <4>1. Req.path /= Req.to
        BY <3>2
      <4>2. names'[Req.to] = old /\ names'[Req.path] = IF flags = 2 THEN new ELSE NoObject
        BY <1>0, <2>1, <3>2, <4>1
      <4>3. \A p \in Paths : p \notin {Req.path, Req.to} => names'[p] = names[p]
        BY <1>0, <2>1, <3>2
      <4> QED
        BY <2>1, <2>2, <3>2, <4>2, <4>3 DEF NameStep
    <3> QED
      BY <3>1, <3>2
  <2>4. OpenStep(res)
    BY <2>1 DEF OpenStep, OpenOps
  <2> QED
    BY <2>1, <2>3, <2>4 DEF Reply, RequestStep, NoLinks
<1> QED
  BY <1>3, <1>4, <1>5, <1>6, <1>7, <1>8, <1>9, <1>10, <1>11 DEF OtherRequest

-----------------------------------------------------------------------------
(* Open files keep their names. *)
LEMMA NamedSend ==
  ASSUME TypeInv, Structure, PathInv, NEW t \in Threads, NEW r \in Requests, Guarded(r), Sending(t, r)
  PROVE  PathInv'
<1>1. Perform(t, r)
  BY DEF Sending, Opening, Releasing, Using, Naming
<1>2. /\ call[t] = Idle /\ call' = [call EXCEPT ![t] = r] /\ UNCHANGED <<resp, opened, names, kind>>
      /\ call \in [Threads -> Requests \cup {Idle}] /\ resp[t] = NoResp /\ t /= NoThread
      /\ file \in [Files -> [state : {"free", "opening", "open", "releasing"},
                             fh : 0 .. U64 - 1, path : Paths]]
  BY <1>1, SetsAssumption DEF Perform, fsVars, Structure, CallsOK, TypeInv, TypeOK, MountTypeOK
<1>3. LocksOK' /\ CallPathsOK'
  BY LocksSend DEF PathInv
<1>4. Attended'
  <2>1. CASE UNCHANGED channel
    BY <2>1 DEF PathInv, Attended
  <2>2. CASE \E n \in Nat, m \in Entry :
               /\ DOMAIN channel' = DOMAIN channel \cup {n}
               /\ \A i \in DOMAIN channel : i < n /\ channel'[i] = channel[i]
               /\ channel'[n] = m /\ m.thread = t
    BY <1>2, <2>2 DEF PathInv, Attended
  <2> QED
    BY <1>1, <2>1, <2>2, SendStep
<1>5. \A u \in Threads : (resp[u] /= NoResp => call'[u] = call[u])
  BY <1>2
<1>6. \A f \in Files : file'[f].state = "open" => file'[f] = file[f]
  BY <1>2 DEF Sending, Opening, Releasing, Using, Naming
<1>7. \A u \in Threads : /\ Done(u)' => Done(u) /\ call'[u] = call[u]
                         /\ Done(u) => Done(u)'
  BY <1>2, <1>5 DEF Done
<1>8. NamedOK'
  BY <1>2, <1>6, <1>7 DEF PathInv, NamedOK
<1>9. GrantedOK'
  BY <1>2, <1>5 DEF PathInv, GrantedOK
<1> QED
  BY <1>2, <1>3, <1>4, <1>8, <1>9 DEF PathInv, NoLinks

LEMMA NamedEnd ==
  ASSUME TypeInv, Structure, PathInv, Reliable, NEW t \in Threads, Return(t) \/ Catch(t)
  PROVE  PathInv'
<1>1. PICK res \in Results, h \in 0 .. U64 - 1 :
              /\ End(t, res, h)
              /\ \/ resp[t] \in Responses /\ res = resp[t].result /\ h = resp[t].handle
                 \/ Catch(t) /\ (call[t].op \in OpenOps => res /= "OK")
  BY EndsSteps
<1>2. /\ call[t] /= Idle /\ call' = [call EXCEPT ![t] = Idle] /\ resp' = [resp EXCEPT ![t] = NoResp]
      /\ call \in [Threads -> Requests \cup {Idle}] /\ resp \in [Threads -> Responses \cup {NoResp}]
      /\ UNCHANGED <<names, kind>> /\ Idle.op \notin TreeOps \cup OpenOps
      /\ "rename" \in TreeOps /\ Free.state = "free" /\ NoResp \notin Responses
  BY <1>1, EndsSteps, OpsFacts, SetsAssumption
     DEF End, TypeInv, TypeOK, MountTypeOK, fsVars, TreeOps, OpenOps, Free
<1>3. LocksOK' /\ CallPathsOK'
  BY LocksEnd DEF PathInv
<1>4. Attended' /\ (Catch(t) => resp[t] = NoResp)
  <2>1. CASE UNCHANGED channel /\ Return(t) /\ ~Catch(t)
    BY <2>1 DEF PathInv, Attended
  <2>2. CASE Catch(t)
    <3>1. channel' = Abandon(t) /\ resp[t] = NoResp /\ \A i \in DOMAIN channel : channel[i].thread /= t
      BY <2>2 DEF Catch, Lost
    <3> QED
      BY <3>1 DEF Abandon, PathInv, Attended
  <2> QED
    BY <2>1, <2>2, EndsSteps
<1>5. /\ (call[t].op = "rename" /\ res = "OK") <=> Done(t)
      /\ (call[t].op \in OpenOps /\ res = "OK") <=>
           (call[t].op \in OpenOps /\ resp[t] /= NoResp /\ resp[t].result = "OK")
  <2>1. CASE Catch(t)
    <3>1. resp[t] = NoResp /\ (call[t].op \in OpenOps => res /= "OK")
      BY <1>1, <1>2, <1>4, <2>1
    <3>2. call[t].op = "rename" => res /= "OK"
      <4>1. res = fallback(call[t].op, call[t].path)
        BY <1>1, <1>2, <2>1 DEF Catch, End, TypeInv, TypeOK, MountTypeOK
      <4> QED
        BY <4>1, FallbackType DEF AllOps, TreeOps, QueryOps
    <3> QED
      BY <3>1, <3>2 DEF Done
  <2>2. CASE ~Catch(t)
    <3>1. resp[t] /= NoResp /\ res = resp[t].result
      BY <1>1, <1>2, <2>2
    <3> QED
      BY <3>1 DEF Done
  <2> QED
    BY <2>1, <2>2
<1>6. \A u \in Threads : u /= t => call'[u] = call[u] /\ resp'[u] = resp[u] /\ (Done(u)' <=> Done(u))
  BY <1>2 DEF Done
<1>7. ~Done(t)'
  BY <1>2 DEF Done
<1>8. ASSUME NEW u \in Threads, u /= t, call[u].op \in TreeOps \/ call[t].op \in TreeOps, call[u] /= Idle
      PROVE  {call[u].path, call[u].to} \cap {call[t].path, call[t].to} = {}
  BY <1>2, <1>8 DEF PathInv, LocksOK
<1>9. ASSUME NEW f \in Files, file'[f].state = "open"
      PROVE  /\ opened'[f] /= NoObject
             /\ (\A u \in Threads : Done(u)' => file'[f].path \notin {call'[u].path, call'[u].to})
                   => names[file'[f].path] = opened'[f]
             /\ \A u \in Threads : Done(u)' =>
                   /\ file'[f].path = call'[u].path => names[call'[u].to] = opened'[f]
                   /\ file'[f].path = call'[u].to => names[call'[u].path] = opened'[f]
  <2>1. opened'[f] = opened[f] /\ file'[f] /= Free
    BY <1>1, <1>2, <1>9, EndStep DEF Structure
  <2>2. CASE call[t].op \in OpenOps /\ call[t].file = f
    <3>1. res = "OK" /\ file[f].path = call[t].path
      <4>1. CallsOK
        BY DEF Structure
      <4>2. res = "OK"
        BY <1>1, <1>2, <1>9, <2>2, <4>1, EndStep
      <4> QED
        BY <1>9, <2>2, <4>2 DEF PathInv, CallPathsOK
    <3>2. file'[f].path = file[f].path
      BY <1>1, <1>2, <2>1, <2>2, EndPaths DEF OpenOps
    <3>3. opened[f] /= NoObject /\ names[call[t].path] = opened[f]
      BY <1>5, <2>2, <3>1 DEF PathInv, GrantedOK
    <3>4. \A u \in Threads : Done(u)' => call[t].path \notin {call'[u].path, call'[u].to}
      <4> SUFFICES ASSUME NEW u \in Threads, Done(u)'
                   PROVE  call[t].path \notin {call'[u].path, call'[u].to}
        OBVIOUS
      <4>1. u /= t /\ call[u].op \in TreeOps /\ call'[u] = call[u] /\ call[u] /= Idle
        BY <1>2, <1>6, <1>7 DEF Done
      <4> QED
        BY <1>8, <4>1
    <3> QED
      BY <2>1, <3>1, <3>2, <3>3, <3>4
  <2>3. CASE ~(call[t].op \in OpenOps /\ call[t].file = f)
    <3>1. file[f].state = "open"
      BY <1>1, <1>2, <1>9, <2>3, EndStep DEF Structure
    <3>2. CASE Done(t)
      <4>1. call[t].op \in TreeOps /\ call[t].op = "rename" /\ res = "OK"
        BY <1>2, <1>5, <3>2
      <4>2. ASSUME NEW u \in Threads, Done(u)'
            PROVE  /\ call'[u] = call[u] /\ Done(u)
                   /\ {call[u].path, call[u].to} \cap {call[t].path, call[t].to} = {}
        <5>1. u /= t /\ call'[u] = call[u] /\ Done(u)
          BY <1>6, <1>7, <4>2
        <5> QED
          BY <1>2, <1>8, <4>1, <5>1 DEF Done
      <4>3. file[f].path = call[t].to => call[t].arg = 2
        BY <3>1, <4>1 DEF PathInv, LocksOK, Held
      <4>4. CASE file'[f].path = file[f].path /\ file[f].path \notin {call[t].path, call[t].to}
        <5>1. \A u \in Threads : Done(u)' <=> (Done(u) /\ u /= t)
          BY <1>6, <1>7
        <5> QED
          BY <2>1, <3>1, <4>2, <4>4, <5>1 DEF PathInv, NamedOK
      <4>5. CASE \/ file[f].path = call[t].path /\ file'[f].path = call[t].to
                 \/ file[f].path = call[t].to /\ file'[f].path = call[t].path
        <5>1. names[file'[f].path] = opened[f] /\ opened[f] /= NoObject
          BY <3>1, <3>2, <4>5 DEF PathInv, NamedOK
        <5>2. file'[f].path \in {call[t].path, call[t].to}
          BY <4>5
        <5> QED
          BY <2>1, <4>2, <5>1, <5>2
      <4> QED
        BY <1>1, <1>2, <2>1, <4>1, <4>3, <4>4, <4>5, EndPaths
    <3>3. CASE ~Done(t)
      <4>1. file'[f].path = file[f].path
        BY <1>1, <1>2, <1>5, <2>1, <3>3, EndPaths
      <4>2. \A u \in Threads : (Done(u)' <=> Done(u)) /\ (Done(u) => call'[u] = call[u])
        BY <1>6, <1>7, <3>3
      <4> QED
        BY <2>1, <3>1, <4>1, <4>2 DEF PathInv, NamedOK
    <3> QED
      BY <3>2, <3>3
  <2> QED
    BY <2>2, <2>3
<1>10. NamedOK'
  BY <1>2, <1>9 DEF NamedOK
<1>11. ASSUME NEW u \in Threads, call'[u].op \in OpenOps, resp'[u] /= NoResp, resp'[u].result = "OK"
       PROVE  opened'[call'[u].file] /= NoObject /\ names'[call'[u].path] = opened'[call'[u].file]
  <2>1. u /= t /\ call'[u] = call[u] /\ resp'[u] = resp[u]
    BY <1>2, <1>6, <1>11
  <2>2. call[u].file \in Files /\ file[call[u].file].state = "opening" /\ call[t].file /= call[u].file
    BY <1>11, <2>1 DEF Structure, CallsOK
  <2>3. file'[call[u].file].state = "opening"
    BY <1>1, <1>2, <2>2, EndStep DEF Structure
  <2>4. opened'[call[u].file] = opened[call[u].file]
    BY <1>1, <1>2, <2>2, <2>3, EndStep DEF Structure
  <2> QED
    BY <1>2, <1>11, <2>1, <2>4 DEF PathInv, GrantedOK
<1>12. GrantedOK'
  BY <1>11 DEF GrantedOK
<1> QED
  BY <1>2, <1>3, <1>4, <1>10, <1>12 DEF PathInv, NoLinks

LEMMA ResponseType ==
  ASSUME TypeInv, Opens \/ Answers \/ provider_release, NEW t \in Threads, t = Head(channel).thread
  PROVE  resp'[t] \in Responses
<1>1. 0 \in 0 .. U64 - 1 /\ {} \in SUBSET (Paths \cup {Dot, DotDot})
  BY WidthAssumption
<1>2. ASSUME NEW res \in Results, NEW h \in 0 .. U64 - 1,
             NEW entries \in SUBSET (Paths \cup {Dot, DotDot}), Respond(res, h, entries)
      PROVE  resp'[t] \in Responses
  BY <1>2, SetsAssumption DEF Respond, Responses, TypeInv, TypeOK, MountTypeOK
<1>3. CASE Opens
  <2>1. PICK o \in Objects : Opened(o)
    BY <1>3 DEF Opens
  <2>2. LowestFd \in 0 .. U64 - 1 /\ Respond("OK", LowestFd, {})
    BY <2>1, OpenedFd, Descriptor DEF Opened, OpenFd
  <2> QED
    BY <1>1, <1>2, <2>2 DEF Results
<1>4. CASE Answers
  BY <1>1, <1>2, <1>4 DEF Answers, Answered
<1>5. CASE provider_release
  BY <1>1, <1>2, <1>5, ReleaseStep
<1> QED
  BY <1>3, <1>4, <1>5

LEMMA NamedProvider ==
  ASSUME TypeInv, Structure, PathInv, Undisturbed,
         provider_open \/ provider_create \/ provider_release \/ OtherRequest
  PROVE  PathInv'
<1>0. Opens \/ Answers \/ provider_release
  BY OpenSteps, OtherSteps
<1>1. channel /= <<>> /\ channel' = Tail(channel) /\ UNCHANGED <<file, call>>
  BY <1>0, ProviderSteps
<1>2. PICK w \in Threads : w = Head(channel).thread
  BY <1>1, HeadFirst DEF PathInv, Attended
<1>3. /\ call[w] = Req /\ resp[w] = NoResp /\ w /= NoThread /\ Req /= Idle
      /\ Req.path \in Paths /\ Req.to \in Paths
  BY <1>1, <1>2, HeadFirst, SetsAssumption DEF Structure, WaitingOK, Requests
<1>4. RequestStep /\ NoLinks'
  BY <1>1, <1>2, <1>3, ProviderNames DEF PathInv
<1>5. PICK res, h, entries : Respond(res, h, entries) /\ NameStep(res) /\ OpenStep(res)
  BY <1>4 DEF RequestStep
<1>6. /\ resp \in [Threads -> Responses \cup {NoResp}] /\ opened \in [Files -> Objects \cup {NoObject}]
      /\ call \in [Threads -> Requests \cup {Idle}] /\ Idle.op \notin TreeOps \cup OpenOps
      /\ "rename" \in TreeOps /\ "rename" \notin OpenOps
      /\ file \in [Files -> [state : {"free", "opening", "open", "releasing"},
                             fh : 0 .. U64 - 1, path : Paths]]
  BY OpsFacts DEF TypeInv, TypeOK, MountTypeOK, TreeOps, OpenOps
<1>7. /\ \A u \in Threads : u /= w => resp'[u] = resp[u]
      /\ resp'[w].result = res
  BY <1>2, <1>3, <1>5, <1>6 DEF Respond
<1>8. LocksOK' /\ CallPathsOK'
  BY <1>1 DEF PathInv, LocksOK, CallPathsOK, Held
<1>9. Attended'
  BY <1>1, HeadFirst DEF PathInv, Attended
<1>10. \A u \in Threads : u /= w => (Done(u)' <=> Done(u))
  BY <1>1, <1>7 DEF Done
<1>11. ~Done(w) /\ (Done(w)' => Req.op = "rename" /\ res = "OK")
  BY <1>1, <1>3, <1>7 DEF Done
<1>12. ASSUME NEW u \in Threads, u /= w, call[u] /= Idle, Req.op \in TreeOps \/ call[u].op \in TreeOps
       PROVE  {call[u].path, call[u].to} \cap {Req.path, Req.to} = {}
  BY <1>3, <1>12 DEF PathInv, LocksOK
<1>13. \A u \in Threads : call[u].path \in Paths /\ call[u].to \in Paths
  BY <1>6, SetsAssumption DEF Requests, Idle, Request
<1>14. ASSUME NEW f \in Files, f /= Req.file \/ Req.op \notin OpenOps PROVE opened'[f] = opened[f]
  BY <1>5, <1>6, <1>14 DEF OpenStep
<1>15. ASSUME NEW f \in Files, file[f].state = "open"
       PROVE  opened'[f] = opened[f] /\ opened[f] /= NoObject
  BY <1>3, <1>14, <1>15 DEF Structure, CallsOK, PathInv, NamedOK
<1>16. ASSUME Req.op \notin TreeOps PROVE NamedOK'
  <2>1. \A p \in Paths : names[p] /= NoObject => names'[p] = names[p]
    BY <1>5, <1>6, <1>16 DEF NameStep
  <2>2. \A u \in Threads : Done(u)' <=> Done(u)
    BY <1>6, <1>10, <1>11, <1>16
  <2>3. ASSUME NEW f \in Files, file[f].state = "open"
        PROVE  /\ opened'[f] /= NoObject
               /\ (\A u \in Threads : Done(u)' => file[f].path \notin {call[u].path, call[u].to})
                     => names'[file[f].path] = opened'[f]
               /\ \A u \in Threads : Done(u)' =>
                     /\ file[f].path = call[u].path => names'[call[u].to] = opened'[f]
                     /\ file[f].path = call[u].to => names'[call[u].path] = opened'[f]
    <3>1. opened'[f] = opened[f] /\ opened[f] /= NoObject /\ file[f].path \in Paths
      BY <1>6, <1>15, <2>3
    <3> QED
      BY <1>13, <2>1, <2>2, <2>3, <3>1 DEF PathInv, NamedOK
  <2> QED
    BY <1>1, <2>3 DEF NamedOK
<1>17. ASSUME Req.op \in TreeOps, NEW f \in Files, file[f].state = "open"
       PROVE  /\ opened'[f] /= NoObject
              /\ (\A u \in Threads : Done(u)' => file[f].path \notin {call[u].path, call[u].to})
                    => names'[file[f].path] = opened'[f]
              /\ \A u \in Threads : Done(u)' =>
                    /\ file[f].path = call[u].path => names'[call[u].to] = opened'[f]
                    /\ file[f].path = call[u].to => names'[call[u].path] = opened'[f]
  <2>1. opened'[f] = opened[f] /\ opened[f] /= NoObject /\ file[f].path \in Paths
    BY <1>6, <1>15, <1>17
  <2>2. \A p \in Paths : p \notin {Req.path, Req.to} => names'[p] = names[p]
    BY <1>5, <1>6, <1>17 DEF NameStep
  <2>3. ASSUME NEW u \in Threads, u /= w, Done(u)
        PROVE  call[u].path \notin {Req.path, Req.to} /\ call[u].to \notin {Req.path, Req.to}
    <3>1. call[u] /= Idle
      BY <1>6, <2>3 DEF Done
    <3> QED
      BY <1>12, <1>17, <2>3, <3>1
  <2>4. CASE file[f].path \notin {Req.path, Req.to}
    <3>1. \A u \in Threads : (Done(u)' /\ u /= w) => Done(u)
      BY <1>10
    <3>2. names'[file[f].path] = names[file[f].path]
      BY <2>1, <2>2, <2>4
    <3>3. ASSUME NEW u \in Threads, Done(u)', u /= w
          PROVE  names'[call[u].to] = names[call[u].to] /\ names'[call[u].path] = names[call[u].path]
      BY <1>13, <2>2, <2>3, <3>1, <3>3
    <3>4. \A u \in Threads : Done(u) => u /= w /\ Done(u)'
      BY <1>10, <1>11
    <3> QED
      BY <1>3, <1>17, <2>1, <2>4, <3>1, <3>2, <3>3, <3>4 DEF PathInv, NamedOK
  <2>5. CASE file[f].path \in {Req.path, Req.to}
    <3>1. \A u \in Threads : Done(u) => file[f].path \notin {call[u].path, call[u].to}
      BY <1>11, <2>3, <2>5
    <3>2. names[file[f].path] = opened[f]
      BY <1>17, <3>1 DEF PathInv, NamedOK
    <3>3. Req.op = "rename" /\ Req.arg \in 0 .. 2 /\ Req.path /= Req.to
          /\ (file[f].path = Req.to => Req.arg = 2)
      BY <1>3, <1>17, <2>5 DEF PathInv, LocksOK, Held
    <3>4. ASSUME NEW u \in Threads, Done(u)', u /= w
          PROVE  file[f].path \notin {call[u].path, call[u].to}
      BY <1>10, <3>1, <3>4
    <3>5. CASE res /= "OK"
      <4>1. UNCHANGED names /\ ~Done(w)'
        BY <1>5, <1>6, <1>11, <3>3, <3>5 DEF NameStep
      <4> QED
        BY <2>1, <3>2, <3>4, <4>1
    <3>6. CASE res = "OK"
      <4>1. names'[Req.to] = names[Req.path] /\ (Req.arg = 2 => names'[Req.path] = names[Req.to])
        BY <1>5, <1>6, <3>3, <3>6 DEF NameStep
      <4>2. Done(w)'
        <5>1. call'[w].op = "rename" /\ resp'[w] \in Responses
          BY <1>0, <1>1, <1>2, <1>3, <3>3, ResponseType
        <5> QED
          BY <1>7, <3>6, <5>1, SetsAssumption DEF Done
      <4> QED
        BY <1>3, <2>1, <2>5, <3>2, <3>3, <3>4, <4>1, <4>2
    <3> QED
      BY <3>5, <3>6
  <2> QED
    BY <2>4, <2>5
<1>18. NamedOK'
  BY <1>1, <1>16, <1>17 DEF NamedOK
<1>19. ASSUME NEW u \in Threads, call[u].op \in OpenOps, resp'[u] /= NoResp, resp'[u].result = "OK"
       PROVE  opened'[call[u].file] /= NoObject /\ names'[call[u].path] = opened'[call[u].file]
  <2>1. call[u].file \in Files /\ call[u] /= Idle /\ \A v \in Threads : call[v].file = call[u].file => v = u
    BY <1>6, <1>19 DEF Structure, CallsOK
  <2>2. CASE u = w
    <3>1. Req.op \in OpenOps /\ res = "OK"
      BY <1>3, <1>7, <1>19, <2>2
    <3>2. PICK o \in Objects : opened' = [opened EXCEPT ![Req.file] = o] /\ names'[Req.path] = o
      BY <1>5, <3>1 DEF OpenStep
    <3> QED
      BY <1>3, <1>6, <2>1, <2>2, <3>2, SetsAssumption
  <2>3. CASE u /= w
    <3>1. opened'[call[u].file] = opened[call[u].file]
      BY <1>3, <1>14, <2>1, <2>3
    <3>2. names[call[u].path] = opened[call[u].file] /\ opened[call[u].file] /= NoObject
      BY <1>7, <1>19, <2>3 DEF PathInv, GrantedOK
    <3>3. Req.op \in TreeOps => call[u].path \notin {Req.path, Req.to}
      BY <1>12, <2>1, <2>3
    <3>4. names'[call[u].path] = names[call[u].path]
      BY <1>5, <1>6, <1>13, <3>2, <3>3 DEF NameStep
    <3> QED
      BY <3>1, <3>2, <3>4
  <2> QED
    BY <2>2, <2>3
<1>20. GrantedOK'
  BY <1>1, <1>19 DEF GrantedOK
<1> QED
  BY <1>4, <1>8, <1>9, <1>18, <1>20 DEF PathInv

LEMMA NamedStep ==
  ASSUME TypeInv, Structure, PathInv, Undisturbed, [Next]_vars
  PROVE  PathInv'
<1>1. ASSUME NEW t \in Threads, Mount(t) PROVE PathInv'
  BY <1>1, MountSteps, NamedSend, NamedEnd DEF Undisturbed
<1>2. CASE provider_open \/ provider_create \/ provider_release \/ OtherRequest
  BY <1>2, NamedProvider
<1>3. ASSUME UNCHANGED <<file, call, resp, opened, fsVars>>,
             \A i \in DOMAIN channel' : \E j \in DOMAIN channel : channel'[i] = channel[j]
      PROVE  PathInv'
  <2>1. LocksOK' /\ CallPathsOK' /\ NoLinks'
    BY <1>3 DEF PathInv, LocksOK, CallPathsOK, Held, NoLinks, fsVars
  <2>2. Attended'
    BY <1>3 DEF PathInv, Attended
  <2>3. NamedOK' /\ GrantedOK'
    BY <1>3 DEF PathInv, NamedOK, GrantedOK, Done, fsVars
  <2> QED
    BY <2>1, <2>2, <2>3 DEF PathInv
<1>4. CASE provider_connect \/ provider_exit \/ provider_reconnect
  <2>1. UNCHANGED <<file, call, resp, opened, fsVars>>
    BY <1>4 DEF provider_connect, provider_exit, provider_reconnect, mountVars
  <2>2. provider_reconnect =>
          \A i \in DOMAIN channel' : \E j \in DOMAIN channel : channel'[i] = channel[j]
    BY Survivors
  <2>3. \A i \in DOMAIN channel' : \E j \in DOMAIN channel : channel'[i] = channel[j]
    BY <1>4, <2>2 DEF provider_connect, provider_exit
  <2> QED
    BY <1>3, <2>1, <2>3
<1>5. CASE UNCHANGED vars
  BY <1>3, <1>5 DEF vars, mountVars
<1>6. CASE \E p \in Paths \ {Root} : local_replace(p)
  BY <1>6 DEF local_replace, Undisturbed
<1> QED
  BY <1>1, <1>2, <1>4, <1>5, <1>6 DEF Next, Provider, OtherRequest

LEMMA NamedInit ==
  ASSUME Init
  PROVE  PathInv
<1>1. \A t \in Threads : call[t] = Idle /\ resp[t] = NoResp
  BY DEF Init
<1>2. Idle.op \notin TreeOps \cup OpenOps \cup {"read", "rename"} /\ Idle.file \notin Files
      /\ Free.state = "free"
  BY OpsFacts, SetsAssumption DEF TreeOps, OpenOps, Idle, Request, Free
<1>3. NoLinks /\ Attended /\ NamedOK
  BY <1>2 DEF Init, NoLinks, Attended, NamedOK
<1> QED
  BY <1>1, <1>2, <1>3 DEF PathInv, LocksOK, CallPathsOK, GrantedOK

(* A read is executed on the object that the file was opened on, although the
   provider opens the path anew, if calls fail only with their provider,
   nobody else changes the directory and there are no symbolic links: until
   the read has returned, libfuse lets no other call move or remove the path. *)
THEOREM ReadTheorem ==
  ASSUME Undisturbed
  PROVE  Spec => []ReadsFileDescription
<1>1. TypeInv /\ HandleInv /\ PathInv => ReadsFileDescription
  <2> SUFFICES ASSUME TypeInv, HandleInv, PathInv, channel /= <<>>, Req.op = "read",
                      Head(channel).thread /= NoThread
               PROVE  ReadTarget(Req) = opened[Req.file]
    BY DEF ReadsFileDescription
  <2>1. /\ Head(channel).thread \in Threads /\ call[Head(channel).thread] = Req
        /\ Req \in Requests /\ Req /= Idle
    BY HeadFirst DEF HandleInv, Structure, WaitingOK
  <2>2. Req.path \in Paths /\ Req.handle \in 0 .. U64 - 1
    BY <2>1 DEF Requests
  <2>3. Req.file \in Files /\ file[Req.file].path = Req.path /\ file[Req.file].state = "open"
    BY <2>1 DEF PathInv, CallPathsOK, HandleInv, Structure, CallsOK, OpenOps
  <2>4. \A t \in Threads : Done(t) => Req.path \notin {call[t].path, call[t].to}
    <3> SUFFICES ASSUME NEW t \in Threads, Done(t) PROVE Req.path \notin {call[t].path, call[t].to}
      OBVIOUS
    <3>1. call[t].op \in TreeOps /\ t /= Head(channel).thread
      BY <2>1 DEF Done, TreeOps
    <3> QED
      BY <2>1, <3>1 DEF PathInv, LocksOK
  <2>5. names[Req.path] = opened[Req.file]
    BY <2>3, <2>4 DEF PathInv, NamedOK
  <2>6. ReadTarget(Req) = Follow(Req.path)
    BY <2>2, ReadHandle DEF ReadTarget
  <2> QED
    BY <2>2, <2>5, <2>6, PathOf DEF PathInv
<1>2. TypeInv /\ HandleInv /\ PathInv /\ [Next]_vars => PathInv'
  BY NamedStep DEF HandleInv
<1>3. Init => PathInv
  BY NamedInit
<1> QED
  BY <1>1, <1>2, <1>3, HandleHolds, PTL DEF Spec
=============================================================================
