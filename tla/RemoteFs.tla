------------------------------ MODULE RemoteFs ------------------------------
(***************************************************************************)
(* File system operations end to end: the FUSE callbacks (fuse.cpp), the   *)
(* remote file system and its fallback (filesystem.cpp,                    *)
(* empty_filesystem.cpp), the dispatch of a request at the provider        *)
(* (provider.cpp) and the local file system operations of                  *)
(* webfuse-provider (provider_main.cpp).                                   *)
(*                                                                         *)
(* The remote call is what Rpc promises of ws_server::perform(): a request *)
(* is executed at most once, its caller gets the answer or an exception,   *)
(* and a request that was given up may still be executed.  Requests of one *)
(* connection are executed in the order in which they were sent.  That the *)
(* answer is one to this request, WsServer shows for one connection only;  *)
(* for several sessions it is an assumption here.                          *)
(*                                                                         *)
(* Files are opened, renamed and released by several FUSE threads while    *)
(* calls time out, the provider goes away and comes back as a new process, *)
(* and other programs change the directory that the provider exports.      *)
(* Directories other than the root are empty; contents, link targets and   *)
(* device numbers are one value per object.                                *)
(***************************************************************************)
EXTENDS Integers, Sequences, FiniteSets

CONSTANTS
    Threads,       \* FUSE threads
    Files,         \* open files of the mount (struct fuse_file_info)
    Paths,         \* paths, among them Root
    Objects,       \* inodes of the provider's file system
    Fds,           \* file descriptors the provider has to spare
    Ops,           \* the operations applications use
    Reliable,      \* do calls fail only when the provider is gone?
    LocalChanges,  \* do other programs change the exported directory?
    U32, U64,      \* number of values of uint32_t and uint64_t
    Devices,       \* device numbers given to mknod
    MaxQueue,      \* bound: requests on their way to the provider
    MaxFailures,   \* bound: no file is opened after so many failed calls
    MaxSessions,   \* bound: provider processes started
    Root, NoFile, NoObject, NoThread, NoResp, Empty, Dot, DotDot

HandleOps == {"open", "create", "release", "read", "write", "truncate", "fsync", "utimens"}
QueryOps  == {"access", "getattr", "readlink", "readdir", "statfs"}
TreeOps   == {"unlink", "rmdir", "rename"}
MakeOps   == {"mknod", "mkdir", "symlink", "link"}
MetaOps   == {"chmod", "chown"}
AllOps    == HandleOps \cup QueryOps \cup TreeOps \cup MakeOps \cup MetaOps

Results == {"none", "OK", "ENOENT", "EPERM", "EBADF", "ENOSYS", "EMFILE", "EEXIST",
            "EINVAL", "EISDIR", "ENOTDIR", "ENOSPC"}

(* What a response tells: the result, and the handle or the names of a successful
   operation.                                                               *)
Responses == [result : Results, handle : 0 .. U64 - 1, entries : SUBSET (Paths \cup {Dot, DotDot})]

ASSUME WidthAssumption == /\ U32 \in Nat /\ U64 \in Nat /\ U32 > 1
                          /\ U64 > U32 /\ U64 % U32 = 0 /\ U32 % 2 = 0
ASSUME FdsAssumption == Fds \subseteq 0 .. (U32 \div 2) - 1 /\ IsFiniteSet(Fds)
ASSUME DevicesAssumption == Devices \subseteq 0 .. U64 - 1
ASSUME SetsAssumption == /\ Root \in Paths /\ NoFile \notin Files
                         /\ NoObject \notin Objects /\ NoThread \notin Threads
                         /\ NoResp \notin Responses
ASSUME BoundsAssumption == /\ Ops \subseteq AllOps
                           /\ Reliable \in BOOLEAN /\ LocalChanges \in BOOLEAN
                           /\ MaxQueue \in Nat /\ MaxFailures \in Nat /\ MaxSessions \in Nat

VARIABLES
    \* the mount: libfuse, fuse.cpp and filesystem.cpp
    file,      \* fuse_file_info of an open file, and its path in libfuse
    call,      \* the request a thread waits for, or its idle state
    resp,      \* the response that has arrived for a thread
    result,    \* what the last call of a thread returned to libfuse
    \* the way to the provider
    channel,   \* requests sent, not yet executed, and (history) the object
               \* that the file of the request was opened on
    provider,  \* "down" or "up"
    sessions,  \* provider processes started so far
    failures,  \* opens and releases that have failed on the way
    \* the provider process and its file system
    fds,       \* what an open file descriptor refers to
    names, kind, data, meta,
    \* history: the object an open file was opened on
    opened

mountVars == <<file, call, result>>
fsVars    == <<names, kind, data, meta>>
vars == <<mountVars, resp, channel, provider, sessions, failures, fds, fsVars, opened>>

-----------------------------------------------------------------------------
(* Integers on the wire.  write_u64 writes all 64 bits; read_u64 collects them
   in a uint32_t.  A u32 read where a u64 was written yields its first half.  *)
FaultyReadU64(v) == v % (U32 \div 4)
read_u64(v)      == v % U32
read_first_u32(v) == v \div U32
static_cast_int(h) == LET low == h % U32 IN IF low < U32 \div 2 THEN low ELSE low - U32

invalid_handle == U64 - 1

(* A request; the operations of one path have it in `to' as well. *)
Request(op, f, p, q, h, a) ==
    [op |-> op, file |-> f, path |-> p, to |-> q, handle |-> h, arg |-> a]

Idle == Request("idle", NoFile, Root, Root, 0, Empty)
Free == [state |-> "free", fh |-> 0, path |-> Root]

Args     == Files \cup 0 .. U64 - 1 \cup {Empty}
Requests == [op : Ops, file : Files \cup {NoFile}, path : Paths, to : Paths,
             handle : 0 .. U64 - 1, arg : Args]

MountTypeOK ==
    /\ file \in [Files -> [state : {"free", "opening", "open", "releasing"},
                           fh : 0 .. U64 - 1, path : Paths]]
    /\ call \in [Threads -> Requests \cup {Idle}]
    /\ resp \in [Threads -> Responses \cup {NoResp}]
    /\ result \in [Threads -> Results]
    /\ opened \in [Files -> Objects \cup {NoObject}]

Entry == [req : Requests, thread : Threads \cup {NoThread}, object : Objects \cup {NoObject}]

WireTypeOK ==
    /\ channel \in Seq(Entry)
    /\ provider \in {"down", "up"}
    /\ sessions \in Nat /\ failures \in Nat

ProviderTypeOK ==
    /\ fds \in [Fds -> Objects \cup {NoObject}]
    /\ names \in [Paths -> Objects \cup {NoObject}]
    /\ kind \in [Objects -> {"file", "dir", "link", "device"}]
    /\ data \in [Objects -> Files \cup Paths \cup 0 .. U64 - 1 \cup {Empty}]
    /\ meta \in [Objects -> {"none", "chmod", "chown", "utimens"}]
    /\ provider = "down" => /\ channel = <<>>
                            /\ \A d \in Fds : fds[d] = NoObject

(* Every variable has its type; a descriptor belongs to a running provider. *)
TypeOK == MountTypeOK /\ WireTypeOK /\ ProviderTypeOK

Init ==
    /\ file = [f \in Files |-> Free]
    /\ call = [t \in Threads |-> Idle]
    /\ resp = [t \in Threads |-> NoResp]
    /\ result = [t \in Threads |-> "none"]
    /\ channel = <<>> /\ provider = "down" /\ sessions = 0 /\ failures = 0
    /\ fds = [d \in Fds |-> NoObject]
    /\ names \in [Paths -> Objects \cup {NoObject}]
    /\ names[Root] /= NoObject
    /\ \A p, q \in Paths : names[p] = names[q] => p = q \/ names[p] = NoObject
    /\ kind = [o \in Objects |-> IF o = names[Root] THEN "dir" ELSE "file"]
    /\ data = [o \in Objects |-> Empty]
    /\ meta = [o \in Objects |-> "none"]
    /\ opened = [f \in Files |-> NoObject]

-----------------------------------------------------------------------------
(* libfuse: an operation holds a lock on its paths, exclusively when it removes
   or moves a name.                                                         *)
Busy(p)   == \E t \in Threads : call[t] /= Idle /\ p \in {call[t].path, call[t].to}
Locked(p) == \E t \in Threads : call[t].op \in TreeOps /\ p \in {call[t].path, call[t].to}
Held(p)   == \E f \in Files : file[f].state /= "free" /\ file[f].path = p

fs_get_handle(f) == IF f = NoFile THEN invalid_handle ELSE file[f].fh

(* Requests are written in the order of the calls, and executed as they come. *)
FaultySendNewestFirst(q, m) == <<m>> \o q
Send(q, m) == Append(q, m)

(* A callback calls the method of filesystem, which calls perform(). *)
Perform(t, r) ==
    /\ r.op \in Ops /\ call[t] = Idle
    /\ call' = [call EXCEPT ![t] = r]
    /\ result' = [result EXCEPT ![t] = "none"]
    /\ IF provider = "up"
       THEN /\ Len(channel) < MaxQueue
            /\ channel' = Send(channel, [req |-> r, thread |-> t,
                                       object |-> IF r.file = NoFile THEN NoObject
                                                  ELSE opened[r.file]])
       ELSE UNCHANGED channel
    /\ UNCHANGED <<resp, provider, sessions, failures, fds, fsVars, opened>>

fs_open(t, f, p) ==
    /\ file[f] = Free /\ ~Locked(p) /\ failures < MaxFailures
    /\ file' = [file EXCEPT ![f] = [state |-> "opening", fh |-> 0, path |-> p]]
    /\ \E op \in {"open", "create"} : Perform(t, Request(op, f, p, p, 0, Empty))

(* The kernel releases a file once, when nothing uses it any more. *)
fs_release(t, f) ==
    /\ file[f].state = "open" /\ \A u \in Threads : call[u].file /= f
    /\ ~Locked(file[f].path)
    /\ file' = [file EXCEPT ![f].state = "releasing"]
    /\ Perform(t, Request("release", f, file[f].path, file[f].path, fs_get_handle(f), Empty))

(* fs_read, fs_write, fs_fsync, fs_truncate and fs_utimes on an open file. *)
fs_file(t, op, f) ==
    /\ file[f].state = "open" /\ ~Locked(file[f].path)
    /\ Perform(t, Request(op, f, file[f].path, file[f].path, fs_get_handle(f), f))
    /\ UNCHANGED file

(* fs_truncate and fs_utimes without a fuse_file_info. *)
fs_path(t, op, p) ==
    /\ ~Locked(p)
    /\ Perform(t, Request(op, NoFile, p, p, fs_get_handle(NoFile), Empty))
    /\ UNCHANGED file

(* fs_access, fs_getattr, fs_readlink, fs_readdir and fs_statfs. *)
fs_query(t, op, p) ==
    /\ ~Locked(p)
    /\ Perform(t, Request(op, NoFile, p, p, 0, Empty))
    /\ UNCHANGED file

(* fs_chmod and fs_chown, which ignore a fuse_file_info. *)
fs_chmod(t, op, p) ==
    /\ ~Locked(p)
    /\ Perform(t, Request(op, NoFile, p, p, 0, Empty))
    /\ UNCHANGED file

(* fs_mkdir, and fs_mknod with the number of the device. *)
fs_make(t, op, p, a) ==
    /\ ~Locked(p)
    /\ Perform(t, Request(op, NoFile, p, p, 0, a))
    /\ UNCHANGED file

(* fs_link and fs_symlink, from the old path (the target) to the new one. *)
fs_link(t, op, p, q) ==
    /\ ~Locked(p) /\ ~Locked(q)
    /\ Perform(t, Request(op, NoFile, p, q, 0, Empty))
    /\ UNCHANGED file

(* fs_unlink and fs_rmdir.  libfuse renames a file that is open instead. *)
fs_remove(t, op, p) ==
    /\ ~Busy(p) /\ ~Held(p)
    /\ Perform(t, Request(op, NoFile, p, p, 0, Empty))
    /\ UNCHANGED file

fs_rename(t, p, q, flags) ==
    /\ p /= q /\ ~Busy(p) /\ ~Busy(q)
    /\ flags /= 2 => ~Held(q)
    /\ Perform(t, Request("rename", NoFile, p, q, 0, flags))
    /\ UNCHANGED file

-----------------------------------------------------------------------------
(* The call ends: filesystem.cpp decodes the answer or asks the fallback, and
   libfuse takes note of the result.                                        *)

Moved(r) == [f \in Files |->
    IF file[f].path = r.path THEN [file[f] EXCEPT !.path = r.to]
    ELSE IF file[f].path = r.to /\ r.arg = 2 THEN [file[f] EXCEPT !.path = r.path]
    ELSE file[f]]

FileAfter(r, res, h) ==
    CASE r.op \in {"open", "create"} ->
           [file EXCEPT ![r.file] = IF res = "OK"
                                    THEN [file[r.file] EXCEPT !.state = "open", !.fh = read_u64(h)]
                                    ELSE Free]
      [] r.op = "release" -> [file EXCEPT ![r.file] = Free]
      [] r.op = "rename" /\ res = "OK" -> Moved(r)
      [] OTHER -> file

End(t, res, h) ==
    /\ file' = FileAfter(call[t], res, h)
    /\ opened' = [f \in Files |-> IF file'[f] = Free THEN NoObject ELSE opened[f]]
    /\ call' = [call EXCEPT ![t] = Idle]
    /\ resp' = [resp EXCEPT ![t] = NoResp]
    /\ result' = [result EXCEPT ![t] = res]
    /\ UNCHANGED <<provider, sessions, fds, fsVars>>

Return(t) ==
    /\ call[t] /= Idle /\ resp[t] /= NoResp
    /\ End(t, resp[t].result, resp[t].handle)
    /\ UNCHANGED <<channel, failures>>

(* empty_filesystem: the answers of the fallback. *)
FaultyFallback(op, p) == IF op \in {"fsync", "release", "utimens"} \/ p = Root THEN "OK"
                         ELSE "ENOENT"
fallback(op, p) ==
    CASE op \in {"access", "getattr", "readdir"} -> IF p = Root THEN "OK" ELSE "ENOENT"
      [] op \in {"readlink", "symlink", "link", "rename", "open"} -> "ENOENT"
      [] op \in {"chmod", "chown", "truncate", "mknod", "create", "unlink",
                 "mkdir", "rmdir"} -> "EPERM"
      [] op \in {"fsync", "release"} -> "OK"
      [] op \in {"utimens", "statfs"} -> "ENOSYS"
      [] op \in {"read", "write"} -> "EBADF"

(* The request that thread t has given up may still be executed; nobody waits
   for its response.                                                        *)
Abandon(t) == [i \in DOMAIN channel |->
    IF channel[i].thread = t THEN [channel[i] EXCEPT !.thread = NoThread] ELSE channel[i]]

Counted(op) == IF op \in {"open", "create", "release"} THEN 1 ELSE 0

(* No answer can come: the request was not sent, or lost with a connection. *)
Lost(t) == resp[t] = NoResp /\ \A i \in DOMAIN channel : channel[i].thread /= t

(* perform() throws: not authenticated, timeout, broken promise. *)
Catch(t) ==
    /\ call[t] /= Idle /\ (Reliable => Lost(t))
    /\ failures' = failures + Counted(call[t].op)
    /\ channel' = Abandon(t)
    /\ End(t, fallback(call[t].op, call[t].path), 0)
-----------------------------------------------------------------------------
(* The provider executes the first request of the channel and responds. *)

Req == Head(channel).req
Serving(op) == provider = "up" /\ channel /= <<>> /\ Req.op = op

Respond(res, h, entries) ==
    /\ channel' = Tail(channel)
    /\ resp' = IF Head(channel).thread = NoThread THEN resp
               ELSE [resp EXCEPT ![Head(channel).thread] =
                                 [result |-> res, handle |-> h, entries |-> entries]]
    /\ UNCHANGED <<mountVars, provider, sessions, failures>>

Reply(res) == Respond(res, 0, {})

(* The path a system call that follows symbolic links works on. *)
Deref(p)   == IF names[p] /= NoObject /\ kind[names[p]] = "link" THEN data[names[p]] ELSE p
Follow(p)  == names[Deref(p)]
IsA(o, k)  == o /= NoObject /\ kind[o] = k
FdObject(d) == IF d \in Fds THEN fds[d] ELSE NoObject
FreeFds    == {d \in Fds : fds[d] = NoObject}
LowestFd   == CHOOSE d \in FreeFds : \A e \in FreeFds : d <= e
Fresh      == {o \in Objects : (\A p \in Paths : names[p] /= o) /\ (\A d \in Fds : fds[d] /= o)}

(* ::open and ::creat hand out the lowest free descriptor, which becomes the
   handle of the file.                                                      *)
OpenFd(o) ==
    /\ fds' = [fds EXCEPT ![LowestFd] = o]
    /\ opened' = IF Head(channel).thread = NoThread THEN opened
                 ELSE [opened EXCEPT ![Req.file] = o]
    /\ Respond("OK", LowestFd, {})

(* Why ::open and ::creat fail, given the object found, or NoObject. *)
OpenError(o) == IF FreeFds = {} THEN "EMFILE"
                ELSE IF o = NoObject THEN "ENOENT"
                ELSE IF kind[o] \in {"dir", "link"} THEN "EISDIR"
                ELSE "OK"

provider_open ==
    /\ Serving("open")
    /\ LET o == Follow(Req.path) IN
       \/ /\ OpenError(o) = "OK"
          /\ OpenFd(o)
       \/ /\ OpenError(o) /= "OK"
          /\ Reply(OpenError(o)) /\ UNCHANGED <<fds, opened>>
    /\ UNCHANGED fsVars

(* A name for a new object. *)
Make(p, o, k, v) ==
    /\ names' = [names EXCEPT ![p] = o]
    /\ kind' = [kind EXCEPT ![o] = k]
    /\ data' = [data EXCEPT ![o] = v]
    /\ meta' = [meta EXCEPT ![o] = "none"]

provider_create ==
    /\ Serving("create")
    /\ LET o == Follow(Req.path) IN
       \/ /\ OpenError(o) = "OK"
          /\ data' = [data EXCEPT ![o] = Empty]
          /\ OpenFd(o) /\ UNCHANGED <<names, kind, meta>>
       \/ /\ OpenError(o) = "ENOENT"
          /\ \E new \in Fresh : Make(Deref(Req.path), new, "file", Empty) /\ OpenFd(new)
       \/ /\ OpenError(o) \notin {"OK", "ENOENT"} \/ (OpenError(o) = "ENOENT" /\ Fresh = {})
          /\ Reply(IF OpenError(o) = "ENOENT" THEN "ENOSPC" ELSE OpenError(o))
          /\ UNCHANGED <<fds, opened, fsVars>>

FaultyReleaseKept(h) == fds
Close(h) == [fds EXCEPT ![static_cast_int(h)] = NoObject]

provider_release ==
    /\ Serving("release")
    /\ LET h == read_u64(Req.handle)
           bad == FdObject(static_cast_int(h)) = NoObject
       IN /\ fds' = IF h = invalid_handle \/ bad THEN fds ELSE Close(h)
          /\ Reply(IF h /= invalid_handle /\ bad THEN "EBADF" ELSE "OK")
    /\ UNCHANGED <<fsVars, opened>>

(* The object that write, truncate and utimens work on: the one of the handle
   or, without a handle, the one of the path.                               *)
Target(r) == LET h == read_u64(r.handle)
             IN IF h = invalid_handle THEN Follow(r.path) ELSE FdObject(static_cast_int(h))

(* read opens the path if the handle is valid. *)
ReadTarget(r) == LET h == read_u64(r.handle)
                 IN IF h /= invalid_handle THEN Follow(r.path) ELSE FdObject(static_cast_int(h))

Missing(r) == IF read_u64(r.handle) = invalid_handle THEN "ENOENT" ELSE "EBADF"

provider_write ==
    /\ \E op \in {"write", "truncate"} : Serving(op)
    /\ LET o == Target(Req) IN
       \/ /\ IsA(o, "file")
          /\ data' = [data EXCEPT ![o] = Req.arg]
          /\ Reply("OK")
       \/ /\ ~IsA(o, "file")
          /\ Reply(IF o = NoObject THEN Missing(Req) ELSE "EINVAL") /\ UNCHANGED data
    /\ UNCHANGED <<fds, names, kind, meta, opened>>

provider_utimens ==
    /\ Serving("utimens")
    /\ LET o == Target(Req) IN
       /\ meta' = IF o = NoObject THEN meta ELSE [meta EXCEPT ![o] = "utimens"]
       /\ Reply(IF o = NoObject THEN Missing(Req) ELSE "OK")
    /\ UNCHANGED <<fds, names, kind, data, opened>>

provider_read ==
    /\ Serving("read")
    /\ Reply(IF ReadTarget(Req) = NoObject THEN "ENOENT"
             ELSE IF IsA(ReadTarget(Req), "dir") THEN "EISDIR"
             ELSE "OK")
    /\ UNCHANGED <<fds, fsVars, opened>>

provider_fsync ==
    /\ Serving("fsync")
    /\ Reply(IF /\ read_u64(Req.handle) /= invalid_handle
                /\ FdObject(static_cast_int(read_u64(Req.handle))) = NoObject
             THEN "EBADF" ELSE "OK")
    /\ UNCHANGED <<fds, fsVars, opened>>
(* access and statfs follow a link, getattr and readlink do not. *)
QueryResult(op, p) ==
    IF (IF op \in {"access", "statfs"} THEN Follow(p) ELSE names[p]) = NoObject THEN "ENOENT"
    ELSE IF op = "readlink" /\ ~IsA(names[p], "link") THEN "EINVAL"
    ELSE IF op = "readdir" /\ ~IsA(Follow(p), "dir") THEN "ENOTDIR"
    ELSE "OK"

(* ::readdir reports the entries of a directory, the two special ones too. *)
Entries(p) == {Dot, DotDot} \cup
              IF Deref(p) = Root THEN {q \in Paths \ {Root} : names[q] /= NoObject} ELSE {}

provider_query ==
    /\ \E op \in QueryOps : Serving(op)
    /\ LET res == QueryResult(Req.op, Req.path)
       IN Respond(res, 0, IF Req.op = "readdir" /\ res = "OK" THEN Entries(Req.path) ELSE {})
    /\ UNCHANGED <<fds, fsVars, opened>>

provider_chmod ==
    /\ \E op \in MetaOps : Serving(op)
    /\ LET o == Follow(Req.path) IN
       /\ meta' = IF o = NoObject THEN meta ELSE [meta EXCEPT ![o] = Req.op]
       /\ Reply(IF o = NoObject THEN "ENOENT" ELSE "OK")
    /\ UNCHANGED <<fds, names, kind, data, opened>>

(* mknod, mkdir and symlink make a new object under the path `to'. *)
NewKind(r) == CASE r.op = "mkdir" -> "dir"
                [] r.op = "symlink" -> "link"
                [] r.op = "mknod" -> IF r.arg = Empty THEN "file" ELSE "device"
NewData(r) == CASE r.op = "mkdir" -> Empty
                [] r.op = "symlink" -> r.path
                [] r.op = "mknod" -> IF r.arg = Empty THEN Empty ELSE read_first_u32(r.arg)

provider_make ==
    /\ \E op \in MakeOps \ {"link"} : Serving(op)
    /\ \/ /\ names[Req.to] = NoObject
          /\ \E new \in Fresh : Make(Req.to, new, NewKind(Req), NewData(Req))
          /\ Reply("OK")
       \/ /\ names[Req.to] /= NoObject \/ Fresh = {}
          /\ Reply(IF names[Req.to] /= NoObject THEN "EEXIST" ELSE "ENOSPC") /\ UNCHANGED fsVars
    /\ UNCHANGED <<fds, opened>>

provider_link ==
    /\ Serving("link")
    /\ LET o == names[Req.path]
           res == IF o = NoObject THEN "ENOENT"
                  ELSE IF IsA(o, "dir") THEN "EPERM"
                  ELSE IF names[Req.to] /= NoObject THEN "EEXIST"
                  ELSE "OK"
       IN /\ names' = IF res = "OK" THEN [names EXCEPT ![Req.to] = o] ELSE names
          /\ Reply(res)
    /\ UNCHANGED <<fds, kind, data, meta, opened>>

provider_remove ==
    /\ \E op \in {"unlink", "rmdir"} : Serving(op)
    /\ LET o == names[Req.path]
           res == IF o = NoObject THEN "ENOENT"
                  ELSE IF IsA(o, "dir") /\ Req.op = "unlink" THEN "EISDIR"
                  ELSE IF ~IsA(o, "dir") /\ Req.op = "rmdir" THEN "ENOTDIR"
                  ELSE "OK"
       IN /\ names' = IF res = "OK" THEN [names EXCEPT ![Req.path] = NoObject] ELSE names
          /\ Reply(res)
    /\ UNCHANGED <<fds, kind, data, meta, opened>>

(* The flags of rename as they are sent, one bit per flag. *)
FaultyRenameFlags(value)  == value % 2
write_rename_flags(value) == (value % 2) + 2 * ((value \div 2) % 2)

(* ::renameat2 with no flag, RENAME_NOREPLACE (1) or RENAME_EXCHANGE (2); two
   names of one object stay as they are.                                    *)
RenameResult(old, new, flags) ==
    IF old = NoObject \/ (flags = 2 /\ new = NoObject) THEN "ENOENT"
    ELSE IF flags = 1 /\ new /= NoObject THEN "EEXIST"
    ELSE IF flags = 0 /\ IsA(old, "dir") /\ new /= NoObject /\ ~IsA(new, "dir") THEN "ENOTDIR"
    ELSE IF flags = 0 /\ ~IsA(old, "dir") /\ IsA(new, "dir") THEN "EISDIR"
    ELSE "OK"

provider_rename ==
    /\ Serving("rename")
    /\ LET old == names[Req.path]
           new == names[Req.to]
           flags == write_rename_flags(Req.arg)
           res == RenameResult(old, new, flags)
       IN /\ names' = IF res /= "OK" \/ old = new THEN names
                      ELSE [names EXCEPT ![Req.to] = old,
                                         ![Req.path] = IF flags = 2 THEN new ELSE NoObject]
          /\ Reply(res)
    /\ UNCHANGED <<fds, kind, data, meta, opened>>

-----------------------------------------------------------------------------
(* webfuse-provider connects. *)
provider_connect ==
    /\ provider = "down" /\ sessions < MaxSessions
    /\ provider' = "up" /\ sessions' = sessions + 1
    /\ UNCHANGED <<mountVars, resp, channel, failures, fds, fsVars, opened>>

(* The connection is lost: the requests on their way are, too, and the provider
   leaves its main loop; with the process its descriptors are gone.         *)
FaultyExit == fds
ClosedAll == [d \in Fds |-> NoObject]
provider_exit ==
    /\ provider = "up"
    /\ provider' = "down" /\ channel' = <<>>
    /\ fds' = ClosedAll
    /\ UNCHANGED <<mountVars, resp, sessions, failures, fsVars, opened>>

(* The connection is lost and another provider connects before poll() sees that
   there was none: it does not drop the queue, and the requests that were not
   written yet go to the new provider.                                      *)
provider_reconnect ==
    /\ provider = "up" /\ sessions < MaxSessions
    /\ sessions' = sessions + 1
    /\ \E k \in 0 .. Len(channel) : channel' = SubSeq(channel, k + 1, Len(channel))
    /\ fds' = ClosedAll
    /\ UNCHANGED <<mountVars, resp, provider, failures, fsVars, opened>>

(* Another program removes a file from the exported directory, or replaces it
   by a new one of the same name.                                           *)
local_replace(p) ==
    /\ LocalChanges /\ IsA(names[p], "file")
    /\ \E new \in Fresh \cup {NoObject} :
         IF new = NoObject
         THEN names' = [names EXCEPT ![p] = NoObject] /\ UNCHANGED <<kind, data, meta>>
         ELSE Make(p, new, "file", Empty)
    /\ UNCHANGED <<mountVars, resp, channel, provider, sessions, failures, fds, opened>>

-----------------------------------------------------------------------------
Mount(t) ==
    \/ \E f \in Files : fs_release(t, f)
    \/ \E f \in Files, p \in Paths \ {Root} : fs_open(t, f, p)
    \/ \E f \in Files, op \in HandleOps \ {"open", "create", "release"} : fs_file(t, op, f)
    \/ \E p \in Paths \ {Root}, op \in {"truncate", "utimens"} : fs_path(t, op, p)
    \/ \E p \in Paths, op \in QueryOps : fs_query(t, op, p)
    \/ \E p \in Paths, op \in MetaOps : fs_chmod(t, op, p)
    \/ \E p \in Paths \ {Root} :
         \/ fs_make(t, "mkdir", p, Empty)
         \/ \E dev \in Devices \cup {Empty} : fs_make(t, "mknod", p, dev)
         \/ \E op \in TreeOps \ {"rename"} : fs_remove(t, op, p)
    \/ \E p, q \in Paths \ {Root} :
         \/ \E op \in {"link", "symlink"} : fs_link(t, op, p, q)
         \/ \E flags \in 0 .. 2 : fs_rename(t, p, q, flags)
    \/ Return(t)
    \/ Catch(t)

Provider ==
    \/ provider_open \/ provider_create \/ provider_release
    \/ provider_read \/ provider_write \/ provider_fsync \/ provider_utimens
    \/ provider_query \/ provider_chmod \/ provider_make \/ provider_link
    \/ provider_remove \/ provider_rename
    \/ provider_connect \/ provider_exit \/ provider_reconnect

Next == \/ \E t \in Threads : Mount(t)
        \/ Provider
        \/ \E p \in Paths \ {Root} : local_replace(p)

Spec == Init /\ [][Next]_vars

-----------------------------------------------------------------------------
(* While the provider runs, the handle libfuse keeps for an open file is a
   descriptor of the object the file was opened on: no release, late or
   repeated, of another file has closed it and no open has reused it.       *)
HandleMeansFile ==
    provider = "up" => \A f \in Files :
        file[f].state = "open" =>
            /\ opened[f] /= NoObject
            /\ FdObject(static_cast_int(read_u64(file[f].fh))) = opened[f]

(* A request made on an open file reaches the object that file was opened on,
   even when its caller has given up meanwhile: release is executed after all
   requests that carry the same handle, and before the descriptor is reused. *)
RequestReachesFile ==
    (channel /= <<>> /\ Req.file /= NoFile
     /\ Req.op \in {"write", "truncate", "fsync", "utimens", "release"})
        => Target(Req) = Head(channel).object

(* A request made on an open file never reaches another file. *)
HandleOfTheFile ==
    (channel /= <<>> /\ Req.file /= NoFile
     /\ Req.op \in {"write", "truncate", "fsync", "utimens", "release"})
        => Target(Req) \in {NoObject, Head(channel).object}

(* Descriptors of the provider that no open file of the mount will release. *)
Owned(d) == \/ \E f \in Files : file[f].state \in {"open", "releasing"} /\ file[f].fh = d
            \/ \E t \in Threads : /\ call[t].op \in {"open", "create"} /\ resp[t] /= NoResp
                                  /\ resp[t].result = "OK" /\ resp[t].handle = d
Unowned == {d \in Fds : fds[d] /= NoObject /\ ~Owned(d)}

(* The provider leaks no more descriptors than opens and releases have failed
   on the way; without failures it leaks none.                              *)
LeakBounded == Cardinality(Unowned) <= failures

(* filesystem.cpp never reports success for a change that the provider has not
   made: of the operations that change something only fsync and release,
   which have nothing to undo, succeed in the fallback.                     *)
SuccessMeansExecuted ==
    [][\A t \in Threads :
         (call[t] /= Idle /\ call'[t] = Idle /\ result'[t] = "OK"
          /\ call[t].op \notin QueryOps \cup {"fsync", "release"})
         => resp[t] /= NoResp /\ resp[t].result = "OK"]_vars

(* read returns what is in the file that is open: the object the provider is
   about to read is the one the file was opened on.                         *)
ReadsFileDescription ==
    (channel /= <<>> /\ Req.op = "read" /\ Head(channel).thread /= NoThread)
        => ReadTarget(Req) = opened[Req.file]
=============================================================================
