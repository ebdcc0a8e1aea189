------------------------------ MODULE Exchange ------------------------------
(***************************************************************************)
(* One remote call on the wire: a method of filesystem (filesystem.cpp)    *)
(* writes a request, provider::on_message (provider.cpp) reads it, calls   *)
(* the method of filesystem_i and writes the response, and the first       *)
(* method reads that or asks its fallback.                                 *)
(*                                                                         *)
(* The four layouts of a message are written down where the code has them: *)
(* once per writer and once per reader.  The peers may run on different    *)
(* machines, a newer peer may append fields or use a request type the      *)
(* provider does not know, and a message may be shorter than its layout.   *)
(***************************************************************************)
EXTENDS Codec

CONSTANTS
    Ops,              \* the operations applications use
    Ids,              \* message ids (words)
    Values(_),        \* values of a field of some kind
    Base(_, _),       \* an ordinary value of a field, by kind and position
    Errors,           \* negative results of the provider's file system
    Extra,            \* bytes that a newer peer appends
    ServiceHost, ProviderHost   \* machines, of O_Flags

VARIABLES
    stage,     \* "idle", "request", "serving", "response", "silent" or "done"
    op, id,    \* the operation, and the id of its request
    args,      \* arguments of the method of filesystem
    message,   \* the bytes under way
    fault,     \* "none", "cut" or "extended": what happened to them; or "thrown"
    served,    \* the operation that the provider has found in the request
    got,       \* arguments of the method of filesystem_i
    answer,    \* result and output of the method of filesystem_i
    reply,     \* result and output of the method of filesystem
    reader     \* the reader that was used last

vars == <<stage, op, id, args, message, fault, served, got, answer, reply, reader>>

-----------------------------------------------------------------------------
(* Types of messages (request_type.hpp, response_type.hpp). *)
request_type ==
    [unknown |-> 0, access |-> 1, getattr |-> 2, readlink |-> 3, symlink |-> 4, link |-> 5,
     rename |-> 6, chmod |-> 7, chown |-> 8, truncate |-> 9, fsync |-> 10, open |-> 11,
     mknod |-> 12, create |-> 13, release |-> 14, unlink |-> 15, read |-> 16, write |-> 17,
     mkdir |-> 18, readdir |-> 19, rmdir |-> 20, statfs |-> 21, utimens |-> 22,
     getcreds |-> 23]
AllOps == DOMAIN request_type \ {"unknown"}

(* A request type of a later version of the protocol. *)
FutureType == 24

get_request_type(byte) ==
    IF \E o \in AllOps : Word(request_type[o]) = byte
    THEN CHOOSE o \in AllOps : Word(request_type[o]) = byte
    ELSE "unknown"

FaultyGetResponseType(o) == IF o = "unknown" THEN Word(0) ELSE Word(128 + request_type[o])
get_response_type(o) == Word(128 + request_type[o])

-----------------------------------------------------------------------------
(* Layouts: the kinds of the fields. *)

time == <<"u64", "u32">>

(* filesystem.cpp: the calls of req.write_*. *)
written_request(o) ==
    CASE o \in {"getattr", "readlink", "unlink", "readdir", "rmdir", "statfs"} -> <<"str">>
      [] o \in {"symlink", "link"} -> <<"str", "str">>
      [] o \in {"chmod", "create", "mkdir"} -> <<"str", "mode">>
      [] o = "access"   -> <<"str", "access_mode">>
      [] o = "rename"   -> <<"str", "str", "rename_flags">>
      [] o = "chown"    -> <<"str", "u32", "u32">>
      [] o = "truncate" -> <<"str", "u64", "u64">>
      [] o = "fsync"    -> <<"str", "bool", "u64">>
      [] o = "utimens"  -> <<"str">> \o time \o time \o <<"u64">>
      [] o = "open"     -> <<"str", "openflags">>
      [] o = "mknod"    -> <<"str", "mode", "u64">>
      [] o = "release"  -> <<"str", "u64">>
      [] o = "read"     -> <<"str", "u32", "u64", "u64">>
      [] o = "write"    -> <<"str", "bytes", "u64", "u64">>
      [] o \in {"getcreds", "unknown"} -> <<>>

(* provider.cpp: the calls of reader.read_*. *)
read_request(o) ==
    CASE o \in {"getattr", "readlink", "unlink", "readdir", "rmdir", "statfs"} -> <<"str">>
      [] o \in {"symlink", "link"} -> <<"str", "str">>
      [] o \in {"chmod", "create", "mkdir"} -> <<"str", "mode">>
      [] o = "access"   -> <<"str", "access_mode">>
      [] o = "rename"   -> <<"str", "str", "u8">>
      [] o = "chown"    -> <<"str", "u32", "u32">>
      [] o = "truncate" -> <<"str", "u64", "u64">>
      [] o = "fsync"    -> <<"str", "bool", "u64">>
      [] o = "utimens"  -> <<"str">> \o time \o time \o <<"u64">>
      [] o = "open"     -> <<"str", "openflags">>
      [] o = "mknod"    -> <<"str", "mode", "u32">>
      [] o = "release"  -> <<"str", "u64">>
      [] o = "read"     -> <<"str", "u32", "u64", "u64">>
      [] o = "write"    -> <<"str", "bytes", "u64", "u64">>
      [] o \in {"getcreds", "unknown"} -> <<>>

(* messagewriter::write_attr, which converts the mode before it calls
   write_mode, and write_statistics.                                        *)
written_attr == <<"u64", "u64", "attr_mode", "u32", "u32", "u64", "u64", "u64">>
                    \o time \o time \o time
written_statistics == [i \in 1 .. 8 |-> "u64"]

(* messagereader::read_attr and read_statistics. *)
FaultyReadAttr == <<"u64", "u64", "mode", "u32", "u32", "u64", "u64", "u64",
                    "u64", "u32", "u64", "u32", "u32", "u64">>
read_attr == <<"u64", "u64", "mode", "u32", "u32", "u64", "u64", "u64",
               "u64", "u32", "u64", "u32", "u64", "u32">>
read_statistics == [i \in 1 .. 8 |-> "u64"]

(* provider.cpp: what follows the result of a successful operation. *)
written_output(o) ==
    CASE o = "getattr"  -> written_attr
      [] o \in {"readlink", "getcreds"} -> <<"str">>
      [] o \in {"open", "create"} -> <<"u64">>
      [] o = "read"     -> <<"bytes">>
      [] o = "readdir"  -> <<"strings">>
      [] o = "statfs"   -> written_statistics
      [] OTHER          -> <<>>

(* filesystem.cpp, and finish_authentication in server_handler.cpp. *)
read_output(o) ==
    CASE o = "getattr"  -> read_attr
      [] o \in {"readlink", "getcreds"} -> <<"str">>
      [] o \in {"open", "create"} -> <<"u64">>
      [] o = "read"     -> <<"bytes">>
      [] o = "readdir"  -> <<"strings">>
      [] o = "statfs"   -> read_statistics
      [] OTHER          -> <<>>

(* Output follows a result of 0; after read, a positive one. *)
has_output(o, result) == IF o = "read" THEN result > 0 ELSE result = 0

-----------------------------------------------------------------------------
(* What applications and file systems give for a field: a word of its width,
   a mode of a known type of file or of none, flags that the protocol has, and
   strings of a size for which messages of this model are large enough.     *)
WrittenKinds == {"u32", "u64", "bool", "str", "bytes", "strings", "mode", "attr_mode",
                 "access_mode", "rename_flags", "openflags"}
MaxSize == 65535
MaxFields == 14

Valid(kind, v) ==
    CASE kind = "u32"  -> v \subseteq 0 .. 31
      [] kind = "u64"  -> v \subseteq 0 .. 63
      [] kind = "bool" -> v \in BOOLEAN
      [] kind \in {"str", "bytes"} -> v \in Seq(Bytes) /\ Len(v) <= MaxSize
      [] kind = "strings" -> /\ v \in Seq(Seq(Bytes)) /\ Len(v) <= MaxSize
                             /\ \A i \in 1 .. Len(v) : Len(v[i]) <= MaxSize
      [] kind \in {"mode", "attr_mode"} ->
           /\ v \subseteq 0 .. 15
           /\ v \cap TypeMask = {} \/ \E u \in DOMAIN S_IF : v \cap TypeMask = S_IF[u]
      [] kind = "access_mode"  -> v \subseteq 0 .. 2
      [] kind = "rename_flags" -> v \subseteq 0 .. 1
      [] kind = "openflags"    -> v \subseteq 0 .. 31

ASSUME OpsAssumption == Ops \subseteq AllOps \cup {"unknown"}
ASSUME IdsAssumption == \A i \in Ids : i \subseteq 0 .. 31
ASSUME FieldsAssumption ==
    \A kind \in WrittenKinds :
        /\ \A v \in Values(kind) : Valid(kind, v)
        /\ \A i \in 1 .. MaxFields : Valid(kind, Base(kind, i))
ASSUME ErrorsAssumption == \A e \in Errors : e \in Int /\ -4095 <= e /\ e < 0
ASSUME ExtraAssumption == Extra \in Seq(Bytes)
ASSUME HostsAssumption == {ServiceHost, ProviderHost} \subseteq DOMAIN O_Flags

-----------------------------------------------------------------------------
Write(kind, value, host) ==
    CASE kind = "u8"           -> write_u8(value)
      [] kind = "u32"          -> write_u32(value)
      [] kind = "u64"          -> write_u64(value)
      [] kind = "bool"         -> write_bool(value)
      [] kind \in {"str", "bytes"} -> write_data(value)
      [] kind = "strings"      -> write_strings(value)
      [] kind = "mode"         -> write_mode(value)
      [] kind = "attr_mode"    -> write_mode(from_mode(value))
      [] kind = "access_mode"  -> write_access_mode(value)
      [] kind = "rename_flags" -> write_rename_flags(value)
      [] kind = "openflags"    -> write_openflags(value, host)

WriteAll(kinds, values, host) ==
    FlattenSeq([i \in DOMAIN kinds |-> Write(kinds[i], values[i], host)])

Read(kind, r, host) ==
    CASE kind = "u8"          -> read_u8(r)
      [] kind = "u32"         -> read_u32(r)
      [] kind = "u64"         -> read_u64(r)
      [] kind = "bool"        -> read_bool(r)
      [] kind \in {"str", "bytes"} -> read_bytes(r)
      [] kind = "strings"     -> read_strings(r)
      [] kind = "mode"        -> read_mode(r)
      [] kind = "access_mode" -> read_access_mode(r)
      [] kind = "openflags"   -> read_openflags(r, host)
      [] kind = "result"      -> read_result(r)

(* An exception ends the reading. *)
ReadNext(kind, r, host) == IF r.ok THEN Read(kind, r, host) ELSE r
ReadAll(kinds, r, host) ==
    LET after[n \in 0 .. Len(kinds)] ==
            IF n = 0 THEN r ELSE ReadNext(kinds[n], after[n - 1], host)
    IN after[Len(kinds)]

(* The id, and the type as it was sent. *)
ReadHeader(s) == ReadAll(<<"u32", "u8">>, messagereader(s), ServiceHost)
IdOf(r)   == r.values[1]
TypeOf(r) == r.values[2]
Payload(r) == SubSeq(r.values, 3, Len(r.values))

-----------------------------------------------------------------------------
(* Every field has its base value, but for one. *)
Variants(kinds) ==
    LET base == [i \in DOMAIN kinds |-> Base(kinds[i], i)]
    IN {base} \cup UNION {{[base EXCEPT ![i] = v] : v \in Values(kinds[i])} : i \in DOMAIN kinds}

(* n bytes fit into a buffer of size w, a word. *)
Fits(n, w) == w \subseteq 0 .. 15 => n <= Number(w)

request_bytes(o, a, i) ==
    set_id(new_message(Word(IF o = "unknown" THEN FutureType ELSE request_type[o]))
               \o WriteAll(written_request(o), a, ServiceHost), i)

(* provider::on_message up to the call of the file system. *)
read_message(s) ==
    LET h == ReadHeader(s)
    IN IF h.ok THEN ReadAll(read_request(get_request_type(TypeOf(h))), h, ProviderHost) ELSE h

response_bytes(o, result, out, i) ==
    set_id(new_message(get_response_type(o))
               \o (CASE o = "unknown"  -> <<>>
                     [] o = "getcreds" -> WriteAll(written_output(o), out, ProviderHost)
                     [] OTHER -> write_i32(result) \o
                                 IF has_output(o, result)
                                 THEN WriteAll(written_output(o), out, ProviderHost) ELSE <<>>),
           i)

(* A method of filesystem reads the result and, unless it is an error, the
   output; read refuses more than its buffer holds.                         *)
read_reply(h, o, a) ==
    LET s == IF o = "getcreds" THEN h ELSE read_result(h)
        more == s.ok /\ (o = "getcreds" \/ has_output(o, Last(s.values)))
        r == IF more THEN ReadAll(read_output(o), s, ServiceHost) ELSE s
    IN IF more /\ r.ok /\ o = "read" /\ ~Fits(Len(Last(r.values)), a[2]) THEN throw(r) ELSE r

-----------------------------------------------------------------------------
NoAnswer == [result |-> 0, out |-> <<>>]
NoReply  == [how |-> "none", values |-> <<>>]
(* After an exception: the fallback answers, and a login is not finished. *)
Fallback == [how |-> "fallback", values |-> <<>>]

Init ==
    /\ stage = "idle" /\ op = "unknown" /\ id = {} /\ args = <<>>
    /\ message = <<>> /\ fault = "none" /\ served = "unknown" /\ got = <<>>
    /\ answer = NoAnswer /\ reply = NoReply /\ reader = messagereader(<<>>)

(* A method of filesystem sends its request. *)
perform(o, i) ==
    /\ stage = "idle"
    /\ \E a \in Variants(written_request(o)) :
         args' = a /\ message' = request_bytes(o, a, i)
    /\ stage' = "request" /\ op' = o /\ id' = i
    /\ UNCHANGED <<fault, served, got, answer, reply, reader>>

(* The message is not as this peer would have written it. *)
cut ==
    /\ stage \in {"request", "response"} /\ fault = "none"
    /\ \E n \in 0 .. Len(message) - 1 : message' = SubSeq(message, 1, n)
    /\ fault' = "cut"
    /\ UNCHANGED <<stage, op, id, args, served, got, answer, reply, reader>>
extend ==
    /\ stage \in {"request", "response"} /\ fault = "none"
    /\ message' = message \o Extra
    /\ fault' = "extended"
    /\ UNCHANGED <<stage, op, id, args, served, got, answer, reply, reader>>

(* The provider reads a request; if that throws, nobody answers it. *)
on_message ==
    /\ stage = "request"
    /\ LET r == read_message(message) IN
       /\ reader' = r
       /\ stage' = IF r.ok THEN "serving" ELSE "silent"
       /\ served' = IF r.ok THEN get_request_type(TypeOf(r)) ELSE served
       /\ got' = IF r.ok THEN Payload(r) ELSE got
    /\ UNCHANGED <<op, id, args, message, fault, answer, reply>>

respond(result, out) ==
    /\ stage = "serving"
    /\ answer' = [result |-> result, out |-> out]
    /\ message' = response_bytes(served, result, out, IdOf(reader))
    /\ fault' = "none" /\ stage' = "response"
    /\ UNCHANGED <<op, id, args, served, got, reply, reader>>

(* The file system of the provider fails, or gives its output. *)
serve_error == served \notin {"unknown", "getcreds"} /\ \E e \in Errors : respond(e, <<>>)
serve ==
    \E out \in Variants(written_output(served)) :
        /\ served = "read" => Fits(Len(out[1]), got[2])
        /\ respond(CASE served = "read"  -> Len(out[1])
                     [] served = "write" -> Len(got[2])
                     [] OTHER -> 0, out)

(* A method of the file system throws; the client catches that and nobody
   answers.                                                                 *)
serve_throws ==
    /\ stage = "serving" /\ served /= "unknown"
    /\ stage' = "silent" /\ fault' = "thrown"
    /\ UNCHANGED <<op, id, args, message, served, got, answer, reply, reader>>

(* server_handler::on_receive gives an answer to getcreds to
   finish_authentication() and others to the caller with their id, who reads
   it.                                                                      *)
on_receive ==
    /\ stage = "response"
    /\ LET h == ReadHeader(message)
           mine == h.ok /\ IF TypeOf(h) = get_response_type("getcreds")
                           THEN op = "getcreds" ELSE IdOf(h) = id
           r == IF mine THEN read_reply(h, op, args) ELSE h
       IN /\ reader' = r
          /\ stage' = IF mine THEN "done" ELSE "silent"
          /\ reply' = CASE ~mine -> reply
                        [] mine /\ r.ok -> [how |-> "decoded", values |-> Payload(r)]
                        [] OTHER -> Fallback
    /\ UNCHANGED <<op, id, args, message, fault, served, got, answer>>

(* perform() waits for nothing and throws in the end. *)
timeout ==
    /\ stage = "silent"
    /\ stage' = "done" /\ reply' = Fallback
    /\ UNCHANGED <<op, id, args, message, fault, served, got, answer, reader>>

again ==
    /\ stage = "done"
    /\ stage' = "idle" /\ op' = "unknown" /\ id' = {} /\ args' = <<>>
    /\ message' = <<>> /\ fault' = "none" /\ served' = "unknown" /\ got' = <<>>
    /\ answer' = NoAnswer /\ reply' = NoReply /\ reader' = messagereader(<<>>)

Next == \/ \E o \in Ops, i \in Ids : perform(o, i)
        \/ cut \/ extend \/ on_message \/ serve_error \/ serve \/ serve_throws
        \/ on_receive \/ timeout \/ again

Spec == Init /\ [][Next]_vars

-----------------------------------------------------------------------------
(* Messages are sequences of bytes, and the phases of a call are in order. *)
TypeOK ==
    /\ stage \in {"idle", "request", "serving", "response", "silent", "done"}
    /\ op \in AllOps \cup {"unknown"} /\ served \in AllOps \cup {"unknown"}
    /\ id \subseteq 0 .. 31
    /\ message \in Seq(Bytes) /\ reader.data \in Seq(Bytes)
    /\ fault \in {"none", "cut", "extended", "thrown"}
    /\ answer.result \in Int
    /\ reply.how \in {"none", "decoded", "fallback"}

(* Open flags mean the same on both machines, other values are the same. *)
Same(kind, sent, received, from, to) ==
    IF kind = "openflags"
    THEN \A f \in DOMAIN OpenFlags \ {"largefile"} :
           O_Flags[from][f] \subseteq sent <=> O_Flags[to][f] \subseteq received
    ELSE sent = received

Wide(kind, value) == kind = "u64" /\ ~(value \subseteq 0 .. 31)

(* The file system of the provider is called with the arguments the service
   was called with, also if the request has additional fields and if another
   field is wider than the 32 bits that read_u64 keeps.  The device of mknod
   is excepted, of which the provider reads the wrong half.                 *)
ArgumentsArrive ==
    stage = "serving" /\ fault /= "cut" =>
        /\ served = op
        /\ \A i \in DOMAIN args :
             LET kind == written_request(op)[i] IN
             \/ Wide(kind, args[i])
             \/ op = "mknod" /\ i = 3
             \/ Same(kind, args[i], got[i], ServiceHost, ProviderHost)

(* Every argument arrives, of whatever width. *)
WideArgumentsArrive ==
    stage = "serving" /\ fault /= "cut" =>
        \A i \in DOMAIN args :
            Same(written_request(op)[i], args[i], got[i], ServiceHost, ProviderHost)

(* The caller gets the result and the output of the provider's file system,
   also if the response has additional fields; an error comes without output.
   Excepted is a method that throws, which has neither.                     *)
ResultArrives ==
    stage = "done" /\ fault \notin {"cut", "thrown"} /\ op /= "unknown" =>
        LET status == IF op = "getcreds" THEN <<>> ELSE <<answer.result>>
            kinds == [i \in DOMAIN status |-> "result"] \o written_output(op)
            sent == status \o IF has_output(op, answer.result) THEN answer.out ELSE <<>>
        IN /\ reply.how = "decoded" /\ Len(reply.values) = Len(sent)
           /\ \A i \in DOMAIN sent : Wide(kinds[i], sent[i]) \/ sent[i] = reply.values[i]

(* A message that is too short is refused, or nothing of it is missing that
   the reader of the whole message would use.                               *)
CutHarmless ==
    fault = "cut" =>
        /\ stage = "serving" => got = Payload(read_message(request_bytes(op, args, id)))
        /\ stage = "done" /\ reply.how = "decoded" =>
             reply.values = Payload(read_reply(
                 ReadHeader(response_bytes(op, answer.result, answer.out, id)), op, args))

(* No read goes beyond the end of its message. *)
NoOverread == reader.pos <= Len(reader.data)

(* Each request that can be decoded is answered, one of an unknown type too,
   with its id and the type that belongs to it, unless the file system threw;
   and only then, and for a message cut, the caller waits for its timeout.  *)
OwnAnswer ==
    /\ stage = "silent" => fault \in {"cut", "thrown"}
    /\ stage = "response" /\ fault /= "cut" =>
         LET h == ReadHeader(message)
         IN /\ IdOf(h) = id
            /\ TypeOf(h) = {7} \cup (IF op = "unknown" THEN {} ELSE Word(request_type[op]))
=============================================================================
