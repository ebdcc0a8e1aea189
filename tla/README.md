# webfuse: a TLA+ verification project

webfuse mounts a file system that is provided by a remote process. The
*service* (`webfuse`) is a WebSocket server and a FUSE file system; the
*provider* (`webfuse-provider`, or any other client of the protocol) connects
to it and executes the file system operations.

## Inventory

| Part | State | Operations | Interacts with |
| --- | --- | --- | --- |
| RPC engine of the service (`ws/server_handler.cpp`, `ws/server.cpp`) | connection, id counter, authentication flag, request queue, pending promises, partial message | `perform`, `poll`, the callbacks `filter_connection`, `on_established`, `on_receive`, `on_writable`, `on_closed`, destructor | FUSE threads call `perform`; libwebsockets calls the callbacks on the service thread |
| FUSE front end (`fuse.cpp`, `webfuse.cpp`) | handle in `fuse_file_info` | one callback per file system operation | the remote file system |
| Remote file system (`filesystem.cpp`) | none of its own | one RPC per operation, fallback to `empty_filesystem` on any exception | `ws_server::perform` |
| Fallback file system (`filesystem/empty_filesystem.cpp`) | none | constant answers | |
| WebSocket client (`ws/client.cpp`) | connection, response queue, partial message | the client callbacks, `connect`, `service`, `interrupt` | provider |
| Provider (`provider.cpp`) | none of its own | dispatch of a request to a `filesystem_i` | client, local file system |
| Provider program (`provider_main.cpp`) | open file descriptors, exit flag | local file system operations, main loop | provider |
| Codec (`ws/messagewriter.cpp`, `ws/messagereader.cpp`) | buffer, position | write and read each protocol type | all of the above |
| Value conversions (`filesystem/status.cpp`, `filemode.cpp`, `openflags.cpp`, `accessmode.cpp`) | none | host to protocol and back | codec |
| Configuration (`ws/config.cpp`, `ws/url.cpp`, `util/commandline_*.cpp`) | parsed values | parse | programs |
| Authenticator (`util/authenticator.cpp`) | none | run a program with the credentials | RPC engine |

What is hard, and what makes each part correct:

- *RPC engine.* FUSE threads and the service thread share the handler, and only
  part of the accesses are protected by its mutex; connections are lost and
  replaced at any point; answers come late, out of order or never; the
  destructor has to wake up a thread that sleeps in `lws_service`. Correct
  means: a caller gets the answer to its own request or an exception, always
  returns, a request is executed at most once, and no wake-up is lost.
- *File operations.* A handle is a descriptor number of another process. Calls
  fail before or after their execution, and a call that has been given up may
  still be executed; the provider may die with files open. Correct means: a
  handle keeps denoting the file that was opened, descriptors do not leak, and
  success is never reported for a change that was not made.
- *Codec and conversions.* Widths, signs and the order of fields must agree
  between writer and reader. Correct means: reading what was written yields the
  same values.
- *Client.* Responses queue up and partial messages are lost with the
  connection. Correct means: one response per request that could be decoded,
  in order, nothing carried over to another connection; the loop ends after a
  loss, a signal or an interrupt, wherever it is at that moment.
- *Command lines.* Both are read argument by argument, an option takes whatever
  follows as its value, and later options override earlier ones. Correct means:
  the programs run as their command line says, or not at all.

`PROJECT.json` lists the places where each of these can go wrong (`hazards`).

## Modules

| Module | Content |
| --- | --- |
| `WsServer` | `server_handler` and `ws_server` with libwebsockets, callers and a provider as environment |
| `Rpc` | abstract specification of `ws_server::perform`: a remote call with at-most-once execution |
| `WsServerRpc` | the refinement mapping from `WsServer` to `Rpc` |
| `WsServerProofs` | theorems about `WsServer` that hold for any number of connections |
| `WsServerSession` | theorems about the session of one provider, up to the safety part of `Rpc` |
| `RemoteFs` | FUSE callbacks, `filesystem`, its fallback, provider and provider program |
| `RemoteFsProofs` | types of `RemoteFs`, and success only after execution |
| `RemoteFsHandles` | what a handle means while one provider process runs, and how many descriptors can leak |
| `RemoteFsReads` | what `read`, which opens the path again, reads |
| `Conversions` | modes, open flags, access modes, rename flags and status codes between host and protocol |
| `Codec` | `messagewriter` and `messagereader` on bytes |
| `CodecProofs` | theorems about both: a read stays within its message, and what was written is read back |
| `Exchange` | one remote call on the wire: request, dispatch in the provider, response; extends `Codec` |
| `ExchangeProofs` | theorems about `Exchange`, for all values of all fields |
| `WsClient` | `ws_client` with the loops of its two users |
| `Responder` | abstract specification of the client: requests of a connection are answered once and in order |
| `Options` | command lines of both programs, and URLs |
| `Programs` | composition of `Options` and `WsClient`: from the command lines to the connection and its end |
| `ProgramsProofs` | theorems about `Programs`: command lines of any length, and the safety part of `Responder` |
| `MCWsServer`, `MCRemoteFs`, `MCExchange`, `MCPrograms` | symmetry sets, values and command lines for TLC |

A definition whose name begins with `Faulty` is the definition that follows it
with a defect the code could have. No specification uses one; each shows that
some property can fail.

### WsServer

Every member of `server_handler` is a variable of the same name. `mutex` stands
for `mut`: `perform` takes it in `PerformLock` and gives it back in
`PerformEnqueue`, so that the unprotected accesses (`id = 0` in
`on_established`, the test of `is_authenticated` in `perform`) interleave with
the critical section; `raced` records such an overlap, and the outcomes of the
unsynchronised accesses to `id` are a nondeterministic choice (`RacedIds`). The
service thread alternates between `Poll` and the callbacks inside
`lws_service`; `wake` is the sticky effect of `lws_cancel_service`. Each caller
is one element of `Calls` and goes through check, lock, enqueue, cancel, wait;
its future is pending, has a value, or failed (timeout, unauthenticated, broken
promise). The destructor is three steps. Of the provider only what the service
sees is modelled: it executes requests it received, in any order when
`Reliable` is false, and may not answer. The authenticator's verdict is a
nondeterministic choice.

### Rpc and WsServerRpc

`Rpc` is what the file system may rely on: a call ends with its own answer or
an exception; the request is executed at most once, possibly after the
exception; an open call ends. `WsServerRpc` maps the state of a caller to the
state of an abstract call, with a status "wrong", which `Rpc` does not know, for
the answer of another call.

### RemoteFs

A thread runs one operation: `Perform` sends the request, `Return` decodes the
answer, `Catch` is the `catch(...)` of every method and takes the answer of
`fallback`. Requests travel in `channel` in order; a caller that gives up turns
its request into one that nobody waits for (`Abandon`), which may still be
executed. This is the behaviour that `Rpc` allows, plus the order of one
connection. `RpcTheorem` establishes it for the session of one provider; that a
call gets its own answer also when it waits across sessions is an assumption of
`RemoteFs`, which `wrong_response` shows the engine does not always meet. The
assumption is favourable to the code, so that what is refuted (`stale_handle`)
needs no wrong answer. A lost provider takes the requests it was sent with it
(`provider_exit`); one that takes over before `poll()` has noticed the loss gets
what was still queued (`provider_reconnect`). `provider_*` actions are the methods of class `filesystem` in
`provider_main.cpp`; `fds` maps descriptors to objects (inodes), and a new
descriptor is the lowest free one. The integers that matter keep their widths,
scaled down by `U32` and `U64`: `read_u64` yields a value modulo `U32`, because
the code collects it in a `uint32_t`. libfuse appears by what the code can see
of it: path locks, the path of an open file that follows a rename, a file that
is released once and not removed while it is open. `opened` and the `object` of
a request in the channel are history: the object a file was opened on.

### Conversions, Codec and Exchange

An unsigned integer is the set of the positions of its one bits, at its real
width, so that masks, shifts and casts are set operations; a byte is a subset
of `0 .. 7` and a message a sequence of bytes. `Codec` has one operator per
function of `messagewriter` (the bytes it appends) and of `messagereader` (the
reader after the call: position, values read, whether it has thrown). The
layout of every message is written down as often as the code has it:
`written_request` from the `req.write_*` calls of `filesystem.cpp`,
`read_request` from the `reader.read_*` calls of `provider.cpp`, and the same
for responses, attributes and statistics. A call goes through `perform`
(request), `on_message` (read and dispatch), `serve` or `serve_error` (the
provider's file system, any result), `on_receive` and `read_reply`; a reader
that throws leaves the request unanswered or sends the caller to its fallback,
and a file system method that throws leaves it unanswered too (`serve_throws`).
`cut` and `extend` change a message under way; `Ops` contains `"unknown"` for a
request type of a later version. `O_Flags` has the numbers of the open flags on
two machines. What may be in a field is `Valid`: a word of the width of its type,
a mode of a known type of file or of none, access and rename flags that the
protocol has (`RENAME_WHITEOUT` has no number there), results of a system call
(`-4095` at least), and strings, buffers and directories of up to 65535
elements, so that a size is a number of the model. The assumptions of `Exchange`
say this of the values a run gives; within them a theorem speaks of all values.

### WsClient and Responder

`user_data` of the client is `connection`, `current_message` and `requests`.
The thread is at the test of its flag, between the test and `poll()`, in
`poll()`, handling events, or gone; every case of `webfuse_client_callback` is
an action that needs the thread in `poll()` or handling. `listener` is the user:
`"shutdown"` is `provider_main.cpp`, with signals; `"reconnect"` is an
application that connects again in its listener and is ended by another thread,
as the fixture of the integration tests does. `Responder` knows only the
requests asked and answered on the present connection; a loss clears both, and
a request that can be decoded is answered eventually.

### Options and Programs

`config` is `ws_config`, later `context`; `ReadServiceArgument` and `getopt_long`
are one turn of the loops over the arguments, `verify` and `url_given` the tests
behind them. An argument is a token; `Number` says which tokens `std::stoi`
accepts, `Url` which parts a URL has between its colons, and `Getopt` what
`getopt_long` finds in an argument that begins with a dash: flags, and at most
one option with a value, which is attached (`-tVALUE`, `--url=VALUE`) or the
next argument. Letters can be combined (`-vu`), and abbreviated long names are
tokens with the same entry as the full ones. An entry with a flag the program
does not have is whatever `getopt_long` refuses: an unknown letter or name, or a
value for an option that has none. `--` ends the options. Arguments that are no
options are passed over, which is what glibc does unless `POSIXLY_CORRECT` is
set. The reference the properties compare with is over the whole line and in
integers: `AskedPort` is the number given, not its 16 bits. `Programs` starts a
service, which may or may not be reachable afterwards, and then a provider,
whose connection can be established only if port and TLS agree.

## Runs

| Run | Instance | Shows |
| --- | --- | --- |
| `sessions` | 2 calls, 2 attempts, header and in-protocol login, fragments, late answers, 2 usable ids | promises, queue and wake-ups stay consistent, at-most-once; a rejected login does not outlive its connection; the queue drains, the destructor ends |
| `login_session` | 2 calls, 1 connection, login, fragments, loss, provider that reorders or does not answer | own response, unique ids, `perform` returns, and `WsServer` implements `Rpc` with its liveness |
| `handles` | 2 threads, 2 files, 2 descriptors, timeouts, 1 provider process, local changes | a handle keeps its meaning, given-up requests reach their own file, leaks are bounded by failures |
| `quiet` | 2 threads, 1 file, renames, exchanges, links, removals; failures only with the provider, 2 provider processes | reading by path reads the open file |
| `paths` | 1 thread, path operations, timeouts, 2 provider processes | no success without execution |
| `exchange` | every operation, one field at a time away from its ordinary value, messages cut at every length or extended, a file system that throws; ARM service, x86 provider | arguments and results arrive, a short message is refused or nothing of it is missing, every request is answered under its id and type |
| `client` | all command lines of the service of up to 3 tokens and longer ones with TLS, and of the provider of up to 2 and longer ones with a URL; 4 requests in up to 2 fragments, 3 connections | options are read as given; the client implements `Responder`; losses, interrupts and signals end the loop |

Violation runs, each showing a disagreement with a document or comment of the
repository:

| Run | Scenario |
| --- | --- |
| `wrong_response` | c1 is sent on the first connection, which is lost; the second one starts with the same ids; c2 is sent with c1's id and its promise is destroyed by `emplace`; c1 gets the answer to c2 |
| `getcreds` | two connections, one call: `perform` has seen `is_authenticated`, the connection is lost and replaced before the request is queued, or before `poll()` notices; the request is sent to the new provider ahead of `getcreds` |
| `refusal` | a second provider tries to connect, `filter_connection` clears `is_authenticated`, `on_established` refuses it; the first provider is no longer used |
| `stale_handle` | a provider is restarted while a file is open; the next file opened gets the same descriptor; release or write of the old one hits it |
| `wide` | a write at an offset of 4 GiB or more: `read_u64` collects the value in a `uint32_t`, and the provider writes at the offset without its upper half |

Further differences met while modelling, each visible in a definition but not
worth a run: `on_established` resets `id` after `filter_connection` has opened
the gate for calls, so an id can be used twice within one connection
(`OnEstablished`);
`read` opens the path if the handle is valid and uses the handle if it is not,
the opposite of `write` (`ReadTarget`), so that it reads another file than
`write` changes once a local program has replaced the open file; a `truncate` or
`utimens` on a path sends handle -1, which arrives as 4294967295 and ends in
`EBADF` (`read_u64`); a service without `-f` starts its service thread before
`fuse_main` forks, and the daemon has none (`app_run`); the usage text of the
provider (`provider_main.cpp:125-126`) prefers `WEBFUSE_TOKEN` to `-t`, the code
and `doc/webfuse_provider.md:18` the opposite (`set`), so `ConnectsAsAsked` leaves
open which of two tokens is used; `--wf-port 65616` is port 80 (`to_uint16`),
and `RunsAsAsked` speaks of numbers that are ports; the first
colon of a URL starts the port, so an IPv6 address is refused (`ws_url`); a
request that cannot be decoded gets no response (`Receive`), although
`doc/protocol.md:280` says each request requires one; `RENAME_WHITEOUT` is
dropped (`rename_flags`); the provider sends the numbers of its own `errno`
(`response_bytes`), which are those of the protocol on x86 and ARM only;
`mknod` writes the device with 64 bits and reads 32 (`NewData`); `readdir`
responses contain `.` and `..` (`Entries`) although `doc/protocol.md:883` asks
for the opposite; `fsync` reports success when there is no provider
(`fallback`).

### Bounds

Two calls are enough for every pairwise race of callers; what `sessions` checks
of them is proved for any number. With `IdSpace = 3` ids wrap while promises
are pending. Two connections allow a loss, a reconnect and an overlap of an
attempt with a connection. In `RemoteFs` two threads and two files allow
a file to be opened while another is released late; two descriptors are
exhausted by leaks; `MaxQueue = 2` lets a given-up request and a later one be in
the channel together; `MaxFailures` stops new opens after that many failed
ones; `MaxSessions = 1` in `handles` is the assumption under which handles are
meaningful, and `MaxSessions = 2` refutes it in `stale_handle`; `quiet` and
`paths`, whose properties do not need it, have two. `CHECK_DEADLOCK FALSE` in the `RemoteFs` runs:
applications need not make further calls. In `exchange` every field takes, while
the others keep an ordinary value that differs from field to field, the values
at the edges of its type: all bits, the highest bit, 2^32 and more, each file
type, each open flag with and without `O_WRONLY`, empty and longer data. Fields
are converted independently, so pairs of edges add nothing. In `client` four
requests allow a queue of responses, a partial request and a lost connection
together; `MaxConnects = 3` bounds the listener that connects again. Command
lines of three tokens contain an option whose value is another option, missing
values and repeated options, also after the URL of a provider; TLS on another
port needs more and is added. The provider's tokens have one of each kind:
separate and attached values, a long name, combined flags, an unknown letter, `--`.
`CHECK_DEADLOCK FALSE` there: the program ends, or sleeps without events.

### Fairness

`FairSpec` of `WsServer` assumes that the service thread and the callers are
scheduled, that a requested writable callback comes, that a received message is
processed and that `wait_for` ends. These are properties of threads, of
`lws_service` and of `std::future`. Nothing is assumed of the provider, of the
network or of applications: providers need not connect or answer. `mut` is held
for a bounded critical section without blocking calls, so weak fairness of the
step that takes it is enough.

`ClientFairness` assumes that the thread runs, that `lws_service` serves what
`poll()` reports (data, a requested writable callback, the end of the
connection, the wake-up of `lws_cancel_service`) and that a connection attempt
succeeds or fails, and that the other thread calls `interrupt` after it has set
its flag. Weak fairness is enough although the thread leaves `poll()` in
between, because only finitely many other events can come first. Nothing is
assumed of the service, of signals or of the time of a loss. `SignalNoticed`
demands the end after a signal at any point, also one that comes during
`poll()`, with one exception: the last signal came between the test of the flag
and `poll()` (`overlooked`, a history variable), and nothing happens any more on
the connection. There the program does sleep on; no document of the repository
promises otherwise, so this is a hazard and not a finding.

## Proofs

All theorems hold for every value of the constants that satisfies the named
assumptions of the modules (at least two ids, sentinels outside the sets they
extend, widths of integers that divide each other, descriptors that fit into an
`int`, at least one connection, arguments that are strings, and the fields of
messages described above); TLC evaluates these in every run. A theorem that needs more says so in
its statement. The inductive invariants were checked by TLC on the instances of
the runs before they were proved, except for the one of `Exchange`, whose type
of values (words, numbers, texts and lists of them in one set) TLC cannot
evaluate; the properties that follow from it are those of the run.

### The RPC engine, any number of connections: `WsServerProofs`

- `TypeCorrect`: the type invariant, by its five parts. It is inductive as it
  stands; the part about Booleans is separate because the provers treat
  Boolean variables differently from other values.
- `WaitersNotOrphaned` (`NoOrphanedWaiter`) and `PromisesUnsatisfied`
  (`PromiseUnsatisfied`), from one invariant, `PromiseInv`. Neither is
  inductive alone: that a response disturbs nobody else's promise needs the
  uniqueness of promises, and that an enqueued promise is new needs that a call
  before or in the critical section has a pending future.
- `ExecutedOnce`: `AtMostOnce`. The invariant `OnceInv` says where a request is:
  nowhere before it is enqueued, then in the queue once, then with the provider
  once, then executed and nowhere.
- `WakeupsNotLost`: `NoLostWakeup`, with the fact that `lws_service` is going to
  return while it handles a handshake (`WakeInv`).
- `ShutdownNotStale`: `NoStaleShutdown`.

### The session of one provider: `WsServerSession`

The run `wrong_response` refutes `OwnResponse` after a second connection, so
these theorems name what they need: `LoginRequired` (an authenticator, and no
credentials in a header), `OneAttempt` (so far one provider has tried to
connect) and `IdsLeft` (the ids have not wrapped around; the code has 2^32).
`OneAttempt` and `IdsLeft` are conditions on the state under the temporal
operator: the properties hold until the first reconnect of any behaviour. Where
the property speaks of steps, `OneProvider` and `EnoughIds` say the same of the
constants. That `getcreds` is the first request holds in such a session too, but
is claimed for every connection and refuted by the run `getcreds`; there is no
theorem about it.

- `OwnResponseTheorem` and `UniqueIdsTheorem`. The invariant `SessionInv`: until
  the handshake is complete nobody has passed the test of `is_authenticated`
  and no id is in use (`QuietStart`), which is why the unprotected `id = 0` does
  no harm in a first session; ids in use are at most `id` and each belongs to
  one message (`IdsUnique`); a promise stored under the id of a message belongs
  to the same call (`PromisesMatch`); calls consume one id each (`IdsCounted`);
  fragments received belong to one message (`OneMessage`). Without a login the
  gate is opened before `id = 0` and `QuietStart` fails.
- `RpcTheorem`: every step of the engine is a step of `Rpc` or a stutter, with
  the mapping of `WsServerRpc`. Beyond `SessionInv` it needs that a response is
  a sign of an execution (`RpcInv`). With `ExecutedOnce` this is the safety part
  of `ImplementsRpc`; its fairness part is checked in `login_session`.

### Files and handles: `RemoteFsProofs`, `RemoteFsHandles`, `RemoteFsReads`

- `TypeCorrect`: `TypeOK`, for every operation, with the fact that a followed
  link leads to a path and that a response carries a 64 bit handle.
- `SuccessTheorem`: `SuccessMeansExecuted`, an action property. It is about the
  catch-all of every method, and rests on the type invariant. Both hold for any
  number of provider processes; `Survivors` is the fact about the requests that
  the next one gets.
- `HandleTheorem` and `RequestTheorem`: `HandleMeansFile` and
  `RequestReachesFile`, while `sessions <= 1`. The run `stale_handle` shows that
  the condition is needed. The invariant `HandleInv` has a structural part (a
  call is in the channel or has its response, once; a file has at most one open
  or release under way) and a part on ownership: a descriptor named by an open
  file, by the response of an open or by a request on its way is open on that
  file's object, two files never claim the same one, and no request follows the
  release of its handle. The last part is what makes it safe to hand the
  descriptor out again, and rests on libfuse, which releases a file once and
  after its other calls.
- `LeakTheorem`: `LeakBounded`, for any number of provider processes. The
  invariant `LeakInv` counts descriptors nobody will release together with
  given-up opens that are still under way, since those leak when they arrive.
- `ReadTheorem`: `ReadsFileDescription`, under `Undisturbed`: calls fail only
  with their provider, other programs leave the directory alone, and there are
  no symbolic links. `read` of the provider opens the path again, so each of
  the three is needed. The invariant `PathInv` follows the path of an open file
  through renames and exchanges and uses libfuse's path locks.

### Messages: `CodecProofs`, `ExchangeProofs`

What a loop over bytes, strings or fields computes is a recursive function in
the model. The induction is over sets instead of predicates: `UpTo` (a set that
contains 0 and the successor of each of its members below `n` contains
`0 .. n`) follows from the library's theorem on well-founded relations, and
`Recursion` gives the function its equations.

- `StringsThere`: what `write_strings` has appended anywhere in a message is
  what `read_strings` returns there, for any number of strings. It rests on
  four facts on every read, each proved once per type of field: a read takes
  bytes from the message and never passes its end (`Took`); it does not look at
  what it does not take (`Twin`); it returns what was written there (`Follows`);
  the message has the bytes that were written, wherever they are (`Holds`).
- `OpenflagsKept`: a flag of `open` is set on the provider's machine if and only
  if it was set on the service's one, for all combinations of flags and for
  machines with other numbers for them. A combined flag (`O_SYNC` contains
  `O_DSYNC`) makes this more than a table: both machines must nest the same
  flags.
- `LayoutThere`: two layouts that fit together field by field (`Aligned`) carry
  all their values. That the layouts of `filesystem.cpp` and `provider.cpp` fit
  is a lemma per direction; the one field that does not, the device of `mknod`,
  is named in it (`Misread`).
- `ExchangeInvariant`: the inductive invariant `IInv` of a call. The message
  under way is the one written, one that begins with it, or a beginning of it
  (`UnderWay`); the provider serves what was asked and has read it
  (`Serving`); a response is the one to this request (`Responding`); an
  exception means that the message was cut, of an unknown type, or that the file
  system threw (`Unanswered`, `Done`).
- From it `ExchangeTypes`, `ExchangeNoOverread` (`NoOverread`),
  `ExchangeArgumentsArrive`, `ExchangeResultArrives`, `ExchangeOwnAnswer` and
  `ExchangeCutHarmless`, the properties of the run `exchange`, for every
  operation, every value of every field, every place of a cut and every
  extension. `CutHarmless` is where `Twin` is needed: a beginning that can be
  decoded is decoded to the values of the whole message.

### The programs and the client: `ProgramsProofs`

- `ResponderTheorem`: every step of `Programs` is a step of `Responder` or a
  stutter, for any number of requests, fragments and connections. The invariant
  `StreamInv` follows a request through the client: requests are numbered as
  sent (`AskedInOrder`); their fragments are under way in order and completely
  (`WireInOrder`); what was received of a request is what precedes the next
  fragment (`PartInOrder`), so that the handler decodes what was sent; a request
  no longer under way is older than those that are, and answered or queued if it
  could be decoded (`Handled`); the queue is in order and behind what was
  answered (`QueueInOrder`). Each of them is used for the one step that matters:
  the first response of the queue answers the first request that is due.
  `WritableInv` says that a writable callback finds a response.

- `ServiceRunsAsAsked` and `ProviderConnectsAsAsked`: `RunsAsAsked` and
  `ConnectsAsAsked`, for every command line. Both properties compare with a
  reference over the whole line, `Positions`: the arguments that are not the
  value of the one before; for the provider those before the first `--`
  (`OptionsRead`). `ConnectsAsAsked` says in both directions when a provider
  connects. That it exists for every line is an induction over
  the arguments (`PlacesExist`). The invariant `OptionsInv` says of each loop
  that the next argument is one of the positions and that the fields have the
  values that the positions up to here give them (`ConfigRead`, `ContextRead`,
  the latter through `ContextOf`, one turn at a time);
  an option with a value moves two arguments on, over one that is no position.
  The list for FUSE is never longer than the number of arguments read, which is
  why its capacity is enough. They assume that arguments are strings, that
  `std::stoi` refuses the empty one, and of `Getopt`, which may be any partial
  function, that `--` is no option and that options with a value are those of
  `long_options`.
- `ProgramTypes`: `TypeOK`, from `OptionsInv`, `StreamInv` and the states of the
  loop.

### Only model-checked

- Liveness: `PerformReturns`, `QueueDrains`, `ShutdownCompletes`,
  `LossEndsProvider`, `InterruptEnds`, `SignalNoticed` and the fairness parts of
  `Rpc` and `Responder`. Liveness under fairness and statements with ENABLED are
  out of reach of the proof system.

## Not modelled

- `libwebsockets`, libfuse, the kernel and the authenticator program, beyond
  what the code can observe of them.
- In `RemoteFs`: nested directories, permissions, attributes, offsets and sizes;
  the flags of `open`; an old provider process that still executes requests it
  had received while a new one is already connected.
- `status::from_fusestatus` and `filesystem_statistics`, which nobody calls.
- Vectors of the FUSE front end: the filler calls of `fs_readdir`, the buffer of
  `fs_readlink`, and the cache settings of `fs_init`.
- The system calls of the authenticator (its verdict is nondeterministic), the
  prompt for credentials, usage texts, version, build files, examples.

## What is left

- The sizes of strings and directories in `Exchange` are below 2^16; the proofs
  need this only where a size is compared with the length of a message, and
  would carry over to 2^32 with numbers of that width.
- Proofs of liveness, once a proof system for it is at hand: the weak fairness
  each property needs is named above.
