--------------------------- MODULE RemoteFsHandles ---------------------------
(***************************************************************************)
(* Proofs about the handles of open files.  While the first provider runs, *)
(* a handle means the file it was given out for; over all providers, no    *)
(* more descriptors leak than calls have failed.                           *)
(***************************************************************************)
EXTENDS RemoteFsProofs, FiniteSetTheorems

(* What calls, files and requests have to do with one another. *)
CallsOK ==
    \A t \in Threads :
        /\ call[t] = Idle => resp[t] = NoResp
        /\ call[t].op \in OpenOps => /\ call[t].file \in Files
                                     /\ file[call[t].file].state = "opening"
        /\ call[t].op = "release" => /\ call[t].file \in Files
                                     /\ file[call[t].file].state = "releasing"
                                     /\ call[t].handle = file[call[t].file].fh
        /\ (call[t].file \in Files /\ call[t].op \notin OpenOps \cup {"release"})
              => file[call[t].file].state = "open"
        /\ \A u \in Threads : (call[t].file \in Files /\ call[u].file = call[t].file
                               /\ file[call[t].file].state /= "open") => t = u

(* A request that somebody waits for is the call of the thread, which has no
   response yet, and is there once.                                         *)
WaitingOK ==
    \A i \in DOMAIN channel : channel[i].thread /= NoThread =>
        /\ call[channel[i].thread] = channel[i].req
        /\ resp[channel[i].thread] = NoResp
        /\ \A j \in DOMAIN channel : channel[j].thread = channel[i].thread => i = j

(* The handle that a successful open has returned. *)
Granted(t, d) == /\ call[t].op \in OpenOps /\ resp[t] /= NoResp
                 /\ resp[t].result = "OK" /\ resp[t].handle = d

GrantsOK == \A t \in Threads, d \in 0 .. U64 - 1 : Granted(t, d) => d \in Fds

(* Nothing is open before the first provider has connected. *)
BeforeFirst ==
    sessions = 0 => /\ provider = "down"
                    /\ \A f \in Files : file[f].state \in {"free", "opening"}
                    /\ \A t \in Threads : resp[t] = NoResp

Structure == CallsOK /\ WaitingOK /\ GrantsOK /\ BeforeFirst

Claims(f, d) == \/ file[f].state = "open" /\ file[f].fh = d
                \/ \E t \in Threads : call[t].file = f /\ Granted(t, d)

(* A request that carries the handle of an open file. *)
OfFile(m) == m.req.op = "release" \/ (m.req.file \in Files /\ m.req.op \notin OpenOps)

RequestsMeanFiles ==
    \A i \in DOMAIN channel : OfFile(channel[i]) =>
        /\ channel[i].req.handle \in Fds
        /\ fds[channel[i].req.handle] = channel[i].object /\ channel[i].object /= NoObject

ReleasedLast ==
    \A i, j \in DOMAIN channel :
        (i < j /\ channel[i].req.op = "release" /\ OfFile(channel[j]))
            => channel[i].req.handle /= channel[j].req.handle

ClaimsMeanFiles ==
    \A f \in Files, d \in 0 .. U64 - 1 : Claims(f, d) =>
        /\ d \in Fds /\ fds[d] = opened[f] /\ opened[f] /= NoObject
        /\ \A i \in DOMAIN channel : channel[i].req.op = "release" => channel[i].req.handle /= d
        /\ \A g \in Files : Claims(g, d) => f = g

HandlesOK == RequestsMeanFiles /\ ReleasedLast /\ ClaimsMeanFiles

HandleInv == Structure /\ (sessions <= 1 /\ provider = "up" => HandlesOK)

-----------------------------------------------------------------------------
(* A request that is sent becomes the last one. *)
LEMMA SendStep ==
  ASSUME TypeInv, NEW t \in Threads, NEW r \in Requests, Perform(t, r)
  PROVE  /\ call[t] = Idle /\ call' = [call EXCEPT ![t] = r] /\ UNCHANGED <<resp, opened, fds, provider>>
         /\ \/ provider = "down" /\ UNCHANGED channel
            \/ \E n \in Nat, m \in Entry :
                 /\ DOMAIN channel' = DOMAIN channel \cup {n}
                 /\ \A i \in DOMAIN channel : i < n /\ channel'[i] = channel[i]
                 /\ channel'[n] = m /\ m.req = r /\ m.thread = t
                 /\ m.object = IF r.file = NoFile THEN NoObject ELSE opened[r.file]
<1> DEFINE m == [req |-> r, thread |-> t,
                 object |-> IF r.file = NoFile THEN NoObject ELSE opened[r.file]]
<1>1. m \in Entry
  BY DEF Entry, Requests, TypeInv, TypeOK, MountTypeOK
<1>2. CASE provider = "up"
  <2>1. channel \in Seq(Entry) /\ channel' = Append(channel, m)
    BY <1>2 DEF Perform, Send, TypeInv, TypeOK, WireTypeOK
  <2>2. /\ Len(channel) \in Nat /\ DOMAIN channel = 1 .. Len(channel)
        /\ DOMAIN channel' = 1 .. Len(channel) + 1
        /\ \A i \in 1 .. Len(channel) : channel'[i] = channel[i]
        /\ channel'[Len(channel) + 1] = m
    BY <1>1, <2>1, AppendProperties
  <2>3. DOMAIN channel' = DOMAIN channel \cup {Len(channel) + 1}
    BY <2>2
  <2> QED
    BY <1>1, <2>2, <2>3 DEF Perform
<1>3. CASE provider /= "up"
  BY <1>3 DEF Perform, TypeInv, TypeOK, WireTypeOK
<1> QED
  BY <1>2, <1>3

(* A file whose state changes is used by no other call. *)
LEMMA CallsSend ==
  ASSUME TypeInv, CallsOK, NEW t \in Threads, NEW r \in Requests, Sending(t, r)
  PROVE  CallsOK'
<1>0. /\ file \in [Files -> [state : {"free", "opening", "open", "releasing"},
                             fh : 0 .. U64 - 1, path : Paths]]
      /\ call \in [Threads -> Requests \cup {Idle}]
      /\ call[t] = Idle /\ call' = [call EXCEPT ![t] = r] /\ UNCHANGED resp
      /\ r /= Idle /\ Idle.file = NoFile /\ NoFile \notin Files /\ Free.state = "free"
  BY OpsFacts, SendStep, SetsAssumption
     DEF Sending, Opening, Releasing, Using, Naming, TypeInv, TypeOK, MountTypeOK, Requests,
         Idle, Request, Free
<1>1. CASE Opening(t, r)
  <2>1. \A u \in Threads : call[u].file /= r.file
    BY <1>0, <1>1 DEF Opening, CallsOK, OpenOps
  <2> QED
    BY <1>0, <1>1, <2>1 DEF Opening, CallsOK, OpenOps
<1>2. CASE Releasing(t, r)
  BY <1>0, <1>2 DEF Releasing, CallsOK, OpenOps
<1>3. CASE Using(t, r)
  BY <1>0, <1>3 DEF Using, CallsOK, OpenOps
<1>4. CASE Naming(t, r)
  BY <1>0, <1>4 DEF Naming, CallsOK, OpenOps
<1> QED
  BY <1>1, <1>2, <1>3, <1>4 DEF Sending

(* A call that ends frees its file, keeps it open or leaves all files as they are. *)
LEMMA EndStep ==
  ASSUME TypeInv, CallsOK, NEW t \in Threads, call[t] /= Idle, NEW res \in Results,
         NEW h \in 0 .. U64 - 1, End(t, res, h)
  PROVE  /\ call' = [call EXCEPT ![t] = Idle] /\ resp' = [resp EXCEPT ![t] = NoResp]
         /\ \A f \in Files :
              /\ (call[t].op \notin OpenOps \cup {"release"} \/ call[t].file /= f)
                    => file'[f].state = file[f].state /\ file'[f].fh = file[f].fh
              /\ (call[t].op = "release" /\ call[t].file = f) => file'[f].state = "free"
              /\ (call[t].op \in OpenOps /\ call[t].file = f)
                    => IF res = "OK" THEN file'[f].state = "open" /\ file'[f].fh = read_u64(h)
                                     ELSE file'[f].state = "free"
              /\ file'[f].state /= "free" => opened'[f] = opened[f]
<1>1. /\ file \in [Files -> [state : {"free", "opening", "open", "releasing"},
                             fh : 0 .. U64 - 1, path : Paths]]
      /\ call[t] \in Requests /\ Free.state = "free" /\ file' = FileAfter(call[t], res, h)
  BY DEF TypeInv, TypeOK, MountTypeOK, Free, End
<1>2. \A f \in Files : file'[f].state /= "free" => opened'[f] = opened[f]
  BY <1>1 DEF End
<1>3. CASE call[t].op \in OpenOps
  <2>1. file' = [file EXCEPT ![call[t].file] =
                   IF res = "OK" THEN [file[call[t].file] EXCEPT !.state = "open", !.fh = read_u64(h)]
                   ELSE Free]
    BY <1>1, <1>3 DEF FileAfter, OpenOps
  <2> QED
    BY <1>1, <1>2, <1>3, <2>1 DEF End, OpenOps
<1>4. CASE call[t].op = "release"
  <2>1. file' = [file EXCEPT ![call[t].file] = Free]
    BY <1>1, <1>4 DEF FileAfter
  <2> QED
    BY <1>1, <1>2, <1>4, <2>1 DEF End, OpenOps
<1>5. CASE call[t].op \notin OpenOps \cup {"release"}
  <2>1. file' = file \/ file' = Moved(call[t])
    BY <1>1, <1>5 DEF FileAfter, OpenOps
  <2>2. \A f \in Files : file'[f].state = file[f].state /\ file'[f].fh = file[f].fh
    BY <1>1, <2>1 DEF Moved
  <2> QED
    BY <1>2, <1>5, <2>2 DEF End
<1> QED
  BY <1>3, <1>4, <1>5

(* The two ways in which a call ends. *)
LEMMA EndsSteps ==
  ASSUME TypeInv, NEW t \in Threads, Return(t) \/ Catch(t)
  PROVE  /\ call[t] \in Requests /\ call[t] /= Idle
         /\ UNCHANGED <<provider, sessions, fds>>
         /\ \E res \in Results, h \in 0 .. U64 - 1 :
              /\ End(t, res, h)
              /\ \/ resp[t] \in Responses /\ res = resp[t].result /\ h = resp[t].handle
                 \/ Catch(t) /\ (call[t].op \in OpenOps => res /= "OK")
         /\ \/ Return(t) /\ UNCHANGED channel
            \/ Catch(t) /\ channel' = Abandon(t)
<1>1. call[t] \in Requests /\ call[t] /= Idle /\ 0 \in 0 .. U64 - 1
  BY WidthAssumption DEF Return, Catch, TypeInv, TypeOK, MountTypeOK
<1>2. CASE Return(t)
  <2>1. resp[t] \in Responses
    BY <1>2 DEF Return, TypeInv, TypeOK, MountTypeOK
  <2>2. resp[t].result \in Results /\ resp[t].handle \in 0 .. U64 - 1
    BY <2>1 DEF Responses
  <2> QED
    BY <1>1, <1>2, <2>1, <2>2 DEF Return, End
<1>3. CASE Catch(t)
  <2>1. call[t].op \in AllOps
    BY <1>1, OpsFacts DEF Requests
  <2>2. /\ fallback(call[t].op, call[t].path) \in Results
        /\ call[t].op \in OpenOps => fallback(call[t].op, call[t].path) /= "OK"
    BY <2>1, FallbackType DEF OpenOps, QueryOps
  <2> QED
    BY <1>1, <1>3, <2>2 DEF Catch, End
<1> QED
  BY <1>2, <1>3

LEMMA CallsEnd ==
  ASSUME TypeInv, CallsOK, NEW t \in Threads, Return(t) \/ Catch(t)
  PROVE  CallsOK'
<1>0. call \in [Threads -> Requests \cup {Idle}] /\ Idle.file = NoFile /\ NoFile \notin Files
      /\ Idle.op = "idle" /\ resp \in [Threads -> Responses \cup {NoResp}]
  BY SetsAssumption, OpsFacts DEF TypeInv, TypeOK, MountTypeOK, Idle, Request
<1>1. PICK res \in Results, h \in 0 .. U64 - 1 : End(t, res, h)
  BY EndsSteps
<1>2. call[t] /= Idle
  BY EndsSteps
<1>3. /\ call' = [call EXCEPT ![t] = Idle] /\ resp' = [resp EXCEPT ![t] = NoResp]
      /\ \A f \in Files :
            (call[t].op \notin OpenOps \cup {"release"} \/ call[t].file /= f)
                    => file'[f].state = file[f].state /\ file'[f].fh = file[f].fh
  BY <1>1, <1>2, EndStep
<1>4. ASSUME NEW u \in Threads, u /= t, call[u].file \in Files
      PROVE  /\ file'[call[u].file].state = file[call[u].file].state
             /\ file'[call[u].file].fh = file[call[u].file].fh
  <2>1. call[t].op \in OpenOps \cup {"release"} => call[t].file /= call[u].file
    BY <1>4 DEF CallsOK, OpenOps
  <2> QED
    BY <1>3, <1>4, <2>1
<1> QED
  BY <1>0, <1>3, <1>4 DEF CallsOK, OpenOps

(* A response comes for a thread that waits. *)
LEMMA RespondCalls ==
  ASSUME TypeInv, CallsOK, WaitingOK, channel /= <<>>, NEW res, NEW h, NEW entries,
         Respond(res, h, entries)
  PROVE  CallsOK'
<1>1. /\ Head(channel) = channel[1] /\ 1 \in DOMAIN channel /\ Req \in Requests /\ Head(channel) \in Entry
  <2>1. channel \in Seq(Entry)
    BY DEF TypeInv, TypeOK, WireTypeOK
  <2> QED
    BY <2>1, HeadEntry, HeadTailProperties
<1>2. Head(channel).thread /= NoThread
        => Head(channel).thread \in Threads /\ call[Head(channel).thread] = Req /\ Req /= Idle
  BY <1>1, OpsFacts DEF WaitingOK, Req, Entry, Requests
<1>3. UNCHANGED <<call, file>> /\ \A t \in Threads : call[t] = Idle => resp'[t] = resp[t]
  BY <1>2 DEF Respond, mountVars, TypeInv, TypeOK, MountTypeOK
<1> QED
  BY <1>3 DEF CallsOK

LEMMA ChannelEntries ==
  ASSUME TypeInv
  PROVE  /\ channel \in Seq(Entry)
         /\ \A i \in DOMAIN channel :
              /\ channel[i] \in Entry /\ channel[i].req \in Requests /\ channel[i].req /= Idle
              /\ channel[i].thread \in Threads \cup {NoThread}
<1>1. channel \in Seq(Entry)
  BY DEF TypeInv, TypeOK, WireTypeOK
<1>2. \A r \in Requests : r /= Idle
  BY OpsFacts DEF Requests
<1>3. \A m \in Entry : m.req \in Requests /\ m.thread \in Threads \cup {NoThread}
  BY DEF Entry
<1>4. \A i \in DOMAIN channel : channel[i] \in Entry
  BY <1>1
<1> QED
  BY <1>1, <1>2, <1>3, <1>4

LEMMA WaitingSend ==
  ASSUME TypeInv, CallsOK, WaitingOK, NEW t \in Threads, NEW r \in Requests, Sending(t, r)
  PROVE  WaitingOK'
<1>1. Perform(t, r)
  BY DEF Sending, Opening, Releasing, Using, Naming
<1>2. call[t] = Idle /\ call' = [call EXCEPT ![t] = r] /\ UNCHANGED resp
  BY <1>1, SendStep
<1>3. call \in [Threads -> Requests \cup {Idle}] /\ resp[t] = NoResp
      /\ t /= NoThread
  BY <1>2, SetsAssumption DEF CallsOK, TypeInv, TypeOK, MountTypeOK
<1>4. \A i \in DOMAIN channel : channel[i].thread /= t /\ channel[i].thread \in Threads \cup {NoThread}
  BY <1>2, <1>3, ChannelEntries DEF WaitingOK
<1>5. CASE UNCHANGED channel
  BY <1>2, <1>3, <1>4, <1>5 DEF WaitingOK
<1>6. CASE \E n \in Nat, m \in Entry :
                 /\ DOMAIN channel' = DOMAIN channel \cup {n}
                 /\ \A i \in DOMAIN channel : i < n /\ channel'[i] = channel[i]
                 /\ channel'[n] = m /\ m.req = r /\ m.thread = t
  <2>1. PICK n \in Nat, m \in Entry :
                 /\ DOMAIN channel' = DOMAIN channel \cup {n}
                 /\ \A i \in DOMAIN channel : i < n /\ channel'[i] = channel[i]
                 /\ channel'[n] = m /\ m.req = r /\ m.thread = t
    BY <1>6
  <2>2. ASSUME NEW i \in DOMAIN channel PROVE channel'[i] = channel[i]
    BY <2>1
  <2> QED
    BY <1>2, <1>3, <1>4, <2>1, <2>2 DEF WaitingOK
<1> QED
  BY <1>1, <1>5, <1>6, SendStep

LEMMA WaitingEnd ==
  ASSUME TypeInv, CallsOK, WaitingOK, NEW t \in Threads, Return(t) \/ Catch(t)
  PROVE  WaitingOK'
<1>1. call' = [call EXCEPT ![t] = Idle] /\ resp' = [resp EXCEPT ![t] = NoResp]
  BY EndsSteps DEF End
<1>2. call \in [Threads -> Requests \cup {Idle}] /\ resp \in [Threads -> Responses \cup {NoResp}]
      /\ t /= NoThread
  BY SetsAssumption DEF TypeInv, TypeOK, MountTypeOK
<1>3. CASE Return(t)
  <2>1. UNCHANGED channel /\ resp[t] /= NoResp
    BY <1>3 DEF Return
  <2>2. \A i \in DOMAIN channel : channel[i].thread /= t
    BY <1>2, <2>1 DEF WaitingOK
  <2> QED
    BY <1>1, <1>2, <2>1, <2>2, ChannelEntries DEF WaitingOK
<1>4. CASE Catch(t)
  <2>1. channel' = Abandon(t) /\ DOMAIN channel' = DOMAIN channel
    BY <1>4, AbandonType DEF Catch
  <2>2. \A i \in DOMAIN channel : /\ channel'[i].thread /= t
                                  /\ channel'[i].thread \in {NoThread, channel[i].thread}
                                  /\ channel'[i].req = channel[i].req
    <3> TAKE i \in DOMAIN channel
    <3>1. channel'[i] = IF channel[i].thread = t THEN [channel[i] EXCEPT !.thread = NoThread] ELSE channel[i]
      BY <2>1 DEF Abandon
    <3>2. channel[i] \in Entry
      BY ChannelEntries
    <3> QED
      BY <1>2, <3>1, <3>2 DEF Entry
  <2> QED
    BY <1>1, <1>2, <2>1, <2>2, ChannelEntries DEF WaitingOK
<1> QED
  BY <1>3, <1>4

LEMMA WaitingRespond ==
  ASSUME TypeInv, WaitingOK, channel /= <<>>, NEW res, NEW h, NEW entries,
         Respond(res, h, entries)
  PROVE  WaitingOK'
<1>1. /\ Head(channel) = channel[1] /\ 1 \in DOMAIN channel
      /\ channel' = Tail(channel) /\ DOMAIN channel' \subseteq Nat \ {0}
      /\ \A i \in DOMAIN channel' : i + 1 \in DOMAIN channel /\ channel'[i] = channel[i + 1]
  <2>1. channel \in Seq(Entry)
    BY DEF TypeInv, TypeOK, WireTypeOK
  <2>2. Tail(channel) \in Seq(Entry) /\ Head(channel) = channel[1] /\ 1 \in DOMAIN channel
    BY <2>1, HeadTailProperties
  <2> QED
    BY <2>1, <2>2, HeadEntry DEF Respond
<1>2. \A i \in DOMAIN channel' : channel'[i].thread /= NoThread =>
           channel'[i].thread /= Head(channel).thread /\ channel'[i].thread \in Threads
  <2> SUFFICES ASSUME NEW i \in DOMAIN channel', channel'[i].thread /= NoThread
               PROVE  channel'[i].thread /= Head(channel).thread /\ channel'[i].thread \in Threads
    OBVIOUS
  <2>1. i + 1 \in DOMAIN channel /\ i + 1 /= 1 /\ channel'[i] = channel[i + 1]
    BY <1>1
  <2> QED
    BY <1>1, <2>1, ChannelEntries DEF WaitingOK
<1>3. UNCHANGED call /\ \A t \in Threads : t /= Head(channel).thread => resp'[t] = resp[t]
  BY DEF Respond, mountVars, TypeInv, TypeOK, MountTypeOK
<1>4. ASSUME NEW i \in DOMAIN channel', NEW j \in DOMAIN channel', channel'[i].thread /= NoThread,
             channel'[i].thread = channel'[j].thread
      PROVE  i = j
  <2>1. i + 1 = j + 1
    BY <1>1, <1>4 DEF WaitingOK
  <2> QED
    BY <1>1, <2>1
<1> QED
  BY <1>1, <1>2, <1>3, <1>4 DEF WaitingOK

LEMMA HeadFirst ==
  ASSUME TypeInv, channel /= <<>>
  PROVE  /\ Head(channel) = channel[1] /\ 1 \in DOMAIN channel /\ Req = channel[1].req
         /\ Req \in Requests /\ Req /= Idle /\ Head(channel).thread \in Threads \cup {NoThread}
         /\ DOMAIN Tail(channel) \subseteq Nat \ {0}
         /\ \A i \in DOMAIN Tail(channel) :
              i + 1 \in DOMAIN channel /\ Tail(channel)[i] = channel[i + 1]
<1>1. channel \in Seq(Entry)
  BY ChannelEntries
<1>2. Tail(channel) \in Seq(Entry) /\ Head(channel) = channel[1] /\ 1 \in DOMAIN channel
  BY <1>1, HeadTailProperties
<1> QED
  BY <1>1, <1>2, HeadEntry, ChannelEntries DEF Req

(* The response to the first request is for the thread whose call it is. *)
LEMMA RespondGrants ==
  ASSUME TypeInv, WaitingOK, channel /= <<>>, NEW res \in Results, NEW h \in 0 .. U64 - 1,
         NEW entries \in SUBSET (Paths \cup {Dot, DotDot}), Respond(res, h, entries),
         NEW t \in Threads, NEW d, Granted(t, d)'
  PROVE  \/ Granted(t, d)
         \/ /\ t = Head(channel).thread /\ call[t] = Req /\ Req.op \in OpenOps
            /\ res = "OK" /\ d = h
<1>1. UNCHANGED call
  BY DEF Respond, mountVars
<1>2. CASE t = Head(channel).thread
  <2>1. resp'[t] = [result |-> res, handle |-> h, entries |-> entries] /\ t /= NoThread
    BY <1>2, SetsAssumption DEF Respond, TypeInv, TypeOK, MountTypeOK
  <2>2. call[t] = Req
    BY <1>2, <2>1, HeadFirst DEF WaitingOK
  <2> QED
    BY <1>1, <1>2, <2>1, <2>2 DEF Granted
<1>3. CASE t /= Head(channel).thread
  <2>1. resp'[t] = resp[t]
    BY <1>3 DEF Respond, TypeInv, TypeOK, MountTypeOK
  <2> QED
    BY <1>1, <2>1 DEF Granted
<1> QED
  BY <1>2, <1>3

(* Other steps grant nothing. *)
LEMMA NothingGranted ==
  ASSUME TypeInv, CallsOK, NEW t \in Threads, NEW d, Granted(t, d)',
         \/ Sends \/ EndsCall
         \/ provider_connect \/ provider_exit \/ provider_reconnect \/ Elsewhere
  PROVE  /\ Granted(t, d) /\ call'[t] = call[t]
         /\ \A u \in Threads : Return(u) \/ Catch(u) => u /= t
<1>0. call \in [Threads -> Requests \cup {Idle}] /\ resp \in [Threads -> Responses \cup {NoResp}]
      /\ Idle.op \notin OpenOps
  BY OpsFacts DEF TypeInv, TypeOK, MountTypeOK, OpenOps
<1>1. ASSUME NEW u \in Threads, Return(u) \/ Catch(u)
      PROVE  u /= t /\ Granted(t, d) /\ call'[t] = call[t]
  <2>1. call' = [call EXCEPT ![u] = Idle] /\ resp' = [resp EXCEPT ![u] = NoResp]
    BY <1>1, EndsSteps DEF End
  <2> QED
    BY <1>0, <2>1 DEF Granted
<1>2. CASE Sends
  <2>1. PICK u \in Threads, r \in Requests : Perform(u, r)
    BY <1>2 DEF Sends, Sending, Opening, Releasing, Using, Naming
  <2>2. call[u] = Idle /\ call' = [call EXCEPT ![u] = r] /\ UNCHANGED resp
    BY <2>1, SendStep
  <2>3. Granted(t, d) /\ call'[t] = call[t]
    BY <1>0, <2>2 DEF Granted, CallsOK
  <2> QED
    BY <1>1, <2>3
<1>3. CASE EndsCall
  BY <1>1, <1>3 DEF EndsCall
<1>4. CASE provider_connect \/ provider_exit \/ provider_reconnect \/ Elsewhere
  <2>1. UNCHANGED <<call, resp>>
    BY <1>4 DEF provider_connect, provider_exit, provider_reconnect, Elsewhere, mountVars
  <2>2. Granted(t, d) /\ call'[t] = call[t]
    BY <2>1 DEF Granted
  <2> QED
    BY <1>1, <2>2
<1> QED
  BY <1>2, <1>3, <1>4

(* What the provider answers to an open. *)
LEMMA ProviderGrants ==
  ASSUME TypeInv, WaitingOK, Opens \/ Answers \/ provider_release,
         NEW t \in Threads, NEW d, Granted(t, d)'
  PROVE  \/ Granted(t, d)
         \/ /\ t = Head(channel).thread /\ call[t] = Req /\ d = LowestFd
            /\ \E o \in Objects : Opened(o)
<1>0. 0 \in 0 .. U64 - 1 /\ {} \in SUBSET (Paths \cup {Dot, DotDot})
  BY WidthAssumption
<1>1. ASSUME NEW o \in Objects, Opened(o), ~Granted(t, d)
      PROVE  t = Head(channel).thread /\ call[t] = Req /\ d = LowestFd
  <2>1. LowestFd \in 0 .. U64 - 1
    BY <1>1, LowestFree, Descriptor DEF Opened
  <2> QED
    BY <1>0, <1>1, <2>1, RespondGrants DEF Opened, OpenFd, Results
<1>2. CASE Answers
  BY <1>0, <1>2, RespondGrants DEF Answers, Answered
<1>3. CASE provider_release
  BY <1>0, <1>3, RespondGrants, ReleaseStep DEF OpenOps
<1> QED
  BY <1>1, <1>2, <1>3 DEF Opens

LEMMA GrantsStep ==
  ASSUME TypeInv, CallsOK, WaitingOK, GrantsOK, [Next]_vars
  PROVE  GrantsOK'
<1> SUFFICES ASSUME NEW t \in Threads, NEW d \in 0 .. U64 - 1, Granted(t, d)'
             PROVE  d \in Fds
  BY DEF GrantsOK
<1>1. CASE Opens \/ Answers \/ provider_release
  BY <1>1, ProviderGrants, LowestFree DEF GrantsOK, Opened
<1>2. CASE \/ Sends \/ EndsCall
          \/ provider_connect \/ provider_exit \/ provider_reconnect \/ Elsewhere
  BY <1>2, NothingGranted DEF GrantsOK
<1> QED
  BY <1>1, <1>2, Steps

(* What the provider does to the mount: at most one response arrives. *)
LEMMA ProviderSteps ==
  ASSUME TypeInv, Opens \/ Answers \/ provider_release
  PROVE  /\ provider = "up" /\ channel /= <<>> /\ channel' = Tail(channel)
         /\ UNCHANGED <<file, call, provider, sessions, failures>>
         /\ \E res, h, entries : Respond(res, h, entries)
<1>1. /\ provider = "up" /\ channel /= <<>> /\ \E res, h, entries : Respond(res, h, entries)
  BY ReleaseStep DEF Opens, Opened, OpenFd, Answers, Answered
<1> QED
  BY <1>1 DEF Respond, mountVars

LEMMA CallsStep ==
  ASSUME TypeInv, CallsOK, WaitingOK, [Next]_vars
  PROVE  CallsOK' /\ WaitingOK'
<1>1. CASE Sends
  BY <1>1, CallsSend, WaitingSend DEF Sends
<1>2. CASE EndsCall
  BY <1>2, CallsEnd, WaitingEnd DEF EndsCall
<1>3. CASE Opens \/ Answers \/ provider_release
  BY <1>3, ProviderSteps, RespondCalls, WaitingRespond
<1>4. CASE provider_connect \/ provider_exit \/ Elsewhere
  <2>1. UNCHANGED <<file, call, resp>> /\ (UNCHANGED channel \/ channel' = <<>>)
    BY <1>4 DEF provider_connect, provider_exit, Elsewhere, mountVars
  <2> QED
    BY <2>1 DEF CallsOK, WaitingOK
<1>5. CASE provider_reconnect
  <2>1. UNCHANGED <<file, call, resp>>
    BY <1>5 DEF provider_reconnect, mountVars
  <2>2. PICK k \in Nat : \A i \in DOMAIN channel' :
          i \in Nat /\ i + k \in DOMAIN channel /\ channel'[i] = channel[i + k]
    BY <1>5, Survivors
  <2>3. \A i, j \in DOMAIN channel' : i + k = j + k => i = j
    BY <2>2
  <2> QED
    BY <2>1, <2>2, <2>3 DEF CallsOK, WaitingOK
<1> QED
  BY <1>1, <1>2, <1>3, <1>4, <1>5, Steps

LEMMA BeforeFirstStep ==
  ASSUME TypeInv, CallsOK, BeforeFirst, [Next]_vars
  PROVE  BeforeFirst'
<1> SUFFICES ASSUME sessions' = 0 PROVE BeforeFirst'
  BY DEF BeforeFirst
<1>0. sessions \in Nat
  BY DEF TypeInv, TypeOK, WireTypeOK
<1>1. ASSUME NEW t \in Threads, NEW r \in Requests, Sending(t, r) PROVE BeforeFirst'
  <2>1. Perform(t, r)
    BY <1>1 DEF Sending, Opening, Releasing, Using, Naming
  <2>2. sessions = 0 /\ UNCHANGED <<provider, resp>>
    BY <2>1 DEF Perform
  <2>3. \A f \in Files : file'[f].state \in {"free", "opening"}
    BY <1>1, <2>2 DEF Sending, Opening, Releasing, Using, Naming, BeforeFirst, TypeInv, TypeOK, MountTypeOK
  <2> QED
    BY <2>2, <2>3 DEF BeforeFirst
<1>2. ASSUME NEW t \in Threads, Return(t) \/ Catch(t) PROVE BeforeFirst'
  <2>1. sessions = 0 /\ UNCHANGED provider /\ resp[t] = NoResp /\ call[t] /= Idle
    BY <1>2, EndsSteps DEF BeforeFirst
  <2>2. resp[t] \notin Responses
    BY <2>1, SetsAssumption
  <2>3. PICK res \in Results, h \in 0 .. U64 - 1 : End(t, res, h) /\ (call[t].op \in OpenOps => res /= "OK")
    BY <1>2, <2>2, EndsSteps
  <2>4. \A f \in Files : file'[f].state \in {"free", "opening"}
    BY <2>1, <2>3, EndStep DEF BeforeFirst
  <2>5. \A u \in Threads : resp'[u] = NoResp
    BY <2>1, <2>3 DEF End, BeforeFirst
  <2> QED
    BY <2>1, <2>4, <2>5 DEF BeforeFirst
<1>3. CASE Opens \/ Answers \/ provider_release
  BY <1>3, ProviderSteps DEF BeforeFirst
<1>4. CASE provider_connect \/ provider_reconnect
  BY <1>0, <1>4 DEF provider_connect, provider_reconnect
<1>5. CASE provider_exit
  BY <1>5 DEF provider_exit, BeforeFirst
<1>6. CASE Elsewhere
  BY <1>6 DEF Elsewhere, mountVars, BeforeFirst
<1> QED
  BY <1>1, <1>2, <1>3, <1>4, <1>5, <1>6, Steps DEF Sends, EndsCall

LEMMA StructureInit ==
  ASSUME Init
  PROVE  Structure
<1>1. DOMAIN channel = {} /\ \A t \in Threads : call[t] = Idle /\ resp[t] = NoResp
  BY DEF Init
<1>2. Idle.op \notin OpenOps \cup {"release"} /\ Idle.file = NoFile /\ NoFile \notin Files
      /\ Free.state = "free"
  BY SetsAssumption, OpsFacts DEF OpenOps, Idle, Request, Free
<1> QED
  BY <1>1, <1>2 DEF Init, Structure, CallsOK, WaitingOK, GrantsOK, Granted, BeforeFirst

LEMMA StructureStep ==
  ASSUME TypeInv, Structure, [Next]_vars
  PROVE  Structure'
  BY CallsStep, GrantsStep, BeforeFirstStep DEF Structure

-----------------------------------------------------------------------------
(***************************************************************************)
(* While the first provider runs, the claims of files and the requests     *)
(* under way agree with the descriptors.                                   *)
(***************************************************************************)
LEMMA SendClaims ==
  ASSUME TypeInv, Structure, NEW t \in Threads, NEW r \in Requests, Numbered(r), Guarded(r), Sending(t, r),
         NEW f \in Files, NEW d, Claims(f, d)'
  PROVE  Claims(f, d) /\ ~(r.op = "release" /\ r.file = f)
<1>0. file \in [Files -> [state : {"free", "opening", "open", "releasing"},
                          fh : 0 .. U64 - 1, path : Paths]]
  BY DEF TypeInv, TypeOK, MountTypeOK
<1>1. CASE file'[f].state = "open" /\ file'[f].fh = d
  <2>1. file[f].state = "open" /\ file[f].fh = d /\ ~(r.op = "release" /\ r.file = f)
    BY <1>0, <1>1 DEF Sending, Opening, Releasing, Using, Naming, OpenOps
  <2> QED
    BY <2>1 DEF Claims
<1>2. ASSUME NEW u \in Threads, call'[u].file = f, Granted(u, d)'
      PROVE  Claims(f, d) /\ ~(r.op = "release" /\ r.file = f)
  <2>1. Granted(u, d) /\ call[u].file = f
    BY <1>2, NothingGranted DEF Sends, Structure
  <2>2. ~(r.op = "release" /\ r.file = f)
    BY <2>1 DEF Sending, Opening, Releasing, Using, Naming, OpenOps
  <2> QED
    BY <2>1, <2>2 DEF Claims
<1> QED
  BY <1>1, <1>2 DEF Claims

LEMMA HandlesSend ==
  ASSUME TypeInv, Structure, HandlesOK, NEW t \in Threads, NEW r \in Requests, Numbered(r), Guarded(r), Sending(t, r)
  PROVE  HandlesOK'
<1>0. r.file \in Files \cup {NoFile} /\ NoFile \notin Files /\ r.handle \in 0 .. U64 - 1
  BY SetsAssumption DEF Requests
<1>1. Perform(t, r) /\ UNCHANGED <<opened, fds>>
  BY DEF Sending, Opening, Releasing, Using, Naming, Perform
<1>2. ASSUME r.file \in Files, r.op \notin OpenOps
      PROVE  /\ Claims(r.file, r.handle)
             /\ r.handle \in Fds /\ fds[r.handle] = opened[r.file] /\ opened[r.file] /= NoObject
             /\ \A i \in DOMAIN channel :
                  channel[i].req.op = "release" => channel[i].req.handle /= r.handle
  <2>1. Claims(r.file, r.handle)
    BY <1>0, <1>2 DEF Sending, Opening, Releasing, Using, Naming, OpenOps, Claims
  <2> QED
    BY <1>0, <1>2, <2>1 DEF HandlesOK, ClaimsMeanFiles
<1>3. ASSUME NEW f \in Files, NEW d, Claims(f, d)'
      PROVE  Claims(f, d) /\ ~(r.op = "release" /\ r.file = f)
  BY <1>3, SendClaims
<1>4. r.op = "release" => r.file \in Files
  BY DEF Sending, Opening, Releasing, Using, Naming, OpenOps
<1>5. CASE UNCHANGED channel
  <2>1. RequestsMeanFiles' /\ ReleasedLast'
    BY <1>1, <1>5 DEF HandlesOK, RequestsMeanFiles, ReleasedLast, OfFile
  <2>2. ClaimsMeanFiles'
    BY <1>1, <1>3, <1>5 DEF HandlesOK, ClaimsMeanFiles
  <2> QED
    BY <2>1, <2>2 DEF HandlesOK
<1>6. ASSUME NEW n \in Nat, NEW m \in Entry,
             DOMAIN channel' = DOMAIN channel \cup {n},
             \A i \in DOMAIN channel : i < n /\ channel'[i] = channel[i],
             channel'[n] = m, m.req = r, m.thread = t,
             m.object = IF r.file = NoFile THEN NoObject ELSE opened[r.file]
      PROVE  HandlesOK'
  <2>0. DOMAIN channel \subseteq Nat /\ \A i \in DOMAIN channel : ~(n < i)
    BY <1>6, ChannelEntries
  <2>1. OfFile(m) => /\ m.req.handle \in Fds /\ m.object /= NoObject
                     /\ fds[m.req.handle] = m.object
                     /\ \A i \in DOMAIN channel :
                          channel[i].req.op = "release" => channel[i].req.handle /= m.req.handle
    BY <1>0, <1>2, <1>4, <1>6 DEF OfFile, OpenOps
  <2>2. RequestsMeanFiles'
    BY <1>1, <1>6, <2>1 DEF HandlesOK, RequestsMeanFiles, OfFile
  <2>3. ReleasedLast'
    BY <1>1, <1>6, <2>0, <2>1 DEF HandlesOK, ReleasedLast, OfFile
  <2>4. ASSUME NEW f \in Files, NEW d \in 0 .. U64 - 1, Claims(f, d)'
        PROVE  /\ d \in Fds /\ fds'[d] = opened'[f] /\ opened'[f] /= NoObject
               /\ \A i \in DOMAIN channel' : channel'[i].req.op = "release" => channel'[i].req.handle /= d
               /\ \A g \in Files : Claims(g, d)' => f = g
    <3>1. Claims(f, d) /\ ~(r.op = "release" /\ r.file = f)
      BY <1>3, <2>4
    <3>2. r.op = "release" => r.handle /= d
      BY <1>2, <1>4, <3>1 DEF HandlesOK, ClaimsMeanFiles, OpenOps
    <3> QED
      BY <1>1, <1>3, <1>6, <3>1, <3>2 DEF HandlesOK, ClaimsMeanFiles
  <2> QED
    BY <2>2, <2>3, <2>4 DEF HandlesOK, ClaimsMeanFiles
<1>7. CASE ~UNCHANGED channel
  <2>1. PICK n \in Nat, m \in Entry :
               /\ DOMAIN channel' = DOMAIN channel \cup {n}
               /\ \A i \in DOMAIN channel : i < n /\ channel'[i] = channel[i]
               /\ channel'[n] = m /\ m.req = r /\ m.thread = t
               /\ m.object = IF r.file = NoFile THEN NoObject ELSE opened[r.file]
    BY <1>1, <1>7, SendStep
  <2> QED
    BY <1>6, <2>1
<1> QED
  BY <1>5, <1>7

LEMMA HandlesEnd ==
  ASSUME TypeInv, Structure, HandlesOK, NEW t \in Threads, Return(t) \/ Catch(t)
  PROVE  HandlesOK'
<1>1. PICK res \in Results, h \in 0 .. U64 - 1 :
              /\ End(t, res, h)
              /\ \/ resp[t] \in Responses /\ res = resp[t].result /\ h = resp[t].handle
                 \/ Catch(t) /\ (call[t].op \in OpenOps => res /= "OK")
  BY EndsSteps
<1>2. call[t] /= Idle /\ UNCHANGED fds
  BY EndsSteps
<1>3. /\ DOMAIN channel' = DOMAIN channel
      /\ \A i \in DOMAIN channel : channel'[i].req = channel[i].req /\ channel'[i].object = channel[i].object
  <2>1. CASE UNCHANGED channel
    BY <2>1
  <2>2. CASE channel' = Abandon(t)
    <3>1. ASSUME NEW i \in DOMAIN channel PROVE channel'[i].object = channel[i].object
      <4>1. channel[i] \in Entry
        BY ChannelEntries
      <4>2. channel'[i] = IF channel[i].thread = t THEN [channel[i] EXCEPT !.thread = NoThread] ELSE channel[i]
        BY <2>2 DEF Abandon
      <4> QED
        BY <4>1, <4>2 DEF Entry
    <3> QED
      BY <2>2, <3>1, AbandonType
  <2> QED
    BY <2>1, <2>2, EndsSteps
<1>4. ASSUME NEW f \in Files, NEW d, Claims(f, d)'
      PROVE  Claims(f, d) /\ opened'[f] = opened[f]
  <2>1. CASE file'[f].state = "open" /\ file'[f].fh = d
    <3>1. opened'[f] = opened[f]
      BY <1>1, <1>2, <2>1, EndStep DEF Structure
    <3>2. CASE call[t].op \in OpenOps /\ call[t].file = f
      <4>1. res = "OK" /\ d = read_u64(h)
        BY <1>1, <1>2, <2>1, <3>2, EndStep DEF Structure
      <4>2. Granted(t, h)
        BY <1>1, <3>2, <4>1, SetsAssumption DEF Granted
      <4>3. h \in Fds
        BY <4>2 DEF Structure, GrantsOK
      <4>4. d = h
        BY <4>1, <4>3, Descriptor
      <4> QED
        BY <3>1, <3>2, <4>2, <4>4 DEF Claims
    <3>3. CASE ~(call[t].op \in OpenOps /\ call[t].file = f)
      <4>1. file[f].state = "open" /\ file[f].fh = d
        BY <1>1, <1>2, <2>1, <3>3, EndStep DEF Structure
      <4> QED
        BY <3>1, <4>1 DEF Claims
    <3> QED
      BY <3>2, <3>3
  <2>2. ASSUME NEW u \in Threads, call'[u].file = f, Granted(u, d)'
        PROVE  Claims(f, d) /\ opened'[f] = opened[f]
    <3>1. Granted(u, d) /\ call[u].file = f /\ u /= t
      BY <2>2, NothingGranted DEF EndsCall, Structure
    <3>2. file[f].state = "opening" /\ call[t].file /= f
      BY <3>1 DEF Granted, Structure, CallsOK
    <3>3. file'[f].state = "opening"
      BY <1>1, <1>2, <3>2, EndStep DEF Structure
    <3>4. opened'[f] = opened[f]
      BY <1>1, <1>2, <3>3, EndStep DEF Structure
    <3> QED
      BY <3>1, <3>4 DEF Claims
  <2> QED
    BY <2>1, <2>2, <1>4 DEF Claims
<1>5. RequestsMeanFiles' /\ ReleasedLast'
  BY <1>2, <1>3 DEF HandlesOK, RequestsMeanFiles, ReleasedLast, OfFile
<1>6. ClaimsMeanFiles'
  BY <1>2, <1>3, <1>4 DEF HandlesOK, ClaimsMeanFiles
<1> QED
  BY <1>5, <1>6 DEF HandlesOK

(* The claims after an answer of the provider. *)
LEMMA ProviderClaims ==
  ASSUME TypeInv, Structure, Opens \/ Answers \/ provider_release,
         NEW f \in Files, NEW d, Claims(f, d)'
  PROVE  \/ Claims(f, d)
         \/ /\ Head(channel).thread /= NoThread /\ Req.file = f /\ d = LowestFd
            /\ file[f].state = "opening" /\ \A e : ~Claims(f, e)
            /\ \E o \in Objects : Opened(o)
<1>0. UNCHANGED <<file, call>> /\ channel /= <<>>
  BY ProviderSteps
<1>1. CASE file'[f].state = "open" /\ file'[f].fh = d
  BY <1>0, <1>1 DEF Claims
<1>2. ASSUME NEW t \in Threads, call'[t].file = f, Granted(t, d)', ~Claims(f, d)
      PROVE  /\ Head(channel).thread /= NoThread /\ Req.file = f /\ d = LowestFd
             /\ file[f].state = "opening" /\ \A e : ~Claims(f, e)
             /\ \E o \in Objects : Opened(o)
  <2>1. ~Granted(t, d) /\ call[t].file = f
    BY <1>0, <1>2 DEF Claims
  <2>2. /\ t = Head(channel).thread /\ call[t] = Req /\ d = LowestFd
        /\ \E o \in Objects : Opened(o)
    BY <1>2, <2>1, ProviderGrants DEF Structure
  <2>3. t /= NoThread /\ call[t].op \in OpenOps /\ resp[t] = NoResp
    BY <1>0, <2>2, HeadFirst, SetsAssumption DEF Opened, Structure, WaitingOK
  <2>4. file[f].state = "opening" /\ \A u \in Threads : call[u].file = f => u = t
    BY <2>1, <2>3 DEF Structure, CallsOK
  <2>5. \A e : ~Claims(f, e)
    BY <2>3, <2>4 DEF Claims, Granted
  <2> QED
    BY <2>1, <2>2, <2>3, <2>4, <2>5
<1> QED
  BY <1>1, <1>2 DEF Claims

(* The requests that are left when the first one is done. *)
LEMMA TailRequests ==
  ASSUME TypeInv, HandlesOK, channel /= <<>>, channel' = Tail(channel)
  PROVE  /\ ReleasedLast'
         /\ \A i \in DOMAIN channel' : OfFile(channel[i + 1]) =>
               /\ i + 1 \in DOMAIN channel /\ channel'[i] = channel[i + 1]
               /\ Req.op = "release" => channel[i + 1].req.handle /= Req.handle
<1>1. /\ 1 \in DOMAIN channel /\ Req = channel[1].req /\ DOMAIN channel' \subseteq Nat \ {0}
      /\ \A i \in DOMAIN channel' : i + 1 \in DOMAIN channel /\ channel'[i] = channel[i + 1]
  BY HeadFirst
<1>2. ASSUME NEW i \in DOMAIN channel', NEW j \in DOMAIN channel', i < j,
             channel'[i].req.op = "release", OfFile(channel'[j])
      PROVE  channel'[i].req.handle /= channel'[j].req.handle
  <2>1. i + 1 < j + 1 /\ i + 1 \in DOMAIN channel /\ j + 1 \in DOMAIN channel
    BY <1>1, <1>2
  <2>2. channel'[i] = channel[i + 1] /\ channel'[j] = channel[j + 1]
    BY <1>1
  <2> QED
    BY <1>2, <2>1, <2>2 DEF HandlesOK, ReleasedLast
<1>3. ReleasedLast'
  BY <1>2 DEF ReleasedLast, OfFile
<1>4. ASSUME NEW i \in DOMAIN channel', OfFile(channel[i + 1]), Req.op = "release"
      PROVE  channel[i + 1].req.handle /= Req.handle
  <2>1. 1 < i + 1 /\ i + 1 \in DOMAIN channel
    BY <1>1
  <2> QED
    BY <1>1, <1>4, <2>1 DEF HandlesOK, ReleasedLast
<1> QED
  BY <1>1, <1>3, <1>4

(* Opening a file takes a descriptor that was free. *)
LEMMA OpenedFd ==
  ASSUME TypeInv, NEW o \in Objects, Opened(o)
  PROVE  /\ LowestFd \in Fds /\ fds[LowestFd] = NoObject
         /\ fds' = [fds EXCEPT ![LowestFd] = o] /\ fds'[LowestFd] = o /\ o /= NoObject
  BY LowestFree, SetsAssumption DEF Opened, OpenFd, TypeInv, TypeOK, ProviderTypeOK

LEMMA HandlesAnswer ==
  ASSUME TypeInv, Structure, HandlesOK, Answers
  PROVE  HandlesOK'
<1>1. channel /= <<>> /\ channel' = Tail(channel) /\ UNCHANGED <<fds, opened>>
  BY ProviderSteps DEF Answers, Answered
<1>2. \A o \in Objects : ~Opened(o)
  BY <1>1, OpenedFd
<1>3. \A f \in Files : \A d : Claims(f, d)' => Claims(f, d)
  BY <1>2, ProviderClaims
<1>4. /\ ReleasedLast'
      /\ \A i \in DOMAIN channel' : i + 1 \in DOMAIN channel /\ channel'[i] = channel[i + 1]
  BY <1>1, TailRequests, HeadFirst
<1>5. RequestsMeanFiles'
  BY <1>1, <1>4 DEF HandlesOK, RequestsMeanFiles, OfFile
<1>6. ClaimsMeanFiles'
  BY <1>1, <1>3, <1>4 DEF HandlesOK, ClaimsMeanFiles
<1> QED
  BY <1>4, <1>5, <1>6 DEF HandlesOK

LEMMA HandlesOpened ==
  ASSUME TypeInv, Structure, HandlesOK, NEW o \in Objects, Opened(o)
  PROVE  HandlesOK'
<1>1. channel /= <<>> /\ channel' = Tail(channel)
  BY ProviderSteps DEF Opens
<1>2. /\ ReleasedLast'
      /\ \A i \in DOMAIN channel' : i + 1 \in DOMAIN channel /\ channel'[i] = channel[i + 1]
  BY <1>1, TailRequests, HeadFirst
<1>3. /\ LowestFd \in Fds /\ fds[LowestFd] = NoObject /\ o /= NoObject
      /\ fds' = [fds EXCEPT ![LowestFd] = o] /\ fds'[LowestFd] = o
      /\ \A d \in Fds : d /= LowestFd => fds'[d] = fds[d]
      /\ opened \in [Files -> Objects \cup {NoObject}]
  BY OpenedFd DEF TypeInv, TypeOK, ProviderTypeOK, MountTypeOK
<1>4. RequestsMeanFiles'
  BY <1>2, <1>3 DEF HandlesOK, RequestsMeanFiles, OfFile
<1>5. ASSUME NEW i \in DOMAIN channel', channel'[i].req.op = "release"
      PROVE  channel'[i].req.handle /= LowestFd
  <2>1. OfFile(channel[i + 1]) /\ i + 1 \in DOMAIN channel /\ channel'[i] = channel[i + 1]
    BY <1>2, <1>5 DEF OfFile
  <2> QED
    BY <1>3, <2>1 DEF HandlesOK, RequestsMeanFiles
<1>6. ASSUME NEW f \in Files, NEW d \in 0 .. U64 - 1, Claims(f, d)'
      PROVE  /\ d \in Fds /\ fds'[d] = opened'[f] /\ opened'[f] /= NoObject
             /\ \A i \in DOMAIN channel' : channel'[i].req.op = "release" => channel'[i].req.handle /= d
             /\ ~Claims(f, d) => Req.file = f /\ d = LowestFd
             /\ Claims(f, d) => d /= LowestFd
  <2>1. CASE Claims(f, d)
    <3>1. /\ d \in Fds /\ fds[d] = opened[f] /\ opened[f] /= NoObject
          /\ \A i \in DOMAIN channel : channel[i].req.op = "release" => channel[i].req.handle /= d
      BY <2>1 DEF HandlesOK, ClaimsMeanFiles
    <3>2. opened'[f] = opened[f]
      <4>1. CASE Head(channel).thread /= NoThread
        <5>1. Req.op \in OpenOps /\ Req.file \in Files
              /\ call[Head(channel).thread] = Req /\ resp[Head(channel).thread] = NoResp
              /\ Head(channel).thread \in Threads
          BY <1>1, <4>1, HeadFirst DEF Opened, Structure, WaitingOK, CallsOK
        <5>2. /\ file[Req.file].state = "opening"
              /\ \A u \in Threads : call[u].file = Req.file => u = Head(channel).thread
          BY <5>1 DEF Structure, CallsOK
        <5>3. Req.file /= f
          BY <2>1, <5>1, <5>2 DEF Claims, Granted
        <5> QED
          BY <1>3, <5>3 DEF Opened, OpenFd
      <4>2. CASE Head(channel).thread = NoThread
        BY <4>2 DEF Opened, OpenFd
      <4> QED
        BY <4>1, <4>2
    <3>3. d /= LowestFd
      BY <1>3, <3>1
    <3> QED
      BY <1>2, <1>3, <2>1, <3>1, <3>2, <3>3
  <2>2. CASE ~Claims(f, d)
    <3>1. Head(channel).thread /= NoThread /\ Req.file = f /\ d = LowestFd
      BY <1>6, <2>2, ProviderClaims DEF Opens
    <3>2. opened'[f] = o
      BY <1>3, <3>1 DEF Opened, OpenFd
    <3> QED
      BY <1>3, <1>5, <2>2, <3>1, <3>2
  <2> QED
    BY <2>1, <2>2
<1>7. ClaimsMeanFiles'
  BY <1>6 DEF HandlesOK, ClaimsMeanFiles
<1> QED
  BY <1>2, <1>4, <1>7 DEF HandlesOK

LEMMA HandlesRelease ==
  ASSUME TypeInv, Structure, HandlesOK, provider_release
  PROVE  HandlesOK'
<1>1. /\ channel /= <<>> /\ channel' = Tail(channel) /\ Req.op = "release" /\ UNCHANGED opened
      /\ Req = channel[1].req /\ 1 \in DOMAIN channel /\ Req \in Requests
  BY ProviderSteps, ReleaseStep, HeadFirst
<1>2. /\ ReleasedLast'
      /\ \A i \in DOMAIN channel' : i + 1 \in DOMAIN channel /\ channel'[i] = channel[i + 1]
      /\ \A i \in DOMAIN channel' : OfFile(channel[i + 1]) => channel[i + 1].req.handle /= Req.handle
  BY <1>1, TailRequests, HeadFirst
<1>3. Req.handle \in Fds
  BY <1>1 DEF HandlesOK, RequestsMeanFiles, OfFile
<1>4. \A d \in Fds : d /= Req.handle => fds'[d] = fds[d]
  BY <1>3, Descriptor DEF provider_release, Close, TypeInv, TypeOK, ProviderTypeOK
<1>5. RequestsMeanFiles'
  BY <1>2, <1>4 DEF HandlesOK, RequestsMeanFiles, OfFile
<1>6. \A o \in Objects : ~Opened(o)
  BY <1>1 DEF Opened, OpenOps
<1>7. \A f \in Files : \A d : Claims(f, d)' => Claims(f, d)
  BY <1>6, ProviderClaims
<1>8. ClaimsMeanFiles'
  BY <1>1, <1>2, <1>4, <1>7 DEF HandlesOK, ClaimsMeanFiles
<1> QED
  BY <1>2, <1>5, <1>8 DEF HandlesOK

LEMMA HandleStep ==
  ASSUME TypeInv, HandleInv, [Next]_vars
  PROVE  HandleInv'
<1>1. Structure'
  BY StructureStep DEF HandleInv
<1> SUFFICES ASSUME sessions' <= 1, provider' = "up" PROVE HandlesOK'
  BY <1>1 DEF HandleInv
<1>2. sessions \in Nat
  BY DEF TypeInv, TypeOK, WireTypeOK
<1>3. ASSUME UNCHANGED <<sessions, provider>> PROVE Structure /\ HandlesOK
  BY <1>3 DEF HandleInv
<1>4. CASE Sends
  <2>1. UNCHANGED <<sessions, provider>>
    BY <1>4 DEF Sends, Sending, Opening, Releasing, Using, Naming, Perform
  <2> QED
    BY <1>3, <1>4, <2>1, HandlesSend DEF Sends
<1>5. CASE EndsCall
  <2>1. PICK t \in Threads : Return(t) \/ Catch(t)
    BY <1>5 DEF EndsCall
  <2>2. UNCHANGED <<sessions, provider>>
    BY <2>1, EndsSteps
  <2> QED
    BY <1>3, <2>1, <2>2, HandlesEnd
<1>6. CASE Opens \/ Answers \/ provider_release
  <2>1. UNCHANGED <<sessions, provider>>
    BY <1>6, ProviderSteps
  <2> QED
    BY <1>3, <1>6, <2>1, HandlesOpened, HandlesAnswer, HandlesRelease DEF Opens
<1>7. CASE provider_connect
  <2>1. sessions = 0 /\ channel' = <<>> /\ UNCHANGED <<file, call, resp>>
    BY <1>2, <1>7 DEF provider_connect, mountVars, TypeInv, TypeOK, ProviderTypeOK
  <2>2. \A f \in Files : \A d : ~Claims(f, d)'
    BY <2>1 DEF HandleInv, Structure, BeforeFirst, Claims, Granted
  <2> QED
    BY <2>1, <2>2 DEF HandlesOK, RequestsMeanFiles, ReleasedLast, ClaimsMeanFiles
<1>8. CASE provider_exit \/ provider_reconnect
  BY <1>2, <1>8 DEF provider_exit, provider_reconnect, HandleInv, Structure, BeforeFirst
<1>9. CASE Elsewhere
  <2>1. HandlesOK /\ UNCHANGED <<file, call, resp, channel, fds, opened>>
    BY <1>3, <1>9 DEF Elsewhere, mountVars
  <2> QED
    BY <2>1 DEF HandlesOK, RequestsMeanFiles, ReleasedLast, ClaimsMeanFiles, Claims, Granted, OfFile
<1> QED
  BY <1>4, <1>5, <1>6, <1>7, <1>8, <1>9, Steps

LEMMA HandleHolds == Spec => [](TypeInv /\ HandleInv)
<1>1. Init => HandleInv
  BY StructureInit DEF HandleInv, Init
<1> QED
  BY <1>1, TypeInit, TypeStep, HandleStep, PTL DEF Spec

(* As long as no second provider has been started, the handle of an open file is
   a descriptor of the object the file was opened on, whatever calls time out
   and are executed late; a second provider numbers its descriptors anew.   *)
THEOREM HandleTheorem == Spec => [](sessions <= 1 => HandleMeansFile)
<1>1. TypeInv /\ HandleInv => (sessions <= 1 => HandleMeansFile)
  <2> SUFFICES ASSUME TypeInv, HandleInv, sessions <= 1, provider = "up",
                      NEW f \in Files, file[f].state = "open"
               PROVE  /\ opened[f] /= NoObject
                      /\ FdObject(static_cast_int(read_u64(file[f].fh))) = opened[f]
    BY DEF HandleMeansFile
  <2>1. file[f].fh \in 0 .. U64 - 1 /\ Claims(f, file[f].fh)
    BY DEF TypeInv, TypeOK, MountTypeOK, Claims
  <2>2. file[f].fh \in Fds /\ fds[file[f].fh] = opened[f] /\ opened[f] /= NoObject
    BY <2>1 DEF HandleInv, HandlesOK, ClaimsMeanFiles
  <2> QED
    BY <2>2, Descriptor DEF FdObject
<1> QED
  BY <1>1, HandleHolds, PTL

(* With one provider, every request on an open file is executed on the object that
   the file was opened on, also after its caller has given up: the release of a
   handle is the last request that carries it, and the descriptor is handed out
   again only after that release.                                           *)
THEOREM RequestTheorem == Spec => [](sessions <= 1 => RequestReachesFile)
<1>1. TypeInv /\ HandleInv => (sessions <= 1 => RequestReachesFile)
  <2> SUFFICES ASSUME TypeInv, HandleInv, sessions <= 1, channel /= <<>>, Req.file /= NoFile,
                      Req.op \in {"write", "truncate", "fsync", "utimens", "release"}
               PROVE  Target(Req) = Head(channel).object
    BY DEF RequestReachesFile
  <2>1. provider = "up"
    BY DEF TypeInv, TypeOK, WireTypeOK, ProviderTypeOK
  <2>2. /\ 1 \in DOMAIN channel /\ Head(channel) = channel[1] /\ Req = channel[1].req
        /\ Req \in Requests
    BY HeadFirst
  <2>3. OfFile(channel[1])
    BY <2>2 DEF OfFile, Requests, OpenOps
  <2>4. Req.handle \in Fds /\ fds[Req.handle] = Head(channel).object
    BY <2>1, <2>2, <2>3 DEF HandleInv, HandlesOK, RequestsMeanFiles
  <2>5. read_u64(Req.handle) /= invalid_handle /\ static_cast_int(read_u64(Req.handle)) = Req.handle
    BY <2>4, Descriptor, ReadHandle
  <2> QED
    BY <2>4, <2>5 DEF Target, FdObject
<1> QED
  BY <1>1, HandleHolds, PTL

-----------------------------------------------------------------------------
(* Descriptors that leak.  A descriptor has a claim on it while an open file, a
   release that is not answered or a successful answer to an open carries it.
   An open that was given up is counted as a leak before it is executed.    *)
Claimed(d) ==
    \/ \E f \in Files : file[f].state = "open" /\ file[f].fh = d
    \/ \E t \in Threads : call[t].op = "release" /\ resp[t] = NoResp /\ call[t].handle = d
    \/ \E t \in Threads : Granted(t, d)

Leaked == {d \in Fds : fds[d] /= NoObject /\ ~Claimed(d)}

AbandonedOpens == {i \in DOMAIN channel : channel[i].thread = NoThread /\ channel[i].req.op \in OpenOps}

LeakInv == Cardinality(Leaked) + Cardinality(AbandonedOpens) <= failures

(* Counting. *)
LEMMA NoMore ==
  ASSUME NEW S, NEW T, IsFiniteSet(T), S \subseteq T
  PROVE  IsFiniteSet(S) /\ Cardinality(S) \in Nat /\ Cardinality(T) \in Nat
         /\ Cardinality(S) <= Cardinality(T)
<1>1. S \in SUBSET T
  OBVIOUS
<1> QED
  BY <1>1, FS_Subset, FS_CardinalityType

LEMMA OneMore ==
  ASSUME NEW S, NEW T, IsFiniteSet(T), NEW x, S \subseteq T \cup {x}
  PROVE  IsFiniteSet(S) /\ Cardinality(S) \in Nat /\ Cardinality(T) \in Nat
         /\ Cardinality(S) <= Cardinality(T) + 1
<1>1. IsFiniteSet(T \cup {x}) /\ Cardinality(T) \in Nat
      /\ Cardinality(T \cup {x}) <= Cardinality(T) + 1
  BY FS_AddElement, FS_CardinalityType
<1> QED
  BY <1>1, NoMore

LEMMA Shifted ==
  ASSUME NEW S \in SUBSET Nat, NEW T, IsFiniteSet(T), NEW k \in Nat, \A i \in S : i + k \in T
  PROVE  Cardinality(S) \in Nat /\ Cardinality(T) \in Nat /\ Cardinality(S) <= Cardinality(T)
<1> DEFINE g == [i \in S |-> i + k]
<1>1. g \in [S -> T] /\ \A i, j \in S : g[i] = g[j] => i = j
  OBVIOUS
<1> HIDE DEF g
<1>2. g \in Injection(S, T)
  BY <1>1 DEF Injection, IsInjective
<1> QED
  BY <1>2, FS_Injection, FS_CardinalityType

LEMMA LeakSets ==
  ASSUME TypeInv
  PROVE  /\ IsFiniteSet(Leaked) /\ IsFiniteSet(AbandonedOpens)
         /\ Cardinality(Leaked) \in Nat /\ Cardinality(AbandonedOpens) \in Nat
         /\ AbandonedOpens \subseteq Nat /\ failures \in Nat
<1>1. channel \in Seq(Entry) /\ failures \in Nat
  BY DEF TypeInv, TypeOK, WireTypeOK
<1>2. IsFiniteSet(DOMAIN channel) /\ DOMAIN channel \subseteq Nat
  BY <1>1, FS_Interval
<1> QED
  BY <1>1, <1>2, NoMore, FdsAssumption DEF Leaked, AbandonedOpens

LEMMA LeakSend ==
  ASSUME TypeInv, Structure, NEW t \in Threads, NEW r \in Requests, Sending(t, r)
  PROVE  Leaked' \subseteq Leaked /\ AbandonedOpens' \subseteq AbandonedOpens /\ UNCHANGED failures
<1>1. Perform(t, r)
  BY DEF Sending, Opening, Releasing, Using, Naming
<1>2. /\ call[t] = Idle /\ call' = [call EXCEPT ![t] = r] /\ UNCHANGED <<resp, fds, failures>>
      /\ call \in [Threads -> Requests \cup {Idle}] /\ resp[t] = NoResp /\ t /= NoThread
      /\ Idle.op \notin OpenOps \cup {"release"}
      /\ file \in [Files -> [state : {"free", "opening", "open", "releasing"},
                          fh : 0 .. U64 - 1, path : Paths]]
  BY <1>1, SetsAssumption, OpsFacts DEF Perform, Structure, CallsOK, TypeInv, TypeOK, MountTypeOK, OpenOps
<1>3. ASSUME NEW d \in Fds, Claimed(d) PROVE Claimed(d)'
  <2>1. ASSUME NEW f \in Files, file[f].state = "open", file[f].fh = d PROVE Claimed(d)'
    <3>1. CASE r.op = "release" /\ r.file = f
      <4>1. r.handle = d
        BY <2>1, <3>1 DEF Sending, Opening, Releasing, Using, Naming, OpenOps
      <4> QED
        BY <1>2, <3>1, <4>1 DEF Claimed
    <3>2. CASE ~(r.op = "release" /\ r.file = f)
      <4>1. file'[f] = file[f]
        BY <1>2, <2>1, <3>2 DEF Sending, Opening, Releasing, Using, Naming, Free
      <4> QED
        BY <2>1, <4>1 DEF Claimed
    <3> QED
      BY <3>1, <3>2
  <2>2. ASSUME NEW u \in Threads, call[u].op = "release", resp[u] = NoResp, call[u].handle = d
        PROVE  Claimed(d)'
    BY <1>2, <2>2 DEF Claimed
  <2>3. ASSUME NEW u \in Threads, Granted(u, d) PROVE Claimed(d)'
    BY <1>2, <2>3 DEF Claimed, Granted
  <2> QED
    BY <1>3, <2>1, <2>2, <2>3 DEF Claimed
<1>4. AbandonedOpens' \subseteq AbandonedOpens
  <2>1. CASE UNCHANGED channel
    BY <2>1 DEF AbandonedOpens
  <2>2. CASE \E n \in Nat, m \in Entry :
               /\ DOMAIN channel' = DOMAIN channel \cup {n}
               /\ \A i \in DOMAIN channel : i < n /\ channel'[i] = channel[i]
               /\ channel'[n] = m /\ m.thread = t
    BY <1>2, <2>2 DEF AbandonedOpens
  <2> QED
    BY <1>1, <2>1, <2>2, SendStep
<1> QED
  BY <1>2, <1>3, <1>4 DEF Leaked

(* A call that ends gives up the claim of its thread, unless a response makes it
   a claim of the file.                                                     *)
LEMMA EndClaims ==
  ASSUME TypeInv, Structure, NEW t \in Threads, Return(t) \/ Catch(t), NEW d \in Fds, Claimed(d)
  PROVE  \/ Claimed(d)'
         \/ /\ Catch(t)
            /\ \/ Granted(t, d)
               \/ call[t].op = "release" /\ call[t].handle = d
<1>1. PICK res \in Results, h \in 0 .. U64 - 1 :
              /\ End(t, res, h)
              /\ \/ resp[t] \in Responses /\ res = resp[t].result /\ h = resp[t].handle
                 \/ Catch(t)
  BY EndsSteps
<1>2. /\ call[t] /= Idle /\ CallsOK
      /\ call' = [call EXCEPT ![t] = Idle] /\ resp' = [resp EXCEPT ![t] = NoResp]
      /\ call \in [Threads -> Requests \cup {Idle}] /\ resp \in [Threads -> Responses \cup {NoResp}]
  BY <1>1, EndsSteps DEF End, Structure, TypeInv, TypeOK, MountTypeOK
<1>3. ASSUME NEW f \in Files, file[f].state = "open", file[f].fh = d PROVE Claimed(d)'
  <2>1. ~(call[t].op \in OpenOps \cup {"release"} /\ call[t].file = f)
    BY <1>2, <1>3 DEF CallsOK
  <2>2. file'[f].state = "open" /\ file'[f].fh = d
    BY <1>1, <1>2, <1>3, <2>1, EndStep
  <2> QED
    BY <2>2 DEF Claimed
<1>4. ASSUME NEW u \in Threads, u /= t, Granted(u, d) \/ (call[u].op = "release" /\ resp[u] = NoResp /\ call[u].handle = d)
      PROVE  Claimed(d)'
  BY <1>2, <1>4 DEF Claimed, Granted
<1>5. ASSUME Granted(t, d), ~Catch(t) PROVE Claimed(d)'
  <2>1. res = "OK" /\ h = d /\ call[t].op \in OpenOps /\ call[t].file \in Files
    BY <1>1, <1>2, <1>5 DEF Granted, CallsOK
  <2>2. file'[call[t].file].state = "open" /\ file'[call[t].file].fh = read_u64(d)
    BY <1>1, <1>2, <2>1, EndStep
  <2> QED
    BY <2>1, <2>2, Descriptor DEF Claimed
<1>6. ASSUME call[t].op = "release", resp[t] = NoResp, call[t].handle = d PROVE Catch(t)
  BY <1>6 DEF Return
<1> QED
  BY <1>3, <1>4, <1>5, <1>6 DEF Claimed

LEMMA LeakEnd ==
  ASSUME TypeInv, Structure, LeakInv, NEW t \in Threads, Return(t) \/ Catch(t)
  PROVE  LeakInv'
<1>1. call[t] \in Requests /\ call[t] /= Idle /\ UNCHANGED fds
  BY EndsSteps
<1>2. /\ IsFiniteSet(Leaked) /\ IsFiniteSet(AbandonedOpens)
      /\ Cardinality(Leaked) \in Nat /\ Cardinality(AbandonedOpens) \in Nat /\ failures \in Nat
  BY LeakSets
<1>3. CASE Return(t) /\ ~Catch(t)
  <2>1. UNCHANGED <<channel, failures>>
    BY <1>3 DEF Return
  <2>2. Leaked' \subseteq Leaked /\ AbandonedOpens' = AbandonedOpens
    BY <1>1, <1>3, <2>1, EndClaims DEF Leaked, AbandonedOpens
  <2> QED
    BY <1>2, <2>1, <2>2, NoMore DEF LeakInv
<1>4. CASE Catch(t)
  <2>1. failures' = failures + Counted(call[t].op) /\ channel' = Abandon(t)
        /\ DOMAIN channel' = DOMAIN channel
    BY <1>4, AbandonType DEF Catch
  <2>2. \A i \in DOMAIN channel :
            /\ channel[i].thread /= t => channel'[i] = channel[i]
            /\ channel'[i].req = channel[i].req
            /\ channel[i].thread = t =>
                 /\ call[t] = channel[i].req /\ resp[t] = NoResp
                 /\ \A j \in DOMAIN channel : channel[j].thread = t => j = i
    BY <2>1, AbandonType, SetsAssumption DEF Abandon, Structure, WaitingOK
  <2>3. CASE call[t].op \notin OpenOps \cup {"release"}
    <3>1. failures' = failures
      BY <1>2, <2>1, <2>3 DEF Counted, OpenOps
    <3>2. Leaked' \subseteq Leaked
      BY <1>1, <1>4, <2>3, EndClaims DEF Leaked, Granted
    <3>3. AbandonedOpens' \subseteq AbandonedOpens
      BY <2>1, <2>2, <2>3 DEF AbandonedOpens
    <3> QED
      BY <1>2, <3>1, <3>2, <3>3, NoMore DEF LeakInv
  <2>4. CASE call[t].op = "release"
    <3>1. failures' = failures + 1
      BY <2>1, <2>4 DEF Counted
    <3>2. Leaked' \subseteq Leaked \cup {call[t].handle}
      BY <1>1, <1>4, <2>4, EndClaims DEF Leaked, Granted, OpenOps
    <3>3. AbandonedOpens' \subseteq AbandonedOpens
      BY <2>1, <2>2, <2>4 DEF AbandonedOpens, OpenOps
    <3>4. /\ Cardinality(AbandonedOpens') \in Nat
          /\ Cardinality(AbandonedOpens') <= Cardinality(AbandonedOpens)
      BY <1>2, <3>3, NoMore
    <3>5. Cardinality(Leaked') \in Nat /\ Cardinality(Leaked') <= Cardinality(Leaked) + 1
      BY <1>2, <3>2, OneMore
    <3> QED
      BY <1>2, <3>1, <3>4, <3>5 DEF LeakInv
  <2>5. CASE call[t].op \in OpenOps /\ resp[t] /= NoResp
    <3>1. failures' = failures + 1
      BY <2>1, <2>5 DEF Counted, OpenOps
    <3>2. Leaked' \subseteq Leaked \cup {resp[t].handle}
      BY <1>1, <1>4, <2>5, EndClaims DEF Leaked, Granted, OpenOps
    <3>3. AbandonedOpens' \subseteq AbandonedOpens
      BY <2>1, <2>2, <2>5 DEF AbandonedOpens
    <3>4. /\ Cardinality(AbandonedOpens') \in Nat
          /\ Cardinality(AbandonedOpens') <= Cardinality(AbandonedOpens)
      BY <1>2, <3>3, NoMore
    <3>5. Cardinality(Leaked') \in Nat /\ Cardinality(Leaked') <= Cardinality(Leaked) + 1
      BY <1>2, <3>2, OneMore
    <3> QED
      BY <1>2, <3>1, <3>4, <3>5 DEF LeakInv
  <2>6. CASE call[t].op \in OpenOps /\ resp[t] = NoResp
    <3>1. failures' = failures + 1
      BY <2>1, <2>6 DEF Counted, OpenOps
    <3>2. Leaked' \subseteq Leaked
      BY <1>1, <1>4, <2>6, EndClaims DEF Leaked, Granted, OpenOps
    <3>3. \E i : AbandonedOpens' \subseteq AbandonedOpens \cup {i}
      BY <2>1, <2>2 DEF AbandonedOpens
    <3>4. /\ Cardinality(AbandonedOpens') \in Nat
          /\ Cardinality(AbandonedOpens') <= Cardinality(AbandonedOpens) + 1
      BY <1>2, <3>3, OneMore
    <3>5. Cardinality(Leaked') \in Nat /\ Cardinality(Leaked') <= Cardinality(Leaked)
      BY <1>2, <3>2, NoMore
    <3> QED
      BY <1>2, <3>1, <3>4, <3>5 DEF LeakInv
  <2> QED
    BY <2>3, <2>4, <2>5, <2>6
<1> QED
  BY <1>3, <1>4

(* The provider's answer settles the claim of a release, and no other. *)
LEMMA ProviderKeeps ==
  ASSUME TypeInv, Structure, Opens \/ Answers \/ provider_release, NEW d, Claimed(d)
  PROVE  Claimed(d)' \/ (Req.op = "release" /\ Req.handle = d)
<1>1. UNCHANGED <<file, call>> /\ channel /= <<>>
  BY ProviderSteps
<1>2. PICK res, h, entries : Respond(res, h, entries)
  BY ProviderSteps
<1>3. \A t \in Threads : t /= Head(channel).thread => resp'[t] = resp[t]
  BY <1>2 DEF Respond, TypeInv, TypeOK, MountTypeOK
<1>4. \A t \in Threads : t = Head(channel).thread => call[t] = Req /\ resp[t] = NoResp
  BY <1>1, HeadFirst, SetsAssumption DEF Structure, WaitingOK
<1> QED
  BY <1>1, <1>3, <1>4 DEF Claimed, Granted

LEMMA LeakProvider ==
  ASSUME TypeInv, Structure, LeakInv, Opens \/ Answers \/ provider_release
  PROVE  LeakInv'
<1>1. UNCHANGED failures /\ channel /= <<>> /\ channel' = Tail(channel)
  BY ProviderSteps
<1>2. /\ IsFiniteSet(Leaked) /\ IsFiniteSet(AbandonedOpens) /\ AbandonedOpens \subseteq Nat
      /\ Cardinality(Leaked) \in Nat /\ Cardinality(AbandonedOpens) \in Nat /\ failures \in Nat
  BY LeakSets
<1>3. /\ AbandonedOpens' \in SUBSET (Nat \ {0})
      /\ \A i \in AbandonedOpens' : i + 1 \in AbandonedOpens \ {1}
  <2>1. DOMAIN channel' \subseteq Nat \ {0}
    BY <1>1, HeadFirst
  <2>2. \A i \in DOMAIN channel' : i + 1 \in DOMAIN channel /\ channel'[i] = channel[i + 1] /\ i + 1 /= 1
    BY <1>1, <2>1, HeadFirst
  <2> QED
    BY <2>1, <2>2 DEF AbandonedOpens
<1>4. Cardinality(AbandonedOpens') \in Nat /\ Cardinality(AbandonedOpens') <= Cardinality(AbandonedOpens)
  BY <1>2, <1>3, Shifted
<1>5. ASSUME Leaked' \subseteq Leaked PROVE LeakInv'
  BY <1>1, <1>2, <1>4, <1>5, NoMore DEF LeakInv
<1>6. ASSUME NEW o \in Objects, Opened(o) PROVE LeakInv'
  <2>1. /\ LowestFd \in Fds /\ fds[LowestFd] = NoObject
        /\ \A d \in Fds : d /= LowestFd => fds'[d] = fds[d]
        /\ Req.op \in OpenOps
    BY <1>6, OpenedFd DEF TypeInv, TypeOK, ProviderTypeOK, Opened
  <2>2. \A d : Claimed(d) => Claimed(d)'
    BY <2>1, ProviderKeeps DEF OpenOps
  <2>3. Leaked' \subseteq Leaked \cup {LowestFd}
    BY <2>1, <2>2 DEF Leaked
  <2>4. CASE Head(channel).thread = NoThread
    <3>1. 1 \in AbandonedOpens
      BY <1>1, <2>1, <2>4, HeadFirst DEF AbandonedOpens
    <3>2. IsFiniteSet(AbandonedOpens \ {1})
          /\ Cardinality(AbandonedOpens \ {1}) = Cardinality(AbandonedOpens) - 1
      BY <1>2, <3>1, FS_RemoveElement
    <3>3. Cardinality(AbandonedOpens') \in Nat
          /\ Cardinality(AbandonedOpens') <= Cardinality(AbandonedOpens) - 1
      BY <1>3, <3>2, Shifted
    <3>4. Cardinality(Leaked') \in Nat /\ Cardinality(Leaked') <= Cardinality(Leaked) + 1
      BY <1>2, <2>3, OneMore
    <3> QED
      BY <1>1, <1>2, <3>3, <3>4 DEF LeakInv
  <2>5. CASE Head(channel).thread /= NoThread
    <3>1. PICK t \in Threads, e \in Fds : t = Head(channel).thread /\ e = LowestFd
      BY <1>1, <2>1, <2>5, HeadFirst
    <3>2. Granted(t, e)'
      <4>1. call[t] = Req /\ UNCHANGED call
        BY <1>1, <2>5, <3>1, HeadFirst, ProviderSteps DEF Structure, WaitingOK
      <4>2. resp'[t] = [result |-> "OK", handle |-> e, entries |-> {}]
        BY <1>6, <2>5, <3>1 DEF Opened, OpenFd, Respond, TypeInv, TypeOK, MountTypeOK
      <4>3. e \in 0 .. U64 - 1
        BY Descriptor
      <4>4. [result |-> "OK", handle |-> e, entries |-> {}] \in Responses
        BY <4>3 DEF Responses, Results
      <4>5. call'[t].op \in OpenOps /\ resp'[t] /= NoResp
            /\ resp'[t].result = "OK" /\ resp'[t].handle = e
        BY <2>1, <4>1, <4>2, <4>4, SetsAssumption
      <4> QED
        BY <4>5 DEF Granted
    <3>3. Leaked' \subseteq Leaked
      <4>1. Claimed(e)'
        BY <3>2 DEF Claimed
      <4> QED
        BY <2>3, <3>1, <4>1 DEF Leaked
    <3> QED
      BY <1>5, <3>3
  <2> QED
    BY <2>4, <2>5
<1>7. CASE Answers
  <2>1. UNCHANGED fds /\ Req.op /= "release"
    BY <1>7 DEF Answers, Answered
  <2>2. Leaked' \subseteq Leaked
    BY <2>1, ProviderKeeps DEF Leaked
  <2> QED
    BY <1>5, <2>2
<1>8. CASE provider_release
  <2>1. ASSUME NEW d \in Fds, fds'[d] /= NoObject PROVE fds[d] /= NoObject /\ d /= Req.handle
    <3>1. fds[d] /= NoObject
      BY <1>8, <2>1 DEF provider_release, Close, TypeInv, TypeOK, ProviderTypeOK
    <3>2. ASSUME d = Req.handle PROVE FALSE
      <4>1. static_cast_int(read_u64(Req.handle)) = d /\ read_u64(Req.handle) /= invalid_handle
        BY <3>2, Descriptor, ReadHandle
      <4>2. FdObject(d) /= NoObject
        BY <3>1 DEF FdObject
      <4>3. fds' = Close(read_u64(Req.handle))
        BY <1>8, <4>1, <4>2 DEF provider_release
      <4> QED
        BY <2>1, <4>1, <4>3 DEF Close, TypeInv, TypeOK, ProviderTypeOK
    <3> QED
      BY <3>1, <3>2
  <2>2. Leaked' \subseteq Leaked
    BY <2>1, ProviderKeeps DEF Leaked
  <2> QED
    BY <1>5, <2>2
<1> QED
  BY <1>6, <1>7, <1>8 DEF Opens

LEMMA LeakStep ==
  ASSUME TypeInv, Structure, LeakInv, [Next]_vars
  PROVE  LeakInv'
<1>1. /\ IsFiniteSet(Leaked) /\ IsFiniteSet(AbandonedOpens)
      /\ Cardinality(Leaked) \in Nat /\ Cardinality(AbandonedOpens) \in Nat /\ failures \in Nat
  BY LeakSets
<1>2. CASE Sends
  <2>1. Leaked' \subseteq Leaked /\ AbandonedOpens' \subseteq AbandonedOpens /\ UNCHANGED failures
    BY <1>2, LeakSend DEF Sends
  <2>2. Cardinality(Leaked') \in Nat /\ Cardinality(Leaked') <= Cardinality(Leaked)
    BY <1>1, <2>1, NoMore
  <2>3. /\ Cardinality(AbandonedOpens') \in Nat
        /\ Cardinality(AbandonedOpens') <= Cardinality(AbandonedOpens)
    BY <1>1, <2>1, NoMore
  <2> QED
    BY <1>1, <2>1, <2>2, <2>3 DEF LeakInv
<1>3. CASE EndsCall
  BY <1>3, LeakEnd DEF EndsCall
<1>4. CASE Opens \/ Answers \/ provider_release
  BY <1>4, LeakProvider
<1>5. CASE provider_exit
  <2>1. Leaked' = {} /\ AbandonedOpens' = {} /\ UNCHANGED failures
    BY <1>5 DEF provider_exit, ClosedAll, Leaked, AbandonedOpens
  <2> QED
    BY <1>1, <2>1, FS_EmptySet DEF LeakInv
<1>r. CASE provider_reconnect
  <2>1. Leaked' = {} /\ UNCHANGED failures
    BY <1>r DEF provider_reconnect, ClosedAll, Leaked
  <2>2. PICK k \in Nat : \A i \in DOMAIN channel' :
          i \in Nat /\ i + k \in DOMAIN channel /\ channel'[i] = channel[i + k]
    BY <1>r, Survivors
  <2>3. AbandonedOpens' \in SUBSET Nat /\ \A i \in AbandonedOpens' : i + k \in AbandonedOpens
    BY <2>2 DEF AbandonedOpens
  <2>4. Cardinality(AbandonedOpens') \in Nat /\ Cardinality(AbandonedOpens') <= Cardinality(AbandonedOpens)
    BY <1>1, <2>3, Shifted
  <2>5. Cardinality(Leaked') = 0
    BY <2>1, FS_EmptySet
  <2> QED
    BY <1>1, <2>1, <2>4, <2>5 DEF LeakInv
<1>6. CASE provider_connect \/ Elsewhere
  <2>1. UNCHANGED <<file, call, resp, channel, fds, failures>>
    BY <1>6 DEF provider_connect, Elsewhere, mountVars
  <2>2. Leaked' = Leaked /\ AbandonedOpens' = AbandonedOpens
    BY <2>1 DEF Leaked, AbandonedOpens, Claimed, Granted
  <2> QED
    BY <2>1, <2>2 DEF LeakInv
<1> QED
  BY <1>2, <1>3, <1>4, <1>5, <1>r, <1>6, Steps

(* However many providers there have been, the running one holds at most as many
   descriptors that nobody will release as opens and releases have failed on
   the way: every timeout can leak one descriptor, and nothing else can.    *)
THEOREM LeakTheorem == Spec => []LeakBounded
<1>1. Init => LeakInv
  <2> SUFFICES ASSUME Init PROVE LeakInv
    OBVIOUS
  <2>1. Leaked = {} /\ AbandonedOpens = {} /\ failures = 0
    BY DEF Init, Leaked, AbandonedOpens
  <2> QED
    BY <2>1, FS_EmptySet DEF LeakInv
<1>2. TypeInv /\ Structure /\ LeakInv => LeakBounded
  <2> SUFFICES ASSUME TypeInv, Structure, LeakInv PROVE LeakBounded
    OBVIOUS
  <2>1. \A d : Claimed(d) => Owned(d)
    BY DEF Claimed, Owned, Granted, OpenOps, Structure, CallsOK
  <2>2. Unowned \subseteq Leaked
    BY <2>1 DEF Unowned, Leaked
  <2>3. IsFiniteSet(Leaked) /\ Cardinality(AbandonedOpens) \in Nat /\ failures \in Nat
    BY LeakSets
  <2> QED
    BY <2>2, <2>3, NoMore DEF LeakInv, LeakBounded
<1>3. TypeInv /\ HandleInv => Structure
  BY DEF HandleInv
<1> QED
  BY <1>1, <1>2, <1>3, LeakStep, HandleHolds, PTL DEF Spec
=============================================================================
