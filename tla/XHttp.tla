-------------------------------- MODULE XHttp --------------------------------
(***************************************************************************)
(* The VLESS-over-XHTTP transport of src/xhttp.py: streaming requests,     *)
(* each with a session, a pump that fills a bounded downlink queue, a      *)
(* response generator that empties it and an uplink pump; and supplemental *)
(* packets for a session.  All run on one event loop: a step is what       *)
(* happens between two awaits.                                             *)
(*                                                                         *)
(* A session dict is named by the request that made it.  A client may      *)
(* choose its session id, so two requests can use one id, or two ids with  *)
(* one registry key; `shared' remembers the requests this happened to.     *)
(*                                                                         *)
(* A packet is addressed by the uuid and the session id in its path, which *)
(* the handler never compares: the session may be another link's.          *)
(*                                                                         *)
(* A chunk is one unit of quota; chunks of several sizes, and the pruning  *)
(* of registrations after 48 hours, are in WsTunnel.  The rate limiter     *)
(* may return after any delay, or never: TokenBucket says when.  The web   *)
(* framework runs the generator it is given and closes it some time after  *)
(* the client has gone; one that it has not begun by then it drops, and    *)
(* the finally clause of such a generator does not run.                    *)
(***************************************************************************)
EXTENDS Integers, FiniteSets, Gate, VlessHeader

CONSTANTS
  Streams,     \* streaming requests
  Packets,     \* handlers of packet requests, reused
  SessionIds,  \* session ids, random or chosen by the client
  ConnOf,      \* the registry key of each session id: its first 8 characters
  Ips,         \* known client addresses
  Headers,     \* the VLESS headers clients write
  FirstSizes,  \* how much of the stream has come when 24 bytes are in
  IpLimits,    \* device limits, 0 meaning unlimited
  QueueMax,    \* DOWNLINK_QUEUE_MAX
  Loads        \* bounds of a behaviour, one of which it chooses

Links == [active : BOOLEAN, expired : BOOLEAN, limit : Nat, used : Nat,
          maxIps : Nat]

(* The quotas (0 is unlimited), requests, session ids, addresses, uplink   *)
(* bodies and packet handlers there are, how many chunks are read in all,  *)
(* and whether the link is changed.                                        *)
LoadSet == [limits : SUBSET Nat, requests : SUBSET Streams, ids : SUBSET SessionIds,
            addresses : SUBSET (Ips \cup {Unknown}), uplinks : SUBSET Streams,
            packets : SUBSET Packets, reads : Nat, admin : BOOLEAN]

Conns == {ConnOf[id] : id \in SessionIds}

ASSUME XHttpAssumption ==
  /\ IsFiniteSet(Streams) /\ IsFiniteSet(Packets)
  /\ None \notin Links \cup Streams \cup Ips
  /\ Unknown \notin Ips /\ Unknown # None
  /\ ConnOf = [id \in SessionIds |-> ConnOf[id]]
  /\ IpLimits \subseteq Nat
  /\ QueueMax \in Nat \ {0} /\ Loads \subseteq LoadSet
ASSUME HeadersAssumption ==
  /\ \A h \in Headers : IsHeader(h)
  /\ FirstSizes \subseteq Nat

VARIABLES
  link,      \* the link record, or None once it is deleted
  pc,        \* where the handler, then the generator, of a request is
  sid, ip,   \* the session id and the client address of a request
  first,     \* the first chunk: a header and how many bytes have come
  pump, up,  \* the two background tasks of a request
  pk,        \* the packet handlers
  queue,     \* the downlink queues
  sessions,  \* _SESSIONS: the request whose dict an id leads to, or None
  registry,  \* _CONNECTIONS: the address of a registered key, or None
  closed,    \* the requests whose dict was torn down, with its writer if any
  gone,      \* the requests whose client has gone
  shared,    \* history: requests that met another on an id or a key
  owed,      \* history: downlink chunks billed and not handed over
  wasted,    \* history: uplink chunks billed and written to a closed writer
  leaked,    \* history: chunks moved either way since the link was cut, but
             \* for packets that came, and were billed, under another link
  load       \* the bounds, and the reads that are left

vars == <<link, pc, sid, ip, first, pump, up, pk, queue, sessions, registry,
          closed, gone, shared, owed, wasted, leaked, load>>
request == <<pc, sid, ip, first>>
maps    == <<sessions, registry, closed>>
moved   == <<owed, wasted, leaked>>
history == <<moved, load>>

-----------------------------------------------------------------------------

Stages == {"off", "body", "dial", "drain", "ready", "hello", "get", "yield",
           "done", "lost"}
Setup  == {"body", "dial", "drain"}
Stream == {"hello", "get", "yield"}

(* A queue: the chunks ahead of its first None, whether it has one, and    *)
(* the items behind it, which nobody will ever get.                        *)
Queues == [chunks : Nat, ended : BOOLEAN, behind : Nat]
EmptyQueue == [chunks |-> 0, ended |-> FALSE, behind |-> 0]

Size(q) == q.chunks + q.behind + (IF q.ended THEN 1 ELSE 0)
(* Mutant of Full: the queue has no bound. *)
FullNever(q) == FALSE

Full(q) == Size(q) >= QueueMax

PutChunk(q) ==
  IF q.ended THEN [q EXCEPT !.behind = @ + 1] ELSE [q EXCEPT !.chunks = @ + 1]
PutEnd(q) ==
  IF q.ended THEN [q EXCEPT !.behind = @ + 1] ELSE [q EXCEPT !.ended = TRUE]

NoChunk == [head |-> None, got |-> 0]

(* What has come of the stream of a header followed by payload bytes. *)
Arrived(f) == SubSeq(Wire(f.head) \o [i \in 1..f.got |-> 77], 1, f.got)

Nothing == [up |-> 0, down |-> 0]

(* A packet handler: to is the session it has looked up, None if that is   *)
(* another link's; own, whether its uuid is this link's.                   *)
Handlers == [at : {"idle", "body", "throttle"}, to : Streams \cup {None},
             own : BOOLEAN]
Idle == [at |-> "idle", to |-> None, own |-> FALSE]

ActiveIps == {registry[c] : c \in Conns} \ {None, Unknown}

Severed(l) == l = None \/ ~ l.active \/ l.expired
Cut == Severed(link)

(* A request has ended when its generator and its pump have. *)
Ended(s) == pc[s] \in {"done", "lost"} /\ pump[s] \in {"off", "done"}

Init ==
  /\ load \in Loads
  /\ \E limit \in load.limits, m \in IpLimits :
       link = [active |-> TRUE, expired |-> FALSE, limit |-> limit,
               used |-> 0, maxIps |-> m]
  /\ pc = [s \in Streams |-> "off"]
  /\ sid = [s \in Streams |-> None]
  /\ ip = [s \in Streams |-> Unknown]
  /\ first = [s \in Streams |-> NoChunk]
  /\ pump = [s \in Streams |-> "off"]
  /\ up = [s \in Streams |-> "off"]
  /\ pk = [p \in Packets |-> Idle]
  /\ queue = [s \in Streams |-> EmptyQueue]
  /\ sessions = [id \in SessionIds |-> None]
  /\ registry = [c \in Conns |-> None]
  /\ closed = {}
  /\ gone = {}
  /\ shared = {}
  /\ owed = [s \in Streams |-> 0]
  /\ wasted = [s \in Streams |-> 0]
  /\ leaked = [s \in Streams |-> Nothing]

-----------------------------------------------------------------------------
(* The pieces the steps are made of.                                       *)

Goto(s, where) == pc' = [pc EXCEPT ![s] = where]

Count == link' = IF link = None THEN None ELSE [link EXCEPT !.used = @ + 1]

ReadOne == load.reads > 0 /\ load' = [load EXCEPT !.reads = @ - 1]

Leak(s, d) == leaked' = IF Cut THEN [leaked EXCEPT ![s][d] = @ + 1] ELSE leaked

(* Mutant of Teardown: the registration stays behind. *)
TeardownKeepsConn(id, q) ==
  /\ sessions' = [sessions EXCEPT ![id] = None]
  /\ closed' = closed \cup ({sessions[id]} \ {None})
  /\ queue' = q
  /\ UNCHANGED registry

(* _teardown_session: whoever's dict is under the id goes, and its queue,  *)
(* q otherwise, gets a None; not when it is full, or when the task is      *)
(* cancelled in the wait for the writer, which is left out.                *)
Teardown(id, q) ==
  LET victim == sessions[id] IN
  /\ sessions' = [sessions EXCEPT ![id] = None]
  /\ IF victim = None
     THEN queue' = q /\ UNCHANGED <<registry, closed>>
     ELSE /\ registry' = [registry EXCEPT ![ConnOf[id]] = None]
          /\ closed' = closed \cup {victim}
          /\ \/ queue' = q
             \/ ~ Full(q[victim]) /\ queue' = [q EXCEPT ![victim] = PutEnd(@)]

-----------------------------------------------------------------------------
(* xhttp_handle_stream.                                                    *)

(* The quota gate, the device gate, the registration and the new session,  *)
(* with no wait between them.  A refused request is answered and over.     *)
Admit(s, id, a) ==
  LET met == {t \in Streams : /\ pc[t] # "off"
                              /\ ~ Ended(t)
                              /\ ConnOf[sid[t]] = ConnOf[id]} IN
  /\ s \in load.requests
  /\ pc[s] = "off"
  /\ QuotaAllows(link, 0)
  /\ IpAllowed(link, a, ActiveIps)
  /\ registry' = [registry EXCEPT ![ConnOf[id]] = a]
  /\ sessions' = [sessions EXCEPT ![id] = s]
  /\ Goto(s, "body")
  /\ sid' = [sid EXCEPT ![s] = id]
  /\ ip' = [ip EXCEPT ![s] = a]
  /\ shared' = IF met = {} THEN shared ELSE shared \cup met \cup {s}
  /\ UNCHANGED <<link, first, pump, up, pk, queue, closed, gone, history>>

(* At least 24 bytes have come: the header parses, or the answer is 502. *)
FirstChunk(s, f) ==
  /\ pc[s] = "body"
  /\ s \notin gone
  /\ IF Parse(Arrived(f)).ok
     THEN /\ Goto(s, "dial")
          /\ first' = [first EXCEPT ![s] = f]
          /\ UNCHANGED <<maps, queue>>
     ELSE Goto(s, "done") /\ Teardown(sid[s], queue) /\ UNCHANGED first
  /\ UNCHANGED <<link, sid, ip, pump, up, pk, gone, shared, history>>

(* Mutant of SetupFails: the error path answers and no more. *)
SetupFailsOnly(s) ==
  /\ pc[s] \in Setup
  /\ Goto(s, "done")
  /\ first' = [first EXCEPT ![s] = NoChunk]
  /\ UNCHANGED <<link, sid, ip, pump, up, pk, queue, maps, gone, shared, history>>

(* The body breaks off or ends short of 24 bytes; the dial fails or takes  *)
(* more than 10 seconds; the target does not take the initial payload, and *)
(* the writer, not in the dict yet, is then left to the garbage collector. *)
SetupFails(s) ==
  /\ pc[s] \in Setup
  /\ Goto(s, "done")
  /\ first' = [first EXCEPT ![s] = NoChunk]
  /\ Teardown(sid[s], queue)
  /\ UNCHANGED <<link, sid, ip, pump, up, pk, gone, shared, history>>

(* The session gets its reader and writer, the tasks are created, and the  *)
(* generator, not begun yet, is handed to the framework.                   *)
Start(s) ==
  /\ Goto(s, "ready")
  /\ pump' = [pump EXCEPT ![s] = "read"]
  /\ up' = [up EXCEPT ![s] = IF s \in load.uplinks THEN "read" ELSE "done"]

(* The initial payload is written unchecked and uncounted. *)
Dialed(s) ==
  /\ pc[s] = "dial"
  /\ IF Parse(Arrived(first[s])).payload = <<>>
     THEN Start(s) /\ UNCHANGED leaked
     ELSE Goto(s, "drain") /\ Leak(s, "up") /\ UNCHANGED <<pump, up>>
  /\ first' = [first EXCEPT ![s] = NoChunk]
  /\ UNCHANGED <<link, sid, ip, pk, queue, maps, gone, shared, owed, wasted,
                 load>>

(* No timeout here either. *)
PayloadDrained(s) ==
  /\ pc[s] = "drain"
  /\ Start(s)
  /\ UNCHANGED <<link, sid, ip, first, pk, queue, maps, gone, shared, history>>

-----------------------------------------------------------------------------
(* _downlink_generator.                                                    *)

Begin(s) ==
  /\ pc[s] = "ready"
  /\ Goto(s, "hello")
  /\ UNCHANGED <<link, sid, ip, first, pump, up, pk, queue, maps, gone, shared,
                 history>>

(* The client has gone before: nothing of the generator runs, and only the *)
(* pump is left to tear the session down.                                  *)
Drop(s) ==
  /\ s \in gone
  /\ pc[s] = "ready"
  /\ Goto(s, "lost")
  /\ UNCHANGED <<link, sid, ip, first, pump, up, pk, queue, maps, gone, shared,
                 history>>

(* The framework takes what was yielded, and sends it if the client is     *)
(* still there.                                                            *)
Yielded(s) ==
  /\ pc[s] \in {"hello", "yield"}
  /\ Goto(s, "get")
  /\ IF pc[s] = "yield"
     THEN owed' = [owed EXCEPT ![s] = @ - 1] /\ Leak(s, "down")
     ELSE UNCHANGED <<owed, leaked>>
  /\ UNCHANGED <<link, sid, ip, first, pump, up, pk, queue, maps, gone, shared,
                 wasted, load>>

GetChunk(s) ==
  /\ pc[s] = "get"
  /\ queue[s].chunks > 0
  /\ queue' = [queue EXCEPT ![s].chunks = @ - 1]
  /\ Goto(s, "yield")
  /\ UNCHANGED <<link, sid, ip, first, pump, up, pk, maps, gone, shared, history>>

(* None ends the response, and the finally clause tears down. *)
GetEnd(s) ==
  /\ pc[s] = "get"
  /\ queue[s].chunks = 0 /\ queue[s].ended
  /\ Goto(s, "done")
  /\ Teardown(sid[s], [queue EXCEPT ![s].ended = FALSE])
  /\ UNCHANGED <<link, sid, ip, first, pump, up, pk, gone, shared, history>>

(* Mutant of Abandon: a generator that is closed skips the teardown. *)
AbandonOnly(s) ==
  /\ s \in gone
  /\ pc[s] \in Stream
  /\ Goto(s, "done")
  /\ UNCHANGED <<link, sid, ip, first, pump, up, pk, queue, maps, gone, shared,
                 history>>

(* The client has gone: the generator is closed where it waits. *)
Abandon(s) ==
  /\ s \in gone
  /\ pc[s] \in Stream
  /\ Goto(s, "done")
  /\ Teardown(sid[s], queue)
  /\ UNCHANGED <<link, sid, ip, first, pump, up, pk, gone, shared, history>>

Leave(s) ==
  /\ pc[s] \notin {"off", "done", "lost"}
  /\ gone' = gone \cup {s}
  /\ UNCHANGED <<link, request, pump, up, pk, queue, maps, shared, history>>

-----------------------------------------------------------------------------
(* _pump_tcp_to_queue.                                                     *)

(* The target sends: the chunk goes on to the rate limiter, or the pump    *)
(* ends because the quota is used up.                                      *)
PumpRead(s) ==
  /\ pump[s] = "read"
  /\ s \notin closed
  /\ ReadOne
  /\ pump' = [pump EXCEPT ![s] = IF QuotaAllows(link, 1) THEN "throttle" ELSE "end"]
  /\ UNCHANGED <<link, request, up, pk, queue, maps, gone, shared, moved>>

(* The target ends the stream, or the writer was closed under the reader. *)
PumpEof(s) ==
  /\ pump[s] = "read"
  /\ pump' = [pump EXCEPT ![s] = "end"]
  /\ UNCHANGED <<link, request, up, pk, queue, maps, gone, shared, history>>

(* The rate limiter returns, if it ever does: the chunk is counted. *)
PumpCount(s) ==
  /\ pump[s] = "throttle"
  /\ pump' = [pump EXCEPT ![s] = "put"]
  /\ Count
  /\ owed' = [owed EXCEPT ![s] = @ + 1]
  /\ UNCHANGED <<request, up, pk, queue, maps, gone, shared, wasted, leaked,
                 load>>

(* Mutant of PumpPut: a chunk that finds the queue full is dropped. *)
PumpPutNoWait(s) ==
  /\ pump[s] = "put"
  /\ queue' = IF Full(queue[s]) THEN queue ELSE [queue EXCEPT ![s] = PutChunk(@)]
  /\ pump' = [pump EXCEPT ![s] = "read"]
  /\ UNCHANGED <<link, request, up, pk, maps, gone, shared, history>>

PumpPut(s) ==
  /\ pump[s] = "put"
  /\ ~ Full(queue[s])
  /\ queue' = [queue EXCEPT ![s] = PutChunk(@)]
  /\ pump' = [pump EXCEPT ![s] = "read"]
  /\ UNCHANGED <<link, request, up, pk, maps, gone, shared, history>>

(* The finally clause: None, when there is room for it, then the teardown. *)
PumpEnd(s) ==
  /\ pump[s] = "end"
  /\ ~ Full(queue[s])
  /\ pump' = [pump EXCEPT ![s] = "done"]
  /\ Teardown(sid[s], [queue EXCEPT ![s] = PutEnd(@)])
  /\ UNCHANGED <<link, request, up, pk, gone, shared, history>>

-----------------------------------------------------------------------------
(* _pump_uplink and xhttp_handle_packet.                                   *)

(* Mutant of UpRead: a closed session is not noticed. *)
UpReadClosed(s) ==
  /\ up[s] = "read"
  /\ s \in load.uplinks \ gone
  /\ ReadOne
  /\ up' = [up EXCEPT ![s] = IF QuotaAllows(link, 1) THEN "throttle" ELSE "done"]
  /\ UNCHANGED <<link, request, pump, pk, queue, maps, gone, shared, moved>>

UpRead(s) ==
  /\ up[s] = "read"
  /\ s \in load.uplinks \ gone
  /\ ReadOne
  /\ up' = [up EXCEPT ![s] =
              IF s \notin closed /\ QuotaAllows(link, 1) THEN "throttle" ELSE "done"]
  /\ UNCHANGED <<link, request, pump, pk, queue, maps, gone, shared, moved>>

(* The body ends or breaks off, or the last drain fails. *)
UpEnds(s) ==
  /\ up[s] = "read"
  /\ up' = [up EXCEPT ![s] = "done"]
  /\ UNCHANGED <<link, request, pump, pk, queue, maps, gone, shared, history>>

(* A counted chunk is written; a closed writer drops it. *)
Forward(s, own) ==
  IF s \in closed
  THEN wasted' = [wasted EXCEPT ![s] = @ + 1] /\ UNCHANGED leaked
  ELSE /\ IF own THEN Leak(s, "up") ELSE UNCHANGED leaked
       /\ UNCHANGED wasted

UpCount(s) ==
  /\ up[s] = "throttle"
  /\ up' = [up EXCEPT ![s] = "read"]
  /\ Count
  /\ Forward(s, TRUE)
  /\ UNCHANGED <<request, pump, pk, queue, maps, gone, shared, owed, load>>

(* The lookup: the session is there, not closed, and has its writer.  Its  *)
(* link need not be the one of the path.                                   *)
Lookup(p, own, s) ==
  /\ p \in load.packets
  /\ pk[p] = Idle
  /\ IF s = None THEN own
     ELSE /\ \E id \in SessionIds : sessions[id] = s
          /\ s \notin closed /\ pump[s] # "off"
  /\ pk' = [pk EXCEPT ![p] = [at |-> "body", to |-> s, own |-> own]]
  /\ UNCHANGED <<link, request, pump, up, queue, maps, gone, shared, history>>

(* Mutant of PacketRead: a packet is not checked, its session was. *)
PacketReadUnchecked(p) ==
  /\ pk[p].at = "body"
  /\ ReadOne
  /\ pk' = [pk EXCEPT ![p] = [@ EXCEPT !.at = "throttle"]]
  /\ UNCHANGED <<link, request, pump, up, queue, maps, gone, shared, moved>>

(* Its body has come and passes the quota check, or is refused; of another *)
(* link's quota nothing is known.                                          *)
PacketRead(p) ==
  /\ pk[p].at = "body"
  /\ ReadOne
  /\ \E ok \in BOOLEAN :
       /\ pk[p].own => ok = QuotaAllows(link, 1)
       /\ pk' = [pk EXCEPT ![p] = IF ok THEN [@ EXCEPT !.at = "throttle"] ELSE Idle]
  /\ UNCHANGED <<link, request, pump, up, queue, maps, gone, shared, moved>>

(* No body, or a client that went away. *)
PacketEmpty(p) ==
  /\ pk[p].at = "body"
  /\ pk' = [pk EXCEPT ![p] = Idle]
  /\ UNCHANGED <<link, request, pump, up, queue, maps, gone, shared, history>>

PacketCount(p) ==
  /\ pk[p].at = "throttle"
  /\ IF pk[p].own THEN Count ELSE UNCHANGED link
  /\ IF pk[p].to = None THEN UNCHANGED <<wasted, leaked>>
     ELSE Forward(pk[p].to, pk[p].own)
  /\ pk' = [pk EXCEPT ![p] = Idle]
  /\ UNCHANGED <<request, pump, up, queue, maps, gone, shared, owed, load>>

-----------------------------------------------------------------------------
(* What an administrator does to the link that a transport can tell apart. *)

Administer(l) ==
  /\ load.admin
  /\ link' = l
  /\ leaked' = IF Severed(l) THEN leaked ELSE [s \in Streams |-> Nothing]
  /\ UNCHANGED <<request, pump, up, pk, queue, maps, gone, shared, owed, wasted,
                 load>>

SetActive(b) ==
  /\ link # None
  /\ link.active # b
  /\ Administer([link EXCEPT !.active = b])

DeleteLink == link # None /\ Administer(None)

-----------------------------------------------------------------------------

(* What the event loop gets to of itself.  The framework tells a handler   *)
(* that waits for the body, and the uplink pump, that the client has gone. *)
Scheduled(s) ==
  \/ pc[s] = "body" /\ s \in gone /\ SetupFails(s)
  \/ pc[s] = "dial" /\ SetupFails(s)
  \/ Dialed(s)
  \/ Begin(s)
  \/ Drop(s)
  \/ GetChunk(s)
  \/ GetEnd(s)
  \/ Abandon(s)

Pump(s) ==
  \/ s \in closed /\ PumpEof(s)
  \/ PumpPut(s)
  \/ PumpEnd(s)

Request(s) ==
  \/ \E id \in load.ids, a \in load.addresses : Admit(s, id, a)
  \/ \E h \in Headers, n \in FirstSizes : FirstChunk(s, [head |-> h, got |-> n])
  \/ SetupFails(s)
  \/ PayloadDrained(s)
  \/ Yielded(s)
  \/ Leave(s)
  \/ PumpRead(s)
  \/ PumpEof(s)
  \/ PumpCount(s)
  \/ UpRead(s)
  \/ UpEnds(s)
  \/ UpCount(s)

Packet(p) ==
  \/ \E own \in BOOLEAN, s \in Streams \cup {None} : Lookup(p, own, s)
  \/ PacketRead(p)
  \/ PacketEmpty(p)
  \/ PacketCount(p)

Next ==
  \/ \E s \in Streams : Scheduled(s) \/ Pump(s) \/ Request(s)
  \/ \E p \in Packets : Packet(p)
  \/ \E b \in BOOLEAN : SetActive(b)
  \/ DeleteLink

Spec == Init /\ [][Next]_vars

(* The loop runs what is ready and the dial times out.  Nothing is assumed *)
(* of the peers: a client may never send, read or leave, a target may      *)
(* never send.  Nor is it assumed that the rate limiter returns.           *)
Fairness ==
  \A s \in Streams : WF_vars(Scheduled(s)) /\ WF_vars(Pump(s))

FairSpec == Spec /\ Fairness

-----------------------------------------------------------------------------
(* Properties.                                                             *)

TypeOK ==
  /\ link \in Links \cup {None}
  /\ pc \in [Streams -> Stages]
  /\ sid \in [Streams -> SessionIds \cup {None}]
  /\ ip \in [Streams -> Ips \cup {Unknown}]
  /\ pump \in [Streams -> {"off", "read", "throttle", "put", "end", "done"}]
  /\ up \in [Streams -> {"off", "read", "throttle", "done"}]
  /\ pk \in [Packets -> Handlers]
  /\ queue \in [Streams -> Queues]
  /\ \A s \in Streams : Size(queue[s]) <= QueueMax
  /\ sessions \in [SessionIds -> Streams \cup {None}]
  /\ registry \in [Conns -> Ips \cup {Unknown, None}]
  /\ closed \subseteq Streams
  /\ gone \subseteq Streams /\ shared \subseteq Streams
  /\ owed \in [Streams -> Nat]
  /\ wasted \in [Streams -> Nat]
  /\ leaked \in [Streams -> [up : Nat, down : Nat]]
  /\ load \in LoadSet

(* Whatever way a request ends, its session and its registration end with  *)
(* it, and not before, unless it met another request on its id or key:     *)
(* nobody else's teardown takes them, and no order of the pump's and the   *)
(* generator's teardown leaves them behind (xhttp.py:50-73, 95-97, 188).   *)
Open(s) == pc[s] # "off" /\ s \notin closed

SessionExact ==
  \A s \in Streams \ shared :
    /\ pc[s] = "done" \/ pump[s] = "done" => s \in closed
    /\ \A id \in SessionIds : sessions[id] = s <=> Open(s) /\ sid[s] = id
    /\ Open(s) => registry[ConnOf[sid[s]]] = ip[s]

RegistryExact ==
  \A c \in Conns : registry[c] # None =>
    \E s \in Streams : /\ Open(s)
                       /\ ConnOf[sid[s]] = c
                       /\ s \in shared \/ registry[c] = ip[s]

(* Every downlink chunk that was billed is in the generator's hands, in    *)
(* the queue ahead of the None, or in the pump's hands; so a response whose *)
(* client stays to its end has delivered all that was billed, however the  *)
(* session came down (xhttp.py:80-97, 179-189).                            *)
BilledIsDelivered ==
  \A s \in Streams \ shared :
    /\ pc[s] = "done" \/
         owed[s] = queue[s].chunks + (IF pc[s] = "yield" THEN 1 ELSE 0)
                                   + (IF pump[s] = "put" THEN 1 ELSE 0)
    /\ pc[s] = "done" /\ s \notin gone => owed[s] = 0

(* What a session that is torn down bills for nothing: of the uplink, the  *)
(* chunk in the hands of its pump and of each packet handler that looked   *)
(* the session up before; of the downlink, a full queue and a chunk at     *)
(* either end of it (xhttp.py:92, 169-171, 206-218).                       *)
WasteBound ==
  \A s \in closed :
    /\ wasted[s] <= 1 + Cardinality(Packets)
    /\ owed[s] <= QueueMax + 2

(* What a session carries on the account of its own link once that is cut: *)
(* the queue and the chunk at either end of it, and of the uplink what was *)
(* past the quota check, or the initial payload (README.md:59, xhttp.py:85,*)
(* 167).  A packet under the uuid of another link goes through the session *)
(* of a cut one for as long as that other link lets it, and is billed to   *)
(* that link: there is no bound on those (xhttp.py:204-218).               *)
CutBound ==
  Cut => \A s \in Streams : /\ leaked[s].up <= 1 + Cardinality(Packets)
                            /\ leaked[s].down <= QueueMax + 2

(* How far a link can go beyond its quota: both pumps of every request     *)
(* that was admitted and every packet handler may have passed the same     *)
(* check when the limiter lets them go on, and each counts one chunk then, *)
(* however the waits interleave (xhttp.py:85-90, 167-170, 213-216).        *)
Admitted == {s \in Streams : pc[s] # "off"}
Askers == 2 * Cardinality(Admitted) + Cardinality(Packets)

QuotaOvershoot ==
  link # None /\ link.limit > 0 => link.used < link.limit + Askers

(* A target is dialled under the address the client wrote, and what came   *)
(* behind the header is its payload, when the whole header came; of a      *)
(* header that broke off, nothing but the end of an IPv4 address or of a   *)
(* name is missing, the port never (utils.py:103-123, xhttp.py:131-155).   *)
HeaderSplit ==
  \A s \in Streams : pc[s] = "dial" =>
    LET h == first[s].head
        n == Len(Wire(h))
        r == Parse(Arrived(first[s]))
    IN  /\ r.command = h.command /\ r.port = h.port
        /\ IF first[s].got >= n
           THEN /\ r.address = h.address
                /\ Len(r.payload) = first[s].got - n
           ELSE /\ h.kind # 3
                /\ r.address = SubSeq(h.address, 1, Len(h.address) - (n - first[s].got))
                /\ r.payload = <<>>

(* When a request from a new address is admitted, the addresses of open    *)
(* sessions are within the device limit, unless two sessions share a key.  *)
OpenIps == {ip[s] : s \in {t \in Streams \ shared : Open(t)}} \ {Unknown}

DeviceLimitAtAdmission ==
  [][\A s \in Streams :
       LET new == ip'[s] IN
       /\ pc[s] = "off" /\ pc'[s] # "off"
       /\ new \notin OpenIps \cup {Unknown}
       /\ link.maxIps > 0
       => Cardinality(OpenIps \cup {new}) <= link.maxIps]_vars

(* A client that leaves takes its session with it, unless the target never *)
(* takes the initial payload, the client left before the generator began,  *)
(* or another request met this one; the pump of a closed session is kept   *)
(* by nothing but a full queue or the rate limiter (xhttp.py:86-97, 188).  *)
LeavingCloses ==
  \A s \in Streams :
    /\ s \in gone ~> s \in closed \cup shared \/ pc[s] \in {"drain", "lost"}
    /\ s \in closed ~> pump[s] \in {"off", "throttle", "done"} \/ Full(queue[s])
=============================================================================
