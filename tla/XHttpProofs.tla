----------------------------- MODULE XHttpProofs -----------------------------
(***************************************************************************)
(* Proofs about XHttp: its types, what sessions and the registry hold,     *)
(* what is billed against what is delivered, the device limit, the quota,  *)
(* and what parse_vless_header makes of a header that has not all come.    *)
(***************************************************************************)
EXTENDS XHttp, FiniteSetTheorems, SequenceTheorems, TLAPS

PumpStages == {"off", "read", "throttle", "put", "end", "done"}

(* The parts of TypeOK that steps change together. *)
LinkType  == link \in Links \cup {None} /\ load \in LoadSet
TaskType  == /\ pc \in [Streams -> Stages]
             /\ sid \in [Streams -> SessionIds \cup {None}]
             /\ ip \in [Streams -> Ips \cup {Unknown}]
             /\ pump \in [Streams -> PumpStages]
             /\ up \in [Streams -> {"off", "read", "throttle", "done"}]
             /\ gone \subseteq Streams
             /\ shared \subseteq Streams
PkType    == pk \in [Packets -> Handlers]
QueueType == queue \in [Streams -> Queues]
QueueFits == \A s \in Streams : Size(queue[s]) <= QueueMax
MapType   == /\ sessions \in [SessionIds -> Streams \cup {None}]
             /\ registry \in [Conns -> Ips \cup {Unknown, None}]
             /\ closed \subseteq Streams
OwedType  == owed \in [Streams -> Nat]
MovedType == /\ wasted \in [Streams -> Nat]
             /\ leaked \in [Streams -> [up : Nat, down : Nat]]

(* Packet handlers that hold a session, and those of the link itself that  *)
(* are past the quota check.                                               *)
Holding(s)   == {p \in Packets : pk[p].at # "idle" /\ pk[p].to = s}
Throttled(s) == {p \in Packets : pk[p].at = "throttle" /\ pk[p].own /\ pk[p].to = s}

InHand(b) == IF b THEN 1 ELSE 0

(* How far a request has come decides what it can have. *)
Shape ==
  \A s \in Streams :
    /\ pc[s] = "off" => s \notin closed
    /\ pc[s] # "off" => sid[s] \in SessionIds
    /\ pc[s] \in {"off", "body", "dial", "drain"} => pump[s] = "off"
    /\ pc[s] \in {"ready", "lost"} => pump[s] # "off"
    /\ pump[s] = "off" => up[s] = "off" /\ owed[s] = 0
    /\ pc[s] \in {"off", "body", "dial"} => leaked[s] = Nothing

Addressed ==
  \A p \in Packets : pk[p].at # "idle" /\ pk[p].to # None => pump[pk[p].to] # "off"

Keyed ==
  \A id \in SessionIds : sessions[id] # None =>
    sid[sessions[id]] = id /\ Open(sessions[id])

Covered ==
  \A s \in Streams :
    owed[s] >= queue[s].chunks + InHand(pc[s] = "yield") + InHand(pump[s] = "put")

Bounded ==
  \A s \in Streams :
    owed[s] <= queue[s].chunks + queue[s].behind + InHand(pc[s] \in {"yield", "done"})
                 + InHand(pump[s] = "put")

Distinct ==
  \A s \in Streams \ shared, t \in Streams :
    (/\ s # t
     /\ pc[s] # "off" /\ ~ Ended(s)
     /\ pc[t] # "off" /\ ~ Ended(t)) => ConnOf[sid[s]] # ConnOf[sid[t]]

Delivering ==
  \A s \in Streams \ shared :
    /\ queue[s].ended /\ pc[s] # "done" => pump[s] = "done"
    /\ pc[s] = "done" /\ s \notin gone => pump[s] \in {"off", "done"} /\ owed[s] = 0
    /\ pc[s] # "done" =>
         owed[s] = queue[s].chunks + InHand(pc[s] = "yield") + InHand(pump[s] = "put")

Wasting ==
  \A s \in Streams :
    /\ s \notin closed => wasted[s] = 0
    /\ s \in closed => wasted[s] + InHand(up[s] = "throttle") + Cardinality(Holding(s))
                         <= 1 + Cardinality(Packets)

Leaking ==
  \A s \in Streams :
    /\ ~ Cut => leaked[s] = Nothing
    /\ Cut => /\ leaked[s].up + InHand(up[s] = "throttle") + Cardinality(Throttled(s))
                   <= 1 + Cardinality(Packets)
              /\ leaked[s].down + queue[s].chunks + InHand(pc[s] = "yield")
                   + InHand(pump[s] \in {"throttle", "put"}) <= QueueMax + 2

Within ==
  /\ IsFiniteSet(ActiveIps)
  /\ link # None /\ link.maxIps > 0 => Cardinality(ActiveIps) <= link.maxIps

-----------------------------------------------------------------------------
(* Queues and teardowns.                                                   *)

LEMMA QueueFacts ==
  ASSUME NEW q \in Queues
  PROVE  /\ Size(q) \in Nat
         /\ PutChunk(q) \in Queues /\ Size(PutChunk(q)) = Size(q) + 1
         /\ PutEnd(q) \in Queues /\ Size(PutEnd(q)) = Size(q) + 1
         /\ PutEnd(q).chunks = q.chunks /\ PutEnd(q).behind >= q.behind
         /\ PutChunk(q).chunks + PutChunk(q).behind = q.chunks + q.behind + 1
         /\ ~ q.ended => PutChunk(q).chunks = q.chunks + 1
         /\ PutChunk(q).ended = q.ended
         /\ PutChunk(q).chunks <= q.chunks + 1 /\ PutChunk(q).chunks >= q.chunks
         /\ [q EXCEPT !.ended = FALSE] \in Queues
         /\ Size([q EXCEPT !.ended = FALSE]) <= Size(q)
         /\ [q EXCEPT !.ended = FALSE].chunks = q.chunks
         /\ [q EXCEPT !.ended = FALSE].behind = q.behind
<1>0. q.chunks \in Nat /\ q.behind \in Nat /\ q.ended \in BOOLEAN
  BY DEF Queues
<1>1. Size(q) \in Nat
  BY <1>0 DEF Size
<1> DEFINE c == [q EXCEPT !.chunks = q.chunks + 1]
           b == [q EXCEPT !.behind = q.behind + 1]
           e == [q EXCEPT !.ended = TRUE]
           n == [q EXCEPT !.ended = FALSE]
<1>2. /\ c \in Queues /\ c.chunks = q.chunks + 1 /\ c.behind = q.behind
      /\ c.ended = q.ended
  BY <1>0 DEF Queues
<1>3. /\ b \in Queues /\ b.chunks = q.chunks /\ b.behind = q.behind + 1
      /\ b.ended = q.ended
  BY <1>0 DEF Queues
<1>4. e \in Queues /\ e.chunks = q.chunks /\ e.behind = q.behind /\ e.ended
  BY <1>0 DEF Queues
<1>5. n \in Queues /\ n.chunks = q.chunks /\ n.behind = q.behind /\ ~ n.ended
  BY <1>0 DEF Queues
<1> HIDE DEF c, b, e, n
<1>6. PutChunk(q) = IF q.ended THEN b ELSE c
  BY DEF PutChunk, b, c
<1>7. PutEnd(q) = IF q.ended THEN b ELSE e
  BY DEF PutEnd, b, e
<1>8. Size(PutChunk(q)) = Size(q) + 1 /\ Size(PutEnd(q)) = Size(q) + 1
  BY <1>0, <1>2, <1>3, <1>4, <1>6, <1>7 DEF Size
<1>9. Size(n) <= Size(q)
  BY <1>0, <1>5 DEF Size
<1>10. /\ n = [q EXCEPT !.ended = FALSE]
       /\ PutChunk(q) \in Queues /\ PutEnd(q) \in Queues
  BY <1>2, <1>3, <1>4, <1>6, <1>7 DEF n
<1>11. /\ PutEnd(q).chunks = q.chunks /\ PutEnd(q).behind >= q.behind
       /\ PutChunk(q).chunks + PutChunk(q).behind = q.chunks + q.behind + 1
       /\ ~ q.ended => PutChunk(q).chunks = q.chunks + 1
       /\ PutChunk(q).ended = q.ended
       /\ PutChunk(q).chunks <= q.chunks + 1 /\ PutChunk(q).chunks >= q.chunks
  BY <1>0, <1>2, <1>3, <1>4, <1>6, <1>7
<1>. QED
  BY <1>1, <1>5, <1>8, <1>9, <1>10, <1>11

(* A teardown puts at most a None at the end of a queue. *)
Keeps(new, old) ==
  new.chunks = old.chunks /\ new.behind >= old.behind /\ Size(new) <= QueueMax

LEMMA PutEndKeeps ==
  ASSUME NEW q \in Queues, NEW r \in Queues, ~ Full(q), Keeps(q, r)
  PROVE  PutEnd(q) \in Queues /\ Keeps(PutEnd(q), r)
<1>1. QueueMax \in Nat
  BY XHttpAssumption
<1>2. /\ PutEnd(q) \in Queues /\ Size(PutEnd(q)) = Size(q) + 1 /\ Size(q) \in Nat
      /\ PutEnd(q).chunks = q.chunks /\ PutEnd(q).behind >= q.behind
  BY QueueFacts
<1>3. q.behind \in Nat /\ r.behind \in Nat /\ PutEnd(q).behind \in Nat
  BY <1>2 DEF Queues
<1>4. ~ Size(q) >= QueueMax /\ q.chunks = r.chunks /\ q.behind >= r.behind
  BY DEF Full, Keeps
<1>5. Size(PutEnd(q)) <= QueueMax
  BY <1>1, <1>2, <1>4
<1>6. PutEnd(q).behind >= r.behind
  BY <1>2, <1>3, <1>4
<1>. QED
  BY <1>2, <1>4, <1>5, <1>6 DEF Keeps

(* The effect of a teardown by the generator, handler or pump of s. *)
Maps(s) ==
  /\ sessions' = [sessions EXCEPT ![sid[s]] = None]
  /\ registry' = IF sessions[sid[s]] = None THEN registry
                 ELSE [registry EXCEPT ![ConnOf[sid[s]]] = None]
  /\ closed' = closed \cup ({sessions[sid[s]]} \ {None})

Queued(s) ==
  /\ queue' \in [Streams -> Queues]
  /\ \A t \in Streams : Keeps(queue'[t], queue[t])
  /\ \A t \in Streams \ {s} : t # sessions[sid[s]] => queue'[t] = queue[t]

Tears(s) ==
  /\ pc[s] # "off" /\ ~ Ended(s)
  /\ Maps(s)
  /\ Queued(s)
  /\ UNCHANGED <<link, sid, ip, up, pk, gone, shared, history>>
  /\ \/ /\ pc[s] \notin {"done", "lost"}
        /\ pc' = [pc EXCEPT ![s] = "done"]
        /\ UNCHANGED pump
        /\ \/ pc[s] \in Setup \/ s \in gone
           \/ pc[s] = "get" /\ queue[s].ended /\ queue[s].chunks = 0
     \/ /\ pump[s] = "end"
        /\ pump' = [pump EXCEPT ![s] = "done"]
        /\ UNCHANGED pc

LEMMA Torn ==
  ASSUME QueueType, NEW s \in Streams,
         NEW q \in [Streams -> Queues],
         \A t \in Streams : Keeps(q[t], queue[t]),
         \A t \in Streams \ {s} : q[t] = queue[t],
         Teardown(sid[s], q)
  PROVE  Maps(s) /\ Queued(s)
<1>1. Maps(s)
  BY DEF Teardown, Maps
<1>2. CASE queue' = q
  BY <1>1, <1>2 DEF Queued
<1>3. CASE queue' # q
  <2> DEFINE v == sessions[sid[s]]
  <2>1. ~ Full(q[v]) /\ queue' = [q EXCEPT ![v] = PutEnd(q[v])]
    BY <1>3, Zenon DEF Teardown
  <2>2. \A t \in Streams : t # v => queue'[t] = q[t]
    BY <2>1
  <2>3. \A t \in Streams : t = v => queue'[t] = PutEnd(q[t]) /\ ~ Full(q[t])
    BY <2>1
  <2>4. \A t \in Streams : q[t] \in Queues /\ queue[t] \in Queues
    BY DEF QueueType
  <2>5. \A t \in Streams : queue'[t] \in Queues /\ Keeps(queue'[t], queue[t])
    <3>. SUFFICES ASSUME NEW t \in Streams
                  PROVE  queue'[t] \in Queues /\ Keeps(queue'[t], queue[t])
      OBVIOUS
    <3>1. CASE t = v
      BY <3>1, <2>3, <2>4, PutEndKeeps
    <3>2. CASE t # v
      BY <3>2, <2>2, <2>4
    <3>. QED
      BY <3>1, <3>2
  <2>6. queue' \in [Streams -> Queues]
    <3>. DOMAIN queue' = Streams /\ queue' = [t \in Streams |-> queue'[t]]
      BY <2>1
    <3>. QED
      BY <2>5
  <2>7. \A t \in Streams \ {s} : t # v => queue'[t] = queue[t]
    BY <2>2
  <2>. QED
    BY <1>1, <2>5, <2>6, <2>7 DEF Queued
<1>. QED
  BY <1>1, <1>2, <1>3

LEMMA QueueKept ==
  ASSUME QueueType, QueueFits
  PROVE  \A t \in Streams : Keeps(queue[t], queue[t])
<1>. SUFFICES ASSUME NEW t \in Streams
              PROVE  Keeps(queue[t], queue[t])
  OBVIOUS
<1>1. queue[t].behind \in Nat
  BY DEF QueueType, Queues
<1>. QED
  BY <1>1 DEF Keeps, QueueFits

(* The steps that tear a session down, and the one that may. *)
LEMMA TearingSteps ==
  ASSUME TaskType, QueueType, QueueFits, Shape, NEW s \in Streams,
         SetupFails(s) \/ GetEnd(s) \/ Abandon(s) \/ PumpEnd(s)
  PROVE  Tears(s)
<1>1. CASE SetupFails(s)
  <2>1. Teardown(sid[s], queue) /\ queue \in [Streams -> Queues]
    BY <1>1 DEF SetupFails, QueueType
  <2>2. Maps(s) /\ Queued(s)
    BY <2>1, QueueKept, Torn
  <2>. QED
    BY <1>1, <2>2 DEF SetupFails, Goto, Tears, Ended, Setup, history, moved
<1>2. CASE GetEnd(s)
  <2> DEFINE q == [queue EXCEPT ![s].ended = FALSE]
  <2>1. Teardown(sid[s], q)
    BY <1>2 DEF GetEnd
  <2>2. queue[s] \in Queues
    BY DEF QueueType
  <2>3. q = [queue EXCEPT ![s] = [queue[s] EXCEPT !.ended = FALSE]]
    OBVIOUS
  <2>4. q[s] = [queue[s] EXCEPT !.ended = FALSE] /\ \A t \in Streams \ {s} : q[t] = queue[t]
    BY <2>3 DEF QueueType
  <2>5. q[s] \in Queues
    BY <2>2, <2>4, QueueFacts
  <2>6. q \in [Streams -> Queues]
    BY <2>2, <2>3, QueueFacts DEF QueueType
  <2>7. Keeps(q[s], queue[s])
    <3>1. Size(q[s]) <= Size(queue[s]) /\ q[s].chunks = queue[s].chunks
          /\ q[s].behind = queue[s].behind
      BY <2>2, <2>4, QueueFacts
    <3>2. Size(queue[s]) <= QueueMax /\ queue[s].behind \in Nat
      BY <2>2 DEF QueueFits, Queues
    <3>3. Size(queue[s]) \in Nat /\ Size(q[s]) \in Nat /\ QueueMax \in Nat
      BY <2>2, <2>5, QueueFacts, XHttpAssumption
    <3>. QED
      BY <3>1, <3>2, <3>3 DEF Keeps
  <2>8. \A t \in Streams : Keeps(q[t], queue[t])
    BY <2>4, <2>7, QueueKept
  <2> HIDE DEF q
  <2>9. Maps(s) /\ Queued(s)
    BY <2>1, <2>4, <2>6, <2>8, Torn
  <2>. QED
    BY <1>2, <2>9 DEF GetEnd, Goto, Tears, Ended, history, moved
<1>3. CASE Abandon(s)
  <2>1. Teardown(sid[s], queue) /\ queue \in [Streams -> Queues]
    BY <1>3 DEF Abandon, QueueType
  <2>2. Maps(s) /\ Queued(s)
    BY <2>1, QueueKept, Torn
  <2>. QED
    BY <1>3, <2>2 DEF Abandon, Goto, Tears, Ended, Stream, history, moved
<1>4. CASE PumpEnd(s)
  <2> DEFINE q == [queue EXCEPT ![s] = PutEnd(queue[s])]
  <2>1. Teardown(sid[s], q) /\ ~ Full(queue[s])
    BY <1>4 DEF PumpEnd
  <2>2. q[s] = PutEnd(queue[s]) /\ \A t \in Streams \ {s} : q[t] = queue[t]
    BY DEF QueueType
  <2>3. q[s] \in Queues /\ Keeps(q[s], queue[s])
    BY <2>1, <2>2, QueueKept, PutEndKeeps DEF QueueType
  <2>4. \A t \in Streams : Keeps(q[t], queue[t])
    BY <2>2, <2>3, QueueKept
  <2>5. q \in [Streams -> Queues]
    BY <2>2, <2>3 DEF QueueType
  <2> HIDE DEF q
  <2>6. Maps(s) /\ Queued(s)
    BY <2>1, <2>2, <2>4, <2>5, Torn
  <2>7. pump[s] = "end" /\ pc[s] # "off"
    BY <1>4 DEF PumpEnd, Shape
  <2>. QED
    BY <1>4, <2>6, <2>7 DEF PumpEnd, Tears, Ended, request, history, moved
<1>. QED
  BY <1>1, <1>2, <1>3, <1>4

Opens(s) ==
  /\ pc[s] = "body" /\ pc' = [pc EXCEPT ![s] = "dial"]
  /\ UNCHANGED <<link, sid, ip, pump, up, pk, queue, maps, gone, shared, history>>

LEMMA FirstChunkSteps ==
  ASSUME TaskType, QueueType, QueueFits, Shape, NEW s \in Streams, NEW f,
         FirstChunk(s, f)
  PROVE  Opens(s) \/ Tears(s)
<1>1. CASE Parse(Arrived(f)).ok
  BY <1>1 DEF FirstChunk, Opens, Goto, history, moved, maps
<1>2. CASE ~ Parse(Arrived(f)).ok
  <2>1. Teardown(sid[s], queue) /\ queue \in [Streams -> Queues]
    BY <1>2 DEF FirstChunk, QueueType
  <2>2. Maps(s) /\ Queued(s)
    BY <2>1, QueueKept, Torn
  <2>. QED
    BY <1>2, <2>2 DEF FirstChunk, Goto, Tears, Ended, Setup, history, moved
<1>. QED
  BY <1>1, <1>2

(* The steps of a request, its pumps and its generator that leave the      *)
(* sessions and the registry alone.                                        *)
Flows(s) ==
  \/ Opens(s) \/ Dialed(s) \/ PayloadDrained(s) \/ Begin(s) \/ Drop(s)
  \/ Yielded(s) \/ GetChunk(s) \/ Leave(s)
  \/ PumpRead(s) \/ PumpEof(s) \/ PumpCount(s) \/ PumpPut(s)
  \/ UpRead(s) \/ UpEnds(s) \/ UpCount(s)

Admits(s) == \E id \in load.ids, a \in load.addresses : Admit(s, id, a)

Changed == \/ \E b \in BOOLEAN : SetActive(b)
           \/ DeleteLink

LEMMA NextCases ==
  ASSUME TaskType, QueueType, QueueFits, Shape, [Next]_vars
  PROVE  \/ \E s \in Streams : Admits(s) \/ Tears(s) \/ Flows(s)
         \/ \E p \in Packets : Packet(p)
         \/ Changed
         \/ UNCHANGED vars
<1>1. ASSUME NEW s \in Streams, Scheduled(s) \/ Pump(s) \/ Request(s)
      PROVE  Admits(s) \/ Tears(s) \/ Flows(s)
  <2>1. CASE \E h \in Headers, n \in FirstSizes : FirstChunk(s, [head |-> h, got |-> n])
    BY <2>1, FirstChunkSteps DEF Flows
  <2>2. CASE SetupFails(s) \/ GetEnd(s) \/ Abandon(s) \/ PumpEnd(s)
    BY <2>2, TearingSteps
  <2>. QED
    BY <1>1, <2>1, <2>2 DEF Scheduled, Pump, Request, Admits, Flows
<1>. QED
  BY <1>1 DEF Next, Changed

-----------------------------------------------------------------------------
(* Types, and what the others rest on.                                     *)

Base == /\ LinkType /\ TaskType /\ PkType /\ QueueType /\ QueueFits
        /\ MapType /\ OwedType /\ MovedType
        /\ Shape /\ Addressed /\ Keyed /\ Covered

LEMMA BaseInit ==
  ASSUME Init
  PROVE  Base
<1>1. QueueMax \in Nat \ {0} /\ None \notin Streams
  BY XHttpAssumption
<1>2. LinkType
  <2>1. load \in LoadSet /\ load.limits \subseteq Nat
    BY XHttpAssumption DEF Init, LoadSet
  <2>. QED
    BY <2>1, XHttpAssumption DEF Init, LinkType, Links
<1>3. /\ TaskType /\ PkType /\ QueueType /\ MapType
  BY DEF Init, TaskType, PkType, QueueType, MapType, Stages, PumpStages, Idle, Handlers,
     EmptyQueue, Queues
<1>4. /\ OwedType /\ MovedType
  BY DEF Init, OwedType, MovedType, Nothing
<1>5. QueueFits
  BY <1>1 DEF Init, QueueFits, EmptyQueue, Size
<1>6. Shape /\ Addressed /\ Keyed
  BY DEF Init, Shape, Addressed, Keyed, Idle, Nothing
<1>7. Covered
  BY DEF Init, Covered, EmptyQueue, InHand
<1>. QED
  BY <1>2, <1>3, <1>4, <1>5, <1>6, <1>7 DEF Base

LEMMA AdmitsBase ==
  ASSUME Base, NEW s \in Streams, Admits(s)
  PROVE  Base'
<1>1. PICK id \in load.ids, a \in load.addresses : Admit(s, id, a)
  BY DEF Admits
<1>2. id \in SessionIds /\ a \in Ips \cup {Unknown} /\ ConnOf[id] \in Conns
  BY DEF Base, LinkType, LoadSet, Conns
<1>3. /\ pc[s] = "off" /\ pc' = [pc EXCEPT ![s] = "body"]
      /\ sid' = [sid EXCEPT ![s] = id] /\ ip' = [ip EXCEPT ![s] = a]
      /\ sessions' = [sessions EXCEPT ![id] = s]
      /\ registry' = [registry EXCEPT ![ConnOf[id]] = a]
      /\ UNCHANGED <<link, first, pump, up, pk, queue, closed, gone, history>>
  BY <1>1 DEF Admit, Goto
<1>4. shared' \subseteq Streams
  BY <1>1, Zenon DEF Admit, Base, TaskType
<1>5. LinkType' /\ TaskType'
  BY <1>2, <1>3, <1>4 DEF Base, LinkType, TaskType, Stages, history
<1>6. PkType' /\ QueueType' /\ QueueFits' /\ OwedType' /\ MovedType' /\ Addressed'
  BY <1>3 DEF Base, PkType, QueueType, QueueFits, OwedType, MovedType, Addressed,
     history, moved
<1>7. MapType'
  BY <1>2, <1>3 DEF Base, MapType
<1>8. Shape'
  BY <1>2, <1>3 DEF Base, Shape, TaskType, history, moved
<1>9. Keyed'
  <2>. SUFFICES ASSUME NEW i \in SessionIds, sessions'[i] # None
                PROVE  /\ sid'[sessions'[i]] = i
                       /\ pc'[sessions'[i]] # "off" /\ sessions'[i] \notin closed'
    BY DEF Keyed, Open
  <2>1. CASE i = id
    BY <1>2, <1>3, <2>1 DEF Base, MapType, TaskType, Shape, Open
  <2>2. CASE i # id
    <3>1. sessions'[i] = sessions[i] /\ sessions[i] \in Streams
      BY <1>3, <2>2 DEF Base, MapType
    <3>2. sid[sessions[i]] = i /\ Open(sessions[i])
      BY <3>1 DEF Base, Keyed
    <3>. QED
      BY <1>3, <3>1, <3>2 DEF Base, TaskType, Open
  <2>. QED
    BY <2>1, <2>2
<1>10. Covered'
  BY <1>3 DEF Base, Covered, TaskType, InHand, history, moved
<1>. QED
  BY <1>5, <1>6, <1>7, <1>8, <1>9, <1>10 DEF Base

LEMMA TearsBase ==
  ASSUME Base, NEW s \in Streams, Tears(s)
  PROVE  Base'
<1>1. /\ pc[s] # "off" /\ sid[s] \in SessionIds /\ ConnOf[sid[s]] \in Conns
      /\ UNCHANGED <<link, sid, ip, up, pk, gone, shared, history>>
  BY DEF Tears, Base, Shape, Conns
<1>2. \/ pc' = [pc EXCEPT ![s] = "done"] /\ UNCHANGED pump
      \/ pump[s] = "end" /\ pump' = [pump EXCEPT ![s] = "done"] /\ UNCHANGED pc
  BY DEF Tears
<1>3. queue' \in [Streams -> Queues] /\ \A t \in Streams : Keeps(queue'[t], queue[t])
  BY DEF Tears, Queued
<1>4. Maps(s)
  BY DEF Tears
<1>5. LinkType' /\ TaskType'
  BY <1>1, <1>2 DEF Base, LinkType, TaskType, Stages, PumpStages, history
<1>6. PkType' /\ OwedType' /\ MovedType' /\ Addressed'
  <2>1. \A t \in Streams : pump[t] # "off" => pump'[t] # "off"
    BY <1>2 DEF Base, TaskType
  <2>2. \A r \in Packets : pk[r].to \in Streams \cup {None}
    BY DEF Base, PkType, Handlers
  <2>3. Addressed'
    BY <1>1, <2>1, <2>2 DEF Base, Addressed
  <2>. QED
    BY <1>1, <2>3 DEF Base, PkType, OwedType, MovedType, history, moved
<1>7. QueueType' /\ QueueFits'
  BY <1>3 DEF QueueType, QueueFits, Keeps
<1>8. MapType'
  BY <1>1, <1>4 DEF Base, MapType, Maps
<1>9. Shape'
  <2>. SUFFICES ASSUME NEW t \in Streams
                PROVE  /\ pc'[t] = "off" => t \notin closed'
                       /\ pc'[t] # "off" => sid'[t] \in SessionIds
                       /\ pc'[t] \in {"off", "body", "dial", "drain"} => pump'[t] = "off"
                       /\ pc'[t] \in {"ready", "lost"} => pump'[t] # "off"
                       /\ pump'[t] = "off" => up'[t] = "off" /\ owed'[t] = 0
                       /\ pc'[t] \in {"off", "body", "dial"} => leaked'[t] = Nothing
    BY DEF Shape
  <2>1. pc'[t] = "off" => pc[t] = "off" /\ t \notin closed
    BY <1>1, <1>2 DEF Base, TaskType, Shape
  <2>2. pc[t] = "off" => t # sessions[sid[s]]
    BY <1>1, XHttpAssumption DEF Base, MapType, Keyed, Open
  <2>3. pc'[t] = "off" => t \notin closed'
    BY <2>1, <2>2, <1>4 DEF Maps
  <2>. QED
    BY <1>1, <1>2, <2>3 DEF Base, Shape, TaskType, history, moved
<1>10. Keyed'
  <2>. SUFFICES ASSUME NEW i \in SessionIds, sessions'[i] # None
                PROVE  /\ sid'[sessions'[i]] = i
                       /\ pc'[sessions'[i]] # "off" /\ sessions'[i] \notin closed'
    BY DEF Keyed, Open
  <2>1. i # sid[s] /\ sessions'[i] = sessions[i] /\ sessions[i] \in Streams
    BY <1>1, <1>4 DEF Maps, Base, MapType
  <2>2. sid[sessions[i]] = i /\ Open(sessions[i])
    BY <2>1 DEF Base, Keyed
  <2>3. sessions[i] # sessions[sid[s]]
    BY <1>1, <2>1, <2>2 DEF Base, Keyed
  <2>4. pc'[sessions[i]] # "off"
    BY <1>2, <2>1, <2>2 DEF Base, TaskType, Open
  <2>. QED
    BY <1>1, <1>4, <2>1, <2>2, <2>3, <2>4 DEF Maps, Open
<1>11. Covered'
  <2>. SUFFICES ASSUME NEW t \in Streams
                PROVE  owed'[t] >= queue'[t].chunks + InHand(pc'[t] = "yield")
                                     + InHand(pump'[t] = "put")
    BY DEF Covered
  <2>1. queue'[t].chunks = queue[t].chunks /\ owed'[t] = owed[t]
    BY <1>1, <1>3 DEF Keeps, history, moved
  <2>2. pc'[t] = "yield" => pc[t] = "yield"
    BY <1>2 DEF Base, TaskType
  <2>3. pump'[t] = "put" => pump[t] = "put"
    BY <1>2 DEF Base, TaskType
  <2>4. owed[t] >= queue[t].chunks + InHand(pc[t] = "yield") + InHand(pump[t] = "put")
    BY DEF Base, Covered
  <2>5. queue[t].chunks \in Nat /\ owed[t] \in Nat
    BY DEF Base, QueueType, Queues, OwedType
  <2>. QED
    BY <2>1, <2>2, <2>3, <2>4, <2>5 DEF InHand
<1>. QED
  BY <1>5, <1>6, <1>7, <1>8, <1>9, <1>10, <1>11 DEF Base

(* What a flow leaves alone, whatever it does. *)
Frame(s) ==
  /\ UNCHANGED <<sid, ip, shared, maps, pk>>
  /\ pc' \in [Streams -> Stages]
  /\ pump' \in [Streams -> PumpStages]
  /\ up' \in [Streams -> {"off", "read", "throttle", "done"}]
  /\ gone \subseteq gone' /\ gone' \subseteq Streams
  /\ \A t \in Streams \ {s} :
       /\ pc'[t] = pc[t] /\ pump'[t] = pump[t] /\ up'[t] = up[t]
       /\ t \in gone' => t \in gone
  /\ pc[s] # "off" => pc'[s] # "off"
  /\ pc[s] = "off" => pc'[s] = "off"
  /\ pc'[s] = "done" <=> pc[s] = "done"
  /\ pump[s] # "off" => pump'[s] # "off"
  /\ pump[s] = "done" <=> pump'[s] = "done"
  /\ pump'[s] \in {"off", "done"} => pump[s] \in {"off", "done"}
  /\ Ended(s) => pump'[s] = pump[s] /\ pc'[s] = pc[s]

LEMMA FlowsFrame ==
  ASSUME TaskType, Shape, NEW s \in Streams, Flows(s)
  PROVE  Frame(s)
<1>1. CASE Opens(s)
  BY <1>1 DEF Opens, Frame, TaskType, Shape, Stages, PumpStages, Ended, request, maps
<1>2. CASE Dialed(s)
  BY <1>2 DEF Dialed, Goto, Start, Frame, TaskType, Shape, Stages, PumpStages, Ended, request, maps
<1>3. CASE PayloadDrained(s)
  BY <1>3 DEF PayloadDrained, Goto, Start, Frame, TaskType, Shape, Stages, PumpStages, Ended, request, maps
<1>4. CASE Yielded(s)
  BY <1>4 DEF Yielded, Goto, Frame, TaskType, Shape, Stages, PumpStages, Ended, request, maps
<1>5. CASE GetChunk(s)
  BY <1>5 DEF GetChunk, Goto, Frame, TaskType, Shape, Stages, PumpStages, Ended, request, maps
<1>6. CASE Leave(s)
  BY <1>6 DEF Leave, Frame, TaskType, Shape, Stages, PumpStages, Ended, request, maps
<1>7. CASE PumpRead(s)
  BY <1>7 DEF PumpRead, Frame, TaskType, Shape, Stages, PumpStages, Ended, request, maps
<1>8. CASE PumpEof(s)
  BY <1>8 DEF PumpEof, Frame, TaskType, Shape, Stages, PumpStages, Ended, request, maps
<1>9. CASE PumpCount(s)
  BY <1>9 DEF PumpCount, Frame, TaskType, Shape, Stages, PumpStages, Ended, request, maps
<1>10. CASE PumpPut(s)
  BY <1>10 DEF PumpPut, Frame, TaskType, Shape, Stages, PumpStages, Ended, request, maps
<1>11. CASE UpRead(s)
  BY <1>11 DEF UpRead, Frame, TaskType, Shape, Stages, PumpStages, Ended, request, maps
<1>12. CASE UpEnds(s)
  BY <1>12 DEF UpEnds, Frame, TaskType, Shape, Stages, PumpStages, Ended, request, maps
<1>13. CASE UpCount(s)
  BY <1>13 DEF UpCount, Frame, TaskType, Shape, Stages, PumpStages, Ended, request, maps
<1>14. CASE Begin(s) \/ Drop(s)
  BY <1>14 DEF Begin, Drop, Goto, Frame, TaskType, Shape, Stages, PumpStages, Ended, request, maps
<1>. QED
  BY <1>1, <1>2, <1>3, <1>4, <1>5, <1>6, <1>7, <1>8, <1>9, <1>10, <1>11, <1>12, <1>13, <1>14 DEF Flows

LEMMA CountLink ==
  ASSUME LinkType, Count
  PROVE  /\ link' \in Links \cup {None}
         /\ link' = None <=> link = None
         /\ link # None => /\ link'.maxIps = link.maxIps
                           /\ link'.active = link.active /\ link'.expired = link.expired
<1>0. None \notin Links
  BY XHttpAssumption
<1>1. CASE link = None
  BY <1>1 DEF Count
<1>2. CASE link # None
  <2>1. link \in Links /\ link' = [link EXCEPT !.used = link.used + 1]
    BY <1>2 DEF Count, LinkType
  <2>2. link.used + 1 \in Nat
    BY <2>1 DEF Links
  <2>3. link' \in Links /\ link'.maxIps = link.maxIps /\ link'.active = link.active
        /\ link'.expired = link.expired
    BY <2>1, <2>2 DEF Links
  <2>. QED
    BY <1>0, <1>2, <2>3
<1>. QED
  BY <1>1, <1>2

LEMMA ReadOneLoad ==
  ASSUME LinkType, ReadOne
  PROVE  load' \in LoadSet
<1>1. load \in LoadSet /\ load.reads > 0 /\ load' = [load EXCEPT !.reads = load.reads - 1]
  BY DEF ReadOne, LinkType
<1>2. load.reads - 1 \in Nat
  BY <1>1 DEF LoadSet
<1>. QED
  BY <1>1, <1>2 DEF LoadSet

LEMMA LeakMoved ==
  ASSUME MovedType, NEW s \in Streams, Leak(s, "up") \/ Leak(s, "down")
  PROVE  /\ leaked' \in [Streams -> [up : Nat, down : Nat]]
         /\ \A t \in Streams \ {s} : leaked'[t] = leaked[t]
         /\ ~ Cut => leaked' = leaked
         /\ Cut /\ Leak(s, "up") => /\ leaked'[s].up = leaked[s].up + 1
                                    /\ leaked'[s].down = leaked[s].down
         /\ Cut /\ Leak(s, "down") => /\ leaked'[s].down = leaked[s].down + 1
                                      /\ leaked'[s].up = leaked[s].up
<1>0. leaked[s].up \in Nat /\ leaked[s].down \in Nat
  BY DEF MovedType
<1>1. CASE ~ Cut
  BY <1>1 DEF Leak, MovedType
<1>2. ASSUME Cut, Leak(s, "up")
      PROVE  /\ leaked' \in [Streams -> [up : Nat, down : Nat]]
             /\ \A t \in Streams \ {s} : leaked'[t] = leaked[t]
             /\ leaked'[s].up = leaked[s].up + 1
             /\ leaked'[s].down = leaked[s].down
  <2>1. leaked' = [leaked EXCEPT ![s] = [leaked[s] EXCEPT !.up = leaked[s].up + 1]]
    BY <1>2 DEF Leak
  <2>. QED
    BY <1>0, <2>1 DEF MovedType
<1>3. ASSUME Cut, Leak(s, "down")
      PROVE  /\ leaked' \in [Streams -> [up : Nat, down : Nat]]
             /\ \A t \in Streams \ {s} : leaked'[t] = leaked[t]
             /\ leaked'[s].down = leaked[s].down + 1
             /\ leaked'[s].up = leaked[s].up
  <2>1. leaked' = [leaked EXCEPT ![s] = [leaked[s] EXCEPT !.down = leaked[s].down + 1]]
    BY <1>3 DEF Leak
  <2>. QED
    BY <1>0, <2>1 DEF MovedType
<1>4. CASE Cut
  <2>1. Leak(s, "up") /\ Leak(s, "down") => leaked'[s].up = leaked[s].up
    BY <1>2, <1>3, <1>4
  <2>2. ~ (Leak(s, "up") /\ Leak(s, "down"))
    BY <1>0, <1>2, <2>1, <1>4
  <2>. QED
    BY <1>2, <1>3, <1>4, <2>2
<1>. QED
  BY <1>1, <1>4

(* An uplink chunk goes to a target or is dropped. *)
LEMMA ForwardMoved ==
  ASSUME LinkType, MovedType, NEW s \in Streams, NEW own \in BOOLEAN, Forward(s, own)
  PROVE  /\ MovedType'
         /\ \A t \in Streams \ {s} : wasted'[t] = wasted[t] /\ leaked'[t] = leaked[t]
         /\ s \notin closed => wasted' = wasted
         /\ s \in closed => wasted'[s] = wasted[s] + 1
         /\ ~ Cut \/ ~ own => leaked' = leaked
         /\ leaked'[s].down = leaked[s].down
         /\ leaked'[s].up <= leaked[s].up + 1
         /\ leaked'[s].up \in Nat /\ leaked[s].up \in Nat
<1>1. CASE s \in closed
  <2>1. wasted' = [wasted EXCEPT ![s] = wasted[s] + 1] /\ leaked' = leaked
    BY <1>1 DEF Forward
  <2>2. wasted[s] \in Nat /\ leaked[s].up \in Nat
    BY DEF MovedType
  <2>. QED
    BY <1>1, <2>1, <2>2 DEF MovedType
<1>2. CASE s \notin closed /\ ~ own
  <2>1. leaked' = leaked /\ wasted' = wasted
    BY <1>2 DEF Forward
  <2>2. leaked[s].up \in Nat
    BY DEF MovedType
  <2>. QED
    BY <1>2, <2>1, <2>2 DEF MovedType
<1>3. CASE s \notin closed /\ own
  <2>1. Leak(s, "up") /\ wasted' = wasted
    BY <1>3 DEF Forward
  <2>2. leaked[s].up \in Nat
    BY DEF MovedType
  <2>3. leaked'[s].down = leaked[s].down /\ leaked'[s].up <= leaked[s].up + 1
    BY <2>1, <2>2, LeakMoved
  <2>4. MovedType'
    BY <2>1, LeakMoved DEF MovedType
  <2>5. leaked'[s].up \in Nat
    BY <2>4 DEF MovedType
  <2>. QED
    BY <1>3, <2>1, <2>2, <2>3, <2>4, <2>5, LeakMoved
<1>. QED
  BY <1>1, <1>2, <1>3

LEMMA FlowsLink ==
  ASSUME LinkType, MovedType, NEW s \in Streams, Flows(s)
  PROVE  LinkType' /\ (UNCHANGED link \/ Count)
<1>1. CASE PumpRead(s) \/ UpRead(s)
  BY <1>1, ReadOneLoad DEF PumpRead, UpRead, LinkType
<1>2. CASE PumpCount(s)
  BY <1>2, CountLink DEF PumpCount, LinkType
<1>3. CASE UpCount(s)
  BY <1>3, CountLink DEF UpCount, Forward, LinkType
<1>4. CASE ~ (PumpRead(s) \/ UpRead(s) \/ PumpCount(s) \/ UpCount(s))
  BY <1>4 DEF Flows, Opens, Dialed, PayloadDrained, Begin, Drop, Yielded, GetChunk, Leave,
     PumpEof, PumpPut, UpEnds, LinkType, history
<1>. QED
  BY <1>1, <1>2, <1>3, <1>4

LEMMA FlowsMoved ==
  ASSUME LinkType, MovedType, NEW s \in Streams, Flows(s)
  PROVE  /\ MovedType'
         /\ \A t \in Streams \ {s} : wasted'[t] = wasted[t] /\ leaked'[t] = leaked[t]
         /\ Dialed(s) \/ Yielded(s) \/ UpCount(s) \/ UNCHANGED <<wasted, leaked>>
<1>1. CASE Dialed(s)
  BY <1>1, LeakMoved DEF Dialed, MovedType
<1>2. CASE Yielded(s)
  BY <1>2, LeakMoved DEF Yielded, MovedType
<1>3. CASE UpCount(s)
  BY <1>3, ForwardMoved DEF UpCount
<1>4. CASE ~ (Dialed(s) \/ Yielded(s) \/ UpCount(s))
  <2>1. UNCHANGED <<wasted, leaked>>
    BY <1>4 DEF Flows, Opens, PayloadDrained, Begin, Drop, GetChunk, Leave, PumpRead, PumpEof,
       PumpCount, PumpPut, UpRead, UpEnds, moved, history
  <2>. QED
    BY <2>1 DEF MovedType
<1>. QED
  BY <1>1, <1>2, <1>3, <1>4

(* Where the downlink chunks of s are before and after a flow. *)
Calm(s) ==
  \/ Opens(s) \/ Dialed(s) \/ PayloadDrained(s) \/ Begin(s) \/ Drop(s)
  \/ Leave(s) \/ PumpRead(s)
  \/ PumpEof(s) \/ UpRead(s) \/ UpEnds(s) \/ UpCount(s)

Sends(s) ==
  /\ Yielded(s) /\ UNCHANGED <<queue, pump>> /\ pc'[s] = "get"
  /\ \/ pc[s] = "hello" /\ UNCHANGED owed
     \/ pc[s] = "yield" /\ owed'[s] = owed[s] - 1

Takes(s) ==
  /\ GetChunk(s) /\ UNCHANGED <<owed, pump>> /\ pc[s] = "get" /\ pc'[s] = "yield"
  /\ queue'[s].chunks = queue[s].chunks - 1
  /\ queue'[s].behind = queue[s].behind
  /\ queue'[s].ended = queue[s].ended

Counts(s) ==
  /\ PumpCount(s) /\ UNCHANGED <<queue, pc>>
  /\ pump[s] = "throttle" /\ pump'[s] = "put" /\ owed'[s] = owed[s] + 1

Puts(s) ==
  /\ PumpPut(s) /\ UNCHANGED <<owed, pc>>
  /\ pump[s] = "put" /\ pump'[s] = "read" /\ queue'[s] = PutChunk(queue[s])

LEMMA FlowsDown ==
  ASSUME TaskType, QueueType, QueueFits, OwedType, Covered, NEW s \in Streams, Flows(s)
  PROVE  /\ QueueType' /\ QueueFits' /\ OwedType'
         /\ \A t \in Streams \ {s} : queue'[t] = queue[t] /\ owed'[t] = owed[t]
         /\ \/ Calm(s) /\ UNCHANGED <<queue, owed>>
            \/ Sends(s) \/ Takes(s) \/ Counts(s) \/ Puts(s)
<1>0. queue[s] \in Queues /\ queue[s].chunks \in Nat /\ queue[s].behind \in Nat
      /\ owed[s] \in Nat /\ QueueMax \in Nat
  BY XHttpAssumption DEF QueueType, Queues, OwedType
<1>1. CASE Yielded(s)
  <2>1. QueueType' /\ QueueFits' /\ UNCHANGED <<queue, pump>> /\ pc'[s] = "get"
    BY <1>1 DEF Yielded, Goto, QueueType, QueueFits, TaskType
  <2>2. pc[s] = "yield" => owed[s] >= 1
    BY <1>0 DEF Covered, InHand
  <2>3. \/ pc[s] = "hello" /\ owed' = owed
        \/ pc[s] = "yield" /\ owed' = [owed EXCEPT ![s] = owed[s] - 1] /\ owed[s] - 1 \in Nat
    BY <1>0, <1>1, <2>2 DEF Yielded
  <2>4. OwedType' /\ \A t \in Streams \ {s} : owed'[t] = owed[t]
    BY <2>3 DEF OwedType
  <2>. QED
    BY <1>1, <2>1, <2>3, <2>4 DEF OwedType, QueueType, Sends
<1>2. CASE GetChunk(s)
  <2>1. /\ UNCHANGED <<owed, pump>> /\ pc[s] = "get" /\ pc'[s] = "yield"
        /\ queue[s].chunks > 0
        /\ queue' = [queue EXCEPT ![s] = [queue[s] EXCEPT !.chunks = queue[s].chunks - 1]]
    BY <1>2 DEF GetChunk, Goto, TaskType, history, moved
  <2> DEFINE q == [queue[s] EXCEPT !.chunks = queue[s].chunks - 1]
  <2>2. /\ q \in Queues /\ q.chunks = queue[s].chunks - 1 /\ q.behind = queue[s].behind
        /\ q.ended = queue[s].ended
    BY <1>0, <2>1 DEF Queues
  <2>3. queue' = [queue EXCEPT ![s] = q]
    BY <2>1
  <2> HIDE DEF q
  <2>4. Size(q) <= QueueMax
    <3>1. Size(queue[s]) <= QueueMax
      BY DEF QueueFits
    <3>2. q.ended \in BOOLEAN /\ q.chunks \in Nat
      BY <2>2 DEF Queues
    <3>. QED
      BY <1>0, <2>2, <3>1, <3>2 DEF Size
  <2>5. QueueType' /\ QueueFits'
    BY <2>2, <2>3, <2>4 DEF QueueType, QueueFits
  <2>. QED
    BY <1>2, <2>1, <2>2, <2>3, <2>5 DEF QueueType, OwedType, Takes
<1>3. CASE PumpCount(s)
  <2>1. /\ UNCHANGED <<queue, pc>> /\ pump[s] = "throttle" /\ pump'[s] = "put"
        /\ owed' = [owed EXCEPT ![s] = owed[s] + 1]
    BY <1>3 DEF PumpCount, TaskType, request
  <2>. QED
    BY <1>0, <1>3, <2>1 DEF QueueType, QueueFits, OwedType, Counts
<1>4. CASE PumpPut(s)
  <2>1. /\ UNCHANGED <<owed, pc>> /\ pump[s] = "put" /\ pump'[s] = "read"
        /\ ~ Full(queue[s])
        /\ queue' = [queue EXCEPT ![s] = PutChunk(queue[s])]
    BY <1>4 DEF PumpPut, TaskType, request, history, moved
  <2>2. PutChunk(queue[s]) \in Queues /\ Size(PutChunk(queue[s])) = Size(queue[s]) + 1
        /\ Size(queue[s]) \in Nat
    BY <1>0, QueueFacts
  <2>3. Size(PutChunk(queue[s])) <= QueueMax
    BY <1>0, <2>1, <2>2 DEF Full
  <2>4. QueueType' /\ QueueFits'
    BY <2>1, <2>2, <2>3 DEF QueueType, QueueFits
  <2>. QED
    BY <1>4, <2>1, <2>4 DEF QueueType, OwedType, Puts
<1>5. CASE ~ (Yielded(s) \/ GetChunk(s) \/ PumpCount(s) \/ PumpPut(s))
  <2>1. UNCHANGED <<queue, owed>>
    BY <1>5 DEF Flows, Opens, Dialed, PayloadDrained, Begin, Drop, Leave, PumpRead, PumpEof,
       UpRead, UpEnds, UpCount, moved, history
  <2>. QED
    BY <1>5, <2>1 DEF Flows, Calm, QueueType, QueueFits, OwedType
<1>. QED
  BY <1>1, <1>2, <1>3, <1>4, <1>5

(* Calm steps change neither of the two places a chunk can be in hand.     *)
LEMMA CalmHands ==
  ASSUME TaskType, Shape, NEW s \in Streams, Calm(s)
  PROVE  /\ pc'[s] = "yield" <=> pc[s] = "yield"
         /\ pump'[s] = "put" <=> pump[s] = "put"
<1>1. CASE Opens(s) \/ Leave(s) \/ PumpRead(s) \/ PumpEof(s)
  BY <1>1 DEF Opens, Leave, PumpRead, PumpEof, TaskType, request
<1>2. CASE Dialed(s) \/ PayloadDrained(s)
  BY <1>2 DEF Dialed, PayloadDrained, Start, Goto, TaskType, Shape
<1>3. CASE UpRead(s) \/ UpEnds(s) \/ UpCount(s)
  BY <1>3 DEF UpRead, UpEnds, UpCount, request
<1>4. CASE Begin(s) \/ Drop(s)
  BY <1>4 DEF Begin, Drop, Goto, TaskType
<1>. QED
  BY <1>1, <1>2, <1>3, <1>4 DEF Calm

LEMMA FlowsBase ==
  ASSUME Base, NEW s \in Streams, Flows(s)
  PROVE  Base'
<1>0. /\ LinkType /\ TaskType /\ PkType /\ QueueType /\ QueueFits
      /\ MapType /\ OwedType /\ MovedType
      /\ Shape /\ Addressed /\ Keyed /\ Covered
  BY DEF Base
<1>1. Frame(s)
  BY <1>0, FlowsFrame
<1>2. /\ LinkType' /\ MovedType'
      /\ \A t \in Streams \ {s} : leaked'[t] = leaked[t]
      /\ Dialed(s) \/ Yielded(s) \/ UpCount(s) \/ UNCHANGED leaked
  BY <1>0, FlowsLink, FlowsMoved
<1>3. /\ QueueType' /\ QueueFits' /\ OwedType'
      /\ \A t \in Streams \ {s} : queue'[t] = queue[t] /\ owed'[t] = owed[t]
      /\ \/ Calm(s) /\ UNCHANGED <<queue, owed>>
         \/ Sends(s) \/ Takes(s) \/ Counts(s) \/ Puts(s)
  BY <1>0, FlowsDown
<1>4. TaskType' /\ PkType' /\ MapType' /\ Addressed' /\ Keyed'
  <2>1. TaskType' /\ PkType' /\ MapType'
    BY <1>0, <1>1 DEF Frame, TaskType, PkType, MapType, maps
  <2>2. Addressed'
    <3>1. \A t \in Streams : pump[t] # "off" => pump'[t] # "off"
      BY <1>1 DEF Frame
    <3>2. \A r \in Packets : pk[r].to \in Streams \cup {None}
      BY <1>0 DEF PkType, Handlers
    <3>. QED
      BY <1>0, <1>1, <3>1, <3>2 DEF Frame, Addressed
  <2>3. \A id \in SessionIds : sessions[id] # None => sessions[id] \in Streams
    BY <1>0 DEF MapType
  <2>4. Keyed'
    BY <1>0, <1>1, <2>3 DEF Frame, Keyed, Open, maps
  <2>. QED
    BY <2>1, <2>2, <2>4
<1>5. Shape'
  <2>. SUFFICES ASSUME NEW t \in Streams
                PROVE  /\ pc'[t] = "off" => t \notin closed'
                       /\ pc'[t] # "off" => sid'[t] \in SessionIds
                       /\ pc'[t] \in {"off", "body", "dial", "drain"} => pump'[t] = "off"
                       /\ pc'[t] \in {"ready", "lost"} => pump'[t] # "off"
                       /\ pump'[t] = "off" => up'[t] = "off" /\ owed'[t] = 0
                       /\ pc'[t] \in {"off", "body", "dial"} => leaked'[t] = Nothing
    BY DEF Shape
  <2>1. CASE t # s
    BY <1>0, <1>1, <1>2, <1>3, <2>1 DEF Frame, Shape, maps
  <2>2. CASE t = s
    <3>1. pc'[s] = "off" => s \notin closed'
      BY <1>0, <1>1 DEF Frame, Shape, maps
    <3>2. pc'[s] # "off" => sid'[s] \in SessionIds
      BY <1>0, <1>1 DEF Frame, Shape
    <3>3. pc'[s] \in {"off", "body", "dial", "drain"} => pump'[s] = "off"
      <4>1. CASE Dialed(s) \/ PayloadDrained(s)
        BY <1>0, <4>1 DEF Dialed, PayloadDrained, Start, Goto, Shape, TaskType
      <4>2. CASE Opens(s) \/ Leave(s) \/ UpRead(s) \/ UpEnds(s) \/ UpCount(s)
        BY <1>0, <4>2 DEF Opens, Leave, UpRead, UpEnds, UpCount, request, Shape, TaskType
      <4>3. CASE PumpRead(s) \/ PumpEof(s)
        BY <1>0, <4>3 DEF PumpRead, PumpEof, request, Shape, TaskType
      <4>4. CASE Sends(s) \/ Takes(s)
        BY <4>4 DEF Sends, Takes
      <4>5. CASE Counts(s) \/ Puts(s)
        BY <1>0, <4>5 DEF Counts, Puts, Shape
      <4>6. CASE Begin(s) \/ Drop(s)
        BY <1>0, <4>6 DEF Begin, Drop, Goto, TaskType
      <4>. QED
        BY <1>3, <4>1, <4>2, <4>3, <4>4, <4>5, <4>6 DEF Calm
    <3>4. pump'[s] = "off" => up'[s] = "off" /\ owed'[s] = 0
      <4>1. CASE Dialed(s) \/ PayloadDrained(s)
        BY <1>0, <4>1 DEF Dialed, PayloadDrained, Start, Goto, Shape, TaskType, history, moved
      <4>2. CASE Opens(s) \/ Leave(s) \/ UpRead(s) \/ UpEnds(s) \/ UpCount(s)
        BY <1>0, <4>2 DEF Opens, Leave, UpRead, UpEnds, UpCount, request, Shape,
           TaskType, history, moved
      <4>3. CASE PumpRead(s) \/ PumpEof(s)
        BY <1>0, <4>3 DEF PumpRead, PumpEof, TaskType
      <4>4. CASE Sends(s)
        <5>1. pc[s] = "yield" => owed[s] >= 1 /\ owed[s] # 0
          <6>1. queue[s].chunks \in Nat /\ owed[s] \in Nat
            BY <1>0 DEF QueueType, Queues, OwedType
          <6>. QED
            BY <1>0, <6>1 DEF Covered, InHand
        <5>2. UNCHANGED up
          BY <4>4 DEF Sends, Yielded
        <5>. QED
          BY <1>0, <4>4, <5>1, <5>2 DEF Sends, Shape
      <4>5. CASE Takes(s)
        BY <1>0, <4>5 DEF Takes, GetChunk, Shape
      <4>6. CASE Counts(s) \/ Puts(s)
        BY <4>6 DEF Counts, Puts
      <4>7. CASE Begin(s) \/ Drop(s)
        BY <1>0, <4>7 DEF Begin, Drop, Shape, history, moved
      <4>. QED
        BY <1>3, <4>1, <4>2, <4>3, <4>4, <4>5, <4>6, <4>7 DEF Calm
    <3>5. pc'[s] \in {"off", "body", "dial"} => leaked'[s] = Nothing
      <4>1. CASE Dialed(s)
        BY <1>0, <4>1 DEF Dialed, Start, Goto, TaskType
      <4>2. CASE Yielded(s)
        BY <1>0, <4>2 DEF Yielded, Goto, TaskType
      <4>3. CASE UpCount(s)
        BY <1>0, <4>3 DEF UpCount, Shape, request
      <4>4. CASE UNCHANGED leaked
        <5>1. pc'[s] \in {"off", "body", "dial"} => pc[s] \in {"off", "body", "dial"}
          <6>1. CASE Opens(s) \/ Dialed(s) \/ PayloadDrained(s) \/ Sends(s) \/ Takes(s)
            BY <1>0, <6>1 DEF Opens, Dialed, PayloadDrained, Start, Goto, Sends, Takes, TaskType
          <6>2. CASE \/ Leave(s) \/ PumpRead(s) \/ PumpEof(s) \/ UpRead(s) \/ UpEnds(s)
                     \/ UpCount(s) \/ Counts(s) \/ Puts(s)
            BY <6>2 DEF Leave, PumpRead, PumpEof, UpRead, UpEnds, UpCount, Counts, Puts,
               request
          <6>3. CASE Begin(s) \/ Drop(s)
            BY <1>0, <6>3 DEF Begin, Drop, Goto, TaskType
          <6>. QED
            BY <1>3, <6>1, <6>2, <6>3 DEF Calm
        <5>. QED
          BY <1>0, <4>4, <5>1 DEF Shape
      <4>. QED
        BY <1>2, <4>1, <4>2, <4>3, <4>4
    <3>6. pc'[s] \in {"ready", "lost"} => pump'[s] # "off"
      <4>1. CASE Dialed(s) \/ PayloadDrained(s)
        BY <1>0, <4>1 DEF Dialed, PayloadDrained, Start, Goto, TaskType
      <4>2. CASE Opens(s) \/ Begin(s) \/ Drop(s) \/ Sends(s) \/ Takes(s)
        BY <1>0, <4>2 DEF Opens, Begin, Drop, Goto, Sends, Takes, Shape, TaskType
      <4>3. CASE \/ Leave(s) \/ PumpRead(s) \/ PumpEof(s) \/ UpRead(s) \/ UpEnds(s)
                 \/ UpCount(s) \/ Counts(s) \/ Puts(s)
        <5>1. pc'[s] = pc[s]
          BY <4>3 DEF Leave, PumpRead, PumpEof, UpRead, UpEnds, UpCount, Counts, Puts,
             request
        <5>. QED
          BY <1>0, <1>1, <5>1 DEF Frame, Shape
      <4>. QED
        BY <1>3, <4>1, <4>2, <4>3 DEF Calm
    <3>. QED
      BY <2>2, <3>1, <3>2, <3>3, <3>4, <3>5, <3>6
  <2>. QED
    BY <2>1, <2>2
<1>6. Covered'
  <2>. SUFFICES ASSUME NEW t \in Streams
                PROVE  owed'[t] >= queue'[t].chunks + InHand(pc'[t] = "yield")
                                     + InHand(pump'[t] = "put")
    BY DEF Covered
  <2>0. /\ queue[t].chunks \in Nat /\ owed[t] \in Nat
        /\ owed[t] >= queue[t].chunks + InHand(pc[t] = "yield") + InHand(pump[t] = "put")
    BY <1>0 DEF QueueType, Queues, OwedType, Covered
  <2>1. CASE t # s
    BY <1>1, <1>3, <2>0, <2>1 DEF Frame
  <2>2. CASE t = s /\ Calm(s) /\ UNCHANGED <<queue, owed>>
    BY <1>0, <2>0, <2>2, CalmHands
  <2>3. CASE t = s /\ Sends(s)
    BY <2>0, <2>3 DEF Sends, InHand
  <2>4. CASE t = s /\ Takes(s)
    BY <2>0, <2>4 DEF Takes, InHand
  <2>5. CASE t = s /\ Counts(s)
    BY <2>0, <2>5 DEF Counts, InHand
  <2>6. CASE t = s /\ Puts(s)
    <3>1. PutChunk(queue[s]).chunks <= queue[s].chunks + 1
          /\ PutChunk(queue[s]).chunks \in Nat
      <4>1. queue[s] \in Queues
        BY <1>0 DEF QueueType
      <4>2. PutChunk(queue[s]) \in Queues
        BY <4>1, QueueFacts
      <4>. QED
        BY <4>1, <4>2, QueueFacts DEF Queues
    <3>2. queue'[s].chunks <= queue[s].chunks + 1 /\ queue'[s].chunks \in Nat
      BY <2>6, <3>1 DEF Puts
    <3>. QED
      BY <2>0, <2>6, <3>2 DEF Puts, InHand
  <2>. QED
    BY <1>3, <2>1, <2>2, <2>3, <2>4, <2>5, <2>6
<1>. QED
  BY <1>2, <1>3, <1>4, <1>5, <1>6 DEF Base

(* A counted packet. *)
Sent(p) ==
  /\ IF pk[p].own THEN Count ELSE UNCHANGED link
  /\ IF pk[p].to = None THEN UNCHANGED <<wasted, leaked>>
     ELSE Forward(pk[p].to, pk[p].own)

LEMMA SentMoved ==
  ASSUME LinkType, MovedType, PkType, NEW p \in Packets, Sent(p), UNCHANGED load
  PROVE  LinkType' /\ MovedType'
<1>1. pk[p].own \in BOOLEAN /\ pk[p].to \in Streams \cup {None}
  BY DEF PkType, Handlers
<1>2. LinkType'
  BY <1>1, CountLink DEF Sent, LinkType
<1>3. CASE pk[p].to = None
  BY <1>2, <1>3 DEF Sent, MovedType
<1>4. CASE pk[p].to # None
  BY <1>1, <1>2, <1>4, ForwardMoved DEF Sent
<1>. QED
  BY <1>3, <1>4

(* What a counted packet does to the request t. *)
LEMMA SentTo ==
  ASSUME LinkType, MovedType, PkType, NEW p \in Packets, Sent(p), NEW t \in Streams
  PROVE  /\ wasted'[t] # wasted[t] =>
              pk[p].to = t /\ t \in closed /\ wasted'[t] = wasted[t] + 1
         /\ leaked'[t] # leaked[t] => pk[p].to = t /\ pk[p].own /\ Cut
         /\ leaked'[t].down = leaked[t].down
         /\ leaked'[t].up <= leaked[t].up + 1
<1>0. leaked[t].up \in Nat
  BY DEF MovedType
<1>1. pk[p].own \in BOOLEAN /\ pk[p].to \in Streams \cup {None}
  BY DEF PkType, Handlers
<1>2. CASE pk[p].to = None
  BY <1>0, <1>2 DEF Sent
<1>3. CASE pk[p].to # None
  <2>1. Forward(pk[p].to, pk[p].own) /\ pk[p].to \in Streams
    BY <1>1, <1>3 DEF Sent
  <2>2. /\ \A u \in Streams \ {pk[p].to} : wasted'[u] = wasted[u] /\ leaked'[u] = leaked[u]
        /\ pk[p].to \notin closed => wasted' = wasted
        /\ pk[p].to \in closed => wasted'[pk[p].to] = wasted[pk[p].to] + 1
        /\ ~ Cut \/ ~ pk[p].own => leaked' = leaked
        /\ leaked'[pk[p].to].down = leaked[pk[p].to].down
        /\ leaked'[pk[p].to].up <= leaked[pk[p].to].up + 1
    BY <1>1, <2>1, ForwardMoved
  <2>3. CASE t = pk[p].to
    BY <2>2, <2>3
  <2>4. CASE t # pk[p].to
    BY <1>0, <2>2, <2>4
  <2>. QED
    BY <2>3, <2>4
<1>. QED
  BY <1>2, <1>3

LEMMA PacketFrame ==
  ASSUME Base, NEW p \in Packets, Packet(p)
  PROVE  /\ PkType' /\ Addressed' /\ LinkType' /\ MovedType'
         /\ UNCHANGED <<request, pump, up, queue, maps, gone, shared, owed>>
         /\ \A r \in Packets \ {p} : pk'[r] = pk[r]
         /\ \/ /\ pk[p].at = "idle" /\ pk'[p].at = "body"
               /\ pk'[p].to \notin closed
               /\ UNCHANGED <<link, moved>>
            \/ pk'[p] = Idle /\ pk[p].at # "idle" /\ UNCHANGED <<link, moved>>
            \/ /\ pk[p].at = "body" /\ pk'[p] = [pk[p] EXCEPT !.at = "throttle"]
               /\ pk[p].own => QuotaAllows(link, 1)
               /\ UNCHANGED <<link, moved>>
            \/ pk'[p] = Idle /\ pk[p].at = "throttle" /\ Sent(p)
<1>0. /\ LinkType /\ TaskType /\ PkType /\ MapType /\ MovedType /\ Addressed
      /\ pk[p] \in Handlers /\ Idle \in Handlers /\ Idle.at = "idle"
  BY DEF Base, PkType, Handlers, Idle
<1>1. CASE \E own \in BOOLEAN, s \in Streams \cup {None} : Lookup(p, own, s)
  <2>1. PICK own \in BOOLEAN, s \in Streams \cup {None} : Lookup(p, own, s)
    BY <1>1
  <2> DEFINE h == [at |-> "body", to |-> s, own |-> own]
  <2>2. /\ s # None => s \notin closed /\ pump[s] # "off"
        /\ pk[p].at = "idle" /\ pk' = [pk EXCEPT ![p] = h]
        /\ UNCHANGED <<link, request, pump, up, queue, maps, gone, shared, history>>
    BY <1>0, <2>1 DEF Lookup
  <2>3. h \in Handlers /\ h.at = "body" /\ h.to = s
    BY DEF Handlers
  <2>4. s \notin closed
    BY <1>0, <2>2, XHttpAssumption DEF MapType
  <2> HIDE DEF h
  <2>5. PkType' /\ Addressed'
    BY <1>0, <2>2, <2>3 DEF PkType, Addressed
  <2>. QED
    BY <1>0, <2>2, <2>3, <2>4, <2>5 DEF PkType, LinkType, MovedType, history, moved
<1>2. CASE PacketRead(p)
  <2> DEFINE h == [pk[p] EXCEPT !.at = "throttle"]
  <2>1. PICK ok \in BOOLEAN : /\ pk[p].own => ok = QuotaAllows(link, 1)
                              /\ pk' = [pk EXCEPT ![p] = IF ok THEN h ELSE Idle]
    BY <1>2 DEF PacketRead
  <2>2. /\ pk[p].at = "body" /\ ReadOne
        /\ UNCHANGED <<link, request, pump, up, queue, maps, gone, shared, moved>>
    BY <1>2 DEF PacketRead
  <2>3. h \in Handlers /\ h.at = "throttle" /\ h.to = pk[p].to
    BY <1>0 DEF Handlers
  <2> HIDE DEF h
  <2>4. \/ pk'[p] = Idle
        \/ pk'[p] = h /\ (pk[p].own => QuotaAllows(link, 1))
    <3>1. CASE ok = TRUE
      <4>1. pk'[p] = h
        BY <1>0, <2>1, <3>1 DEF PkType
      <4>2. pk[p].own => QuotaAllows(link, 1)
        BY <2>1, <3>1, Zenon
      <4>. QED
        BY <4>1, <4>2
    <3>2. CASE ok = FALSE
      BY <1>0, <2>1, <3>2 DEF PkType
    <3>. QED
      BY <3>1, <3>2
  <2>5. PkType' /\ Addressed' /\ \A r \in Packets \ {p} : pk'[r] = pk[r]
    BY <1>0, <2>1, <2>2, <2>3 DEF PkType, Addressed
  <2>6. LinkType' /\ MovedType'
    BY <1>0, <2>2, ReadOneLoad DEF LinkType, MovedType, moved
  <2>. QED
    BY <2>2, <2>4, <2>5, <2>6 DEF h, moved
<1>3. CASE PacketEmpty(p)
  <2>1. /\ pk[p].at = "body" /\ pk' = [pk EXCEPT ![p] = Idle]
        /\ UNCHANGED <<link, request, pump, up, queue, maps, gone, shared, history>>
    BY <1>3 DEF PacketEmpty
  <2>2. PkType' /\ Addressed'
    BY <1>0, <2>1 DEF PkType, Addressed
  <2>. QED
    BY <1>0, <2>1, <2>2 DEF PkType, LinkType, MovedType, history, moved
<1>4. CASE PacketCount(p)
  <2>1. /\ pk[p].at = "throttle" /\ pk' = [pk EXCEPT ![p] = Idle]
        /\ UNCHANGED <<request, pump, up, queue, maps, gone, shared, owed, load>>
    BY <1>4 DEF PacketCount
  <2>2. PkType' /\ Addressed'
    BY <1>0, <2>1 DEF PkType, Addressed
  <2>3. Sent(p)
    BY <1>4 DEF PacketCount, Sent
  <2>4. LinkType' /\ MovedType'
    BY <1>0, <2>1, <2>3, SentMoved
  <2>. QED
    BY <1>0, <2>1, <2>2, <2>3, <2>4 DEF PkType
<1>. QED
  BY <1>1, <1>2, <1>3, <1>4 DEF Packet

(* What becomes of the chunks that leaked when the link is changed. *)
LEMMA ChangedFrame ==
  ASSUME LinkType, Changed
  PROVE  /\ LinkType'
         /\ UNCHANGED <<request, pump, up, pk, queue, maps, gone, shared, owed, wasted>>
         /\ Cut' => UNCHANGED leaked
         /\ ~ Cut' => leaked' = [s \in Streams |-> Nothing]
         /\ link' # None => link # None /\ link'.maxIps = link.maxIps
<1>0. link \in Links \cup {None} /\ load \in LoadSet /\ None \notin Links
  BY XHttpAssumption DEF LinkType
<1>1. ASSUME NEW l \in Links \cup {None}, Administer(l),
             l # None => link # None /\ l.maxIps = link.maxIps
      PROVE  /\ LinkType'
             /\ UNCHANGED <<request, pump, up, pk, queue, maps, gone, shared, owed, wasted>>
             /\ Cut' => UNCHANGED leaked
             /\ ~ Cut' => leaked' = [s \in Streams |-> Nothing]
             /\ link' # None => link # None /\ link'.maxIps = link.maxIps
  <2>1. link' = l /\ UNCHANGED load
    BY <1>1 DEF Administer
  <2>2. Cut' <=> Severed(l)
    BY <2>1 DEF Cut, Severed
  <2>. QED
    BY <1>0, <1>1, <2>1, <2>2 DEF Administer, LinkType
<1>2. ASSUME NEW b \in BOOLEAN, SetActive(b)
      PROVE  \E l \in Links \cup {None} :
               Administer(l) /\ (l # None => link # None /\ l.maxIps = link.maxIps)
  <2>1. link \in Links /\ Administer([link EXCEPT !.active = b]) /\ link # None
    BY <1>0, <1>2 DEF SetActive
  <2>2. [link EXCEPT !.active = b] \in Links
        /\ [link EXCEPT !.active = b].maxIps = link.maxIps
    BY <2>1 DEF Links
  <2>. QED
    BY <2>1, <2>2
<1>3. CASE DeleteLink
  BY <1>1, <1>3 DEF DeleteLink
<1>. QED
  BY <1>1, <1>2, <1>3 DEF Changed

LEMMA BaseStep ==
  ASSUME Base, [Next]_vars
  PROVE  Base'
<1>1. \/ \E s \in Streams : Admits(s) \/ Tears(s) \/ Flows(s)
      \/ \E p \in Packets : Packet(p)
      \/ Changed
      \/ UNCHANGED vars
  BY NextCases DEF Base
<1>2. CASE \E s \in Streams : Admits(s) \/ Tears(s) \/ Flows(s)
  BY <1>2, AdmitsBase, TearsBase, FlowsBase
<1>3. ASSUME NEW p \in Packets, Packet(p)
      PROVE  Base'
  <2>1. /\ PkType' /\ Addressed' /\ LinkType' /\ MovedType'
        /\ UNCHANGED <<request, pump, up, queue, maps, gone, shared, owed>>
    BY <1>3, PacketFrame
  <2>2. TaskType' /\ QueueType' /\ QueueFits' /\ MapType' /\ OwedType' /\ Keyed' /\ Covered'
    BY <2>1 DEF Base, TaskType, QueueType, QueueFits, MapType, OwedType, Keyed, Covered,
       Open, request, maps
  <2>3. Shape'
    <3>1. \A s \in Streams : pc[s] \in {"off", "body", "dial"} => leaked'[s] = leaked[s]
      <4>1. CASE UNCHANGED leaked
        BY <4>1
      <4>2. CASE pk[p].at = "throttle" /\ Sent(p) /\ pk[p].to # None
        <5>1. pk[p].to \in Streams /\ pk[p].own \in BOOLEAN
          BY <4>2 DEF Base, PkType, Handlers
        <5>2. pc[pk[p].to] \notin {"off", "body", "dial"}
          BY <4>2, <5>1 DEF Base, Addressed, Shape
        <5>. QED
          BY <4>2, <5>1, <5>2, ForwardMoved DEF Base, Sent
      <4>. QED
        BY <1>3, <4>1, <4>2, PacketFrame DEF moved, Sent
    <3>. QED
      BY <2>1, <3>1 DEF Base, Shape, request, maps
  <2>. QED
    BY <2>1, <2>2, <2>3 DEF Base
<1>4. CASE Changed
  <2>1. /\ LinkType'
        /\ UNCHANGED <<request, pump, up, pk, queue, maps, gone, shared, owed, wasted>>
        /\ UNCHANGED leaked \/ leaked' = [s \in Streams |-> Nothing]
    BY <1>4, ChangedFrame DEF Base
  <2>2. MovedType'
    BY <2>1 DEF Base, MovedType, Nothing
  <2>3. /\ TaskType' /\ PkType' /\ QueueType' /\ QueueFits' /\ MapType' /\ OwedType'
        /\ Addressed' /\ Keyed' /\ Covered' /\ Shape'
    BY <2>1 DEF Base, TaskType, PkType, QueueType, QueueFits, MapType, OwedType, Addressed,
       Keyed, Covered, Shape, Open, request, maps
  <2>. QED
    BY <2>1, <2>2, <2>3 DEF Base
<1>5. CASE UNCHANGED vars
  BY <1>5 DEF Base, vars, LinkType, TaskType, PkType, QueueType, QueueFits, MapType,
     OwedType, MovedType, Shape, Addressed, Keyed, Covered, Open
<1>. QED
  BY <1>1, <1>2, <1>3, <1>4, <1>5

LEMMA AlwaysBase == Spec => []Base
<1>1. Init => Base
  BY BaseInit
<1>2. Base /\ [Next]_vars => Base'
  BY BaseStep
<1>. QED
  BY <1>1, <1>2, PTL DEF Spec

(* In every reachable state every variable has its type; no queue ever     *)
(* holds more than DOWNLINK_QUEUE_MAX items (xhttp.py:24, 92, 122).        *)
THEOREM TypeCorrect == Spec => []TypeOK
<1>1. Base => TypeOK
  BY DEF Base, TypeOK, LinkType, TaskType, PkType, QueueType, QueueFits, MapType,
     OwedType, MovedType, PumpStages
<1>. QED
  BY <1>1, AlwaysBase, PTL

-----------------------------------------------------------------------------
(* Sessions and registrations.                                             *)

Exact == Base /\ SessionExact /\ Distinct

(* A step that starts, ends and registers nothing. *)
Settled ==
  /\ UNCHANGED <<sid, ip, maps, shared>>
  /\ \A s \in Streams : /\ pc'[s] = "off" <=> pc[s] = "off"
                        /\ pc'[s] = "done" <=> pc[s] = "done"
                        /\ pump'[s] = "done" <=> pump[s] = "done"
                        /\ Ended(s) => pc'[s] = pc[s] /\ pump'[s] = pump[s]

LEMMA SettledSteps ==
  ASSUME Base,
         \/ \E s \in Streams : Flows(s)
         \/ \E p \in Packets : Packet(p)
         \/ Changed
         \/ UNCHANGED vars
  PROVE  Settled
<1>1. ASSUME NEW s \in Streams, Flows(s)
      PROVE  Settled
  <2>1. Frame(s)
    BY <1>1, FlowsFrame DEF Base
  <2>. QED
    BY <2>1 DEF Frame, Settled, Ended
<1>2. ASSUME NEW p \in Packets, Packet(p)
      PROVE  Settled
  <2>1. UNCHANGED <<request, pump, maps, shared>>
    BY <1>2, PacketFrame
  <2>. QED
    BY <2>1 DEF Settled, Ended, request
<1>3. CASE Changed
  <2>1. UNCHANGED <<request, pump, maps, shared>>
    BY <1>3, ChangedFrame DEF Base
  <2>. QED
    BY <2>1 DEF Settled, Ended, request
<1>4. CASE UNCHANGED vars
  BY <1>4 DEF vars, Settled, Ended, maps
<1>. QED
  BY <1>1, <1>2, <1>3, <1>4

LEMMA ExactSettled ==
  ASSUME Exact, Settled
  PROVE  SessionExact' /\ Distinct'
<1>1. SessionExact'
  BY DEF Exact, SessionExact, Settled, Open, maps
<1>2. Distinct'
  <2>. SUFFICES ASSUME NEW s \in Streams \ shared', NEW t \in Streams, s # t,
                       pc'[s] # "off", ~ Ended(s)',
                       pc'[t] # "off", ~ Ended(t)'
                PROVE  ConnOf[sid'[s]] # ConnOf[sid'[t]]
    BY DEF Distinct, Ended
  <2>1. pc[s] # "off" /\ pc[t] # "off" /\ ~ Ended(s) /\ ~ Ended(t) /\ s \notin shared
    BY DEF Settled, Ended
  <2>. QED
    BY <2>1 DEF Exact, Distinct, Settled
<1>. QED
  BY <1>1, <1>2

LEMMA ExactAdmits ==
  ASSUME Exact, NEW s \in Streams, Admits(s)
  PROVE  SessionExact' /\ Distinct'
<1>1. PICK id \in load.ids, a \in load.addresses : Admit(s, id, a)
  BY DEF Admits
<1>2. id \in SessionIds /\ ConnOf[id] \in Conns
  BY DEF Exact, Base, LinkType, LoadSet, Conns
<1>3. /\ pc[s] = "off" /\ pc' = [pc EXCEPT ![s] = "body"]
      /\ sid' = [sid EXCEPT ![s] = id] /\ ip' = [ip EXCEPT ![s] = a]
      /\ sessions' = [sessions EXCEPT ![id] = s]
      /\ registry' = [registry EXCEPT ![ConnOf[id]] = a]
      /\ UNCHANGED <<pump, closed>>
  BY <1>1 DEF Admit, Goto
<1> DEFINE met == {t \in Streams : /\ pc[t] # "off" /\ ~ Ended(t)
                                   /\ ConnOf[sid[t]] = ConnOf[id]}
<1>4. shared' = IF met = {} THEN shared ELSE shared \cup met \cup {s}
  BY <1>1 DEF Admit
<1>5. /\ shared \subseteq shared'
      /\ \A t \in Streams : t \notin shared' => t \notin met
      /\ s \notin shared' => \A t \in Streams : t \notin met
  BY <1>4
<1>6. \A t \in Streams : t \notin met => pc[t] = "off" \/ Ended(t)
                                           \/ ConnOf[sid[t]] # ConnOf[id]
  OBVIOUS
<1> HIDE DEF met
<1>7. SessionExact'
  <2>. SUFFICES ASSUME NEW t \in Streams \ shared'
                PROVE  /\ pc'[t] = "done" \/ pump'[t] = "done" => t \in closed'
                       /\ \A i \in SessionIds :
                            sessions'[i] = t
                              <=> (pc'[t] # "off" /\ t \notin closed') /\ sid'[t] = i
                       /\ (pc'[t] # "off" /\ t \notin closed')
                            => registry'[ConnOf[sid'[t]]] = ip'[t]
    BY DEF SessionExact, Open
  <2>1. CASE t = s
    <3>1. /\ pc'[s] = "body" /\ s \notin closed' /\ sid'[s] = id /\ ip'[s] = a
          /\ pump'[s] # "done"
      BY <1>3 DEF Exact, Base, TaskType, Shape
    <3>2. registry'[ConnOf[id]] = a
      BY <1>2, <1>3 DEF Exact, Base, MapType
    <3>3. \A i \in SessionIds : sessions[i] # s
      <4>. None # s
        BY XHttpAssumption
      <4>. QED
        BY <1>3 DEF Exact, Base, Keyed, Open
    <3>4. \A i \in SessionIds : sessions'[i] = s <=> i = id
      BY <1>2, <1>3, <3>3 DEF Exact, Base, MapType
    <3>. QED
      BY <2>1, <3>1, <3>2, <3>4
  <2>2. CASE t # s
    <3>1. pc'[t] = pc[t] /\ sid'[t] = sid[t] /\ ip'[t] = ip[t] /\ t \notin shared
      BY <1>3, <1>5, <2>2 DEF Exact, Base, TaskType
    <3>2. /\ pc[t] = "done" \/ pump[t] = "done" => t \in closed
          /\ \A i \in SessionIds : sessions[i] = t <=> Open(t) /\ sid[t] = i
          /\ Open(t) => registry[ConnOf[sid[t]]] = ip[t]
      BY <3>1 DEF Exact, SessionExact
    <3>3. Open(t) => ConnOf[sid[t]] # ConnOf[id] /\ sid[t] \in SessionIds
      BY <1>5, <1>6, <3>2 DEF Open, Ended, Exact, Base, Shape
    <3>4. Open(t) => registry'[ConnOf[sid[t]]] = ip[t]
      BY <1>3, <3>2, <3>3 DEF Exact, Base, MapType
    <3>5. \A i \in SessionIds : sessions'[i] = t <=> Open(t) /\ sid[t] = i
      BY <1>2, <1>3, <2>2, <3>2, <3>3 DEF Exact, Base, MapType
    <3>. QED
      BY <1>3, <3>1, <3>2, <3>4, <3>5 DEF Open
  <2>. QED
    BY <2>1, <2>2
<1>8. Distinct'
  <2>. SUFFICES ASSUME NEW t \in Streams \ shared', NEW u \in Streams, t # u,
                       pc'[t] # "off", ~ Ended(t)',
                       pc'[u] # "off", ~ Ended(u)'
                PROVE  ConnOf[sid'[t]] # ConnOf[sid'[u]]
    BY DEF Distinct, Ended
  <2>1. \A x \in Streams : x # s => pc'[x] = pc[x] /\ sid'[x] = sid[x] /\ pump'[x] = pump[x]
    BY <1>3 DEF Exact, Base, TaskType
  <2>2. sid'[s] = id
    BY <1>3 DEF Exact, Base, TaskType
  <2>3. CASE t = s
    <3>1. u # s /\ pc[u] # "off" /\ ~ Ended(u)
      BY <2>1, <2>3 DEF Ended
    <3>2. ConnOf[sid[u]] # ConnOf[id]
      BY <1>5, <1>6, <2>3, <3>1
    <3>. QED
      BY <2>1, <2>2, <2>3, <3>1, <3>2
  <2>4. CASE t # s /\ u = s
    <3>1. pc[t] # "off" /\ ~ Ended(t)
      BY <2>1, <2>4 DEF Ended
    <3>2. ConnOf[sid[t]] # ConnOf[id]
      BY <1>5, <1>6, <3>1
    <3>. QED
      BY <2>1, <2>2, <2>4, <3>2
  <2>5. CASE t # s /\ u # s
    <3>1. pc[t] # "off" /\ ~ Ended(t) /\ pc[u] # "off" /\ ~ Ended(u) /\ t \notin shared
      BY <1>5, <2>1, <2>5 DEF Ended
    <3>. QED
      BY <2>1, <2>5, <3>1 DEF Exact, Distinct
  <2>. QED
    BY <2>3, <2>4, <2>5
<1>. QED
  BY <1>7, <1>8

LEMMA ExactTears ==
  ASSUME Exact, NEW s \in Streams, Tears(s)
  PROVE  SessionExact' /\ Distinct'
<1> DEFINE id == sid[s]
<1>1. /\ pc[s] # "off" /\ ~ Ended(s) /\ id \in SessionIds
      /\ UNCHANGED <<sid, ip, shared>>
  BY DEF Tears, Exact, Base, Shape
<1>2. \/ pc' = [pc EXCEPT ![s] = "done"] /\ UNCHANGED pump
      \/ pump[s] = "end" /\ pump' = [pump EXCEPT ![s] = "done"] /\ UNCHANGED pc
  BY DEF Tears
<1>3. /\ sessions' = [sessions EXCEPT ![id] = None]
      /\ registry' = IF sessions[id] = None THEN registry
                     ELSE [registry EXCEPT ![ConnOf[id]] = None]
      /\ closed' = closed \cup ({sessions[id]} \ {None})
  BY DEF Tears, Maps
<1> HIDE DEF id
<1>4. \A t \in Streams : t # s => pc'[t] = pc[t] /\ pump'[t] = pump[t]
  BY <1>2 DEF Exact, Base, TaskType
<1>5. SessionExact'
  <2>. SUFFICES ASSUME NEW t \in Streams \ shared
                PROVE  /\ pc'[t] = "done" \/ pump'[t] = "done" => t \in closed'
                       /\ \A i \in SessionIds :
                            sessions'[i] = t
                              <=> (pc'[t] # "off" /\ t \notin closed') /\ sid[t] = i
                       /\ (pc'[t] # "off" /\ t \notin closed')
                            => registry'[ConnOf[sid[t]]] = ip[t]
    BY <1>1 DEF SessionExact, Open
  <2>1. /\ pc[t] = "done" \/ pump[t] = "done" => t \in closed
        /\ \A i \in SessionIds : sessions[i] = t <=> Open(t) /\ sid[t] = i
        /\ Open(t) => registry[ConnOf[sid[t]]] = ip[t]
        /\ t # None
    BY XHttpAssumption DEF Exact, SessionExact
  <2>2. CASE t = s
    <3>1. s \in closed'
      BY <1>1, <1>3, <2>1, <2>2 DEF Open, id
    <3>2. \A i \in SessionIds : sessions'[i] # s
      BY <1>1, <1>3, <2>1, <2>2 DEF Exact, Base, MapType, id
    <3>. QED
      BY <2>2, <3>1, <3>2
  <2>3. CASE t # s
    <3>1. Open(t) => ConnOf[sid[t]] # ConnOf[id] /\ sid[t] \in SessionIds
      <4>1. Open(t) => pc[t] # "off" /\ ~ Ended(t) /\ sid[t] \in SessionIds
        BY <2>1 DEF Open, Ended, Exact, Base, Shape
      <4>. QED
        BY <1>1, <2>3, <4>1 DEF Exact, Distinct, id
    <3>2. Open(t) => sid[t] # id /\ t # sessions[id]
      BY <1>1, <2>1, <3>1
    <3>3. Open(t) <=> (pc'[t] # "off" /\ t \notin closed')
      BY <1>3, <1>4, <2>3, <3>2 DEF Open
    <3>4. \A i \in SessionIds : sessions'[i] = t <=> Open(t) /\ sid[t] = i
      BY <1>1, <1>3, <2>1, <3>2 DEF Exact, Base, MapType
    <3>5. Open(t) => registry'[ConnOf[sid[t]]] = ip[t]
      BY <1>3, <2>1, <3>1 DEF Exact, Base, MapType
    <3>. QED
      BY <1>3, <1>4, <2>1, <2>3, <3>3, <3>4, <3>5
  <2>. QED
    BY <2>2, <2>3
<1>6. Distinct'
  <2>. SUFFICES ASSUME NEW t \in Streams \ shared', NEW u \in Streams, t # u,
                       pc'[t] # "off", ~ Ended(t)',
                       pc'[u] # "off", ~ Ended(u)'
                PROVE  ConnOf[sid'[t]] # ConnOf[sid'[u]]
    BY DEF Distinct, Ended
  <2>1. pc[t] # "off" /\ ~ Ended(t) /\ pc[u] # "off" /\ ~ Ended(u) /\ t \notin shared
    BY <1>1, <1>4 DEF Ended
  <2>. QED
    BY <1>1, <2>1 DEF Exact, Distinct
<1>. QED
  BY <1>5, <1>6

LEMMA ExactInit ==
  ASSUME Init
  PROVE  Exact
<1>1. None \notin Streams
  BY XHttpAssumption
<1>2. SessionExact
  BY <1>1 DEF Init, SessionExact, Open
<1>3. Distinct
  BY DEF Init, Distinct
<1>. QED
  BY <1>2, <1>3, BaseInit DEF Exact

LEMMA ExactStep ==
  ASSUME Exact, [Next]_vars
  PROVE  Exact'
<1>1. \/ \E s \in Streams : Admits(s) \/ Tears(s) \/ Flows(s)
      \/ \E p \in Packets : Packet(p)
      \/ Changed
      \/ UNCHANGED vars
  BY NextCases DEF Exact, Base
<1>2. Base'
  BY BaseStep DEF Exact
<1>3. CASE \E s \in Streams : Admits(s) \/ Tears(s)
  BY <1>2, <1>3, ExactAdmits, ExactTears DEF Exact
<1>4. CASE ~ \E s \in Streams : Admits(s) \/ Tears(s)
  <2>1. Settled
    BY <1>1, <1>4, SettledSteps DEF Exact
  <2>. QED
    BY <1>2, <2>1, ExactSettled DEF Exact
<1>. QED
  BY <1>3, <1>4

LEMMA AlwaysExact == Spec => []Exact
<1>1. Init => Exact
  BY ExactInit
<1>2. Exact /\ [Next]_vars => Exact'
  BY ExactStep
<1>. QED
  BY <1>1, <1>2, PTL DEF Spec

(* A request that met no other has its session and its registration as     *)
(* long as it runs, and not after (xhttp.py:50-73, 95-97, 188): neither    *)
(* another's teardown nor the order of its own two can change that.        *)
THEOREM SessionsAreExact == Spec => []SessionExact
<1>1. Exact => SessionExact
  BY DEF Exact
<1>. QED
  BY <1>1, AlwaysExact, PTL

LEMMA RegistryStep ==
  ASSUME Base, RegistryExact, [Next]_vars
  PROVE  RegistryExact'
<1>1. \/ \E s \in Streams : Admits(s) \/ Tears(s) \/ Flows(s)
      \/ \E p \in Packets : Packet(p)
      \/ Changed
      \/ UNCHANGED vars
  BY NextCases DEF Base
<1>2. ASSUME NEW s \in Streams, Admits(s)
      PROVE  RegistryExact'
  <2>1. PICK id \in load.ids, a \in load.addresses : Admit(s, id, a)
    BY <1>2 DEF Admits
  <2>2. id \in SessionIds
    BY DEF Base, LinkType, LoadSet
  <2>3. /\ pc[s] = "off" /\ pc' = [pc EXCEPT ![s] = "body"]
        /\ sid' = [sid EXCEPT ![s] = id] /\ ip' = [ip EXCEPT ![s] = a]
        /\ registry' = [registry EXCEPT ![ConnOf[id]] = a]
        /\ UNCHANGED closed
    BY <2>1 DEF Admit, Goto
  <2>4. shared \subseteq shared'
    BY <2>1, Zenon DEF Admit
  <2>. SUFFICES ASSUME NEW c \in Conns, registry'[c] # None
                PROVE  \E t \in Streams : /\ pc'[t] # "off" /\ t \notin closed'
                                          /\ ConnOf[sid'[t]] = c
                                          /\ t \in shared' \/ registry'[c] = ip'[t]
    BY DEF RegistryExact, Open
  <2>5. CASE c = ConnOf[id]
    <3>1. /\ pc'[s] # "off" /\ s \notin closed' /\ ConnOf[sid'[s]] = c
          /\ registry'[c] = ip'[s]
      BY <2>2, <2>3, <2>5 DEF Base, TaskType, MapType, Shape
    <3>. QED
      BY <3>1
  <2>6. CASE c # ConnOf[id]
    <3>1. registry'[c] = registry[c]
      BY <2>3, <2>6 DEF Base, MapType
    <3>2. PICK t \in Streams : Open(t) /\ ConnOf[sid[t]] = c
                               /\ (t \in shared \/ registry[c] = ip[t])
      BY <3>1 DEF RegistryExact
    <3>3. t # s
      BY <2>3, <3>2 DEF Open
    <3>. QED
      BY <2>3, <2>4, <3>1, <3>2, <3>3 DEF Base, TaskType, Open
  <2>. QED
    BY <2>5, <2>6
<1>3. ASSUME NEW s \in Streams, Tears(s)
      PROVE  RegistryExact'
  <2>1. Maps(s) /\ UNCHANGED <<sid, ip, shared>> /\ pc[s] # "off" /\ sid[s] \in SessionIds
    BY <1>3 DEF Tears, Base, Shape
  <2>2. \A t \in Streams : pc[t] # "off" => pc'[t] # "off"
    BY <1>3 DEF Tears, Base, TaskType
  <2>. SUFFICES ASSUME NEW c \in Conns, registry'[c] # None
                PROVE  \E t \in Streams : /\ pc'[t] # "off" /\ t \notin closed'
                                          /\ ConnOf[sid'[t]] = c
                                          /\ t \in shared' \/ registry'[c] = ip'[t]
    BY DEF RegistryExact, Open
  <2>3. CASE sessions[sid[s]] = None
    <3>1. registry' = registry /\ closed' = closed
      BY <2>1, <2>3 DEF Maps
    <3>. QED
      BY <2>1, <2>2, <3>1 DEF RegistryExact, Open
  <2>4. CASE sessions[sid[s]] # None
    <3>1. c # ConnOf[sid[s]] /\ registry'[c] = registry[c]
      BY <2>1, <2>4 DEF Maps, Base, MapType
    <3>2. PICK t \in Streams : Open(t) /\ ConnOf[sid[t]] = c
                               /\ (t \in shared \/ registry[c] = ip[t])
      BY <3>1 DEF RegistryExact
    <3>3. t # sessions[sid[s]]
      BY <2>1, <2>4, <3>1, <3>2 DEF Base, Keyed
    <3>. QED
      BY <2>1, <2>2, <3>1, <3>2, <3>3 DEF Maps, Open
  <2>. QED
    BY <2>3, <2>4
<1>4. CASE ~ \E s \in Streams : Admits(s) \/ Tears(s)
  <2>1. Settled
    BY <1>1, <1>4, SettledSteps
  <2>. QED
    BY <2>1 DEF Settled, RegistryExact, Open, maps
<1>. QED
  BY <1>2, <1>3, <1>4

(* Every registration belongs to a session that is open, and shows its     *)
(* address unless requests met on the key (xhttp.py:50-73, 121-127): the   *)
(* device gate never counts a session that is over.                        *)
THEOREM RegistryIsExact == Spec => []RegistryExact
<1>1. Init => RegistryExact
  BY DEF Init, RegistryExact
<1>2. Base /\ RegistryExact /\ [Next]_vars => RegistryExact'
  BY RegistryStep
<1>. QED
  BY <1>1, <1>2, AlwaysBase, PTL DEF Spec

-----------------------------------------------------------------------------
(* The device limit.                                                       *)

LEMMA WithinStep ==
  ASSUME Base, Within, [Next]_vars
  PROVE  Within'
<1>0. link \in Links \cup {None} /\ None \notin Links /\ IsFiniteSet(ActiveIps)
  BY XHttpAssumption DEF Base, LinkType, Within
<1>1. \/ \E s \in Streams : Admits(s) \/ Tears(s) \/ Flows(s)
      \/ \E p \in Packets : Packet(p)
      \/ Changed
      \/ UNCHANGED vars
  BY NextCases DEF Base
<1>2. ASSUME NEW s \in Streams, Admits(s)
      PROVE  Within'
  <2>1. PICK id \in load.ids, a \in load.addresses : Admit(s, id, a)
    BY <1>2 DEF Admits
  <2>2. /\ IpAllowed(link, a, ActiveIps) /\ UNCHANGED link
        /\ registry' = [registry EXCEPT ![ConnOf[id]] = a]
    BY <2>1 DEF Admit
  <2>3. ActiveIps' \subseteq ActiveIps \cup {a}
    BY <2>2 DEF ActiveIps, Base, MapType
  <2>4. a = Unknown => ActiveIps' \subseteq ActiveIps
    BY <2>3 DEF ActiveIps
  <2>5. IsFiniteSet(ActiveIps \cup {a})
    BY <1>0, FS_AddElement
  <2>6. IsFiniteSet(ActiveIps')
    BY <2>3, <2>5, FS_Subset
  <2>7. ASSUME link # None, link.maxIps > 0
        PROVE  Cardinality(ActiveIps') <= link.maxIps
    <3>1. link.maxIps \in Nat /\ Cardinality(ActiveIps) \in Nat
          /\ Cardinality(ActiveIps') \in Nat /\ Cardinality(ActiveIps \cup {a}) \in Nat
      BY <1>0, <2>5, <2>6, <2>7, FS_CardinalityType DEF Links
    <3>2. Cardinality(ActiveIps) <= link.maxIps
      BY <2>7 DEF Within
    <3>3. CASE ActiveIps' \subseteq ActiveIps
      <4>1. Cardinality(ActiveIps') <= Cardinality(ActiveIps)
        BY <1>0, <3>3, FS_Subset
      <4>. QED
        BY <3>1, <3>2, <4>1
    <3>4. CASE ~ ActiveIps' \subseteq ActiveIps
      <4>1. a # Unknown /\ a \notin ActiveIps
        BY <2>3, <2>4, <3>4
      <4>2. Cardinality(ActiveIps) < link.maxIps
        BY <2>2, <2>7, <3>1, <4>1 DEF IpAllowed
      <4>3. Cardinality(ActiveIps \cup {a}) = Cardinality(ActiveIps) + 1
        BY <1>0, <4>1, FS_AddElement
      <4>4. Cardinality(ActiveIps') <= Cardinality(ActiveIps \cup {a})
        BY <2>3, <2>5, FS_Subset
      <4>. QED
        BY <3>1, <4>2, <4>3, <4>4
    <3>. QED
      BY <3>3, <3>4
  <2>. QED
    BY <2>2, <2>6, <2>7 DEF Within
<1>3. ASSUME NEW s \in Streams, Tears(s)
      PROVE  Within'
  <2>1. Maps(s) /\ UNCHANGED link
    BY <1>3 DEF Tears
  <2>2. ActiveIps' \subseteq ActiveIps
    BY <2>1 DEF Maps, ActiveIps, Base, MapType
  <2>3. IsFiniteSet(ActiveIps') /\ Cardinality(ActiveIps') <= Cardinality(ActiveIps)
    BY <1>0, <2>2, FS_Subset
  <2>4. Cardinality(ActiveIps') \in Nat /\ Cardinality(ActiveIps) \in Nat
    BY <1>0, <2>3, FS_CardinalityType
  <2>5. link # None => link.maxIps \in Nat
    BY <1>0 DEF Links
  <2>6. link # None /\ link.maxIps > 0 => Cardinality(ActiveIps') <= link.maxIps
    BY <2>3, <2>4, <2>5 DEF Within
  <2>. QED
    BY <2>1, <2>3, <2>6 DEF Within
<1>4. CASE ~ \E s \in Streams : Admits(s) \/ Tears(s)
  <2>1. ActiveIps' = ActiveIps
    <3>1. UNCHANGED registry
      BY <1>1, <1>4, SettledSteps DEF Settled, maps
    <3>. QED
      BY <3>1 DEF ActiveIps
  <2>2. link' # None => link # None /\ link'.maxIps = link.maxIps
    <3>1. CASE Count
      BY <3>1, CountLink DEF Base
    <3>2. CASE Changed
      BY <3>2, ChangedFrame DEF Base
    <3>3. CASE UNCHANGED link
      BY <3>3
    <3>4. ASSUME NEW s \in Streams, Flows(s)
          PROVE  Count \/ UNCHANGED link
      BY <3>4, FlowsLink DEF Base
    <3>5. ASSUME NEW p \in Packets, Packet(p)
          PROVE  Count \/ UNCHANGED link
      BY <3>5, PacketFrame DEF Sent
    <3>. QED
      BY <1>1, <1>4, <3>1, <3>2, <3>3, <3>4, <3>5 DEF vars
  <2>. QED
    BY <2>1, <2>2 DEF Within
<1>. QED
  BY <1>2, <1>3, <1>4

LEMMA AlwaysWithin == Spec => []Within
<1>1. Init => Within
  <2>. SUFFICES ASSUME Init
                PROVE  Within
    OBVIOUS
  <2>1. ActiveIps = {}
    BY DEF Init, ActiveIps
  <2>2. link # None => link.maxIps \in Nat
    BY XHttpAssumption DEF Init
  <2>. QED
    BY <2>1, <2>2, FS_EmptySet DEF Within
<1>2. Base /\ Within /\ [Next]_vars => Within'
  BY WithinStep
<1>. QED
  BY <1>1, <1>2, AlwaysBase, PTL DEF Spec

LEMMA OpenAreActive ==
  ASSUME Exact
  PROVE  OpenIps \subseteq ActiveIps
<1>. SUFFICES ASSUME NEW s \in Streams \ shared, Open(s), ip[s] # Unknown
              PROVE  ip[s] \in ActiveIps
  BY DEF OpenIps
<1>1. registry[ConnOf[sid[s]]] = ip[s] /\ ConnOf[sid[s]] \in Conns
  BY DEF Exact, SessionExact, Base, Shape, Open, Conns
<1>2. ip[s] # None
  BY XHttpAssumption DEF Exact, Base, TaskType
<1>. QED
  BY <1>1, <1>2 DEF ActiveIps

(* When a request from a new address is admitted, the addresses of open    *)
(* sessions are within the device limit (limiter.py, xhttp.py:114-127).    *)
THEOREM DevicesAreLimited == Spec => DeviceLimitAtAdmission
<1>1. ASSUME Exact, Within, [Next]_vars, NEW s \in Streams,
             pc[s] = "off", pc'[s] # "off",
             ip'[s] \notin OpenIps \cup {Unknown}, link.maxIps > 0
      PROVE  Cardinality(OpenIps \cup {ip'[s]}) <= link.maxIps
  <2>1. \/ \E t \in Streams : Admits(t) \/ Tears(t)
        \/ Settled
    BY <1>1, NextCases, SettledSteps DEF Exact, Base
  <2>2. PICK t \in Streams : Admits(t)
    BY <1>1, <2>1 DEF Settled, Tears, Exact, Base, TaskType
  <2>3. PICK id \in load.ids, a \in load.addresses : Admit(t, id, a)
    BY <2>2 DEF Admits
  <2>4. /\ QuotaAllows(link, 0) /\ IpAllowed(link, a, ActiveIps)
        /\ pc' = [pc EXCEPT ![t] = "body"] /\ ip' = [ip EXCEPT ![t] = a]
    BY <2>3 DEF Admit, Goto
  <2>5. t = s /\ ip'[s] = a
    BY <1>1, <2>4 DEF Exact, Base, TaskType
  <2>6. link # None /\ link.maxIps \in Nat /\ IsFiniteSet(ActiveIps)
    BY <1>1, <2>4 DEF QuotaAllows, Exact, Base, LinkType, Links, Within
  <2>7. OpenIps \subseteq ActiveIps
    BY <1>1, OpenAreActive
  <2>8. IsFiniteSet(ActiveIps \cup {a}) /\ OpenIps \cup {a} \subseteq ActiveIps \cup {a}
    BY <2>6, <2>7, FS_AddElement
  <2>9. IsFiniteSet(OpenIps \cup {a})
        /\ Cardinality(OpenIps \cup {a}) <= Cardinality(ActiveIps \cup {a})
    BY <2>8, FS_Subset
  <2>10. Cardinality(ActiveIps \cup {a}) <= link.maxIps
    <3>1. CASE a \in ActiveIps
      <4>1. ActiveIps \cup {a} = ActiveIps
        BY <3>1
      <4>. QED
        BY <1>1, <2>6, <4>1 DEF Within
    <3>2. CASE a \notin ActiveIps
      <4>1. Cardinality(ActiveIps \cup {a}) = Cardinality(ActiveIps) + 1
            /\ Cardinality(ActiveIps) \in Nat
        BY <2>6, <3>2, FS_AddElement, FS_CardinalityType
      <4>2. Cardinality(ActiveIps) < link.maxIps
        BY <1>1, <2>4, <2>5, <2>6, <3>2 DEF IpAllowed
      <4>. QED
        BY <2>6, <4>1, <4>2
    <3>. QED
      BY <3>1, <3>2
  <2>11. Cardinality(OpenIps \cup {a}) \in Nat /\ Cardinality(ActiveIps \cup {a}) \in Nat
    BY <2>8, <2>9, FS_CardinalityType
  <2>12. Cardinality(OpenIps \cup {a}) <= link.maxIps
    BY <2>6, <2>9, <2>10, <2>11
  <2>. QED
    BY <2>5, <2>12
<1>2. Exact /\ Within /\ [Next]_vars =>
        [\A s \in Streams :
           LET new == ip'[s] IN
           /\ pc[s] = "off" /\ pc'[s] # "off"
           /\ new \notin OpenIps \cup {Unknown}
           /\ link.maxIps > 0
           => Cardinality(OpenIps \cup {new}) <= link.maxIps]_vars
  BY <1>1
<1>. QED
  BY <1>2, AlwaysExact, AlwaysWithin, PTL DEF Spec, DeviceLimitAtAdmission

-----------------------------------------------------------------------------
(* The downlink.                                                           *)

LEMMA DownTypes ==
  ASSUME Base, NEW t \in Streams
  PROVE  /\ queue[t] \in Queues /\ queue[t].chunks \in Nat /\ queue[t].behind \in Nat
         /\ owed[t] \in Nat /\ leaked[t].down \in Nat /\ leaked[t].up \in Nat
         /\ wasted[t] \in Nat
BY DEF Base, QueueType, Queues, OwedType, MovedType

(* Nothing but an admission, a teardown or a flow touches the downlink.    *)
Still == UNCHANGED <<pc, pump, queue, owed, gone, shared>>

LEMMA DownCases ==
  ASSUME Base, [Next]_vars
  PROVE  (\E s \in Streams : Admits(s) \/ Tears(s) \/ Flows(s)) \/ Still
<1>1. \/ \E s \in Streams : Admits(s) \/ Tears(s) \/ Flows(s)
      \/ \E p \in Packets : Packet(p)
      \/ Changed
      \/ UNCHANGED vars
  BY NextCases DEF Base
<1>2. ASSUME NEW p \in Packets, Packet(p)
      PROVE  Still
  BY <1>2, PacketFrame DEF Still, request
<1>3. CASE Changed
  BY <1>3, ChangedFrame DEF Base, Still, request
<1>. QED
  BY <1>1, <1>2, <1>3 DEF Still, vars

LEMMA AdmitsStill ==
  ASSUME Base, NEW s \in Streams, Admits(s)
  PROVE  /\ UNCHANGED <<link, pump, up, pk, queue, closed, gone, owed, wasted, leaked>>
         /\ shared \subseteq shared'
         /\ pc[s] = "off" /\ pc'[s] = "body"
         /\ \A t \in Streams \ {s} : pc'[t] = pc[t]
<1>1. PICK id \in load.ids, a \in load.addresses : Admit(s, id, a)
  BY DEF Admits
<1>2. /\ pc[s] = "off" /\ pc' = [pc EXCEPT ![s] = "body"]
      /\ UNCHANGED <<link, pump, up, pk, queue, closed, gone, owed, wasted, leaked>>
  BY <1>1 DEF Admit, Goto, history, moved
<1>3. shared \subseteq shared'
  BY <1>1, Zenon DEF Admit
<1>. QED
  BY <1>2, <1>3 DEF Base, TaskType

LEMMA TearsStill ==
  ASSUME Base, NEW s \in Streams, Tears(s)
  PROVE  /\ UNCHANGED <<link, up, pk, gone, shared, owed, wasted, leaked>>
         /\ \A t \in Streams : /\ pc'[t] = "yield" => pc[t] = "yield"
                               /\ pc[t] \in {"yield", "done"} => pc'[t] \in {"yield", "done"}
                               /\ pc'[t] # "done" => pc'[t] = pc[t]
                               /\ pump'[t] = "put" <=> pump[t] = "put"
                               /\ pump'[t] = "throttle" <=> pump[t] = "throttle"
                               /\ queue'[t] \in Queues
                               /\ queue'[t].chunks = queue[t].chunks
                               /\ queue'[t].behind >= queue[t].behind
                               /\ t # s => pc'[t] = pc[t] /\ pump'[t] = pump[t]
<1>1. /\ UNCHANGED <<link, up, pk, gone, shared, owed, wasted, leaked>>
      /\ queue' \in [Streams -> Queues] /\ \A t \in Streams : Keeps(queue'[t], queue[t])
      /\ \/ pc' = [pc EXCEPT ![s] = "done"] /\ UNCHANGED pump
         \/ pump[s] = "end" /\ pump' = [pump EXCEPT ![s] = "done"] /\ UNCHANGED pc
  BY DEF Tears, Queued, history, moved
<1>2. \A t \in Streams : /\ pc'[t] = "yield" => pc[t] = "yield"
                         /\ pc[t] \in {"yield", "done"} => pc'[t] \in {"yield", "done"}
                         /\ pc'[t] # "done" => pc'[t] = pc[t]
                         /\ t # s => pc'[t] = pc[t] /\ pump'[t] = pump[t]
  BY <1>1 DEF Base, TaskType
<1>3. \A t \in Streams : /\ pump'[t] = "put" <=> pump[t] = "put"
                         /\ pump'[t] = "throttle" <=> pump[t] = "throttle"
  BY <1>1 DEF Base, TaskType
<1>. QED
  BY <1>1, <1>2, <1>3 DEF Keeps

LEMMA BoundedStep ==
  ASSUME Base, Bounded, [Next]_vars
  PROVE  Bounded'
<1>0. (\E s \in Streams : Admits(s) \/ Tears(s) \/ Flows(s)) \/ Still
  BY DownCases
<1>. SUFFICES ASSUME NEW t \in Streams
              PROVE  owed'[t] <= queue'[t].chunks + queue'[t].behind
                                   + InHand(pc'[t] \in {"yield", "done"})
                                   + InHand(pump'[t] = "put")
  BY DEF Bounded
<1>1. /\ queue[t] \in Queues
      /\ queue[t].chunks \in Nat /\ queue[t].behind \in Nat /\ owed[t] \in Nat
      /\ owed[t] <= queue[t].chunks + queue[t].behind
                      + InHand(pc[t] \in {"yield", "done"}) + InHand(pump[t] = "put")
  BY DownTypes DEF Bounded
<1>2. ASSUME NEW s \in Streams, Admits(s)
      PROVE  owed'[t] <= queue'[t].chunks + queue'[t].behind
                           + InHand(pc'[t] \in {"yield", "done"}) + InHand(pump'[t] = "put")
  <2>1. pc[t] \in {"yield", "done"} <=> pc'[t] \in {"yield", "done"}
    BY <1>2, AdmitsStill
  <2>2. UNCHANGED <<pump, queue, owed>>
    BY <1>2, AdmitsStill
  <2>. QED
    BY <1>1, <2>1, <2>2 DEF InHand
<1>3. ASSUME NEW s \in Streams, Tears(s)
      PROVE  owed'[t] <= queue'[t].chunks + queue'[t].behind
                           + InHand(pc'[t] \in {"yield", "done"}) + InHand(pump'[t] = "put")
  <2>1. /\ pc[t] \in {"yield", "done"} => pc'[t] \in {"yield", "done"}
        /\ pump'[t] = "put" <=> pump[t] = "put"
        /\ queue'[t].chunks = queue[t].chunks /\ queue'[t].behind >= queue[t].behind
        /\ queue'[t].behind \in Nat /\ owed'[t] = owed[t]
    BY <1>3, TearsStill DEF Queues
  <2>. QED
    BY <1>1, <2>1 DEF InHand
<1>4. ASSUME NEW s \in Streams, Flows(s)
      PROVE  owed'[t] <= queue'[t].chunks + queue'[t].behind
                           + InHand(pc'[t] \in {"yield", "done"}) + InHand(pump'[t] = "put")
  <2>1. /\ Frame(s)
        /\ \A u \in Streams \ {s} : queue'[u] = queue[u] /\ owed'[u] = owed[u]
        /\ \/ Calm(s) /\ UNCHANGED <<queue, owed>>
           \/ Sends(s) \/ Takes(s) \/ Counts(s) \/ Puts(s)
    BY <1>4, FlowsFrame, FlowsDown DEF Base
  <2>2. CASE t # s
    BY <1>1, <2>1, <2>2 DEF Frame
  <2>3. CASE t = s /\ Calm(s) /\ UNCHANGED <<queue, owed>>
    <3>1. /\ pc'[s] \in {"yield", "done"} <=> pc[s] \in {"yield", "done"}
          /\ pump'[s] = "put" <=> pump[s] = "put"
      BY <2>1, <2>3, CalmHands DEF Base, Frame
    <3>. QED
      BY <1>1, <2>3, <3>1 DEF InHand
  <2>4. CASE t = s /\ Sends(s)
    BY <1>1, <2>4 DEF Sends, InHand
  <2>5. CASE t = s /\ Takes(s)
    BY <1>1, <2>5 DEF Takes, InHand
  <2>6. CASE t = s /\ Counts(s)
    BY <1>1, <2>6 DEF Counts, InHand
  <2>7. CASE t = s /\ Puts(s)
    <3>1. queue'[t].chunks + queue'[t].behind = queue[t].chunks + queue[t].behind + 1
      BY <1>1, <2>7, QueueFacts DEF Puts
    <3>. QED
      BY <1>1, <2>7, <3>1 DEF Puts, InHand
  <2>. QED
    BY <2>1, <2>2, <2>3, <2>4, <2>5, <2>6, <2>7
<1>5. CASE Still
  BY <1>1, <1>5 DEF Still
<1>. QED
  BY <1>0, <1>2, <1>3, <1>4, <1>5

(* Delivering, for one request. *)
Delivers(s) ==
  /\ queue[s].ended /\ pc[s] # "done" => pump[s] = "done"
  /\ pc[s] = "done" /\ s \notin gone => pump[s] \in {"off", "done"} /\ owed[s] = 0
  /\ pc[s] # "done" =>
       owed[s] = queue[s].chunks + InHand(pc[s] = "yield") + InHand(pump[s] = "put")

LEMMA DeliversTears ==
  ASSUME Exact, NEW s \in Streams, Tears(s), NEW t \in Streams \ shared, Delivers(t)
  PROVE  Delivers(t)'
<1>0. /\ queue[t].chunks \in Nat /\ owed[t] \in Nat
      /\ queue[t].ended /\ pc[t] # "done" => pump[t] = "done"
      /\ pc[t] = "done" /\ t \notin gone => pump[t] \in {"off", "done"} /\ owed[t] = 0
      /\ pc[t] # "done" =>
           owed[t] = queue[t].chunks + InHand(pc[t] = "yield") + InHand(pump[t] = "put")
  BY DownTypes DEF Delivers, Exact
<1>1. /\ UNCHANGED <<gone, owed>>
      /\ pc'[t] # "done" => pc'[t] = pc[t]
      /\ pump'[t] = "put" <=> pump[t] = "put"
      /\ queue'[t].chunks = queue[t].chunks
      /\ t # s => pc'[t] = pc[t] /\ pump'[t] = pump[t]
  BY TearsStill DEF Exact
<1>2. queue'[t].ended /\ pc'[t] # "done" => pump'[t] = "done"
  <2>1. CASE t = s
    BY <2>1 DEF Tears, Exact, Base, TaskType
  <2>2. CASE t # s
    <3>1. pc[t] # "off" /\ pc[t] # "done" => t # sessions[sid[s]]
      <4>. SUFFICES ASSUME pc[t] # "off", pc[t] # "done", t = sessions[sid[s]]
                    PROVE  FALSE
        OBVIOUS
      <4>1. pc[s] # "off" /\ ~ Ended(s) /\ sid[s] \in SessionIds /\ t # None
        BY XHttpAssumption DEF Tears, Exact, Base, Shape
      <4>2. sid[t] = sid[s] /\ t \notin closed
        BY <4>1 DEF Exact, Base, Keyed, Open
      <4>3. ~ Ended(t)
        BY <4>2 DEF Exact, SessionExact, Base, Shape, Ended
      <4>. QED
        BY <2>2, <4>1, <4>2, <4>3 DEF Exact, Distinct
    <3>2. pc[t] = "off" => t # sessions[sid[s]]
      <4>1. sid[s] \in SessionIds /\ t # None
        BY XHttpAssumption DEF Tears, Exact, Base, Shape
      <4>. QED
        BY <4>1 DEF Exact, Base, Keyed, Open
    <3>3. pc[t] # "done" => queue'[t] = queue[t]
      BY <2>2, <3>1, <3>2 DEF Tears, Queued
    <3>. QED
      BY <1>0, <1>1, <2>2, <3>3
  <2>. QED
    BY <2>1, <2>2
<1>3. pc'[t] = "done" /\ t \notin gone' => pump'[t] \in {"off", "done"} /\ owed'[t] = 0
  <2>1. CASE t # s \/ pc[t] = "done"
    <3>1. CASE t # s
      BY <1>0, <1>1, <3>1
    <3>2. CASE t = s /\ pc[t] = "done"
      BY <1>0, <1>1, <3>2 DEF Tears, Ended
    <3>. QED
      BY <2>1, <3>1, <3>2
  <2>2. CASE t = s /\ pc[s] # "done" /\ pc' = [pc EXCEPT ![s] = "done"] /\ UNCHANGED pump
    <3>1. \/ pc[s] \in Setup \/ s \in gone
          \/ pc[s] = "get" /\ queue[s].ended /\ queue[s].chunks = 0
      BY <2>2 DEF Tears, Exact, Base, TaskType
    <3>2. CASE pc[s] \in Setup
      BY <1>1, <2>2, <3>2 DEF Setup, Exact, Base, Shape
    <3>3. CASE s \in gone
      BY <1>1, <2>2, <3>3
    <3>4. CASE pc[s] = "get" /\ queue[s].ended /\ queue[s].chunks = 0
      BY <1>0, <1>1, <2>2, <3>4 DEF InHand
    <3>. QED
      BY <3>1, <3>2, <3>3, <3>4
  <2>3. CASE UNCHANGED pc
    BY <2>1, <2>3
  <2>. QED
    BY <2>1, <2>2, <2>3 DEF Tears
<1>4. pc'[t] # "done" =>
        owed'[t] = queue'[t].chunks + InHand(pc'[t] = "yield") + InHand(pump'[t] = "put")
  BY <1>0, <1>1
<1>. QED
  BY <1>2, <1>3, <1>4 DEF Delivers

LEMMA DeliversFlows ==
  ASSUME Base, NEW s \in Streams, Flows(s), NEW t \in Streams, Delivers(t)
  PROVE  Delivers(t)'
<1>0. /\ queue[t] \in Queues /\ queue[t].chunks \in Nat /\ owed[t] \in Nat
      /\ queue[t].ended /\ pc[t] # "done" => pump[t] = "done"
      /\ pc[t] = "done" /\ t \notin gone => pump[t] \in {"off", "done"} /\ owed[t] = 0
      /\ pc[t] # "done" =>
           owed[t] = queue[t].chunks + InHand(pc[t] = "yield") + InHand(pump[t] = "put")
  BY DownTypes DEF Delivers
<1>1. /\ Frame(s)
      /\ \A u \in Streams \ {s} : queue'[u] = queue[u] /\ owed'[u] = owed[u]
      /\ \/ Calm(s) /\ UNCHANGED <<queue, owed>>
         \/ Sends(s) \/ Takes(s) \/ Counts(s) \/ Puts(s)
  BY FlowsFrame, FlowsDown DEF Base
<1>2. /\ pc'[t] = "done" <=> pc[t] = "done"
      /\ pump[t] = "done" => pump'[t] = "done"
      /\ pc[t] = "done" /\ pump[t] \in {"off", "done"} => pump'[t] = pump[t]
      /\ gone \subseteq gone'
  BY <1>1 DEF Frame, Ended
<1>3. CASE t # s
  <2>1. pc'[t] = pc[t] /\ pump'[t] = pump[t] /\ queue'[t] = queue[t] /\ owed'[t] = owed[t]
    BY <1>1, <1>3 DEF Frame
  <2>. QED
    BY <1>0, <1>2, <2>1 DEF Delivers
<1>4. CASE t = s /\ Calm(s) /\ UNCHANGED <<queue, owed>>
  <2>1. /\ pc'[t] = "yield" <=> pc[t] = "yield"
        /\ pump'[t] = "put" <=> pump[t] = "put"
    BY <1>4, CalmHands DEF Base
  <2>. QED
    BY <1>0, <1>2, <1>4, <2>1 DEF Delivers
<1>5. CASE t = s /\ Sends(s)
  <2>1. owed'[t] = queue'[t].chunks + InHand(pc'[t] = "yield") + InHand(pump'[t] = "put")
    BY <1>0, <1>5 DEF Sends, InHand
  <2>. QED
    BY <1>0, <1>2, <1>5, <2>1 DEF Delivers, Sends
<1>6. CASE t = s /\ Takes(s)
  <2>1. owed'[t] = queue'[t].chunks + InHand(pc'[t] = "yield") + InHand(pump'[t] = "put")
    BY <1>0, <1>6 DEF Takes, InHand
  <2>. QED
    BY <1>0, <1>2, <1>6, <2>1 DEF Delivers, Takes
<1>7. CASE t = s /\ Counts(s)
  <2>1. pc[t] # "done" =>
          owed'[t] = queue'[t].chunks + InHand(pc'[t] = "yield") + InHand(pump'[t] = "put")
    BY <1>0, <1>7 DEF Counts, InHand
  <2>2. pc[t] = "done" => t \in gone
    BY <1>0, <1>7 DEF Counts
  <2>. QED
    BY <1>0, <1>2, <1>7, <2>1, <2>2 DEF Delivers, Counts
<1>8. CASE t = s /\ Puts(s)
  <2>1. pc[t] # "done" => ~ queue[t].ended
    BY <1>0, <1>8 DEF Puts
  <2>2. pc[t] # "done" => queue'[t].chunks = queue[t].chunks + 1
    BY <1>0, <1>8, <2>1, QueueFacts DEF Puts
  <2>3. queue'[t].ended = queue[t].ended
    BY <1>0, <1>8, QueueFacts DEF Puts
  <2>4. pc[t] # "done" =>
          owed'[t] = queue'[t].chunks + InHand(pc'[t] = "yield") + InHand(pump'[t] = "put")
    BY <1>0, <1>8, <2>2 DEF Puts, InHand
  <2>5. pc[t] = "done" => t \in gone
    BY <1>0, <1>8 DEF Puts
  <2>. QED
    BY <1>0, <1>2, <1>8, <2>3, <2>4, <2>5 DEF Delivers
<1>. QED
  BY <1>1, <1>3, <1>4, <1>5, <1>6, <1>7, <1>8

LEMMA DeliveringStep ==
  ASSUME Exact, Delivering, [Next]_vars
  PROVE  Delivering'
<1>. SUFFICES ASSUME NEW t \in Streams \ shared'
              PROVE  Delivers(t)'
  BY DEF Delivering, Delivers
<1>0. (\E s \in Streams : Admits(s) \/ Tears(s) \/ Flows(s)) \/ Still
  BY DownCases DEF Exact
<1>1. t \notin shared => Delivers(t)
  BY DEF Delivering, Delivers
<1>2. ASSUME NEW s \in Streams, Admits(s)
      PROVE  Delivers(t)'
  <2>1. /\ UNCHANGED <<pump, queue, gone, owed>> /\ t \notin shared
        /\ pc[s] = "off" /\ pc'[s] = "body" /\ t # s => pc'[t] = pc[t]
    BY <1>2, AdmitsStill DEF Exact
  <2>2. pc'[t] = "done" <=> pc[t] = "done"
    BY <1>2, AdmitsStill DEF Exact
  <2>3. pc'[t] = "yield" <=> pc[t] = "yield"
    BY <1>2, AdmitsStill DEF Exact
  <2>. QED
    BY <1>1, <2>1, <2>2, <2>3 DEF Delivers
<1>3. ASSUME NEW s \in Streams, Tears(s)
      PROVE  Delivers(t)'
  <2>1. t \notin shared
    BY <1>3, TearsStill DEF Exact
  <2>. QED
    BY <1>1, <1>3, <2>1, DeliversTears
<1>4. ASSUME NEW s \in Streams, Flows(s)
      PROVE  Delivers(t)'
  <2>1. t \notin shared
    BY <1>4, FlowsFrame DEF Frame, Exact, Base
  <2>. QED
    BY <1>1, <1>4, <2>1, DeliversFlows DEF Exact
<1>5. CASE Still
  BY <1>1, <1>5 DEF Still, Delivers
<1>. QED
  BY <1>0, <1>2, <1>3, <1>4, <1>5

LEMMA AlwaysBounded == Spec => [](Base /\ Bounded)
<1>1. Init => Bounded
  BY DEF Init, Bounded, EmptyQueue, InHand
<1>2. Base /\ Bounded /\ [Next]_vars => Bounded'
  BY BoundedStep
<1>. QED
  BY <1>1, <1>2, AlwaysBase, PTL DEF Spec

(* Every downlink chunk that was billed is still on its way to the client  *)
(* as long as the response runs, and a response whose client stays to its  *)
(* end has delivered them all (xhttp.py:80-97, 179-189).                   *)
THEOREM BilledChunksArrive == Spec => []BilledIsDelivered
<1>1. Init => Delivering
  BY DEF Init, Delivering, EmptyQueue, InHand
<1>2. Exact /\ Delivering /\ [Next]_vars => Delivering'
  BY DeliveringStep
<1>3. Delivering => BilledIsDelivered
  BY DEF Delivering, BilledIsDelivered, InHand
<1>. QED
  BY <1>1, <1>2, <1>3, AlwaysExact, PTL DEF Spec

-----------------------------------------------------------------------------
(* The uplink, and what is lost when a session or a link is cut.           *)

LEMMA PacketSets ==
  ASSUME NEW S, S \subseteq Packets
  PROVE  /\ IsFiniteSet(S) /\ Cardinality(S) \in Nat /\ Cardinality(Packets) \in Nat
         /\ Cardinality(S) <= Cardinality(Packets)
BY XHttpAssumption, FS_Subset, FS_CardinalityType

LEMMA Fewer ==
  ASSUME NEW S, S \subseteq Packets, NEW T, NEW p \in S, T \subseteq S \ {p}
  PROVE  Cardinality(T) + 1 <= Cardinality(S)
<1>1. IsFiniteSet(S) /\ Cardinality(S) \in Nat
  BY PacketSets
<1>2. IsFiniteSet(S \ {p}) /\ Cardinality(S \ {p}) = Cardinality(S) - 1
  BY <1>1, FS_RemoveElement
<1>3. Cardinality(T) <= Cardinality(S \ {p}) /\ Cardinality(T) \in Nat
  BY <1>2, FS_Subset, FS_CardinalityType
<1>. QED
  BY <1>1, <1>2, <1>3

LEMMA HoldersAre ==
  ASSUME NEW s \in Streams
  PROVE  /\ Holding(s) \subseteq Packets /\ Throttled(s) \subseteq Packets
         /\ Cardinality(Holding(s)) \in Nat /\ Cardinality(Throttled(s)) \in Nat
         /\ Cardinality(Packets) \in Nat
         /\ Cardinality(Holding(s)) <= Cardinality(Packets)
         /\ Cardinality(Throttled(s)) <= Cardinality(Packets)
<1>1. Holding(s) \subseteq Packets /\ Throttled(s) \subseteq Packets
  BY DEF Holding, Throttled
<1>. QED
  BY <1>1, PacketSets

(* What the packet handlers that hold t become in a step of one of them.   *)
LEMMA PacketHolders ==
  ASSUME Base, NEW p \in Packets, Packet(p), NEW t \in Streams
  PROVE  /\ t \in closed => Holding(t)' \subseteq Holding(t)
         /\ Cut => Throttled(t)' \subseteq Throttled(t)
         /\ pk'[p] = Idle => p \notin Holding(t)' /\ p \notin Throttled(t)'
         /\ pk[p].at = "throttle" /\ pk[p].to = t =>
              p \in Holding(t) /\ (pk[p].own => p \in Throttled(t))
<1>1. /\ \A r \in Packets \ {p} : pk'[r] = pk[r]
      /\ \/ /\ pk[p].at = "idle" /\ pk'[p].at = "body" /\ pk'[p].to \notin closed
         \/ pk'[p] = Idle
         \/ /\ pk[p].at = "body" /\ pk'[p] = [pk[p] EXCEPT !.at = "throttle"]
            /\ pk[p].own => QuotaAllows(link, 1)
  BY PacketFrame
<1>2. Cut => ~ QuotaAllows(link, 1)
  BY DEF Cut, Severed, QuotaAllows
<1>3. [pk[p] EXCEPT !.at = "throttle"].to = pk[p].to
      /\ [pk[p] EXCEPT !.at = "throttle"].own = pk[p].own
  BY DEF Base, PkType, Handlers
<1>4. \A r \in Packets : r \in Holding(t)' <=> pk'[r].at # "idle" /\ pk'[r].to = t
  BY DEF Holding
<1>5. \A r \in Packets : r \in Throttled(t)' <=>
        pk'[r].at = "throttle" /\ pk'[r].own /\ pk'[r].to = t
  BY DEF Throttled
<1>6. t \in closed => Holding(t)' \subseteq Holding(t)
  <2>0. p \in Holding(t) <=> pk[p].at # "idle" /\ pk[p].to = t
    BY DEF Holding
  <2>1. t \in closed => (p \in Holding(t)' => p \in Holding(t))
    <3>1. CASE pk'[p].at = "body" /\ pk'[p].to \notin closed
      BY <3>1, <1>4
    <3>2. CASE pk'[p] = Idle
      BY <3>2, <1>4 DEF Idle
    <3>3. CASE pk[p].at = "body" /\ pk'[p] = [pk[p] EXCEPT !.at = "throttle"]
      BY <2>0, <3>3, <1>3, <1>4
    <3>. QED
      BY <1>1, <3>1, <3>2, <3>3
  <2>. QED
    BY <1>1, <2>1 DEF Holding
<1>7. Cut => Throttled(t)' \subseteq Throttled(t)
  <2>1. Cut => p \notin Throttled(t)'
    <3>1. CASE pk'[p].at = "body" \/ pk'[p] = Idle
      BY <3>1, <1>5 DEF Idle
    <3>2. CASE /\ pk'[p] = [pk[p] EXCEPT !.at = "throttle"]
               /\ pk[p].own => QuotaAllows(link, 1)
      <4>1. Cut => ~ pk'[p].own
        BY <3>2, <1>2, <1>3
      <4>. QED
        BY <4>1, <1>5
    <3>. QED
      BY <1>1, <3>1, <3>2
  <2>. QED
    BY <1>1, <2>1 DEF Throttled
<1>8. pk'[p] = Idle => p \notin Holding(t)' /\ p \notin Throttled(t)'
  BY <1>4, <1>5 DEF Idle
<1>9. pk[p].at = "throttle" /\ pk[p].to = t =>
        p \in Holding(t) /\ (pk[p].own => p \in Throttled(t))
  BY DEF Holding, Throttled
<1>. QED
  BY <1>6, <1>7, <1>8, <1>9

LEMMA WastingFlows ==
  ASSUME Base, NEW s \in Streams, Flows(s), NEW t \in Streams
  PROVE  /\ UNCHANGED <<closed, pk>>
         /\ t \notin closed => wasted'[t] = wasted[t]
         /\ t \in closed => wasted'[t] + InHand(up'[t] = "throttle")
                              <= wasted[t] + InHand(up[t] = "throttle")
<1>0. wasted[t] \in Nat
  BY DownTypes
<1>1. /\ Frame(s)
      /\ \A u \in Streams \ {s} : wasted'[u] = wasted[u]
      /\ Dialed(s) \/ Yielded(s) \/ UpCount(s) \/ UNCHANGED wasted
  BY FlowsFrame, FlowsMoved DEF Base
<1>2. UNCHANGED <<closed, pk>>
  BY <1>1 DEF Frame, maps
<1>3. CASE t # s
  <2>1. wasted'[t] = wasted[t] /\ up'[t] = up[t]
    BY <1>1, <1>3 DEF Frame
  <2>. QED
    BY <1>0, <1>2, <2>1 DEF InHand
<1>4. CASE t = s /\ UpCount(s)
  <2>1. Forward(s, TRUE) /\ up[s] = "throttle" /\ up'[s] = "read"
    BY <1>4 DEF UpCount, Base, TaskType
  <2>2. (s \notin closed => wasted' = wasted) /\ (s \in closed => wasted'[s] = wasted[s] + 1)
    BY <2>1, ForwardMoved DEF Base
  <2>. QED
    BY <1>0, <1>2, <1>4, <2>1, <2>2 DEF InHand
<1>5. CASE t = s /\ ~ UpCount(s)
  <2>1. wasted'[s] = wasted[s]
    BY <1>1, <1>5 DEF Dialed, Yielded
  <2>2. s \in closed /\ up'[s] = "throttle" => up[s] = "throttle"
    <3>1. CASE Dialed(s) \/ PayloadDrained(s)
      BY <3>1 DEF Dialed, PayloadDrained, Start, Base, TaskType
    <3>2. CASE UpRead(s) \/ UpEnds(s)
      BY <3>2 DEF UpRead, UpEnds, Base, TaskType
    <3>3. CASE \/ Opens(s) \/ Begin(s) \/ Drop(s) \/ Yielded(s) \/ GetChunk(s) \/ Leave(s) \/ PumpRead(s)
               \/ PumpEof(s) \/ PumpCount(s) \/ PumpPut(s)
      BY <3>3 DEF Opens, Begin, Drop, Yielded, GetChunk, Leave, PumpRead, PumpEof,
         PumpCount, PumpPut
    <3>. QED
      BY <1>5, <3>1, <3>2, <3>3 DEF Flows
  <2>. QED
    BY <1>0, <1>2, <1>5, <2>1, <2>2 DEF InHand
<1>. QED
  BY <1>3, <1>4, <1>5

LEMMA WastingStep ==
  ASSUME Base, Wasting, [Next]_vars
  PROVE  Wasting'
<1>0. \/ \E s \in Streams : Admits(s) \/ Tears(s) \/ Flows(s)
      \/ \E p \in Packets : Packet(p)
      \/ Changed
      \/ UNCHANGED vars
  BY NextCases DEF Base
<1>. SUFFICES ASSUME NEW t \in Streams
              PROVE  /\ t \notin closed' => wasted'[t] = 0
                     /\ t \in closed' =>
                          wasted'[t] + InHand(up'[t] = "throttle") + Cardinality(Holding(t)')
                            <= 1 + Cardinality(Packets)
  BY DEF Wasting
<1> DEFINE Goal == /\ t \notin closed' => wasted'[t] = 0
                   /\ t \in closed' =>
                        wasted'[t] + InHand(up'[t] = "throttle") + Cardinality(Holding(t)')
                          <= 1 + Cardinality(Packets)
<1>1. /\ wasted[t] \in Nat /\ Cardinality(Holding(t)) \in Nat
      /\ Cardinality(Packets) \in Nat /\ Cardinality(Holding(t)) <= Cardinality(Packets)
      /\ t \notin closed => wasted[t] = 0
      /\ t \in closed => wasted[t] + InHand(up[t] = "throttle") + Cardinality(Holding(t))
                           <= 1 + Cardinality(Packets)
  BY DownTypes, HoldersAre DEF Wasting
<1>2. UNCHANGED pk => Holding(t)' = Holding(t)
  BY DEF Holding
<1>3. ASSUME UNCHANGED <<closed, wasted, up, pk>>
      PROVE  Goal
  BY <1>1, <1>2, <1>3
<1>4. ASSUME NEW s \in Streams, Admits(s)
      PROVE  Goal
  BY <1>3, <1>4, AdmitsStill
<1>5. ASSUME NEW s \in Streams, Tears(s)
      PROVE  Goal
  <2>1. UNCHANGED <<wasted, up, pk>> /\ closed \subseteq closed'
    BY <1>5, TearsStill DEF Tears, Maps
  <2>2. t \in closed' => wasted[t] + InHand(up[t] = "throttle") + Cardinality(Holding(t))
                           <= 1 + Cardinality(Packets)
    BY <1>1 DEF InHand
  <2>. QED
    BY <1>1, <1>2, <2>1, <2>2
<1>6. ASSUME NEW s \in Streams, Flows(s)
      PROVE  Goal
  <2>1. /\ UNCHANGED <<closed, pk>>
        /\ t \notin closed => wasted'[t] = wasted[t]
        /\ t \in closed => wasted'[t] + InHand(up'[t] = "throttle")
                             <= wasted[t] + InHand(up[t] = "throttle")
    BY <1>6, WastingFlows
  <2>2. wasted'[t] \in Nat
    BY <1>6, FlowsBase DEF Base, MovedType
  <2>. QED
    BY <1>1, <1>2, <2>1, <2>2 DEF InHand
<1>7. ASSUME NEW p \in Packets, Packet(p)
      PROVE  Goal
  <2>1. /\ UNCHANGED <<closed, up>>
        /\ \/ UNCHANGED wasted
           \/ pk'[p] = Idle /\ pk[p].at = "throttle" /\ Sent(p)
    BY <1>7, PacketFrame DEF maps, moved
  <2>2. t \in closed => Holding(t)' \subseteq Holding(t)
    BY <1>7, PacketHolders
  <2>3. t \in closed => /\ Cardinality(Holding(t)') <= Cardinality(Holding(t))
                        /\ Cardinality(Holding(t)') \in Nat
    <3>1. Holding(t) \subseteq Packets
      BY HoldersAre
    <3>. QED
      BY <2>2, <3>1, PacketSets, FS_Subset, FS_CardinalityType
  <2>4. CASE wasted'[t] = wasted[t]
    BY <1>1, <2>1, <2>3, <2>4 DEF InHand
  <2>5. CASE wasted'[t] # wasted[t]
    <3>1. pk'[p] = Idle /\ pk[p].at = "throttle" /\ Sent(p)
      BY <2>1, <2>5
    <3>4. pk[p].to = t /\ t \in closed /\ wasted'[t] = wasted[t] + 1
      BY <2>5, <3>1, SentTo DEF Base
    <3>5. p \in Holding(t) /\ Holding(t)' \subseteq Holding(t) \ {p}
      BY <1>7, <2>2, <3>1, <3>4, PacketHolders
    <3>6. Cardinality(Holding(t)') + 1 <= Cardinality(Holding(t))
      BY <3>5, HoldersAre, Fewer
    <3>. QED
      BY <1>1, <2>1, <2>3, <3>4, <3>6 DEF InHand
  <2>. QED
    BY <2>4, <2>5
<1>8. CASE Changed
  BY <1>3, <1>8, ChangedFrame DEF Base, maps
<1>9. CASE UNCHANGED vars
  BY <1>3, <1>9 DEF vars
<1>. QED
  BY <1>0, <1>4, <1>5, <1>6, <1>7, <1>8, <1>9

(* The conjuncts of Leaking, for one request. *)
UpLeaks(s) ==
  leaked[s].up + InHand(up[s] = "throttle") + Cardinality(Throttled(s))
    <= 1 + Cardinality(Packets)
DownLeaks(s) ==
  leaked[s].down + queue[s].chunks + InHand(pc[s] = "yield")
    + InHand(pump[s] \in {"throttle", "put"}) <= QueueMax + 2

(* A request that has let nothing through yet is within both bounds.       *)
LEMMA NothingLeaks ==
  ASSUME Base, NEW s \in Streams, leaked[s] = Nothing
  PROVE  UpLeaks(s) /\ DownLeaks(s)
<1>1. leaked[s].up = 0 /\ leaked[s].down = 0
  BY DEF Nothing
<1>2. /\ Cardinality(Throttled(s)) \in Nat /\ Cardinality(Packets) \in Nat
      /\ Cardinality(Throttled(s)) <= Cardinality(Packets)
  BY HoldersAre
<1>3. queue[s].chunks <= QueueMax /\ queue[s].chunks \in Nat /\ QueueMax \in Nat
  <2>1. /\ queue[s].chunks \in Nat /\ queue[s].behind \in Nat
        /\ Size(queue[s]) <= QueueMax /\ QueueMax \in Nat
    BY DownTypes, XHttpAssumption DEF Base, QueueFits
  <2>. QED
    BY <2>1 DEF Size
<1>4. UpLeaks(s)
  BY <1>1, <1>2 DEF UpLeaks, InHand
<1>5. DownLeaks(s)
  BY <1>1, <1>3 DEF DownLeaks, InHand
<1>. QED
  BY <1>4, <1>5

LEMMA CutSame ==
  ASSUME LinkType, UNCHANGED link \/ Count
  PROVE  Cut' <=> Cut
BY CountLink DEF Cut, Severed

(* A cut link lets nothing past a quota check. *)
LEMMA CutRefuses ==
  ASSUME Base, Cut, NEW s \in Streams, Flows(s)
  PROVE  /\ up'[s] = "throttle" => up[s] = "throttle" /\ ~ UpCount(s)
         /\ Calm(s) /\ pump'[s] \in {"throttle", "put"} => pump[s] \in {"throttle", "put"}
<1>1. ~ QuotaAllows(link, 1)
  BY DEF Cut, Severed, QuotaAllows
<1>2. CASE Dialed(s) \/ PayloadDrained(s)
  BY <1>2 DEF Dialed, PayloadDrained, Start, Base, TaskType, Shape, UpCount
<1>3. CASE UpRead(s) \/ UpEnds(s) \/ UpCount(s)
  BY <1>1, <1>3 DEF UpRead, UpEnds, UpCount, Base, TaskType
<1>4. CASE PumpRead(s) \/ PumpEof(s)
  BY <1>1, <1>4 DEF PumpRead, PumpEof, Base, TaskType, UpCount
<1>5. CASE Opens(s) \/ Begin(s) \/ Drop(s) \/ Leave(s)
  BY <1>5 DEF Opens, Begin, Drop, Leave, UpCount, Base, TaskType
<1>6. CASE Yielded(s) \/ GetChunk(s) \/ PumpCount(s) \/ PumpPut(s)
  <2>1. UNCHANGED up
    BY <1>6 DEF Yielded, GetChunk, PumpCount, PumpPut
  <2>2. up'[s] = "throttle" => ~ UpCount(s)
    BY DEF UpCount, Base, TaskType
  <2>3. UNCHANGED pump \/ ~ Calm(s) \/ pump[s] \in {"throttle", "put"}
    BY <1>6 DEF Yielded, GetChunk, PumpCount, PumpPut
  <2>. QED
    BY <2>1, <2>2, <2>3
<1>. QED
  BY <1>2, <1>3, <1>4, <1>5, <1>6 DEF Flows

LEMMA UpLeaksFlows ==
  ASSUME Base, Cut, NEW s \in Streams, Flows(s), NEW t \in Streams, UpLeaks(t)
  PROVE  UpLeaks(t)'
<1>0. /\ leaked[t].up \in Nat /\ leaked'[t].up \in Nat
      /\ Cardinality(Throttled(t)) \in Nat /\ Cardinality(Packets) \in Nat
  BY DownTypes, HoldersAre, FlowsBase DEF Base, MovedType
<1>1. /\ Frame(s)
      /\ \A u \in Streams \ {s} : leaked'[u] = leaked[u]
      /\ Dialed(s) \/ Yielded(s) \/ UpCount(s) \/ UNCHANGED leaked
  BY FlowsFrame, FlowsMoved DEF Base
<1>2. Throttled(t)' = Throttled(t)
  BY <1>1 DEF Frame, Throttled
<1>3. leaked[t].up + InHand(up[t] = "throttle") + Cardinality(Throttled(t))
        <= 1 + Cardinality(Packets)
  BY DEF UpLeaks
<1>4. CASE t # s
  <2>1. leaked'[t] = leaked[t] /\ up'[t] = up[t]
    BY <1>1, <1>4 DEF Frame
  <2>. QED
    BY <1>2, <1>3, <2>1 DEF UpLeaks
<1>5. CASE t = s /\ Dialed(s) /\ leaked' # leaked
  <2>1. pc[s] = "dial" /\ Leak(s, "up") /\ UNCHANGED up
    BY <1>5 DEF Dialed
  <2>2. leaked[s] = Nothing /\ pump[s] = "off" /\ up[s] = "off"
    BY <2>1 DEF Base, Shape
  <2>3. leaked'[s].up = 1
    BY <1>0, <1>5, <2>1, <2>2, LeakMoved DEF Base, Nothing
  <2>4. Throttled(s) = {}
    BY <2>2, XHttpAssumption DEF Base, Addressed, Throttled
  <2>5. Cardinality(Throttled(t)) = 0
    BY <1>5, <2>4, FS_EmptySet
  <2>. QED
    BY <1>0, <1>2, <1>5, <2>1, <2>2, <2>3, <2>5 DEF UpLeaks, InHand
<1>6. CASE t = s /\ UpCount(s)
  <2>1. Forward(s, TRUE) /\ up[s] = "throttle" /\ up'[s] = "read"
    BY <1>6 DEF UpCount, Base, TaskType
  <2>2. leaked'[t].up <= leaked[t].up + 1
    BY <1>6, <2>1, ForwardMoved DEF Base
  <2>. QED
    BY <1>0, <1>2, <1>3, <1>6, <2>1, <2>2 DEF UpLeaks, InHand
<1>7. CASE t = s /\ ~ UpCount(s) /\ (Dialed(s) => leaked' = leaked)
  <2>1. leaked'[t].up = leaked[t].up
    <3>1. CASE Yielded(s)
      <4>1. Leak(s, "down") \/ UNCHANGED leaked
        BY <3>1 DEF Yielded
      <4>. QED
        BY <1>7, <4>1, LeakMoved DEF Base
    <3>. QED
      BY <1>1, <1>7, <3>1
  <2>2. up'[s] = "throttle" => up[s] = "throttle"
    BY CutRefuses
  <2>. QED
    BY <1>0, <1>2, <1>3, <1>7, <2>1, <2>2 DEF UpLeaks, InHand
<1>. QED
  BY <1>4, <1>5, <1>6, <1>7

LEMMA DownLeaksFlows ==
  ASSUME Base, Cut, NEW s \in Streams, Flows(s), NEW t \in Streams, DownLeaks(t)
  PROVE  DownLeaks(t)'
<1>0. /\ leaked[t].down \in Nat /\ queue[t].chunks \in Nat /\ queue[t] \in Queues
      /\ leaked'[t].down \in Nat /\ queue'[t].chunks \in Nat /\ QueueMax \in Nat
  <2>1. Base'
    BY FlowsBase
  <2>. QED
    BY <2>1, DownTypes, XHttpAssumption DEF Base, MovedType, QueueType, Queues
<1>1. /\ Frame(s)
      /\ \A u \in Streams \ {s} : queue'[u] = queue[u]
      /\ \A u \in Streams \ {s} : leaked'[u] = leaked[u]
      /\ Dialed(s) \/ Yielded(s) \/ UpCount(s) \/ UNCHANGED leaked
      /\ \/ Calm(s) /\ UNCHANGED <<queue, owed>>
         \/ Sends(s) \/ Takes(s) \/ Counts(s) \/ Puts(s)
  BY FlowsFrame, FlowsMoved, FlowsDown DEF Base
<1>2. leaked[t].down + queue[t].chunks + InHand(pc[t] = "yield")
        + InHand(pump[t] \in {"throttle", "put"}) <= QueueMax + 2
  BY DEF DownLeaks
<1>3. CASE t # s
  <2>1. leaked'[t] = leaked[t] /\ queue'[t] = queue[t] /\ pc'[t] = pc[t] /\ pump'[t] = pump[t]
    BY <1>1, <1>3 DEF Frame
  <2>. QED
    BY <1>2, <2>1 DEF DownLeaks
<1>4. CASE t = s /\ Calm(s) /\ UNCHANGED <<queue, owed>>
  <2>1. leaked'[t].down = leaked[t].down
    <3>1. CASE Dialed(s)
      <4>1. Leak(s, "up") \/ UNCHANGED leaked
        BY <3>1 DEF Dialed
      <4>. QED
        BY <1>4, <4>1, LeakMoved DEF Base
    <3>2. CASE UpCount(s)
      BY <1>4, <3>2, ForwardMoved DEF Base, UpCount
    <3>3. CASE Yielded(s)
      <4>1. pc'[s] = "get" /\ pc[s] \in {"hello", "yield"}
        BY <3>3 DEF Yielded, Goto, Base, TaskType
      <4>2. Leak(s, "down") => pc[s] = "yield" \/ UNCHANGED leaked
        BY <3>3 DEF Yielded
      <4>3. pc[s] # "yield"
        BY <1>4, <4>1, CalmHands DEF Base
      <4>. QED
        BY <3>3, <4>3 DEF Yielded
    <3>. QED
      BY <1>1, <3>1, <3>2, <3>3
  <2>2. /\ pc'[t] = "yield" <=> pc[t] = "yield"
        /\ pump'[t] \in {"throttle", "put"} => pump[t] \in {"throttle", "put"}
    BY <1>4, CalmHands, CutRefuses DEF Base
  <2>. QED
    BY <1>0, <1>2, <1>4, <2>1, <2>2 DEF DownLeaks, InHand
<1>5. CASE t = s /\ Sends(s)
  <2>1. CASE pc[s] = "hello"
    <3>1. UNCHANGED leaked
      BY <1>5, <2>1 DEF Sends, Yielded
    <3>. QED
      BY <1>0, <1>2, <1>5, <2>1, <3>1 DEF Sends, DownLeaks, InHand
  <2>2. CASE pc[s] = "yield"
    <3>1. Leak(s, "down")
      BY <1>5, <2>2 DEF Sends, Yielded
    <3>2. leaked'[s].down = leaked[s].down + 1
      BY <3>1, LeakMoved DEF Base
    <3>. QED
      BY <1>0, <1>2, <1>5, <2>2, <3>2 DEF Sends, DownLeaks, InHand
  <2>. QED
    BY <1>5, <2>1, <2>2 DEF Sends
<1>6. CASE t = s /\ Takes(s)
  <2>1. UNCHANGED leaked
    BY <1>6 DEF Takes, GetChunk, history, moved
  <2>. QED
    BY <1>0, <1>2, <1>6, <2>1 DEF Takes, DownLeaks, InHand
<1>7. CASE t = s /\ Counts(s)
  <2>1. UNCHANGED leaked
    BY <1>7 DEF Counts, PumpCount
  <2>. QED
    BY <1>0, <1>2, <1>7, <2>1 DEF Counts, DownLeaks, InHand
<1>8. CASE t = s /\ Puts(s)
  <2>1. UNCHANGED leaked
    BY <1>8 DEF Puts, PumpPut, history, moved
  <2>2. queue'[t].chunks <= queue[t].chunks + 1
    BY <1>0, <1>8, QueueFacts DEF Puts
  <2>. QED
    BY <1>0, <1>2, <1>8, <2>1, <2>2 DEF Puts, DownLeaks, InHand
<1>. QED
  BY <1>1, <1>3, <1>4, <1>5, <1>6, <1>7, <1>8

LEMMA UncutFlows ==
  ASSUME Base, ~ Cut, NEW s \in Streams, Flows(s)
  PROVE  UNCHANGED leaked
<1>1. CASE Dialed(s)
  BY <1>1, LeakMoved DEF Base, Dialed
<1>2. CASE Yielded(s)
  BY <1>2, LeakMoved DEF Base, Yielded
<1>3. CASE UpCount(s)
  BY <1>3, ForwardMoved DEF Base, UpCount
<1>. QED
  BY <1>1, <1>2, <1>3, FlowsMoved DEF Base

LEMMA LeaksPacket ==
  ASSUME Base, NEW p \in Packets, Packet(p), NEW t \in Streams
  PROVE  /\ Cut' <=> Cut
         /\ ~ Cut => leaked'[t] = leaked[t]
         /\ Cut /\ UpLeaks(t) => UpLeaks(t)'
         /\ DownLeaks(t) => DownLeaks(t)'
<1>1. /\ UNCHANGED <<request, pump, up, queue>>
      /\ \/ UNCHANGED <<link, moved>>
         \/ pk'[p] = Idle /\ pk[p].at = "throttle" /\ Sent(p)
  BY PacketFrame
<1>3. UNCHANGED link \/ Count
  BY <1>1 DEF Sent
<1>4. leaked'[t].down = leaked[t].down /\ (~ Cut => leaked'[t] = leaked[t])
  <2>1. CASE UNCHANGED moved
    BY <2>1 DEF moved
  <2>2. CASE Sent(p)
    BY <2>2, SentTo DEF Base
  <2>. QED
    BY <1>1, <2>1, <2>2
<1>5. DownLeaks(t) => DownLeaks(t)'
  BY <1>1, <1>4 DEF DownLeaks, request
<1>7. ASSUME Cut, UpLeaks(t)
      PROVE  UpLeaks(t)'
  <2>0. /\ leaked[t].up \in Nat /\ leaked'[t].up \in Nat
        /\ Cardinality(Throttled(t)) \in Nat /\ Cardinality(Packets) \in Nat
    BY DownTypes, HoldersAre, PacketFrame DEF MovedType
  <2>1. leaked[t].up + InHand(up[t] = "throttle") + Cardinality(Throttled(t))
          <= 1 + Cardinality(Packets)
    BY <1>7 DEF UpLeaks
  <2>2. Throttled(t)' \subseteq Throttled(t)
    BY <1>7, PacketHolders
  <2>3. /\ Cardinality(Throttled(t)') <= Cardinality(Throttled(t))
        /\ Cardinality(Throttled(t)') \in Nat
    <3>1. Throttled(t) \subseteq Packets
      BY HoldersAre
    <3>. QED
      BY <2>2, <3>1, PacketSets, FS_Subset, FS_CardinalityType
  <2>4. CASE leaked'[t].up = leaked[t].up
    BY <1>1, <2>0, <2>1, <2>3, <2>4 DEF UpLeaks, InHand
  <2>5. CASE leaked'[t].up # leaked[t].up
    <3>1. pk'[p] = Idle /\ pk[p].at = "throttle" /\ Sent(p)
      BY <1>1, <2>5 DEF moved
    <3>3. pk[p].to = t /\ pk[p].own /\ leaked'[t].up <= leaked[t].up + 1
      BY <2>5, <3>1, SentTo DEF Base
    <3>4. p \in Throttled(t) /\ Throttled(t)' \subseteq Throttled(t) \ {p}
      BY <2>2, <3>1, <3>3, PacketHolders
    <3>5. Cardinality(Throttled(t)') + 1 <= Cardinality(Throttled(t))
      BY <3>4, HoldersAre, Fewer
    <3>. QED
      BY <1>1, <2>0, <2>1, <2>3, <3>3, <3>5 DEF UpLeaks, InHand
  <2>. QED
    BY <2>4, <2>5
<1>. QED
  BY <1>3, <1>4, <1>5, <1>7, CutSame DEF Base

LEMMA LeakingStep ==
  ASSUME Base, Leaking, [Next]_vars
  PROVE  Leaking'
<1>0. \/ \E s \in Streams : Admits(s) \/ Tears(s) \/ Flows(s)
      \/ \E p \in Packets : Packet(p)
      \/ Changed
      \/ UNCHANGED vars
  BY NextCases DEF Base
<1>. SUFFICES ASSUME NEW t \in Streams
              PROVE  /\ ~ Cut' => leaked'[t] = Nothing
                     /\ Cut' => UpLeaks(t)' /\ DownLeaks(t)'
  BY DEF Leaking, UpLeaks, DownLeaks
<1> DEFINE Goal == /\ ~ Cut' => leaked'[t] = Nothing
                   /\ Cut' => UpLeaks(t)' /\ DownLeaks(t)'
<1>1. ~ Cut => leaked[t] = Nothing
  BY DEF Leaking
<1>2. UpLeaks(t) /\ DownLeaks(t)
  <2>1. CASE Cut
    BY <2>1 DEF Leaking, UpLeaks, DownLeaks
  <2>2. CASE ~ Cut
    BY <1>1, <2>2, NothingLeaks
  <2>. QED
    BY <2>1, <2>2
<1>3. UNCHANGED pk => Throttled(t)' = Throttled(t)
  BY DEF Throttled
<1>4. UNCHANGED <<up, pk, leaked>> => UpLeaks(t)'
  BY <1>2, <1>3 DEF UpLeaks
<1>5. UNCHANGED link => (Cut' <=> Cut)
  BY CutSame DEF Base
<1>6. ASSUME NEW s \in Streams, Admits(s)
      PROVE  Goal
  <2>1. UNCHANGED <<link, up, pk, leaked, pump, queue>> /\ (pc'[t] = "yield" <=> pc[t] = "yield")
    BY <1>6, AdmitsStill
  <2>2. DownLeaks(t)'
    BY <1>2, <2>1 DEF DownLeaks
  <2>. QED
    BY <1>1, <1>4, <1>5, <2>1, <2>2
<1>7. ASSUME NEW s \in Streams, Tears(s)
      PROVE  Goal
  <2>1. /\ UNCHANGED <<link, up, pk, leaked>>
        /\ pc'[t] = "yield" => pc[t] = "yield"
        /\ pump'[t] \in {"throttle", "put"} <=> pump[t] \in {"throttle", "put"}
        /\ queue'[t].chunks = queue[t].chunks
    BY <1>7, TearsStill
  <2>2. leaked[t].down \in Nat /\ queue[t].chunks \in Nat /\ QueueMax \in Nat
    BY DownTypes, XHttpAssumption
  <2>3. DownLeaks(t)'
    BY <1>2, <2>1, <2>2 DEF DownLeaks, InHand
  <2>. QED
    BY <1>1, <1>4, <1>5, <2>1, <2>3
<1>8. ASSUME NEW s \in Streams, Flows(s)
      PROVE  Goal
  <2>1. Cut' <=> Cut
    BY <1>8, FlowsLink, CutSame DEF Base
  <2>2. CASE Cut
    BY <1>2, <1>8, <2>1, <2>2, UpLeaksFlows, DownLeaksFlows
  <2>3. CASE ~ Cut
    BY <1>1, <1>8, <2>1, <2>3, UncutFlows
  <2>. QED
    BY <2>2, <2>3
<1>9. ASSUME NEW p \in Packets, Packet(p)
      PROVE  Goal
  BY <1>1, <1>2, <1>9, LeaksPacket
<1>10. CASE Changed
  <2>1. /\ UNCHANGED <<pc, pump, up, pk, queue>>
        /\ Cut' => UNCHANGED leaked
        /\ ~ Cut' => leaked' = [s \in Streams |-> Nothing]
    BY <1>10, ChangedFrame DEF Base, request
  <2>2. Cut' => UpLeaks(t)' /\ DownLeaks(t)'
    BY <1>2, <1>4, <2>1 DEF DownLeaks
  <2>. QED
    BY <2>1, <2>2
<1>11. CASE UNCHANGED vars
  <2>1. UNCHANGED <<link, pc, pump, up, pk, queue, leaked>>
    BY <1>11 DEF vars
  <2>. QED
    BY <1>1, <1>2, <1>4, <1>5, <2>1 DEF DownLeaks
<1>. QED
  BY <1>0, <1>6, <1>7, <1>8, <1>9, <1>10, <1>11

(* What a closed session billed and did not deliver is bounded, whatever   *)
(* the other requests do (xhttp.py:92, 169-171, 206-218).                  *)
THEOREM WasteIsBounded == Spec => []WasteBound
<1>1. Init => Wasting
  BY DEF Init, Wasting
<1>2. Base /\ Wasting /\ [Next]_vars => Wasting'
  BY WastingStep
<1>3. ASSUME Base, Bounded, Wasting
      PROVE  WasteBound
  <2>. SUFFICES ASSUME NEW s \in closed
                PROVE  wasted[s] <= 1 + Cardinality(Packets) /\ owed[s] <= QueueMax + 2
    BY DEF WasteBound
  <2>0. s \in Streams
    BY <1>3 DEF Base, MapType
  <2>1. wasted[s] <= 1 + Cardinality(Packets)
    <3>1. /\ wasted[s] \in Nat /\ Cardinality(Holding(s)) \in Nat
          /\ Cardinality(Packets) \in Nat
          /\ wasted[s] + InHand(up[s] = "throttle") + Cardinality(Holding(s))
               <= 1 + Cardinality(Packets)
      BY <1>3, <2>0, DownTypes, HoldersAre DEF Wasting
    <3>. QED
      BY <3>1 DEF InHand
  <2>2. owed[s] <= QueueMax + 2
    <3>1. /\ owed[s] \in Nat /\ queue[s].chunks \in Nat /\ queue[s].behind \in Nat
          /\ QueueMax \in Nat /\ Size(queue[s]) <= QueueMax
          /\ owed[s] <= queue[s].chunks + queue[s].behind
                          + InHand(pc[s] \in {"yield", "done"}) + InHand(pump[s] = "put")
      BY <1>3, <2>0, DownTypes, XHttpAssumption DEF Base, QueueFits, Bounded
    <3>2. queue[s].chunks + queue[s].behind <= QueueMax
      BY <3>1 DEF Size
    <3>. QED
      BY <3>1, <3>2 DEF InHand
  <2>. QED
    BY <2>1, <2>2
<1>. QED
  BY <1>1, <1>2, <1>3, AlwaysBase, AlwaysBounded, PTL DEF Spec

(* Once a link is disabled, expired or deleted, each request on it lets a  *)
(* bounded number of chunks through on the account of that link, whatever  *)
(* packets of other links go through its session, which are not counted    *)
(* here and have no bound (README.md:59, xhttp.py:85, 167, 204-218).       *)
THEOREM CutIsBounded == Spec => []CutBound
<1>1. ASSUME Init
      PROVE  Leaking
  <2>1. ~ Cut
    <3>1. link \in Links
      <4>1. load.limits \subseteq Nat
        BY <1>1, XHttpAssumption DEF Init, LoadSet
      <4>. QED
        BY <1>1, <4>1, XHttpAssumption DEF Init, Links
    <3>2. link.active /\ ~ link.expired
      BY <1>1 DEF Init
    <3>. QED
      BY <3>1, <3>2, XHttpAssumption DEF Cut, Severed
  <2>. QED
    BY <1>1, <2>1 DEF Init, Leaking
<1>2. Base /\ Leaking /\ [Next]_vars => Leaking'
  BY LeakingStep
<1>3. ASSUME Base, Leaking
      PROVE  CutBound
  <2>. SUFFICES ASSUME Cut, NEW s \in Streams
                PROVE  leaked[s].up <= 1 + Cardinality(Packets)
                       /\ leaked[s].down <= QueueMax + 2
    BY DEF CutBound
  <2>1. /\ leaked[s].up \in Nat /\ leaked[s].down \in Nat /\ queue[s].chunks \in Nat
        /\ Cardinality(Throttled(s)) \in Nat /\ Cardinality(Packets) \in Nat
        /\ QueueMax \in Nat
    BY <1>3, DownTypes, HoldersAre, XHttpAssumption
  <2>2. leaked[s].up + InHand(up[s] = "throttle") + Cardinality(Throttled(s))
          <= 1 + Cardinality(Packets)
    BY <1>3 DEF Leaking
  <2>3. leaked[s].down + queue[s].chunks + InHand(pc[s] = "yield")
          + InHand(pump[s] \in {"throttle", "put"}) <= QueueMax + 2
    BY <1>3 DEF Leaking
  <2>. QED
    BY <2>1, <2>2, <2>3 DEF InHand
<1>. QED
  BY <1>1, <1>2, <1>3, AlwaysBase, PTL DEF Spec

-----------------------------------------------------------------------------
(* What the target is dialled with: the header, as parse_vless_header      *)
(* takes it from the bytes that have come.                                 *)

(* Concatenation by a name of its own: a lemma about it is cited for its   *)
(* instances. *)
Cat(s, t) == s \o t

LEMMA Joined ==
  ASSUME NEW s \in Seq(Byte), NEW t \in Seq(Byte)
  PROVE  /\ Cat(s, t) \in Seq(Byte)
         /\ Len(s) \in Nat /\ Len(t) \in Nat
         /\ Len(Cat(s, t)) = Len(s) + Len(t)
         /\ \A i \in 1..Len(s) : Cat(s, t)[i] = s[i]
         /\ \A i \in (Len(s) + 1)..(Len(s) + Len(t)) : Cat(s, t)[i] = t[i - Len(s)]
<1>1. Len(s) \in Nat /\ Len(t) \in Nat
  BY LenProperties
<1>2. /\ Cat(s, t) \in Seq(Byte)
      /\ Len(Cat(s, t)) = Len(s) + Len(t)
      /\ \A i \in 1..(Len(s) + Len(t)) :
           Cat(s, t)[i] = IF i <= Len(s) THEN s[i] ELSE t[i - Len(s)]
  BY ConcatProperties DEF Cat
<1>3. ASSUME NEW i \in (Len(s) + 1)..(Len(s) + Len(t))
      PROVE  Cat(s, t)[i] = t[i - Len(s)]
  <2>1. i \in 1..(Len(s) + Len(t)) /\ ~ (i <= Len(s))
    BY <1>1
  <2>. QED
    BY <1>2, <2>1
<1>4. ASSUME NEW i \in 1..Len(s) PROVE Cat(s, t)[i] = s[i]
  <2>1. i \in 1..(Len(s) + Len(t)) /\ i <= Len(s)
    BY <1>1
  <2>. QED
    BY <1>2, <2>1
<1>. QED
  BY <1>1, <1>2, <1>3, <1>4

LEMMA Extended ==
  ASSUME NEW s \in Seq(Byte), NEW b \in Byte
  PROVE  /\ Cat(s, <<b>>) \in Seq(Byte)
         /\ Len(s) \in Nat
         /\ Len(Cat(s, <<b>>)) = Len(s) + 1
         /\ \A i \in 1..Len(s) : Cat(s, <<b>>)[i] = s[i]
         /\ Cat(s, <<b>>)[Len(s) + 1] = b
BY DEF Cat

LEMMA SameBytes ==
  ASSUME NEW n \in Nat, NEW b \in Byte
  PROVE  /\ [i \in 1..n |-> b] \in Seq(Byte)
         /\ Len([i \in 1..n |-> b]) = n
<1>1. [i \in 1..n |-> b] \in [1..n -> Byte]
  OBVIOUS
<1>2. [i \in 1..n |-> b] \in Seq(Byte)
  BY <1>1, SeqDef
<1>. QED
  BY <1>2, LenProperties

(* The bytes of a header, and where they are. *)
LengthByte(h) == IF h.kind = 2 THEN 1 ELSE 0

Opening == <<0>> \o [i \in 1..16 |-> 255]

LEMMA OpeningBytes == Opening \in Seq(Byte) /\ Len(Opening) = 17
<1>. DEFINE u == [i \in 1..16 |-> 255]
<1>1. u \in Seq(Byte) /\ Len(u) = 16
  BY SameBytes DEF Byte
<1>2. <<0>> \in Seq(Byte) /\ Len(<<0>>) = 1
  BY DEF Byte
<1>3. Opening = Cat(<<0>>, u)
  BY DEF Opening, Cat
<1>. HIDE DEF u
<1>4. Cat(<<0>>, u) \in Seq(Byte) /\ Len(Cat(<<0>>, u)) = Len(<<0>>) + Len(u)
  BY <1>1, <1>2, Joined
<1>. QED
  BY <1>1, <1>2, <1>3, <1>4

Front(h) ==
  Cat(Cat(Cat(Cat(Cat(Opening, <<Len(h.addons)>>), h.addons), <<h.command>>),
          h.port), <<h.kind>>)

LEMMA FrontLayout ==
  ASSUME NEW h, IsHeader(h), NEW a, a = Len(h.addons)
  PROVE  /\ Front(h) \in Seq(Byte)
         /\ a \in Nat
         /\ Len(Front(h)) = 22 + a
         /\ Front(h)[18] = a
         /\ Front(h)[19 + a] = h.command
         /\ Front(h)[20 + a] = h.port[1]
         /\ Front(h)[21 + a] = h.port[2]
         /\ Front(h)[22 + a] = h.kind
<1>. DEFINE s3 == Cat(Opening, <<a>>)
            s4 == Cat(s3, h.addons)
            s5 == Cat(s4, <<h.command>>)
            s6 == Cat(s5, h.port)
            s7 == Cat(s6, <<h.kind>>)
<1>0. /\ h.addons \in Seq(Byte) /\ h.port \in Seq(Byte)
      /\ a \in Byte /\ a \in Nat /\ Len(h.port) = 2 /\ h.command \in Byte
      /\ h.kind \in Byte
  BY DEF IsHeader, Byte
<1>1. s3 \in Seq(Byte) /\ Len(s3) = 18 /\ s3[18] = a
  <2>1. /\ s3 \in Seq(Byte) /\ Len(s3) = Len(Opening) + 1
        /\ s3[Len(Opening) + 1] = a
    BY <1>0, OpeningBytes, Extended
  <2>. QED
    BY <2>1, OpeningBytes
<1>. HIDE DEF s3
<1>2. s4 \in Seq(Byte) /\ Len(s4) = 18 + a /\ s4[18] = a
  <2>1. /\ s4 \in Seq(Byte) /\ Len(s4) = Len(s3) + Len(h.addons)
        /\ \A i \in 1..Len(s3) : s4[i] = s3[i]
    BY <1>0, <1>1, Joined
  <2>2. 18 \in 1..Len(s3)
    BY <1>1
  <2>. QED
    BY <1>1, <2>1, <2>2
<1>. HIDE DEF s4
<1>3. /\ s5 \in Seq(Byte) /\ Len(s5) = 19 + a
      /\ s5[18] = a /\ s5[19 + a] = h.command
  <2>1. /\ s5 \in Seq(Byte) /\ Len(s5) = Len(s4) + 1
        /\ \A i \in 1..Len(s4) : s5[i] = s4[i]
        /\ s5[Len(s4) + 1] = h.command
    BY <1>0, <1>2, Extended
  <2>2. 18 \in 1..Len(s4) /\ Len(s4) + 1 = 19 + a
    BY <1>0, <1>2
  <2>. QED
    BY <1>2, <2>1, <2>2
<1>. HIDE DEF s5
<1>4. /\ s6 \in Seq(Byte) /\ Len(s6) = 21 + a
      /\ s6[18] = a /\ s6[19 + a] = h.command
      /\ s6[20 + a] = h.port[1] /\ s6[21 + a] = h.port[2]
  <2>1. /\ s6 \in Seq(Byte) /\ Len(s6) = Len(s5) + Len(h.port)
        /\ \A i \in 1..Len(s5) : s6[i] = s5[i]
        /\ \A i \in (Len(s5) + 1)..(Len(s5) + Len(h.port)) :
             s6[i] = h.port[i - Len(s5)]
    BY <1>0, <1>3, Joined
  <2>2. /\ 18 \in 1..Len(s5) /\ 19 + a \in 1..Len(s5)
        /\ Len(s5) + Len(h.port) = 21 + a
        /\ 20 + a \in (Len(s5) + 1)..(Len(s5) + Len(h.port))
        /\ 21 + a \in (Len(s5) + 1)..(Len(s5) + Len(h.port))
        /\ (20 + a) - Len(s5) = 1 /\ (21 + a) - Len(s5) = 2
    BY <1>0, <1>3
  <2>3. s6[20 + a] = h.port[1] /\ s6[21 + a] = h.port[2]
    BY <2>1, <2>2
  <2>. QED
    BY <1>3, <2>1, <2>2, <2>3
<1>. HIDE DEF s6
<1>5. /\ s7 \in Seq(Byte) /\ Len(s7) = 22 + a
      /\ \A i \in 1..Len(s6) : s7[i] = s6[i]
      /\ s7[22 + a] = h.kind
  <2>1. /\ s7 \in Seq(Byte) /\ Len(s7) = Len(s6) + 1
        /\ \A i \in 1..Len(s6) : s7[i] = s6[i]
        /\ s7[Len(s6) + 1] = h.kind
    BY <1>0, <1>4, Extended
  <2>2. Len(s6) + 1 = 22 + a
    BY <1>0, <1>4
  <2>. QED
    BY <2>1, <2>2
<1>6. Front(h) = s7
  BY DEF Front, s3, s4, s5, s6
<1>. HIDE DEF s7
<1>7. /\ 18 \in 1..Len(s6) /\ 19 + a \in 1..Len(s6)
      /\ 20 + a \in 1..Len(s6) /\ 21 + a \in 1..Len(s6)
  BY <1>0, <1>4
<1>. QED
  BY <1>0, <1>4, <1>5, <1>6, <1>7

(* Where the bytes of w are, if it is the wire of h: a bytes of addons, l  *)
(* of length, d of address. *)
Laid(w, h, a, l, d) ==
  /\ w \in Seq(Byte)
  /\ a \in Nat /\ l \in Nat /\ d \in Nat
  /\ Len(w) = 22 + a + l + d
  /\ \A i \in 1..(22 + a) : w[i] = Front(h)[i]
  /\ h.kind = 2 => l = 1 /\ w[23 + a] = d
  /\ \A i \in (23 + a + l)..(22 + a + l + d) : w[i] = h.address[i - (22 + a + l)]

LEMMA WireLayout ==
  ASSUME NEW h, IsHeader(h)
  PROVE  Laid(Wire(h), h, Len(h.addons), LengthByte(h), Len(h.address))
<1>. DEFINE a == Len(h.addons)
            l == LengthByte(h)
            d == Len(h.address)
            k == IF h.kind = 2 THEN <<Len(h.address)>> ELSE <<>>
            f == Front(h)
            s == Cat(f, k)
            w == Cat(s, h.address)
<1>0. /\ d \in Nat /\ h.address \in Seq(Byte)
      /\ h.kind = 2 => d \in Byte
  BY LenProperties DEF IsHeader
<1>1. f \in Seq(Byte) /\ Len(f) = 22 + a /\ a \in Nat
  BY FrontLayout
<1>2. /\ k \in Seq(Byte) /\ Len(k) = l /\ l \in Nat
      /\ h.kind = 2 => l = 1 /\ k[1] = d
  <2>1. CASE h.kind = 2
    BY <1>0, <2>1 DEF LengthByte
  <2>2. CASE h.kind # 2
    BY <2>2, EmptySeq DEF LengthByte
  <2>. QED
    BY <2>1, <2>2
<1>3. Wire(h) = w
  BY DEF Wire, Front, Cat, Opening
<1>. HIDE DEF a, l, d, k, f
<1>4. /\ s \in Seq(Byte) /\ Len(s) = 22 + a + l
      /\ \A i \in 1..(22 + a) : s[i] = f[i]
      /\ h.kind = 2 => s[23 + a] = d
  <2>1. /\ s \in Seq(Byte) /\ Len(s) = Len(f) + Len(k)
        /\ \A i \in 1..Len(f) : s[i] = f[i]
        /\ \A i \in (Len(f) + 1)..(Len(f) + Len(k)) : s[i] = k[i - Len(f)]
    BY <1>1, <1>2, Joined
  <2>2. h.kind = 2 => /\ 23 + a \in (Len(f) + 1)..(Len(f) + Len(k))
                      /\ (23 + a) - Len(f) = 1
    BY <1>1, <1>2
  <2>3. h.kind = 2 => s[23 + a] = d
    BY <1>2, <2>1, <2>2
  <2>. QED
    BY <1>1, <1>2, <2>1, <2>3
<1>. HIDE DEF s
<1>5. /\ w \in Seq(Byte) /\ Len(w) = 22 + a + l + d
      /\ \A i \in 1..(22 + a + l) : w[i] = s[i]
      /\ \A i \in (23 + a + l)..(22 + a + l + d) : w[i] = h.address[i - (22 + a + l)]
  <2>1. /\ w \in Seq(Byte) /\ Len(w) = Len(s) + Len(h.address)
        /\ \A i \in 1..Len(s) : w[i] = s[i]
        /\ \A i \in (Len(s) + 1)..(Len(s) + Len(h.address)) :
             w[i] = h.address[i - Len(s)]
    BY <1>0, <1>4, Joined
  <2>2. Len(s) + 1 = 23 + a + l /\ Len(h.address) = d
    BY <1>1, <1>2, <1>4 DEF d
  <2>. QED
    BY <1>4, <2>1, <2>2
<1>. HIDE DEF w
<1>6. /\ \A i \in 1..(22 + a) : i \in 1..(22 + a + l)
      /\ h.kind = 2 => 23 + a \in 1..(22 + a + l)
  BY <1>1, <1>2
<1>7. \A i \in 1..(22 + a) : w[i] = Front(h)[i]
  BY <1>4, <1>5, <1>6 DEF f
<1>8. h.kind = 2 => l = 1 /\ w[23 + a] = d
  BY <1>2, <1>4, <1>5, <1>6
<1>9. Laid(w, h, a, l, d)
  BY <1>0, <1>1, <1>2, <1>5, <1>7, <1>8 DEF Laid
<1>. QED
  BY <1>3, <1>9 DEF a, l, d

(* Pieces of what has come. *)
LEMMA Piece ==
  ASSUME NEW c \in Seq(Byte), NEW m \in Nat \ {0}, NEW n \in Nat, n <= Len(c)
  PROVE  /\ SubSeq(c, m, n) \in Seq(Byte)
         /\ Len(SubSeq(c, m, n)) = IF m <= n THEN n - m + 1 ELSE 0
         /\ \A i \in 1..(n - m + 1) : SubSeq(c, m, n)[i] = c[m + i - 1]
<1>1. Len(c) \in Nat /\ \A i \in 1..Len(c) : c[i] \in Byte
  BY LenProperties, ElementOfSeq
<1>2. \A i \in m..n : c[i] \in Byte
  BY <1>1
<1>3. m \in Int /\ n \in Int
  OBVIOUS
<1>. QED
  BY <1>2, <1>3, SubSeqProperties

LEMMA SamePieces ==
  ASSUME NEW c \in Seq(Byte), NEW m \in Nat \ {0}, NEW n \in Nat, n <= Len(c),
         NEW t \in Seq(Byte), NEW k \in Nat, k <= Len(t), k = n - m + 1,
         \A i \in 1..k : c[m + i - 1] = t[i]
  PROVE  SubSeq(c, m, n) = SubSeq(t, 1, k)
<1>. DEFINE x == SubSeq(c, m, n)
            y == SubSeq(t, 1, k)
<1>1. /\ x \in Seq(Byte)
      /\ Len(x) = IF m <= n THEN n - m + 1 ELSE 0
      /\ \A i \in 1..(n - m + 1) : x[i] = c[m + i - 1]
  BY Piece
<1>2. /\ y \in Seq(Byte)
      /\ Len(y) = IF 1 <= k THEN k - 1 + 1 ELSE 0
      /\ \A i \in 1..(k - 1 + 1) : y[i] = t[1 + i - 1]
  <2>1. 1 \in Nat \ {0}
    OBVIOUS
  <2>. QED
    BY <2>1, Piece
<1>. HIDE DEF x, y
<1>3. Len(x) = k /\ Len(y) = k
  BY <1>1, <1>2
<1>4. ASSUME NEW i \in 1..k PROVE x[i] = y[i]
  <2>1. i \in 1..(n - m + 1) /\ i \in 1..(k - 1 + 1) /\ 1 + i - 1 = i
    OBVIOUS
  <2>2. x[i] = c[m + i - 1]
    BY <1>1, <2>1
  <2>3. y[i] = t[i]
    BY <1>2, <2>1
  <2>. QED
    BY <2>2, <2>3
<1>5. x = y
  BY <1>1, <1>2, <1>3, <1>4, SeqEqual
<1>. QED
  BY <1>5 DEF x, y

(* What has come is the wire, as far as it goes. *)
LEMMA ArrivedBytes ==
  ASSUME NEW h, IsHeader(h), NEW g \in Nat,
         NEW c, c = Arrived([head |-> h, got |-> g])
  PROVE  /\ c \in Seq(Byte) /\ Len(c) = g
         /\ Len(Wire(h)) \in Nat
         /\ \A i \in 1..g : i <= Len(Wire(h)) => c[i] = Wire(h)[i]
<1>. DEFINE w == Wire(h)
            u == [i \in 1..g |-> 77]
            x == Cat(w, u)
<1>1. w \in Seq(Byte) /\ Len(w) \in Nat
  BY WireLayout, LenProperties DEF Laid
<1>2. u \in Seq(Byte) /\ Len(u) = g
  BY SameBytes DEF Byte
<1>3. c = SubSeq(x, 1, g)
  BY DEF Arrived, Cat
<1>. HIDE DEF w, u
<1>4. /\ x \in Seq(Byte) /\ Len(x) = Len(w) + Len(u)
      /\ \A i \in 1..Len(w) : x[i] = w[i]
  BY <1>1, <1>2, Joined
<1>. HIDE DEF x
<1>5. /\ c \in Seq(Byte)
      /\ Len(c) = IF 1 <= g THEN g - 1 + 1 ELSE 0
      /\ \A i \in 1..(g - 1 + 1) : c[i] = x[1 + i - 1]
  <2>1. 1 \in Nat \ {0} /\ g <= Len(x)
    BY <1>1, <1>2, <1>4
  <2>2. /\ SubSeq(x, 1, g) \in Seq(Byte)
        /\ Len(SubSeq(x, 1, g)) = IF 1 <= g THEN g - 1 + 1 ELSE 0
        /\ \A i \in 1..(g - 1 + 1) : SubSeq(x, 1, g)[i] = x[1 + i - 1]
    BY <1>4, <2>1, Piece
  <2>. QED
    BY <1>3, <2>2, Zenon
<1>6. ASSUME NEW i \in 1..g, i <= Len(w) PROVE c[i] = w[i]
  <2>1. i \in 1..(g - 1 + 1) /\ 1 + i - 1 = i /\ i \in 1..Len(w)
    BY <1>1, <1>6
  <2>2. c[i] = x[i]
    BY <1>5, <2>1
  <2>. QED
    BY <1>4, <2>1, <2>2
<1>7. Len(c) = g
  BY <1>5
<1>. QED
  BY <1>1, <1>5, <1>6, <1>7 DEF w

(* How long the address is, by its kind. *)
LEMMA SizeOfKind ==
  ASSUME NEW c
  PROVE  /\ Kind(c) = 1 => AddressSize(c) = 4
         /\ Kind(c) = 2 => AddressSize(c) = At(c, KindAt(c) + 1)
         /\ Kind(c) = 3 => AddressSize(c) = 16
<1>1. 1 # 2 /\ 1 # 3 /\ 2 # 3
  OBVIOUS
<1>. QED
  BY <1>1, Zenon DEF AddressSize

LEMMA RoomForLength ==
  ASSUME NEW a \in Nat, NEW l \in Nat, NEW d \in Nat, l = 1
  PROVE  23 + a <= 22 + a + l + d
OBVIOUS

(* Where the fields are in a chunk c of g bytes, whose header has a bytes  *)
(* of addons, l of length and d of address. *)
Found(c, h, g, a, l, d) ==
  /\ c \in Seq(Byte) /\ Len(c) = g
  /\ a \in Nat /\ l \in Nat /\ d \in Nat
  /\ 22 + a + l <= g
  /\ CommandAt(c) = 18 + a /\ At(c, CommandAt(c)) = h.command
  /\ c[20 + a] = h.port[1] /\ c[21 + a] = h.port[2]
  /\ AddressAt(c) = 22 + a + l /\ AddressSize(c) = d
  /\ h.kind = 3 => 22 + a + l + d <= g
  /\ \A i \in 1..d : 22 + a + l + i <= g => c[22 + a + l + i] = h.address[i]

(* That is where parse_vless_header takes them from, when it raises nothing. *)
LEMMA FieldsFound ==
  ASSUME NEW h, IsHeader(h), NEW g \in Nat, ~ Raises(Arrived([head |-> h, got |-> g]))
  PROVE  Found(Arrived([head |-> h, got |-> g]), h, g,
               Len(h.addons), LengthByte(h), Len(h.address))
<1>. SUFFICES ASSUME NEW c, c = Arrived([head |-> h, got |-> g]), ~ Raises(c),
                     NEW a, a = Len(h.addons), NEW l, l = LengthByte(h),
                     NEW d, d = Len(h.address)
              PROVE  Found(c, h, g, a, l, d)
  OBVIOUS
<1>. DEFINE w == Wire(h)
            n == 22 + a + l + d
<1>. HIDE DEF w
<1>w. Laid(w, h, a, l, d)
  BY WireLayout DEF w
<1>0. a \in Nat /\ l \in Nat /\ d \in Nat /\ Len(w) = n
  BY <1>w DEF Laid
<1>1. /\ \A i \in 1..(22 + a) : w[i] = Front(h)[i]
      /\ h.kind = 2 => w[23 + a] = d
      /\ \A i \in (23 + a + l)..n : w[i] = h.address[i - (22 + a + l)]
  BY <1>w DEF Laid
<1>2. /\ Front(h)[18] = a /\ Front(h)[19 + a] = h.command
      /\ Front(h)[20 + a] = h.port[1] /\ Front(h)[21 + a] = h.port[2]
      /\ Front(h)[22 + a] = h.kind
  BY FrontLayout
<1>3. /\ c \in Seq(Byte) /\ Len(c) = g
      /\ \A i \in 1..g : i <= Len(w) => c[i] = w[i]
  BY ArrivedBytes DEF w
<1>4. g >= 24
  BY <1>3 DEF Raises, MinFirst
<1>5. c[18] = a
  <2>1. 18 \in 1..g /\ 18 <= Len(w) /\ 18 \in 1..(22 + a)
    BY <1>0, <1>1, <1>4
  <2>2. c[18] = w[18] /\ w[18] = Front(h)[18]
    BY <1>1, <1>3, <2>1
  <2>. QED
    BY <1>2, <2>2
<1>6. CommandAt(c) = 18 + a /\ KindAt(c) = 21 + a
  BY <1>0, <1>5 DEF CommandAt, KindAt, At
<1>7. 22 + a <= g
  BY <1>0, <1>3, <1>6 DEF Raises
<1>8. \A i \in 1..(22 + a) : c[i] = Front(h)[i]
  <2>1. \A i \in 1..(22 + a) : i \in 1..g /\ i <= Len(w)
    BY <1>0, <1>1, <1>7
  <2>. QED
    BY <1>1, <1>3, <2>1
<1>9. /\ c[19 + a] = h.command /\ c[20 + a] = h.port[1]
      /\ c[21 + a] = h.port[2] /\ c[22 + a] = h.kind
  <2>1. /\ 19 + a \in 1..(22 + a) /\ 20 + a \in 1..(22 + a)
        /\ 21 + a \in 1..(22 + a) /\ 22 + a \in 1..(22 + a)
    BY <1>0
  <2>. QED
    BY <1>2, <1>8, <2>1
<1>10. Kind(c) = h.kind /\ At(c, CommandAt(c)) = h.command
  <2>1. 18 + a + 1 = 19 + a /\ 21 + a + 1 = 22 + a
    BY <1>0
  <2>. QED
    BY <1>6, <1>9, <2>1 DEF Kind, At
<1>11. AddressAt(c) = 22 + a + l
  <2>1. AddressAt(c) = 21 + a + (IF h.kind = 2 THEN 2 ELSE 1)
    BY <1>6, <1>10 DEF AddressAt
  <2>2. CASE h.kind = 2
    <3>1. l = 1 /\ AddressAt(c) = 21 + a + 2
      BY <2>1, <2>2 DEF LengthByte
    <3>. QED
      BY <1>0, <3>1
  <2>3. CASE h.kind # 2
    <3>1. l = 0 /\ AddressAt(c) = 21 + a + 1
      BY <2>1, <2>3 DEF LengthByte
    <3>. QED
      BY <1>0, <3>1
  <2>. QED
    BY <2>2, <2>3
<1>12. h.kind \in 1..3
  BY <1>10 DEF Raises
<1>13. 22 + a + l <= g
  <2>1. CASE h.kind = 2
    <3>1. ~ (Len(c) <= KindAt(c) + 1) /\ l = 1
      BY <1>10, <2>1 DEF Raises, LengthByte
    <3>2. ~ (g <= 21 + a + 1)
      BY <1>3, <1>6, <3>1
    <3>. QED
      BY <1>0, <3>1, <3>2
  <2>2. CASE h.kind # 2
    BY <1>0, <1>7, <2>2 DEF LengthByte
  <2>. QED
    BY <2>1, <2>2
<1>14. AddressSize(c) = d
  <2>1. CASE h.kind = 2
    <3>1. /\ 23 + a \in 1..g /\ 23 + a <= Len(w)
          /\ KindAt(c) + 1 + 1 = 23 + a
      <4>1. l = 1
        BY <2>1 DEF LengthByte
      <4>. QED
        <5>1. 23 + a <= g
          BY <1>0, <1>13, <4>1
        <5>2. 23 + a <= Len(w)
          BY <1>0, <4>1, RoomForLength, Zenon
        <5>3. KindAt(c) + 1 + 1 = 23 + a
          BY <1>0, <1>6
        <5>. QED
          BY <1>0, <5>1, <5>2, <5>3
    <3>2. c[23 + a] = d
      BY <1>1, <1>3, <2>1, <3>1
    <3>. QED
      BY <1>10, <2>1, <3>1, <3>2, SizeOfKind DEF At
  <2>2. CASE h.kind = 1
    BY <1>10, <2>2, SizeOfKind DEF IsHeader
  <2>3. CASE h.kind = 3
    BY <1>10, <2>3, SizeOfKind DEF IsHeader
  <2>. QED
    BY <1>12, <2>1, <2>2, <2>3
<1>15. h.kind = 3 => n <= g
  <2>. SUFFICES ASSUME h.kind = 3 PROVE n <= g
    OBVIOUS
  <2>1. d = 16
    BY DEF IsHeader
  <2>2. g >= 22 + a + l + 16
    BY <1>0, <1>3, <1>10, <1>11 DEF Raises
  <2>. QED
    BY <1>0, <2>1, <2>2
<1>16. ASSUME NEW i \in 1..d, 22 + a + l + i <= g
       PROVE  c[22 + a + l + i] = h.address[i]
  <2>0. i \in Nat /\ 1 <= i /\ i <= d
    BY <1>0
  <2>1. /\ 22 + a + l + i \in 1..g /\ 22 + a + l + i <= Len(w)
        /\ 22 + a + l + i \in (23 + a + l)..n
        /\ (22 + a + l + i) - (22 + a + l) = i
    <3>1. 22 + a + l + i \in 1..g
      BY <1>0, <1>16, <2>0
    <3>2. 22 + a + l + i <= Len(w)
      BY <1>0, <2>0
    <3>3. 22 + a + l + i \in (23 + a + l)..n
      <4>1. 23 + a + l <= 22 + a + l + i
        BY <1>0, <2>0
      <4>2. 22 + a + l + i <= n
        BY <1>0, <2>0
      <4>. QED
        BY <1>0, <2>0, <4>1, <4>2
    <3>4. (22 + a + l + i) - (22 + a + l) = i
      BY <1>0, <2>0
    <3>. QED
      BY <3>1, <3>2, <3>3, <3>4
  <2>2. c[22 + a + l + i] = w[22 + a + l + i]
    BY <1>3, <2>1
  <2>3. w[22 + a + l + i] = h.address[(22 + a + l + i) - (22 + a + l)]
    BY <1>1, <2>1
  <2>. QED
    BY <2>1, <2>2, <2>3
<1>. QED
  BY <1>0, <1>3, <1>6, <1>9, <1>10, <1>11, <1>13, <1>14, <1>15, <1>16 DEF Found

(* A slice within the chunk, and one beyond its end. *)
LEMMA SliceOf ==
  ASSUME NEW c \in Seq(Byte), NEW p \in Nat, NEW k \in Nat
  PROVE  /\ p + k <= Len(c) => Slice(c, p, k) = SubSeq(c, p + 1, p + k)
         /\ p + k >= Len(c) => Slice(c, p, k) = SubSeq(c, p + 1, Len(c))
<1>1. Len(c) \in Nat
  BY LenProperties
<1>2. CASE p + k < Len(c)
  BY <1>1, <1>2 DEF Slice
<1>3. CASE p + k = Len(c)
  BY <1>1, <1>3 DEF Slice
<1>4. CASE p + k > Len(c)
  BY <1>1, <1>4 DEF Slice
<1>. QED
  BY <1>1, <1>2, <1>3, <1>4

LEMMA PortFound ==
  ASSUME NEW h, IsHeader(h), NEW g \in Nat, NEW c, NEW a, NEW l, NEW d,
         Found(c, h, g, a, l, d)
  PROVE  Slice(c, CommandAt(c) + 1, 2) = h.port
<1>1. /\ c \in Seq(Byte) /\ Len(c) = g /\ a \in Nat /\ l \in Nat
      /\ 22 + a + l <= g /\ CommandAt(c) = 18 + a
      /\ c[20 + a] = h.port[1] /\ c[21 + a] = h.port[2]
  BY DEF Found
<1>2. h.port \in Seq(Byte) /\ Len(h.port) = 2
  BY DEF IsHeader
<1>3. Slice(c, 19 + a, 2) = SubSeq(c, 20 + a, 21 + a)
  <2>1. 19 + a \in Nat /\ 2 \in Nat /\ 19 + a + 2 <= Len(c)
    BY <1>1
  <2>2. Slice(c, 19 + a, 2) = SubSeq(c, 19 + a + 1, 19 + a + 2)
    BY <1>1, <2>1, SliceOf
  <2>3. 19 + a + 1 = 20 + a /\ 19 + a + 2 = 21 + a
    BY <1>1
  <2>. QED
    BY <2>2, <2>3
<1>4. SubSeq(c, 20 + a, 21 + a) = SubSeq(h.port, 1, 2)
  <2>1. /\ 20 + a \in Nat \ {0} /\ 21 + a \in Nat /\ 21 + a <= Len(c)
        /\ 2 = (21 + a) - (20 + a) + 1 /\ 2 <= Len(h.port)
    BY <1>1, <1>2
  <2>2. ASSUME NEW i \in 1..2 PROVE c[20 + a + i - 1] = h.port[i]
    <3>1. CASE i = 1
      BY <1>1, <3>1
    <3>2. CASE i = 2
      BY <1>1, <3>2
    <3>. QED
      BY <3>1, <3>2
  <2>. QED
    BY <1>1, <1>2, <2>1, <2>2, SamePieces
<1>5. SubSeq(h.port, 1, 2) = h.port
  BY <1>2, SubSeqFull
<1>6. CommandAt(c) + 1 = 19 + a
  BY <1>1
<1>. QED
  BY <1>3, <1>4, <1>5, <1>6

LEMMA AddressFound ==
  ASSUME NEW h, IsHeader(h), NEW g \in Nat, NEW c, NEW a, NEW l, NEW d,
         Found(c, h, g, a, l, d), d = Len(h.address)
  PROVE  /\ g >= 22 + a + l + d => Slice(c, AddressAt(c), AddressSize(c)) = h.address
         /\ g < 22 + a + l + d =>
              Slice(c, AddressAt(c), AddressSize(c))
                = SubSeq(h.address, 1, d - ((22 + a + l + d) - g))
<1>. DEFINE p == 22 + a + l
<1>1. /\ c \in Seq(Byte) /\ Len(c) = g /\ a \in Nat /\ l \in Nat /\ d \in Nat
      /\ p <= g /\ AddressAt(c) = p /\ AddressSize(c) = d
  BY DEF Found
<1>2. /\ p \in Nat
      /\ \A i \in 1..d : p + i <= g => c[p + i] = h.address[i]
  BY <1>1 DEF Found
<1>3. h.address \in Seq(Byte)
  BY DEF IsHeader
<1>. HIDE DEF p
<1>4. ASSUME NEW k \in Nat, k <= d, p + k <= g
      PROVE  SubSeq(c, p + 1, p + k) = SubSeq(h.address, 1, k)
  <2>. DEFINE m == p + 1
              e == p + k
  <2>0. p \in Nat /\ Len(c) = g /\ g \in Nat
    BY <1>1, <1>2
  <2>1. /\ m \in Nat \ {0} /\ e \in Nat /\ e <= Len(c)
        /\ k = e - m + 1 /\ k <= Len(h.address)
    <3>1. m \in Nat \ {0} /\ e \in Nat /\ k = e - m + 1
      BY <2>0
    <3>2. e <= Len(c)
      BY <1>4, <2>0
    <3>. QED
      BY <1>4, <3>1, <3>2
  <2>2. ASSUME NEW i \in 1..k PROVE c[m + i - 1] = h.address[i]
    <3>1. i \in 1..d /\ p + i <= g /\ m + i - 1 = p + i
      BY <1>1, <1>2, <1>4
    <3>. QED
      BY <1>2, <3>1
  <2>. HIDE DEF m, e
  <2>3. SubSeq(c, m, e) = SubSeq(h.address, 1, k)
    BY <1>1, <1>3, <1>4, <2>1, <2>2, SamePieces
  <2>. QED
    BY <2>3 DEF m, e
<1>5. ASSUME g >= p + d PROVE Slice(c, p, d) = h.address
  <2>1. Slice(c, p, d) = SubSeq(c, p + 1, p + d)
    BY <1>1, <1>2, <1>5, SliceOf
  <2>2. SubSeq(c, p + 1, p + d) = SubSeq(h.address, 1, d)
    <3>1. d \in Nat /\ d <= d /\ p + d <= g
      BY <1>1, <1>2, <1>5
    <3>. QED
      BY <1>4, <3>1
  <2>. QED
    BY <1>3, <2>1, <2>2, SubSeqFull
<1>6. ASSUME g < p + d PROVE Slice(c, p, d) = SubSeq(h.address, 1, d - ((p + d) - g))
  <2>1. Slice(c, p, d) = SubSeq(c, p + 1, g)
    BY <1>1, <1>2, <1>6, SliceOf
  <2>2. /\ g - p \in Nat /\ g - p <= d /\ p + (g - p) <= g /\ p + (g - p) = g
        /\ d - ((p + d) - g) = g - p
    BY <1>1, <1>2, <1>6
  <2>3. SubSeq(c, p + 1, p + (g - p)) = SubSeq(h.address, 1, g - p)
    BY <1>4, <2>2
  <2>. QED
    BY <2>1, <2>2, <2>3
<1>7. /\ g >= p + d => Slice(c, AddressAt(c), AddressSize(c)) = h.address
      /\ g < p + d => Slice(c, AddressAt(c), AddressSize(c))
                        = SubSeq(h.address, 1, d - ((p + d) - g))
  BY <1>1, <1>5, <1>6
<1>. QED
  BY <1>7 DEF p

LEMMA PayloadFound ==
  ASSUME NEW h, NEW g \in Nat, NEW c, NEW a, NEW l, NEW d,
         Found(c, h, g, a, l, d)
  PROVE  LET n == 22 + a + l + d
             r == Slice(c, AddressAt(c) + AddressSize(c), Len(c))
         IN  /\ g >= n => Len(r) = g - n
             /\ g < n => r = <<>>
<1>. DEFINE n == 22 + a + l + d
            r == Slice(c, AddressAt(c) + AddressSize(c), Len(c))
            x == SubSeq(c, n + 1, g)
<1>1. /\ c \in Seq(Byte) /\ Len(c) = g /\ n \in Nat
      /\ AddressAt(c) + AddressSize(c) = n
  BY DEF Found
<1>2. r = x
  <2>. HIDE DEF n
  <2>1. n \in Nat /\ g \in Nat /\ n + g >= Len(c)
    BY <1>1
  <2>2. Slice(c, n, g) = SubSeq(c, n + 1, g)
    BY <1>1, <2>1, SliceOf
  <2>. QED
    BY <1>1, <2>2
<1>. HIDE DEF n, r
<1>3. x \in Seq(Byte) /\ Len(x) = IF n + 1 <= g THEN g - (n + 1) + 1 ELSE 0
  <2>1. n + 1 \in Nat \ {0} /\ g <= Len(c)
    BY <1>1
  <2>. QED
    BY <1>1, <2>1, Piece
<1>. HIDE DEF x
<1>4. g >= n => Len(x) = g - n
  BY <1>1, <1>3
<1>5. g < n => x = <<>>
  BY <1>1, <1>3, EmptySeq
<1>6. (g >= n => Len(r) = g - n) /\ (g < n => r = <<>>)
  BY <1>2, <1>4, <1>5
<1>. QED
  BY <1>6 DEF n, r

(* A chunk that is parsed without an exception is split where its client   *)
(* put the header together. *)
LEMMA SplitOfHeader ==
  ASSUME NEW h, IsHeader(h), NEW g \in Nat,
         Parse(Arrived([head |-> h, got |-> g])).ok
  PROVE  LET n == Len(Wire(h))
             r == Parse(Arrived([head |-> h, got |-> g]))
         IN  /\ r.command = h.command /\ r.port = h.port
             /\ IF g >= n
                THEN r.address = h.address /\ Len(r.payload) = g - n
                ELSE /\ h.kind # 3
                     /\ r.address = SubSeq(h.address, 1, Len(h.address) - (n - g))
                     /\ r.payload = <<>>
<1>. DEFINE c == Arrived([head |-> h, got |-> g])
            a == Len(h.addons)
            l == LengthByte(h)
            d == Len(h.address)
            n == Len(Wire(h))
            r == Parse(c)
<1>1. ~ Raises(c)
  BY DEF Parse, Bad
<1>2. /\ r.command = At(c, CommandAt(c))
      /\ r.port = Slice(c, CommandAt(c) + 1, 2)
      /\ r.address = Slice(c, AddressAt(c), AddressSize(c))
      /\ r.payload = Slice(c, AddressAt(c) + AddressSize(c), Len(c))
  BY <1>1 DEF Parse
<1>3. Found(c, h, g, a, l, d)
  BY <1>1, FieldsFound
<1>4. n = 22 + a + l + d /\ n \in Nat
  BY WireLayout DEF Laid
<1>5. r.command = h.command /\ (h.kind = 3 => n <= g)
  BY <1>2, <1>3, <1>4 DEF Found
<1>6. r.port = h.port
  BY <1>2, <1>3, PortFound
<1>7. /\ g >= 22 + a + l + d => r.address = h.address
      /\ g < 22 + a + l + d => r.address = SubSeq(h.address, 1, d - ((22 + a + l + d) - g))
  BY <1>2, <1>3, AddressFound
<1>8. /\ g >= 22 + a + l + d => Len(r.payload) = g - (22 + a + l + d)
      /\ g < 22 + a + l + d => r.payload = <<>>
  BY <1>2, <1>3, PayloadFound
<1>. HIDE DEF c, a, l, d, n, r
<1>9. CASE g >= n
  <2>1. /\ r.address = h.address /\ Len(r.payload) = g - n
    BY <1>4, <1>7, <1>8, <1>9
  <2>. QED
    BY <1>5, <1>6, <1>9, <2>1 DEF n, r, c
<1>10. CASE ~ (g >= n)
  <2>1. g < n
    BY <1>4, <1>10
  <2>2. /\ r.address = SubSeq(h.address, 1, d - (n - g)) /\ r.payload = <<>>
    BY <1>4, <1>7, <1>8, <2>1
  <2>3. h.kind # 3
    BY <1>4, <1>5, <2>1
  <2>. QED
    BY <1>5, <1>6, <1>10, <2>2, <2>3 DEF n, r, c, d
<1>. QED
  BY <1>9, <1>10

(* What has come of the header a client wrote. *)
Begun(f) ==
  \E h \in Headers, n \in FirstSizes :
    f = [head |-> h, got |-> n] /\ Parse(Arrived(f)).ok

Opened ==
  /\ DOMAIN first = Streams
  /\ \A s \in Streams : pc[s] = "dial" => Begun(first[s])

(* Only FirstChunk sets a first chunk, and it sets one that parses. *)
LEMMA OpenedStep ==
  ASSUME Base, Opened, [Next]_vars
  PROVE  Opened'
<1>. DEFINE Same == UNCHANGED first /\ \A t \in Streams : pc'[t] = "dial" => pc[t] = "dial"
            Dropped(s) == /\ pc'[s] # "dial" /\ DOMAIN first' = Streams
                          /\ \A t \in Streams \ {s} : pc'[t] = pc[t] /\ first'[t] = first[t]
<1>0. pc \in [Streams -> Stages]
  BY DEF Base, TaskType
<1>1. ASSUME Same PROVE Opened'
  BY <1>1 DEF Opened
<1>2. ASSUME NEW s \in Streams, Dropped(s) PROVE Opened'
  BY <1>2 DEF Opened
<1>3. ASSUME NEW s \in Streams, Scheduled(s) \/ Pump(s) \/ Request(s)
      PROVE  Opened'
  <2>1. ASSUME NEW h \in Headers, NEW n \in FirstSizes,
               FirstChunk(s, [head |-> h, got |-> n])
        PROVE  Opened'
    <3>. DEFINE f == [head |-> h, got |-> n]
    <3>1. CASE Parse(Arrived(f)).ok
      <4>1. Begun(f)
        BY <3>1 DEF Begun
      <4>. HIDE DEF f
      <4>2. pc' = [pc EXCEPT ![s] = "dial"] /\ first' = [first EXCEPT ![s] = f]
        BY <2>1, <3>1 DEF FirstChunk, Goto, f
      <4>. QED
        BY <1>0, <4>1, <4>2 DEF Opened
    <3>2. CASE ~ Parse(Arrived(f)).ok
      <4>1. pc' = [pc EXCEPT ![s] = "done"] /\ UNCHANGED first
        BY <2>1, <3>2 DEF FirstChunk, Goto
      <4>. QED
        BY <1>0, <1>1, <4>1
    <3>. QED
      BY <3>1, <3>2
  <2>2. CASE SetupFails(s)
    <3>1. pc' = [pc EXCEPT ![s] = "done"] /\ first' = [first EXCEPT ![s] = NoChunk]
      BY <2>2 DEF SetupFails, Goto
    <3>2. Dropped(s)
      BY <1>0, <3>1 DEF Opened
    <3>. QED
      BY <1>2, <3>2
  <2>3. CASE Dialed(s)
    <3>1. \E where \in {"ready", "drain"} : pc' = [pc EXCEPT ![s] = where]
      BY <2>3 DEF Dialed, Start, Goto
    <3>2. first' = [first EXCEPT ![s] = NoChunk]
      BY <2>3 DEF Dialed
    <3>3. Dropped(s)
      BY <1>0, <3>1, <3>2 DEF Opened
    <3>. QED
      BY <1>2, <3>3
  <2>4. CASE \/ PayloadDrained(s) \/ Begin(s) \/ Drop(s) \/ Yielded(s) \/ GetChunk(s)
             \/ GetEnd(s) \/ Abandon(s)
             \/ \E id \in load.ids, a \in load.addresses : Admit(s, id, a)
    <3>1. UNCHANGED first
      BY <2>4 DEF PayloadDrained, Begin, Drop, Yielded, GetChunk, GetEnd, Abandon, Admit
    <3>2. \E where \in Stages \ {"dial"} : pc' = [pc EXCEPT ![s] = where]
      BY <2>4 DEF PayloadDrained, Start, Begin, Drop, Yielded, GetChunk, GetEnd, Abandon,
         Admit, Goto, Stages
    <3>3. Same
      BY <1>0, <3>1, <3>2
    <3>. QED
      BY <1>1, <3>3
  <2>5. CASE \/ Leave(s) \/ Pump(s) \/ PumpRead(s) \/ PumpEof(s) \/ PumpCount(s)
             \/ UpRead(s) \/ UpEnds(s) \/ UpCount(s)
    <3>1. Same
      BY <2>5 DEF Leave, Pump, PumpRead, PumpEof, PumpCount, PumpPut, PumpEnd, UpRead,
         UpEnds, UpCount, request
    <3>. QED
      BY <1>1, <3>1
  <2>. QED
    BY <1>3, <2>1, <2>2, <2>3, <2>4, <2>5 DEF Scheduled, Request
<1>4. CASE \E p \in Packets : Packet(p)
  <2>1. Same
    BY <1>4 DEF Packet, Lookup, PacketRead, PacketEmpty, PacketCount, request
  <2>. QED
    BY <1>1, <2>1
<1>5. CASE Changed
  <2>1. Same
    BY <1>5 DEF Changed, SetActive, DeleteLink, Administer, request
  <2>. QED
    BY <1>1, <2>1
<1>6. CASE UNCHANGED vars
  <2>1. Same
    BY <1>6 DEF vars
  <2>. QED
    BY <1>1, <2>1
<1>. QED
  BY <1>3, <1>4, <1>5, <1>6 DEF Next, Changed

(* Whatever the header and wherever the first chunk breaks off, the target *)
(* that is dialled has the port and, of the address, what the client wrote *)
(* and has come, and the payload is what came behind the header            *)
(* (utils.py:103-123, xhttp.py:131-155).                                   *)
THEOREM HeaderIsSplit == Spec => []HeaderSplit
<1>1. Init => Opened
  BY DEF Init, Opened
<1>2. Base /\ Opened /\ [Next]_vars => Opened'
  BY OpenedStep
<1>3. ASSUME Opened
      PROVE  HeaderSplit
  <2>. SUFFICES ASSUME NEW s \in Streams, pc[s] = "dial"
                PROVE  LET h == first[s].head
                           n == Len(Wire(h))
                           r == Parse(Arrived(first[s]))
                       IN  /\ r.command = h.command /\ r.port = h.port
                           /\ IF first[s].got >= n
                              THEN /\ r.address = h.address
                                   /\ Len(r.payload) = first[s].got - n
                              ELSE /\ h.kind # 3
                                   /\ r.address = SubSeq(h.address, 1,
                                                         Len(h.address) - (n - first[s].got))
                                   /\ r.payload = <<>>
    BY Zenon DEF HeaderSplit
  <2>1. PICK h \in Headers, g \in FirstSizes :
          first[s] = [head |-> h, got |-> g] /\ Parse(Arrived(first[s])).ok
    BY <1>3, Zenon DEF Opened, Begun
  <2>2. IsHeader(h) /\ g \in Nat
    BY HeadersAssumption
  <2>3. first[s].head = h /\ first[s].got = g
    BY <2>1
  <2>4. Parse(Arrived([head |-> h, got |-> g])).ok
    BY <2>1
  <2>. QED
    BY <2>1, <2>2, <2>3, <2>4, SplitOfHeader
<1>. QED
  BY <1>1, <1>2, <1>3, AlwaysBase, PTL DEF Spec

-----------------------------------------------------------------------------
(* How far a link can go beyond its quota.                                 *)

(* The tasks that are past the check and have not counted yet. *)
DownWaits == {s \in Streams : pump[s] = "throttle"}
UpWaits   == {s \in Streams : up[s] = "throttle"}
PkWaits   == {p \in Packets : pk[p].at = "throttle" /\ pk[p].own}

Waits == Cardinality(DownWaits) + Cardinality(UpWaits) + Cardinality(PkWaits)

Room == link # None /\ link.limit > 0 => link.used + Waits < link.limit + Askers

LEMMA Subsets ==
  ASSUME NEW T, IsFiniteSet(T), NEW S, S \subseteq T
  PROVE  /\ Cardinality(S) \in Nat /\ Cardinality(T) \in Nat
         /\ Cardinality(S) <= Cardinality(T)
         /\ \A x \in T \ S : Cardinality(S) + 1 <= Cardinality(T)
<1>1. /\ IsFiniteSet(S) /\ Cardinality(S) \in Nat /\ Cardinality(T) \in Nat
      /\ Cardinality(S) <= Cardinality(T)
  BY FS_Subset, FS_CardinalityType
<1>2. ASSUME NEW x \in T \ S PROVE Cardinality(S) + 1 <= Cardinality(T)
  <2>1. IsFiniteSet(T \ {x}) /\ Cardinality(T \ {x}) = Cardinality(T) - 1
    BY FS_RemoveElement
  <2>2. S \subseteq T \ {x}
    OBVIOUS
  <2>3. Cardinality(S) <= Cardinality(T \ {x})
    BY <2>1, <2>2, FS_Subset
  <2>. QED
    BY <1>1, <2>1, <2>3
<1>. QED
  BY <1>1, <1>2

LEMMA AskersAre ==
  /\ Askers \in Nat /\ Askers' \in Nat
  /\ Admitted \subseteq Admitted' => Askers <= Askers'
<1>1. /\ Admitted \subseteq Streams /\ Admitted' \subseteq Streams
      /\ IsFiniteSet(Streams) /\ IsFiniteSet(Packets)
  BY XHttpAssumption DEF Admitted
<1>2. /\ IsFiniteSet(Admitted) /\ IsFiniteSet(Admitted')
      /\ Cardinality(Admitted) \in Nat /\ Cardinality(Admitted') \in Nat
      /\ Cardinality(Packets) \in Nat
  BY <1>1, FS_Subset, FS_CardinalityType
<1>3. Admitted \subseteq Admitted' => Cardinality(Admitted) <= Cardinality(Admitted')
  BY <1>2, FS_Subset
<1>. QED
  BY <1>2, <1>3 DEF Askers

LEMMA WaitersAre ==
  /\ DownWaits \subseteq Streams /\ UpWaits \subseteq Streams /\ PkWaits \subseteq Packets
  /\ IsFiniteSet(DownWaits) /\ IsFiniteSet(UpWaits) /\ IsFiniteSet(PkWaits)
  /\ Cardinality(DownWaits) \in Nat /\ Cardinality(UpWaits) \in Nat
  /\ Cardinality(PkWaits) \in Nat
  /\ Waits \in Nat
<1>1. DownWaits \subseteq Streams /\ UpWaits \subseteq Streams /\ PkWaits \subseteq Packets
  BY DEF DownWaits, UpWaits, PkWaits
<1>2. IsFiniteSet(DownWaits) /\ IsFiniteSet(UpWaits) /\ IsFiniteSet(PkWaits)
  BY <1>1, XHttpAssumption, FS_Subset
<1>3. /\ Cardinality(DownWaits) \in Nat /\ Cardinality(UpWaits) \in Nat
      /\ Cardinality(PkWaits) \in Nat
  BY <1>2, FS_CardinalityType
<1>. QED
  BY <1>1, <1>2, <1>3 DEF Waits

(* Nobody begins to wait, and the link has used no more. *)
Quiet ==
  /\ link' # None => link # None /\ link'.used = link.used /\ link'.limit = link.limit
  /\ DownWaits' \subseteq DownWaits /\ UpWaits' \subseteq UpWaits
  /\ PkWaits' \subseteq PkWaits

LEMMA QuietRoom ==
  ASSUME LinkType, LinkType', Room, Quiet, Admitted \subseteq Admitted'
  PROVE  Room'
<1>1. /\ Cardinality(DownWaits') \in Nat
      /\ Cardinality(DownWaits') <= Cardinality(DownWaits)
  BY WaitersAre, Subsets DEF Quiet
<1>2. /\ Cardinality(UpWaits') \in Nat
      /\ Cardinality(UpWaits') <= Cardinality(UpWaits)
  BY WaitersAre, Subsets DEF Quiet
<1>3. /\ Cardinality(PkWaits') \in Nat
      /\ Cardinality(PkWaits') <= Cardinality(PkWaits)
  BY WaitersAre, Subsets DEF Quiet
<1>4. Waits' \in Nat /\ Waits' <= Waits
  BY <1>1, <1>2, <1>3, WaitersAre DEF Waits
<1>5. ASSUME link' # None, link'.limit > 0 PROVE link'.used + Waits' < link'.limit + Askers'
  <2>1. /\ link # None /\ link.limit > 0 /\ link'.used = link.used /\ link'.limit = link.limit
        /\ link.used \in Nat /\ link.limit \in Nat
    BY <1>5 DEF Quiet, LinkType, Links
  <2>2. link.used + Waits < link.limit + Askers
    BY <2>1 DEF Room
  <2>. QED
    BY <1>4, <2>1, <2>2, WaitersAre, AskersAre
<1>. QED
  BY <1>5 DEF Room

(* A task passes the check, and waits with as many others as there can be. *)
LEMMA CheckedRoom ==
  ASSUME LinkType, Base', QuotaAllows(link, 1), UNCHANGED link
  PROVE  Room'
<1>1. /\ DownWaits' \subseteq Admitted' /\ UpWaits' \subseteq Admitted'
      /\ PkWaits' \subseteq Packets
  BY DEF DownWaits, UpWaits, PkWaits, Admitted, Base, Shape
<1>2. IsFiniteSet(Admitted') /\ IsFiniteSet(Packets)
  BY XHttpAssumption, FS_Subset DEF Admitted
<1>3. /\ Cardinality(DownWaits') \in Nat /\ Cardinality(Admitted') \in Nat
      /\ Cardinality(DownWaits') <= Cardinality(Admitted')
  BY <1>1, <1>2, Subsets
<1>4. /\ Cardinality(UpWaits') \in Nat
      /\ Cardinality(UpWaits') <= Cardinality(Admitted')
  BY <1>1, <1>2, Subsets
<1>5. /\ Cardinality(PkWaits') \in Nat /\ Cardinality(Packets) \in Nat
      /\ Cardinality(PkWaits') <= Cardinality(Packets)
  BY <1>1, <1>2, Subsets
<1>6. Waits' \in Nat /\ Askers' \in Nat /\ Waits' <= Askers'
  BY <1>3, <1>4, <1>5 DEF Waits, Askers
<1>7. ASSUME link.limit > 0 PROVE link.used + Waits' < link.limit + Askers'
  <2>1. link.used \in Nat /\ link.limit \in Nat
    BY DEF LinkType, Links, QuotaAllows
  <2>2. link.used + 1 <= link.limit
    BY <1>7, <2>1 DEF QuotaAllows
  <2>. QED
    BY <1>6, <2>1, <2>2
<1>. QED
  BY <1>7 DEF Room

LEMMA OneMore ==
  ASSUME NEW u \in Nat, NEW l \in Nat, NEW w \in Nat, NEW v \in Nat, NEW a \in Nat,
         NEW b \in Nat, v + 1 <= w, u + w < l + a, a <= b
  PROVE  u + 1 + v < l + b
OBVIOUS

(* A task that has waited counts its chunk. *)
LEMMA CountedRoom ==
  ASSUME LinkType, Room, Count,
         DownWaits' \subseteq DownWaits, UpWaits' \subseteq UpWaits, PkWaits' \subseteq PkWaits,
         DownWaits' # DownWaits \/ UpWaits' # UpWaits \/ PkWaits' # PkWaits,
         Admitted \subseteq Admitted'
  PROVE  Room'
<1>1. /\ Cardinality(DownWaits') \in Nat
      /\ Cardinality(DownWaits') <= Cardinality(DownWaits)
      /\ DownWaits' # DownWaits => Cardinality(DownWaits') + 1 <= Cardinality(DownWaits)
  BY WaitersAre, Subsets
<1>2. /\ Cardinality(UpWaits') \in Nat
      /\ Cardinality(UpWaits') <= Cardinality(UpWaits)
      /\ UpWaits' # UpWaits => Cardinality(UpWaits') + 1 <= Cardinality(UpWaits)
  BY WaitersAre, Subsets
<1>3. /\ Cardinality(PkWaits') \in Nat
      /\ Cardinality(PkWaits') <= Cardinality(PkWaits)
      /\ PkWaits' # PkWaits => Cardinality(PkWaits') + 1 <= Cardinality(PkWaits)
  BY WaitersAre, Subsets
<1>4. Waits' \in Nat /\ Waits' + 1 <= Waits
  BY <1>1, <1>2, <1>3, WaitersAre DEF Waits
<1>5. ASSUME link' # None, link'.limit > 0 PROVE link'.used + Waits' < link'.limit + Askers'
  <2>1. link # None /\ link \in Links /\ link' = [link EXCEPT !.used = link.used + 1]
    BY <1>5 DEF Count, LinkType
  <2>2. /\ link.used \in Nat /\ link.limit \in Nat
        /\ link'.used = link.used + 1 /\ link'.limit = link.limit
    BY <2>1 DEF Links
  <2>3. link.used + Waits < link.limit + Askers
    BY <1>5, <2>1, <2>2 DEF Room
  <2>4. Waits \in Nat /\ Askers \in Nat /\ Askers' \in Nat /\ Askers <= Askers'
    BY WaitersAre, AskersAre
  <2>5. link.used + 1 + Waits' < link.limit + Askers'
    BY <1>4, <2>2, <2>3, <2>4, OneMore, Zenon
  <2>. QED
    BY <2>2, <2>5
<1>. QED
  BY <1>5 DEF Room

LEMMA FlowsRoom ==
  ASSUME Base, Base', Room, NEW s \in Streams, Flows(s), Admitted \subseteq Admitted'
  PROVE  Room'
<1>0. /\ pump \in [Streams -> PumpStages] /\ LinkType /\ LinkType'
      /\ up \in [Streams -> {"off", "read", "throttle", "done"}]
  BY DEF Base, TaskType
<1>1. CASE PumpRead(s)
  <2>1. /\ UNCHANGED <<link, up, pk>>
        /\ pump' = [pump EXCEPT ![s] = IF QuotaAllows(link, 1) THEN "throttle" ELSE "end"]
    BY <1>1 DEF PumpRead
  <2>2. CASE QuotaAllows(link, 1)
    BY <1>0, <2>1, <2>2, CheckedRoom
  <2>3. CASE ~ QuotaAllows(link, 1)
    <3>1. Quiet
      BY <1>0, <2>1, <2>3 DEF Quiet, DownWaits, UpWaits, PkWaits
    <3>. QED
      BY <1>0, <3>1, QuietRoom
  <2>. QED
    BY <2>2, <2>3
<1>2. CASE UpRead(s)
  <2>1. /\ UNCHANGED <<link, pump, pk>>
        /\ up' = [up EXCEPT ![s] =
                    IF s \notin closed /\ QuotaAllows(link, 1) THEN "throttle" ELSE "done"]
    BY <1>2 DEF UpRead
  <2>2. CASE QuotaAllows(link, 1)
    BY <1>0, <2>1, <2>2, CheckedRoom
  <2>3. CASE ~ QuotaAllows(link, 1)
    <3>1. Quiet
      BY <1>0, <2>1, <2>3 DEF Quiet, DownWaits, UpWaits, PkWaits
    <3>. QED
      BY <1>0, <3>1, QuietRoom
  <2>. QED
    BY <2>2, <2>3
<1>3. CASE PumpCount(s)
  <2>1. /\ Count /\ UNCHANGED <<up, pk>>
        /\ pump[s] = "throttle" /\ pump' = [pump EXCEPT ![s] = "put"]
    BY <1>3 DEF PumpCount
  <2>2. /\ DownWaits' \subseteq DownWaits /\ s \in DownWaits /\ s \notin DownWaits'
        /\ UpWaits' = UpWaits /\ PkWaits' = PkWaits
    BY <1>0, <2>1 DEF DownWaits, UpWaits, PkWaits
  <2>. QED
    BY <1>0, <2>1, <2>2, CountedRoom
<1>4. CASE UpCount(s)
  <2>1. /\ Count /\ UNCHANGED <<pump, pk>>
        /\ up[s] = "throttle" /\ up' = [up EXCEPT ![s] = "read"]
    BY <1>4 DEF UpCount
  <2>2. /\ UpWaits' \subseteq UpWaits /\ s \in UpWaits /\ s \notin UpWaits'
        /\ DownWaits' = DownWaits /\ PkWaits' = PkWaits
    BY <1>0, <2>1 DEF DownWaits, UpWaits, PkWaits
  <2>. QED
    BY <1>0, <2>1, <2>2, CountedRoom
<1>5. CASE Dialed(s) \/ PayloadDrained(s)
  <2>1. /\ UNCHANGED <<link, pk>>
        /\ \/ UNCHANGED <<pump, up>>
           \/ /\ pump' = [pump EXCEPT ![s] = "read"]
              /\ up' = [up EXCEPT ![s] = IF s \in load.uplinks THEN "read" ELSE "done"]
    BY <1>5 DEF Dialed, PayloadDrained, Start
  <2>2. Quiet
    BY <1>0, <2>1 DEF Quiet, DownWaits, UpWaits, PkWaits
  <2>. QED
    BY <1>0, <2>2, QuietRoom
<1>6. CASE PumpEof(s) \/ PumpPut(s)
  <2>1. /\ UNCHANGED <<link, up, pk>>
        /\ \E where \in {"end", "read"} : pump' = [pump EXCEPT ![s] = where]
    BY <1>6 DEF PumpEof, PumpPut
  <2>2. Quiet
    BY <1>0, <2>1 DEF Quiet, DownWaits, UpWaits, PkWaits
  <2>. QED
    BY <1>0, <2>2, QuietRoom
<1>7. CASE UpEnds(s)
  <2>1. UNCHANGED <<link, pump, pk>> /\ up' = [up EXCEPT ![s] = "done"]
    BY <1>7 DEF UpEnds
  <2>2. Quiet
    BY <1>0, <2>1 DEF Quiet, DownWaits, UpWaits, PkWaits
  <2>. QED
    BY <1>0, <2>2, QuietRoom
<1>8. CASE Opens(s) \/ Begin(s) \/ Drop(s) \/ Yielded(s) \/ GetChunk(s) \/ Leave(s)
  <2>1. UNCHANGED <<link, pump, up, pk>>
    BY <1>8 DEF Opens, Begin, Drop, Yielded, GetChunk, Leave
  <2>2. Quiet
    BY <2>1 DEF Quiet, DownWaits, UpWaits, PkWaits
  <2>. QED
    BY <1>0, <2>2, QuietRoom
<1>. QED
  BY <1>1, <1>2, <1>3, <1>4, <1>5, <1>6, <1>7, <1>8 DEF Flows

LEMMA PacketRoom ==
  ASSUME Base, Base', Room, NEW p \in Packets, Packet(p), Admitted \subseteq Admitted'
  PROVE  Room'
<1>0. /\ LinkType /\ LinkType' /\ pk[p].own \in BOOLEAN
      /\ [pk[p] EXCEPT !.at = "throttle"].own = pk[p].own
  BY DEF Base, PkType, Handlers
<1> DEFINE waits(h) == h.at = "throttle" /\ h.own
<1>1. UNCHANGED <<pump, up>> /\ \A r \in Packets \ {p} : pk'[r] = pk[r]
  BY PacketFrame
<1>2. DownWaits' = DownWaits /\ UpWaits' = UpWaits
  BY <1>1 DEF DownWaits, UpWaits
<1>3. \A r \in Packets : r \in PkWaits <=> waits(pk[r])
  BY DEF PkWaits
<1>4. \A r \in Packets : r \in PkWaits' <=> waits(pk'[r])
  BY DEF PkWaits
<1>5. PkWaits \subseteq Packets /\ PkWaits' \subseteq Packets
  BY DEF PkWaits
<1>6. \/ ~ waits(pk'[p]) /\ UNCHANGED link
      \/ QuotaAllows(link, 1) /\ UNCHANGED link
      \/ waits(pk[p]) /\ ~ waits(pk'[p]) /\ Count
  <2>1. CASE pk[p].at = "idle" /\ pk'[p].at = "body" /\ UNCHANGED link
    BY <2>1
  <2>2. CASE pk'[p] = Idle /\ UNCHANGED link
    BY <2>2 DEF Idle
  <2>3. CASE /\ pk[p].at = "body" /\ pk'[p] = [pk[p] EXCEPT !.at = "throttle"]
             /\ pk[p].own => QuotaAllows(link, 1)
             /\ UNCHANGED link
    BY <1>0, <2>3
  <2>4. CASE pk'[p] = Idle /\ pk[p].at = "throttle" /\ Sent(p)
    BY <1>0, <2>4 DEF Idle, Sent
  <2>. QED
    BY PacketFrame, <2>1, <2>2, <2>3, <2>4
<1> HIDE DEF waits
<1>7. CASE ~ waits(pk'[p]) /\ UNCHANGED link
  <2>1. PkWaits' \subseteq PkWaits
    BY <1>1, <1>3, <1>4, <1>5, <1>7
  <2>2. Quiet
    BY <1>2, <1>7, <2>1 DEF Quiet
  <2>. QED
    BY <1>0, <2>2, QuietRoom
<1>8. CASE QuotaAllows(link, 1) /\ UNCHANGED link
  BY <1>0, <1>8, CheckedRoom
<1>9. CASE waits(pk[p]) /\ ~ waits(pk'[p]) /\ Count
  <2>1. PkWaits' \subseteq PkWaits /\ p \in PkWaits /\ p \notin PkWaits'
    BY <1>1, <1>3, <1>4, <1>5, <1>9
  <2>. QED
    BY <1>0, <1>2, <1>9, <2>1, CountedRoom
<1>. QED
  BY <1>6, <1>7, <1>8, <1>9

LEMMA NobodyReturns ==
  ASSUME Base, [Next]_vars
  PROVE  Admitted \subseteq Admitted'
<1>0. TaskType
  BY DEF Base
<1>1. ASSUME NEW s \in Streams, Admits(s) \/ Tears(s) \/ Flows(s)
      PROVE  \/ UNCHANGED pc
             \/ \E where \in Stages \ {"off"} : pc' = [pc EXCEPT ![s] = where]
  <2>1. CASE Admits(s) \/ Tears(s)
    BY <2>1 DEF Admits, Admit, Tears, Goto, Stages
  <2>2. CASE \/ Opens(s) \/ Dialed(s) \/ PayloadDrained(s) \/ Begin(s) \/ Drop(s)
             \/ Yielded(s) \/ GetChunk(s)
    BY <2>2 DEF Opens, Dialed, PayloadDrained, Start, Begin, Drop, Yielded, GetChunk, Goto,
       Stages
  <2>3. CASE \/ Leave(s) \/ PumpRead(s) \/ PumpEof(s) \/ PumpCount(s) \/ PumpPut(s)
             \/ UpRead(s) \/ UpEnds(s) \/ UpCount(s)
    BY <2>3 DEF Leave, PumpRead, PumpEof, PumpCount, PumpPut, UpRead, UpEnds, UpCount,
       request
  <2>. QED
    BY <1>1, <2>1, <2>2, <2>3 DEF Flows
<1>2. ASSUME NEW s \in Streams, Admits(s) \/ Tears(s) \/ Flows(s)
      PROVE  Admitted \subseteq Admitted'
  BY <1>0, <1>1, <1>2 DEF TaskType, Admitted
<1>3. ASSUME NEW p \in Packets, Packet(p)
      PROVE  Admitted \subseteq Admitted'
  BY <1>3, PacketFrame DEF Base, request, Admitted
<1>4. CASE Changed \/ UNCHANGED vars
  BY <1>4 DEF Changed, SetActive, DeleteLink, Administer, vars, request, Admitted
<1>. QED
  BY <1>2, <1>3, <1>4, NextCases DEF Base

LEMMA RoomStep ==
  ASSUME Base, Room, [Next]_vars
  PROVE  Room'
<1>0. /\ LinkType /\ pump \in [Streams -> PumpStages]
      /\ Base' /\ LinkType' /\ Admitted \subseteq Admitted'
  BY BaseStep, NobodyReturns DEF Base, TaskType
<1>1. ASSUME NEW s \in Streams, Admits(s) \/ Tears(s)
      PROVE  Room'
  <2>1. /\ UNCHANGED <<link, up, pk>>
        /\ UNCHANGED pump \/ pump' = [pump EXCEPT ![s] = "done"]
    BY <1>1 DEF Admits, Admit, Tears
  <2>2. Quiet
    BY <1>0, <2>1 DEF Quiet, DownWaits, UpWaits, PkWaits
  <2>. QED
    BY <1>0, <2>2, QuietRoom
<1>2. CASE Changed
  <2>1. /\ link' = None \/ \E b \in BOOLEAN : link # None /\ link' = [link EXCEPT !.active = b]
        /\ UNCHANGED <<pump, up, pk>>
    BY <1>2 DEF Changed, SetActive, DeleteLink, Administer
  <2>2. link' # None => link # None /\ link'.used = link.used /\ link'.limit = link.limit
    BY <1>0, <2>1 DEF LinkType, Links
  <2>3. Quiet
    BY <2>1, <2>2 DEF Quiet, DownWaits, UpWaits, PkWaits
  <2>. QED
    BY <1>0, <2>3, QuietRoom
<1>3. CASE UNCHANGED vars
  <2>1. Quiet
    BY <1>3 DEF vars, Quiet, DownWaits, UpWaits, PkWaits
  <2>. QED
    BY <1>0, <2>1, QuietRoom
<1>. QED
  BY <1>0, <1>1, <1>2, <1>3, FlowsRoom, PacketRoom, NextCases DEF Base

(* A link exceeds its quota by less than one chunk for each pump of an     *)
(* admitted request and each packet handler, however many there are: what  *)
(* waits is counted as used already, and whoever passes the check finds    *)
(* room for one more (xhttp.py:85-90, 167-170, 213-216).                   *)
THEOREM QuotaOvershootBounded == Spec => []QuotaOvershoot
<1>1. ASSUME Init
      PROVE  Room
  <2>1. PICK limit \in load.limits, m \in IpLimits :
          link = [active |-> TRUE, expired |-> FALSE, limit |-> limit,
                  used |-> 0, maxIps |-> m]
    BY <1>1 DEF Init
  <2>2. DownWaits = {} /\ UpWaits = {} /\ PkWaits = {}
    BY <1>1 DEF Init, DownWaits, UpWaits, PkWaits, Idle
  <2>3. Waits = 0
    BY <2>2, FS_EmptySet DEF Waits
  <2>4. link.used = 0 /\ link.limit \in Nat
    BY <1>1, <2>1, BaseInit DEF Base, LinkType, LoadSet
  <2>. QED
    BY <2>3, <2>4, WaitersAre, AskersAre DEF Room
<1>2. Base /\ Room /\ [Next]_vars => Room'
  BY RoomStep
<1>3. ASSUME Base, Room
      PROVE  QuotaOvershoot
  <2>. SUFFICES ASSUME link # None, link.limit > 0
                PROVE  link.used < link.limit + Askers
    BY DEF QuotaOvershoot
  <2>1. link.used \in Nat /\ link.limit \in Nat
    BY <1>3 DEF Base, LinkType, Links
  <2>. QED
    BY <1>3, <2>1, WaitersAre, AskersAre DEF Room
<1>. QED
  BY <1>1, <1>2, <1>3, AlwaysBase, PTL DEF Spec
=============================================================================
