------------------------------ MODULE WsTunnel ------------------------------
(***************************************************************************)
(* The VLESS-over-WebSocket relay of src/main.py: websocket_tunnel and its *)
(* two pumps, ws_to_tcp and tcp_to_ws, for the tunnels of one link, with   *)
(* the connection registry of src/limiter.py and the administrator who     *)
(* changes the link meanwhile.                                             *)
(*                                                                         *)
(* All of it runs on one event loop, so a step is what happens between two *)
(* awaits.  What an await leaves open is the point: the quota is checked   *)
(* before the wait for the rate limiter and the bytes are counted after    *)
(* it, and a tunnel that was admitted is not asked again before its first  *)
(* chunk is through.  The rate limiter returns after any delay or never:   *)
(* when it returns, and that it never does for a chunk larger than its     *)
(* bucket, is shown in TokenBucket.  That the link behaves as one record   *)
(* is shown in LinkStore.                                                  *)
(***************************************************************************)
EXTENDS Integers, FiniteSets, Gate

CONSTANTS
  Tunnels,   \* connections, each with its own conn_id; reused when closed
  Ips,       \* known client addresses
  Headers,   \* the first chunks: <<size, size of the initial payload>>
  Sizes,     \* sizes of the chunks a pump reads
  MaxChunk,  \* the largest websocket message or socket read
  Limits,    \* quotas the administrator sets, 0 meaning unlimited
  IpLimits,  \* device limits, 0 meaning unlimited
  Usages,    \* what a link that is brought back may have used already
  Pruning,   \* whether tunnels live long enough to be pruned (48 h)
  Horizon    \* bound: nothing is read once this usage is exceeded

Links == [active : BOOLEAN, expired : BOOLEAN, limit : Nat, used : Nat,
          maxIps : Nat]

ASSUME SizesAssumption ==
  /\ MaxChunk \in Nat
  /\ Sizes \subseteq 1..MaxChunk
  /\ Headers \subseteq (1..MaxChunk) \X (0..MaxChunk)
  /\ Limits \subseteq Nat
  /\ IpLimits \subseteq Nat
  /\ Usages \subseteq Nat
  /\ Horizon \in Nat
  /\ Pruning \in BOOLEAN
ASSUME NamesAssumption ==
  /\ IsFiniteSet(Tunnels)
  /\ Unknown \notin Ips
  /\ None \notin Links

VARIABLES
  link,      \* the link record, or None once it is deleted
  pc,        \* where the handler of each tunnel is
  ip,        \* the client address of each tunnel
  first,     \* the first chunk of each tunnel
  up, down,  \* the pumps of each tunnel
  registry,  \* the tunnels in _CONNECTIONS
  pruned,    \* history: live tunnels that the pruning loop took out
  ceiling,   \* history: the largest quota since usage was last set, or the
             \* usage it was set to if that is larger
  leaked     \* history: bytes each tunnel moved since the link was cut

vars == <<link, pc, ip, first, up, down, registry, pruned, ceiling, leaked>>

-----------------------------------------------------------------------------

Directions == {"up", "down"}
Stages == {"off", "header", "hdr_throttle", "dialing", "pay_throttle",
           "pay_drain", "relay", "closing"}

(* A pump reads, holds a chunk that passed the quota check and waits for   *)
(* the rate limiter, waits for the chunk to drain, or has ended.           *)
PumpAt(what, n) == [at |-> what, size |-> n]
Off     == PumpAt("off", 0)
Reading == PumpAt("read", 0)
Done    == PumpAt("done", 0)

Live(t)   == pc[t] # "off"
ActiveIps == {ip[t] : t \in registry} \ {Unknown}

Holds(p) == p.at = "throttle"

(* A link that check_quota_fast refuses whatever its usage. *)
Severed(l) == l = None \/ ~ l.active \/ l.expired
Cut == Severed(link)

NoCeiling == -1

NewLink(limit, maxIps) ==
  [active |-> TRUE, expired |-> FALSE, limit |-> limit, used |-> 0,
   maxIps |-> maxIps]

CeilingOf(limit, used) ==
  IF limit = 0 THEN NoCeiling ELSE IF used > limit THEN used ELSE limit

Init ==
  /\ \E limit \in Limits, m \in IpLimits :
       /\ link = NewLink(limit, m)
       /\ ceiling = CeilingOf(limit, 0)
  /\ pc = [t \in Tunnels |-> "off"]
  /\ ip = [t \in Tunnels |-> Unknown]
  /\ first = [t \in Tunnels |-> <<0, 0>>]
  /\ up = [t \in Tunnels |-> Off]
  /\ down = [t \in Tunnels |-> Off]
  /\ registry = {}
  /\ pruned = {}
  /\ leaked = [t \in Tunnels |-> 0]

-----------------------------------------------------------------------------
(* The handler.                                                            *)

Goto(t, where) == pc' = [pc EXCEPT ![t] = where]

(* add_usage_buffered; a deleted link has no counter to enforce. *)
Count(n) ==
  link' = IF link = None THEN None ELSE [link EXCEPT !.used = @ + n]

WithinHorizon == link # None => link.used <= Horizon

Leak(t, n) == leaked' = IF Cut THEN [leaked EXCEPT ![t] = @ + n] ELSE leaked

(* Mutant of Admits: the quota gate is left to the pumps. *)
AdmitsOverQuota(a) == IpAllowed(link, a, ActiveIps) /\ link # None

(* After accept: the device gate, the quota gate and the registration,     *)
(* with no await between them.  A refused tunnel is just closed.           *)
Admits(a) == IpAllowed(link, a, ActiveIps) /\ QuotaAllows(link, 0)

Admit(t, a) ==
  /\ pc[t] = "off"
  /\ Admits(a)
  /\ ip' = [ip EXCEPT ![t] = a]
  /\ registry' = registry \cup {t}
  /\ Goto(t, "header")
  /\ leaked' = [leaked EXCEPT ![t] = 0]
  /\ UNCHANGED <<link, first, up, down, pruned, ceiling>>

(* The first message within 15 seconds, and its VLESS header parsed. *)
FirstChunk(t, h) ==
  /\ pc[t] = "header"
  /\ WithinHorizon
  /\ first' = [first EXCEPT ![t] = h]
  /\ Goto(t, "hdr_throttle")
  /\ UNCHANGED <<link, ip, up, down, registry, pruned, ceiling, leaked>>

(* 15 seconds without a message, a disconnect, an empty message or a bad   *)
(* header; a dial that fails or takes more than 10 seconds.                *)
SetupFails(t) ==
  /\ pc[t] \in {"header", "dialing"}
  /\ Goto(t, "closing")
  /\ UNCHANGED <<link, ip, first, up, down, registry, pruned, ceiling, leaked>>

(* The whole first chunk is counted, header and payload, unchecked. *)
CountFirst(t) ==
  /\ pc[t] = "hdr_throttle"
  /\ Count(first[t][1])
  /\ Goto(t, "dialing")
  /\ UNCHANGED <<ip, first, up, down, registry, pruned, ceiling, leaked>>

StartPumps(t) ==
  /\ Goto(t, "relay")
  /\ up' = [up EXCEPT ![t] = Reading]
  /\ down' = [down EXCEPT ![t] = Reading]

Dialed(t) ==
  /\ pc[t] = "dialing"
  /\ IF first[t][2] = 0
     THEN StartPumps(t)
     ELSE Goto(t, "pay_throttle") /\ UNCHANGED <<up, down>>
  /\ UNCHANGED <<link, ip, first, registry, pruned, ceiling, leaked>>

(* The payload is counted a second time, and written. *)
CountPayload(t) ==
  /\ pc[t] = "pay_throttle"
  /\ Count(first[t][2])
  /\ Leak(t, first[t][2])
  /\ Goto(t, "pay_drain")
  /\ UNCHANGED <<ip, first, up, down, registry, pruned, ceiling>>

(* The target takes the payload, or turns out to be gone: no timeout here. *)
PayloadDrained(t) ==
  /\ pc[t] = "pay_drain"
  /\ \/ StartPumps(t)
     \/ Goto(t, "closing") /\ UNCHANGED <<up, down>>
  /\ UNCHANGED <<link, ip, first, registry, pruned, ceiling, leaked>>

(* Mutant of Finish: the handler waits for both pumps. *)
FinishBoth(t) ==
  /\ pc[t] = "relay"
  /\ up[t] = Done /\ down[t] = Done
  /\ up' = [up EXCEPT ![t] = Off]
  /\ down' = [down EXCEPT ![t] = Off]
  /\ Goto(t, "closing")
  /\ UNCHANGED <<link, ip, first, registry, pruned, ceiling, leaked>>

(* One pump has ended; the other is cancelled wherever it waits. *)
Finish(t) ==
  /\ pc[t] = "relay"
  /\ up[t] = Done \/ down[t] = Done
  /\ up' = [up EXCEPT ![t] = Off]
  /\ down' = [down EXCEPT ![t] = Off]
  /\ Goto(t, "closing")
  /\ UNCHANGED <<link, ip, first, registry, pruned, ceiling, leaked>>

(* Mutant of Unregister: the registration stays behind. *)
KeepRegistered(t) ==
  /\ pc[t] = "closing"
  /\ Goto(t, "off")
  /\ ip' = [ip EXCEPT ![t] = Unknown]
  /\ first' = [first EXCEPT ![t] = <<0, 0>>]
  /\ leaked' = [leaked EXCEPT ![t] = 0]
  /\ UNCHANGED <<link, up, down, registry, pruned, ceiling>>

(* The finally clause: the writer closed, or given up on after two seconds. *)
Unregister(t) ==
  /\ pc[t] = "closing"
  /\ registry' = registry \ {t}
  /\ pruned' = pruned \ {t}
  /\ Goto(t, "off")
  /\ ip' = [ip EXCEPT ![t] = Unknown]
  /\ first' = [first EXCEPT ![t] = <<0, 0>>]
  /\ leaked' = [leaked EXCEPT ![t] = 0]
  /\ UNCHANGED <<link, up, down, ceiling>>

-----------------------------------------------------------------------------
(* The pumps.  Pump(d) is up or down; SetPump says which one moves.        *)

Pump(d) == IF d = "up" THEN up ELSE down

SetPump(d, t, p) ==
  IF d = "up" THEN up' = [up EXCEPT ![t] = p] /\ UNCHANGED down
              ELSE down' = [down EXCEPT ![t] = p] /\ UNCHANGED up

Quiet == UNCHANGED <<pc, ip, first, registry, pruned, ceiling>>

(* A chunk arrives and the quota is checked for it: the pump goes on to    *)
(* the rate limiter, or closes the websocket and ends.                     *)
Read(t, d, n) ==
  /\ Pump(d)[t] = Reading
  /\ WithinHorizon
  /\ SetPump(d, t, IF QuotaAllows(link, n) THEN PumpAt("throttle", n) ELSE Done)
  /\ Quiet
  /\ UNCHANGED <<link, leaked>>

(* The rate limiter returns: the chunk is counted, then written. *)
CountChunk(t, d) ==
  /\ Pump(d)[t].at = "throttle"
  /\ Count(Pump(d)[t].size)
  /\ Leak(t, Pump(d)[t].size)
  /\ SetPump(d, t, PumpAt("drain", 0))
  /\ Quiet

Drained(t, d) ==
  /\ Pump(d)[t].at = "drain"
  /\ SetPump(d, t, Reading)
  /\ Quiet
  /\ UNCHANGED <<link, leaked>>

(* End of the stream, or a peer that has gone, at a read or a drain. *)
Ends(t, d) ==
  /\ Pump(d)[t].at \in {"read", "drain"}
  /\ SetPump(d, t, Done)
  /\ Quiet
  /\ UNCHANGED <<link, leaked>>

-----------------------------------------------------------------------------
(* The administrator, the clock and the pruning loop.                      *)

(* The count of leaked bytes runs on until the link is restored. *)
Administer(l) ==
  /\ link' = l
  /\ leaked' = [t \in Tunnels |-> IF Severed(l) THEN leaked[t] ELSE 0]
  /\ UNCHANGED <<pc, ip, first, up, down, registry, pruned>>

SetActive(b) ==
  /\ link # None
  /\ link.active # b
  /\ Administer([link EXCEPT !.active = b])
  /\ UNCHANGED ceiling

(* The clock passes the expiry, or the administrator moves it. *)
SetExpired(b) ==
  /\ link # None
  /\ link.expired # b
  /\ Administer([link EXCEPT !.expired = b])
  /\ UNCHANGED ceiling

Raised(limit) ==
  IF limit = 0 \/ ceiling = NoCeiling THEN NoCeiling
  ELSE IF limit > ceiling THEN limit ELSE ceiling

SetLimit(limit) ==
  /\ link # None
  /\ Administer([link EXCEPT !.limit = limit])
  /\ ceiling' = Raised(limit)

SetMaxIps(m) ==
  /\ link # None
  /\ Administer([link EXCEPT !.maxIps = m])
  /\ UNCHANGED ceiling

(* Mutant of ResetUsage: the counter is cleared to null. *)
ResetToNull ==
  /\ link # None
  /\ Administer([link EXCEPT !.used = None])
  /\ ceiling' = CeilingOf(link.limit, 0)

ResetUsage ==
  /\ link # None
  /\ Administer([link EXCEPT !.used = 0])
  /\ ceiling' = CeilingOf(link.limit, 0)

(* Deleting the link closes no tunnel. *)
DeleteLink ==
  /\ link # None
  /\ Administer(None)
  /\ UNCHANGED ceiling

(* The same label gives the same uuid, and a backup brings a link back     *)
(* with its usage and its switch: live tunnels find the new link.          *)
RecreateLink(limit, m, n, b) ==
  /\ link = None
  /\ Administer([NewLink(limit, m) EXCEPT !.used = n, !.active = b])
  /\ ceiling' = CeilingOf(limit, n)

(* A registration older than 48 hours is dropped; the tunnel lives on. *)
Prune(t) ==
  /\ Pruning
  /\ t \in registry
  /\ registry' = registry \ {t}
  /\ pruned' = pruned \cup {t}
  /\ UNCHANGED <<link, pc, ip, first, up, down, ceiling, leaked>>

-----------------------------------------------------------------------------

(* What the loop gets to of itself: it is ready, or has a timeout. *)
Timed(t) ==
  \/ \E h \in Headers : FirstChunk(t, h)
  \/ SetupFails(t)
  \/ Dialed(t)
  \/ Finish(t)
  \/ Unregister(t)

Setup(t) ==
  \/ Timed(t)
  \/ CountFirst(t)
  \/ CountPayload(t)

Relay(t, d) ==
  \/ \E n \in Sizes : Read(t, d, n)
  \/ CountChunk(t, d)
  \/ Drained(t, d)
  \/ Ends(t, d)

Admin ==
  \/ \E b \in BOOLEAN : SetActive(b)
  \/ \E b \in BOOLEAN : SetExpired(b)
  \/ \E limit \in Limits : SetLimit(limit)
  \/ \E m \in IpLimits : SetMaxIps(m)
  \/ ResetUsage
  \/ DeleteLink
  \/ \E limit \in Limits, m \in IpLimits, n \in Usages, b \in BOOLEAN :
       RecreateLink(limit, m, n, b)

Next ==
  \/ \E t \in Tunnels :
       \/ \E a \in Ips \cup {Unknown} : Admit(t, a)
       \/ Setup(t)
       \/ PayloadDrained(t)
       \/ \E d \in Directions : Relay(t, d)
       \/ Prune(t)
  \/ Admin

Spec == Init /\ [][Next]_vars

(* Timeouts fire and the loop runs what is ready.  Nothing is assumed of   *)
(* the peers: a pump may read for ever, and the target may never take the  *)
(* initial payload; nor of the rate limiter, which may never return.       *)
Fairness == \A t \in Tunnels : WF_vars(Timed(t))

FairSpec == Spec /\ Fairness

-----------------------------------------------------------------------------
(* Properties.                                                             *)

PumpStates == [at : {"off", "read", "throttle", "drain", "done"}, size : Nat]

TypeOK ==
  /\ link \in Links \cup {None}
  /\ pc \in [Tunnels -> Stages]
  /\ ip \in [Tunnels -> Ips \cup {Unknown}]
  /\ first \in [Tunnels -> Nat \X Nat]
  /\ up \in [Tunnels -> PumpStates]
  /\ down \in [Tunnels -> PumpStates]
  /\ registry \subseteq Tunnels
  /\ pruned \subseteq Tunnels
  /\ ceiling \in Nat \cup {NoCeiling}
  /\ leaked \in [Tunnels -> Nat]

(* Whatever way a tunnel ends, its registration goes with it, and only a   *)
(* tunnel that the pruning loop took out lives without one; pumps run      *)
(* exactly while the tunnel relays (main.py:839-903, limiter.py:127-152).  *)
RegistryExact ==
  \A t \in Tunnels :
    /\ t \in registry <=> Live(t) /\ t \notin pruned
    /\ up[t] # Off <=> pc[t] = "relay"
    /\ down[t] # Off <=> pc[t] = "relay"

(* When a tunnel from a new address is admitted, the addresses that have   *)
(* a live tunnel are within the device limit in force, unless a pruned     *)
(* registration hides some: no two handshakes can both take the last slot  *)
(* (limiter.py:107-136, main.py:843-855).                                  *)
LiveIps(ts) == {ip[t] : t \in ts} \ {Unknown}
LiveTunnels == {t \in Tunnels : Live(t)}

DeviceLimitAtAdmission ==
  [][\A t \in Tunnels :
       LET new == ip'[t]
           before == LiveIps(LiveTunnels \ pruned)
       IN  /\ ~ Live(t)
           /\ Live(t)'
           /\ new \notin before \cup {Unknown}
           /\ link.maxIps > 0
           => Cardinality(before \cup {new}) <= link.maxIps]_vars

(* How far a client can go beyond its quota: by what its tunnels may count *)
(* without being asked, one chunk each way or a first chunk twice, and no  *)
(* further, however the waits interleave (main.py:783-836, 859-882).       *)
Overshoot == Cardinality(Tunnels) * 2 * MaxChunk

QuotaOvershoot ==
  link # None /\ ceiling # NoCeiling => link.used <= ceiling + Overshoot

(* Once a link is switched off, expires or is deleted, a live tunnel moves *)
(* at most the chunk each pump held, or its initial payload, before it     *)
(* stops (README.md:59, main.py:783-836).                                  *)
CutBound ==
  Cut => \A t \in Tunnels : leaked[t] <= 2 * MaxChunk

(* A tunnel lingers half set up, holding its place in the registry, in     *)
(* none but three waits, which have no timeout: for the rate limiter,      *)
(* before the dial and before the initial payload, and for the target to   *)
(* take the payload.  One whose client or target has gone is taken down    *)
(* and unregistered, whichever pump noticed and whatever the other waits   *)
(* for, the rate limiter included (main.py:857-903, limiter.py:35-43).     *)
Untimed == {"hdr_throttle", "pay_throttle", "pay_drain"}
HalfOpen == Stages \ {"off", "relay"}

TunnelsSettle ==
  \A t \in Tunnels :
    /\ pc[t] \in HalfOpen ~> pc[t] \in Untimed \cup {"off", "relay"}
    /\ (up[t] = Done \/ down[t] = Done) ~> pc[t] = "off"

(* What limiter.py:145 says the pruning loop does: only a connection with  *)
(* no traffic is pruned.                                                   *)
PruneSparesTraffic ==
  [][\A t \in Tunnels :
       t \in pruned' \ pruned => ~ Holds(up[t]) /\ ~ Holds(down[t])]_vars
=============================================================================
