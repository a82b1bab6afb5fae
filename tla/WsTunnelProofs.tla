--------------------------- MODULE WsTunnelProofs ---------------------------
(***************************************************************************)
(* Proofs about WsTunnel, for any number of tunnels, addresses and chunks: *)
(* the registry never goes out of step with the tunnels, a link that is    *)
(* cut leaks at most one chunk of each pump, and a quota is exceeded by at *)
(* most two chunks a tunnel.                                               *)
(***************************************************************************)
EXTENDS WsTunnel, FiniteSetTheorems, TLAPS

USE DEF Links

-----------------------------------------------------------------------------
(* Types.                                                                  *)

LEMMA PumpTypes ==
  ASSUME NEW n \in Nat
  PROVE  /\ Off \in PumpStates /\ Reading \in PumpStates /\ Done \in PumpStates
         /\ PumpAt("throttle", n) \in PumpStates
         /\ PumpAt("drain", 0) \in PumpStates
         /\ Off # Reading /\ Off # Done /\ Reading # Done
         /\ Off # PumpAt("throttle", n) /\ Off # PumpAt("drain", 0)
BY DEF Off, Reading, Done, PumpAt, PumpStates

LEMMA TypeInit == Init => TypeOK
<1>. SUFFICES ASSUME Init PROVE TypeOK
  OBVIOUS
<1>. USE SizesAssumption
<1>1. link \in Links /\ ceiling \in Nat \cup {NoCeiling}
  BY DEF Init, NewLink, CeilingOf, NoCeiling
<1>2. Off \in PumpStates
  BY PumpTypes
<1>. QED
  BY <1>1, <1>2 DEF Init, TypeOK, Stages

(* Counting keeps a link a link; so does every change of one field. *)
LEMMA CountType ==
  ASSUME link \in Links \cup {None}, NEW n \in Nat, Count(n)
  PROVE  link' \in Links \cup {None}
BY DEF Count

LEMMA LeakType ==
  ASSUME leaked \in [Tunnels -> Nat], NEW n \in Nat, NEW t \in Tunnels,
         Leak(t, n)
  PROVE  leaked' \in [Tunnels -> Nat]
BY DEF Leak

(* A step of the handler of t. *)
LEMMA TypeSetup ==
  ASSUME TypeOK, NEW t \in Tunnels, Setup(t) \/ PayloadDrained(t)
  PROVE  TypeOK'
<1>. USE SizesAssumption DEF TypeOK, Goto, Stages
<1>1. /\ Off \in PumpStates /\ Reading \in PumpStates
  BY PumpTypes
<1>2. first[t][1] \in Nat /\ first[t][2] \in Nat
  OBVIOUS
<1>3. ASSUME NEW h \in Headers, FirstChunk(t, h) PROVE TypeOK'
  <2>1. h \in Nat \X Nat
    OBVIOUS
  <2>. QED
    BY <1>3, <2>1 DEF FirstChunk
<1>4. CASE SetupFails(t)
  BY <1>4 DEF SetupFails
<1>5. CASE CountFirst(t)
  BY <1>5, <1>2, CountType DEF CountFirst
<1>6. CASE Dialed(t)
  BY <1>6, <1>1 DEF Dialed, StartPumps
<1>7. CASE CountPayload(t)
  BY <1>7, <1>2, CountType, LeakType DEF CountPayload
<1>8. CASE Finish(t)
  BY <1>8, <1>1 DEF Finish
<1>9. CASE Unregister(t)
  BY <1>9 DEF Unregister
<1>10. CASE PayloadDrained(t)
  <2>1. CASE StartPumps(t)
    BY <1>10, <1>1, <2>1 DEF PayloadDrained, StartPumps
  <2>2. CASE Goto(t, "closing") /\ UNCHANGED <<up, down>>
    BY <1>10, <2>2 DEF PayloadDrained
  <2>. QED
    BY <1>10, <2>1, <2>2 DEF PayloadDrained
<1>. QED
  BY <1>3, <1>4, <1>5, <1>6, <1>7, <1>8, <1>9, <1>10 DEF Setup, Timed

LEMMA SetPumpType ==
  ASSUME TypeOK, NEW t \in Tunnels, NEW d \in Directions,
         NEW p \in PumpStates, SetPump(d, t, p)
  PROVE  up' \in [Tunnels -> PumpStates] /\ down' \in [Tunnels -> PumpStates]
BY DEF TypeOK, SetPump

(* A step of one pump of t. *)
LEMMA TypeRelay ==
  ASSUME TypeOK, NEW t \in Tunnels, NEW d \in Directions, Relay(t, d)
  PROVE  TypeOK'
<1>. USE SizesAssumption
<1>1. ASSUME NEW n \in Sizes, Read(t, d, n) PROVE TypeOK'
  <2>1. (IF QuotaAllows(link, n) THEN PumpAt("throttle", n) ELSE Done)
          \in PumpStates
    BY PumpTypes
  <2>. QED
    BY <1>1, <2>1, SetPumpType DEF Read, Quiet, TypeOK
<1>2. CASE CountChunk(t, d)
  <2>1. Pump(d)[t].size \in Nat
    BY DEF TypeOK, Pump, PumpStates
  <2>2. PumpAt("drain", 0) \in PumpStates
    BY PumpTypes
  <2>. QED
    BY <1>2, <2>1, <2>2, SetPumpType, CountType, LeakType
    DEF CountChunk, Quiet, TypeOK
<1>3. CASE Drained(t, d)
  BY <1>3, PumpTypes, SetPumpType DEF Drained, Quiet, TypeOK
<1>4. CASE Ends(t, d)
  BY <1>4, PumpTypes, SetPumpType DEF Ends, Quiet, TypeOK
<1>. QED
  BY <1>1, <1>2, <1>3, <1>4 DEF Relay

LEMMA TypeAdmin ==
  ASSUME TypeOK, Admin
  PROVE  TypeOK'
<1>. USE SizesAssumption
<1>1. ASSUME NEW l \in Links \cup {None}, Administer(l),
             ceiling' \in Nat \cup {NoCeiling}
      PROVE  TypeOK'
  BY <1>1 DEF Administer, TypeOK
<1>2. ASSUME NEW limit \in Limits
      PROVE  \A n \in Nat : CeilingOf(limit, n) \in Nat \cup {NoCeiling}
  BY DEF CeilingOf, NoCeiling
<1>3. ASSUME NEW b \in BOOLEAN, SetActive(b) PROVE TypeOK'
  <2>1. [link EXCEPT !.active = b] \in Links
    BY <1>3 DEF SetActive, TypeOK
  <2>. QED
    BY <1>1, <1>3, <2>1 DEF SetActive, TypeOK
<1>4. ASSUME NEW b \in BOOLEAN, SetExpired(b) PROVE TypeOK'
  <2>1. [link EXCEPT !.expired = b] \in Links
    BY <1>4 DEF SetExpired, TypeOK
  <2>. QED
    BY <1>1, <1>4, <2>1 DEF SetExpired, TypeOK
<1>5. ASSUME NEW limit \in Limits, SetLimit(limit) PROVE TypeOK'
  <2>1. [link EXCEPT !.limit = limit] \in Links
    BY <1>5 DEF SetLimit, TypeOK
  <2>2. Raised(limit) \in Nat \cup {NoCeiling}
    BY DEF Raised, NoCeiling, TypeOK
  <2>. QED
    BY <1>1, <1>5, <2>1, <2>2 DEF SetLimit
<1>6. ASSUME NEW m \in IpLimits, SetMaxIps(m) PROVE TypeOK'
  <2>1. [link EXCEPT !.maxIps = m] \in Links
    BY <1>6 DEF SetMaxIps, TypeOK
  <2>. QED
    BY <1>1, <1>6, <2>1 DEF SetMaxIps, TypeOK
<1>7. CASE ResetUsage
  <2>1. [link EXCEPT !.used = 0] \in Links /\ link.limit \in Nat
    BY <1>7 DEF ResetUsage, TypeOK
  <2>2. CeilingOf(link.limit, 0) \in Nat \cup {NoCeiling}
    BY <2>1 DEF CeilingOf, NoCeiling
  <2>. QED
    BY <1>1, <1>7, <2>1, <2>2 DEF ResetUsage
<1>8. CASE DeleteLink
  BY <1>1, <1>8 DEF DeleteLink, TypeOK
<1>9. ASSUME NEW limit \in Limits, NEW m \in IpLimits, NEW n \in Usages,
             NEW b \in BOOLEAN, RecreateLink(limit, m, n, b)
      PROVE  TypeOK'
  <2>1. [NewLink(limit, m) EXCEPT !.used = n, !.active = b] \in Links /\ n \in Nat
    BY DEF NewLink
  <2>. QED
    BY <1>1, <1>2, <1>9, <2>1 DEF RecreateLink
<1>. QED
  BY <1>3, <1>4, <1>5, <1>6, <1>7, <1>8, <1>9 DEF Admin

LEMMA TypeStep == TypeOK /\ [Next]_vars => TypeOK'
<1>. SUFFICES ASSUME TypeOK, [Next]_vars PROVE TypeOK'
  OBVIOUS
<1>1. ASSUME NEW t \in Tunnels, NEW a \in Ips \cup {Unknown}, Admit(t, a)
      PROVE  TypeOK'
  BY <1>1 DEF Admit, Goto, TypeOK, Stages
<1>2. ASSUME NEW t \in Tunnels, Prune(t) PROVE TypeOK'
  BY <1>2 DEF Prune, TypeOK
<1>3. CASE UNCHANGED vars
  BY <1>3 DEF vars, TypeOK
<1>. QED
  BY <1>1, <1>2, <1>3, TypeSetup, TypeRelay, TypeAdmin DEF Next

(* Every state has the shape the module means it to have, whatever the     *)
(* number of tunnels, addresses, chunks and quotas (main.py:783-903).      *)
THEOREM TypeCorrect == Spec => []TypeOK
BY TypeInit, TypeStep, PTL DEF Spec

-----------------------------------------------------------------------------
(* The registry.                                                           *)

(* RegistryExact is inductive together with this: what is pruned lives.    *)
RegistryInv ==
  /\ TypeOK
  /\ RegistryExact
  /\ \A t \in pruned : Live(t)

LEMMA RegistryInit == Init => RegistryInv
<1>. SUFFICES ASSUME Init PROVE RegistryInv
  OBVIOUS
<1>1. TypeOK
  BY TypeInit
<1>. QED
  BY <1>1 DEF Init, RegistryInv, RegistryExact, Live

LEMMA RegistrySetup ==
  ASSUME RegistryInv, NEW t \in Tunnels, Setup(t) \/ PayloadDrained(t)
  PROVE  RegistryExact' /\ (\A s \in pruned : Live(s))'
<1>. USE DEF RegistryInv, RegistryExact, Live, Goto, TypeOK
<1>1. Off # Reading /\ Off # Done
  BY PumpTypes
<1>2. ASSUME NEW h \in Headers, FirstChunk(t, h)
      PROVE  RegistryExact' /\ (\A s \in pruned : Live(s))'
  BY <1>2 DEF FirstChunk
<1>3. CASE SetupFails(t)
  BY <1>3 DEF SetupFails
<1>4. CASE CountFirst(t)
  BY <1>4 DEF CountFirst
<1>5. CASE Dialed(t)
  BY <1>5, <1>1 DEF Dialed, StartPumps
<1>6. CASE CountPayload(t)
  BY <1>6 DEF CountPayload
<1>7. CASE Finish(t)
  BY <1>7 DEF Finish
<1>8. CASE Unregister(t)
  BY <1>8 DEF Unregister
<1>9. CASE PayloadDrained(t)
  BY <1>9, <1>1 DEF PayloadDrained, StartPumps
<1>. QED
  BY <1>2, <1>3, <1>4, <1>5, <1>6, <1>7, <1>8, <1>9 DEF Setup, Timed

LEMMA RegistryRelay ==
  ASSUME RegistryInv, NEW t \in Tunnels, NEW d \in Directions, Relay(t, d)
  PROVE  RegistryExact' /\ (\A s \in pruned : Live(s))'
<1>. DEFINE Moves == /\ Pump(d)[t] # Off
                     /\ \E p \in PumpStates : p # Off /\ SetPump(d, t, p)
                     /\ Quiet
<1>1. Moves
  <2>. USE SizesAssumption
  <2>1. ASSUME NEW n \in Sizes, Read(t, d, n) PROVE Moves
    <3>. DEFINE q == IF QuotaAllows(link, n) THEN PumpAt("throttle", n) ELSE Done
    <3>1. q \in PumpStates /\ q # Off
      BY PumpTypes
    <3>. QED
      BY <2>1, <3>1, PumpTypes DEF Read
  <2>2. CASE CountChunk(t, d)
    <3>1. Pump(d)[t] # Off
      BY <2>2 DEF CountChunk, Off, PumpAt
    <3>. QED
      BY <2>2, <3>1, PumpTypes DEF CountChunk
  <2>3. CASE Drained(t, d)
    <3>1. Pump(d)[t] # Off
      BY <2>3 DEF Drained, Off, PumpAt
    <3>. QED
      BY <2>3, <3>1, PumpTypes DEF Drained
  <2>4. CASE Ends(t, d)
    <3>1. Pump(d)[t] # Off
      BY <2>4 DEF Ends, Off, PumpAt
    <3>. QED
      BY <2>4, <3>1, PumpTypes DEF Ends
  <2>. QED
    BY <2>1, <2>2, <2>3, <2>4 DEF Relay
<1>. QED
  BY <1>1 DEF RegistryInv, RegistryExact, Live, TypeOK, Quiet, Pump, SetPump

LEMMA RegistryStep == RegistryInv /\ [Next]_vars => RegistryInv'
<1>. SUFFICES ASSUME RegistryInv, [Next]_vars
              PROVE  RegistryExact' /\ (\A s \in pruned : Live(s))'
  BY TypeStep DEF RegistryInv
<1>2. ASSUME NEW t \in Tunnels, NEW a \in Ips \cup {Unknown}, Admit(t, a)
      PROVE  RegistryExact' /\ (\A s \in pruned : Live(s))'
  BY <1>2 DEF Admit, Goto, RegistryInv, RegistryExact, Live, TypeOK
<1>3. ASSUME NEW t \in Tunnels, Prune(t)
      PROVE  RegistryExact' /\ (\A s \in pruned : Live(s))'
  BY <1>3 DEF Prune, RegistryInv, RegistryExact, Live, TypeOK
<1>4. (/\ pc' = pc /\ up' = up /\ down' = down
       /\ registry' = registry /\ pruned' = pruned)
        => RegistryExact' /\ (\A s \in pruned : Live(s))'
  BY DEF RegistryInv, RegistryExact, Live
<1>5. CASE Admin
  BY <1>4, <1>5 DEF Admin, SetActive, SetExpired, SetLimit, SetMaxIps, ResetUsage,
                    DeleteLink, RecreateLink, Administer
<1>6. CASE UNCHANGED vars
  BY <1>4, <1>6 DEF vars
<1>. QED
  BY <1>2, <1>3, <1>5, <1>6, RegistrySetup, RegistryRelay DEF Next

(* However a tunnel ends (a refused chunk, a gone peer, a timeout, a       *)
(* cancelled pump), its registration ends with it, and no live tunnel is   *)
(* without one unless it was pruned (main.py:839-903, limiter.py:127-152). *)
THEOREM RegistryCorrect == Spec => []RegistryExact
<1>1. RegistryInv => RegistryExact
  BY DEF RegistryInv
<1>. QED
  BY <1>1, RegistryInit, RegistryStep, PTL DEF Spec

-----------------------------------------------------------------------------
(* The device limit.                                                       *)

(* A tunnel comes to life by being admitted, in no other way. *)
LEMMA LifeBegins ==
  ASSUME RegistryInv, Next, NEW t \in Tunnels, ~ Live(t), Live(t)'
  PROVE  \E a \in Ips \cup {Unknown} : Admit(t, a)
<1>. USE DEF Live, RegistryInv, TypeOK
<1>1. ASSUME NEW s \in Tunnels, Setup(s) \/ PayloadDrained(s) PROVE FALSE
  BY <1>1 DEF Setup, Timed, PayloadDrained, FirstChunk, SetupFails, CountFirst,
              Dialed, CountPayload, Finish, Unregister, StartPumps, Goto
<1>2. ASSUME NEW s \in Tunnels, NEW d \in Directions, Relay(s, d) PROVE FALSE
  BY <1>2 DEF Relay, Read, CountChunk, Drained, Ends, Quiet
<1>3. ASSUME NEW s \in Tunnels, Prune(s) PROVE FALSE
  BY <1>3 DEF Prune
<1>4. ASSUME Admin PROVE FALSE
  BY <1>4 DEF Admin, SetActive, SetExpired, SetLimit, SetMaxIps, ResetUsage,
              DeleteLink, RecreateLink, Administer
<1>5. ASSUME NEW s \in Tunnels, NEW a \in Ips \cup {Unknown}, Admit(s, a)
      PROVE  Admit(t, a)
  <2>1. s = t
    BY <1>5 DEF Admit, Goto
  <2>. QED
    BY <1>5, <2>1
<1>. QED
  BY <1>1, <1>2, <1>3, <1>4, <1>5 DEF Next

(* What is_ip_allowed counts are the addresses of the live tunnels. *)
LEMMA ActiveIpsAreLive ==
  ASSUME RegistryInv
  PROVE  /\ ActiveIps = LiveIps(LiveTunnels \ pruned)
         /\ IsFiniteSet(ActiveIps)
<1>1. registry = LiveTunnels \ pruned
  BY DEF RegistryInv, RegistryExact, TypeOK, LiveTunnels
<1>2. IsFiniteSet(registry)
  BY NamesAssumption, FS_Subset DEF RegistryInv, TypeOK
<1>3. IsFiniteSet({ip[t] : t \in registry})
  <2>. DEFINE T == {ip[t] : t \in registry}
              f == [t \in registry |-> ip[t]]
  <2>1. f \in Surjection(registry, T)
    BY DEF Surjection
  <2>. QED
    BY <1>2, <2>1, FS_Surjection
<1>4. IsFiniteSet({ip[t] : t \in registry} \ {Unknown})
  BY <1>3, FS_Subset
<1>. QED
  BY <1>1, <1>4 DEF ActiveIps, LiveIps

(* Two handshakes never both take the last slot of a device limit: when a  *)
(* new address is let in, the addresses of all live tunnels that were not  *)
(* pruned, and the new one, are within it (limiter.py:107-136,             *)
(* main.py:843-855).                                                       *)
THEOREM DeviceLimitHolds == Spec => DeviceLimitAtAdmission
<1>. DEFINE Within(t) ==
       LET new == ip'[t]
           before == LiveIps(LiveTunnels \ pruned)
       IN  /\ ~ Live(t)
           /\ Live(t)'
           /\ new \notin before \cup {Unknown}
           /\ link.maxIps > 0
           => Cardinality(before \cup {new}) <= link.maxIps
<1>1. RegistryInv /\ [Next]_vars => [\A t \in Tunnels : Within(t)]_vars
  <2>. SUFFICES ASSUME RegistryInv, Next, NEW t \in Tunnels,
                       ~ Live(t), Live(t)',
                       ip'[t] \notin LiveIps(LiveTunnels \ pruned) \cup {Unknown},
                       link.maxIps > 0
                PROVE  Cardinality(LiveIps(LiveTunnels \ pruned) \cup {ip'[t]})
                         <= link.maxIps
    OBVIOUS
  <2>1. PICK a \in Ips \cup {Unknown} : Admit(t, a)
    BY LifeBegins
  <2>2. ip'[t] = a /\ Admits(a)
    BY <2>1 DEF Admit, RegistryInv, TypeOK
  <2>3. ActiveIps = LiveIps(LiveTunnels \ pruned) /\ IsFiniteSet(ActiveIps)
    BY ActiveIpsAreLive
  <2>4. link \in Links
    BY <2>2 DEF Admits, QuotaAllows, RegistryInv, TypeOK
  <2>5. Cardinality(ActiveIps) < link.maxIps
    BY <2>2, <2>3, <2>4 DEF Admits, IpAllowed
  <2>6. Cardinality(ActiveIps \cup {a}) = Cardinality(ActiveIps) + 1
    BY <2>2, <2>3, FS_AddElement
  <2>7. Cardinality(ActiveIps) \in Nat
    BY <2>3, FS_CardinalityType
  <2>. QED
    BY <2>2, <2>3, <2>4, <2>5, <2>6, <2>7
<1>. QED
  BY <1>1, RegistryInit, RegistryStep, PTL DEF Spec, DeviceLimitAtAdmission

-----------------------------------------------------------------------------
(* What a link leaks once it is cut.                                       *)

(* What t may still move although the quota check would refuse it: the     *)
(* chunks its pumps hold, and an initial payload that was not sent yet.    *)
HeldSize(p) == IF Holds(p) THEN p.size ELSE 0
Payload(t) ==
  IF pc[t] = "header" THEN MaxChunk
  ELSE IF pc[t] \in {"hdr_throttle", "dialing", "pay_throttle"} THEN first[t][2]
  ELSE 0

CreditBound(t) ==
  leaked[t] + Payload(t) + HeldSize(up[t]) + HeldSize(down[t]) <= 2 * MaxChunk

(* Before the cut nothing has leaked, so what t holds is within the bound. *)
CutInv(t) ==
  /\ ~ Cut => leaked[t] = 0
  /\ first[t][2] <= MaxChunk
  /\ up[t].size <= MaxChunk /\ down[t].size <= MaxChunk
  /\ CreditBound(t)

LeakInv == RegistryInv /\ \A t \in Tunnels : CutInv(t)

LEMMA LeakInit == Init => LeakInv
<1>. SUFFICES ASSUME Init PROVE LeakInv
  OBVIOUS
<1>. USE SizesAssumption
<1>1. RegistryInv
  BY RegistryInit
<1>. QED
  BY <1>1 DEF Init, LeakInv, CutInv, CreditBound, Payload, HeldSize, Holds, Off,
              PumpAt

(* A step of one tunnel leaves the others alone. *)
LEMMA OthersKeep ==
  ASSUME NEW s \in Tunnels, CutInv(s), Cut' <=> Cut,
         pc'[s] = pc[s], first'[s] = first[s], up'[s] = up[s],
         down'[s] = down[s], leaked'[s] = leaked[s]
  PROVE  CutInv(s)'
BY DEF CutInv, CreditBound, Payload

(* Counting does not cut a link. *)
LEMMA CountKeepsCut ==
  ASSUME link \in Links \cup {None}, NEW n \in Nat, Count(n)
  PROVE  Cut' <=> Cut
BY NamesAssumption DEF Count, Cut, Severed

LEMMA LeakSetup ==
  ASSUME LeakInv, NEW t \in Tunnels, Setup(t) \/ PayloadDrained(t)
  PROVE  \A s \in Tunnels : CutInv(s)'
<1>. USE SizesAssumption
<1>1. TypeOK /\ RegistryExact /\ \A s \in Tunnels : CutInv(s)
  BY DEF LeakInv, RegistryInv
<1>2. /\ first[t] \in Nat \X Nat /\ leaked[t] \in Nat /\ MaxChunk \in Nat
      /\ pc[t] # "relay" => up[t] = Off /\ down[t] = Off
      /\ HeldSize(Off) = 0 /\ HeldSize(Reading) = 0
      /\ Off.size = 0 /\ Reading.size = 0
  BY <1>1 DEF TypeOK, RegistryExact, HeldSize, Holds, Off, Reading, PumpAt
<1>. USE <1>1, <1>2 DEF CutInv, CreditBound, Payload, Goto, TypeOK
<1>3. ASSUME NEW h \in Headers, FirstChunk(t, h)
      PROVE  \A s \in Tunnels : CutInv(s)'
  BY <1>3 DEF FirstChunk, Cut
<1>4. CASE SetupFails(t)
  BY <1>4 DEF SetupFails, Cut
<1>5. CASE CountFirst(t)
  <2>1. Cut' <=> Cut
    BY <1>5, CountKeepsCut DEF CountFirst
  <2>. QED
    BY <1>5, <2>1 DEF CountFirst
<1>6. CASE Dialed(t)
  BY <1>6 DEF Dialed, StartPumps, Cut
<1>7. CASE CountPayload(t)
  <2>1. Cut' <=> Cut
    BY <1>7, CountKeepsCut DEF CountPayload
  <2>. QED
    BY <1>7, <2>1 DEF CountPayload, Leak
<1>8. CASE Finish(t)
  <2>1. HeldSize(up[t]) \in Nat /\ HeldSize(down[t]) \in Nat
    BY DEF HeldSize, PumpStates
  <2>. QED
    BY <1>8, <2>1 DEF Finish, Cut
<1>9. CASE Unregister(t)
  BY <1>9 DEF Unregister, Cut
<1>10. CASE PayloadDrained(t)
  BY <1>10 DEF PayloadDrained, StartPumps, Cut
<1>. QED
  BY <1>3, <1>4, <1>5, <1>6, <1>7, <1>8, <1>9, <1>10 DEF Setup, Timed

LEMMA LeakRelay ==
  ASSUME LeakInv, NEW t \in Tunnels, NEW d \in Directions, Relay(t, d)
  PROVE  \A s \in Tunnels : CutInv(s)'
<1>. USE SizesAssumption
<1>1. TypeOK /\ RegistryExact /\ \A s \in Tunnels : CutInv(s)
  BY DEF LeakInv, RegistryInv
<1>2. up[t] \in PumpStates /\ down[t] \in PumpStates /\ leaked[t] \in Nat
  BY <1>1 DEF TypeOK
<1>3. Pump(d)[t] # Off => pc[t] = "relay"
  BY <1>1 DEF RegistryExact, Pump
<1>. USE <1>1, <1>2, <1>3 DEF CutInv, CreditBound, Payload, HeldSize, Holds, TypeOK,
         Pump, SetPump, Quiet, PumpStates
<1>4. ASSUME NEW n \in Sizes, Read(t, d, n)
      PROVE  \A s \in Tunnels : CutInv(s)'
  <2>1. Cut' <=> Cut
    BY <1>4 DEF Read, Cut
  <2>2. pc[t] = "relay"
    BY <1>4, PumpTypes DEF Read
  <2>3. CASE QuotaAllows(link, n)
    <3>1. ~ Cut
      BY <2>3 DEF QuotaAllows, Cut, Severed
    <3>2. n \in Nat /\ n <= MaxChunk
      OBVIOUS
    <3>3. CASE d = "up"
      BY <1>4, <2>1, <2>2, <2>3, <3>1, <3>2, <3>3 DEF Read, PumpAt
    <3>4. CASE d = "down"
      BY <1>4, <2>1, <2>2, <2>3, <3>1, <3>2, <3>4 DEF Read, PumpAt
    <3>. QED
      BY <3>3, <3>4 DEF Directions
  <2>4. CASE ~ QuotaAllows(link, n)
    <3>1. CASE d = "up"
      <4>1. /\ up' = [up EXCEPT ![t] = PumpAt("done", 0)]
            /\ UNCHANGED <<pc, first, down, leaked>>
        BY <1>4, <2>4, <3>1 DEF Read, Done
      <4>. QED
        BY <2>1, <2>2, <4>1 DEF PumpAt
    <3>2. CASE d = "down"
      BY <1>4, <2>1, <2>2, <2>4, <3>2 DEF Read, Done, Reading, PumpAt
    <3>. QED
      BY <3>1, <3>2 DEF Directions
  <2>. QED
    BY <2>3, <2>4
<1>5. CASE CountChunk(t, d)
  <2>1. Cut' <=> Cut
    BY <1>5, CountKeepsCut DEF CountChunk
  <2>2. pc[t] = "relay"
    BY <1>5 DEF CountChunk, Off, PumpAt
  <2>. QED
    <3>1. CASE d = "up"
      BY <1>5, <2>1, <2>2, <3>1 DEF CountChunk, Leak, PumpAt
    <3>2. CASE d = "down"
      BY <1>5, <2>1, <2>2, <3>2 DEF CountChunk, Leak, PumpAt
    <3>. QED
      BY <3>1, <3>2 DEF Directions
<1>6. CASE Drained(t, d)
  <2>1. Cut' <=> Cut
    BY <1>6 DEF Drained, Cut
  <2>. QED
    <3>1. CASE d = "up"
      BY <1>6, <2>1, <3>1 DEF Drained, Reading, PumpAt
    <3>2. CASE d = "down"
      BY <1>6, <2>1, <3>2 DEF Drained, Reading, PumpAt
    <3>. QED
      BY <3>1, <3>2 DEF Directions
<1>7. CASE Ends(t, d)
  <2>1. Cut' <=> Cut
    BY <1>7 DEF Ends, Cut
  <2>. QED
    <3>1. CASE d = "up"
      BY <1>7, <2>1, <3>1 DEF Ends, Done, PumpAt
    <3>2. CASE d = "down"
      BY <1>7, <2>1, <3>2 DEF Ends, Done, PumpAt
    <3>. QED
      BY <3>1, <3>2 DEF Directions
<1>. QED
  BY <1>4, <1>5, <1>6, <1>7 DEF Relay

LEMMA LeakStep == LeakInv /\ [Next]_vars => LeakInv'
<1>. SUFFICES ASSUME LeakInv, [Next]_vars
              PROVE  \A s \in Tunnels : CutInv(s)'
  BY RegistryStep DEF LeakInv
<1>. USE SizesAssumption
<1>1. TypeOK /\ RegistryExact /\ \A s \in Tunnels : CutInv(s)
  BY DEF LeakInv, RegistryInv
<1>2. ASSUME NEW t \in Tunnels, NEW a \in Ips \cup {Unknown}, Admit(t, a)
      PROVE  \A s \in Tunnels : CutInv(s)'
  <2>1. (Cut' <=> Cut) /\ ~ Cut
    BY <1>2 DEF Admit, Admits, QuotaAllows, Cut, Severed
  <2>2. up[t] = Off /\ down[t] = Off /\ HeldSize(Off) = 0
    BY <1>1, <1>2 DEF Admit, RegistryExact, HeldSize, Holds, Off, PumpAt
  <2>. QED
    BY <1>1, <1>2, <2>1, <2>2 DEF Admit, Goto, CutInv, CreditBound, Payload, TypeOK
<1>3. ASSUME NEW t \in Tunnels, Prune(t) PROVE \A s \in Tunnels : CutInv(s)'
  BY <1>1, <1>3 DEF Prune, CutInv, CreditBound, Payload, Cut
<1>4. ASSUME NEW l, Administer(l) PROVE \A s \in Tunnels : CutInv(s)'
  BY <1>1, <1>4 DEF Administer, CutInv, CreditBound, Payload, Cut, TypeOK,
                    HeldSize, PumpStates
<1>5. CASE Admin
  BY <1>4, <1>5 DEF Admin, SetActive, SetExpired, SetLimit, SetMaxIps, ResetUsage,
                    DeleteLink, RecreateLink
<1>6. CASE UNCHANGED vars
  BY <1>1, <1>6 DEF vars, CutInv, CreditBound, Payload, Cut
<1>. QED
  BY <1>2, <1>3, <1>5, <1>6, LeakSetup, LeakRelay DEF Next

(* After a link was switched off, has expired or was deleted, each of its  *)
(* tunnels moves at most one more chunk each way, however long it waits    *)
(* for the rate limiter and whatever is set up meanwhile (README.md:59,    *)
(* main.py:783-836, 859-882).                                              *)
THEOREM CutLeaksLittle == Spec => []CutBound
<1>1. LeakInv => CutBound
  BY SizesAssumption DEF LeakInv, RegistryInv, TypeOK, CutBound, CutInv, CreditBound,
     Payload, HeldSize, PumpStates
<1>. QED
  BY <1>1, LeakInit, LeakStep, PTL DEF Spec

-----------------------------------------------------------------------------
(* How far a client can go beyond its quota.                               *)

(* The debts of t, in two slots: a chunk it may still count although no    *)
(* quota check comes before it is counted.  A tunnel that was admitted     *)
(* owes its first chunk and then the payload in it; a relaying one owes    *)
(* what each of its pumps holds.                                           *)
OwesFirst(t) == pc[t] \in {"header", "hdr_throttle"} \/ Holds(up[t])
OwesSecond(t) ==
  pc[t] \in {"header", "hdr_throttle", "dialing", "pay_throttle"} \/ Holds(down[t])

Slots == Tunnels \X {1, 2}
Owing == {s \in Slots : IF s[2] = 1 THEN OwesFirst(s[1]) ELSE OwesSecond(s[1])}

(* What has been counted and what is still owed stay within the ceiling    *)
(* and two chunks a tunnel: a check finds the usage within the ceiling,    *)
(* whatever is owed then, and a count pays for a debt.                     *)
DebtCovered ==
  link # None /\ ceiling # NoCeiling =>
    /\ link.limit # 0 /\ link.limit <= ceiling
    /\ link.used + MaxChunk * Cardinality(Owing)
         <= ceiling + MaxChunk * Cardinality(Slots)

ChunksBounded ==
  \A t \in Tunnels :
    /\ first[t][1] <= MaxChunk /\ first[t][2] <= MaxChunk
    /\ up[t].size <= MaxChunk /\ down[t].size <= MaxChunk

QuotaInv == RegistryInv /\ ChunksBounded /\ DebtCovered

LEMMA SlotsFinite ==
  /\ IsFiniteSet(Slots)
  /\ Cardinality(Tunnels) \in Nat
  /\ Cardinality(Slots) = Cardinality(Tunnels) * 2
<1>1. IsFiniteSet({1, 2}) /\ Cardinality({1, 2}) = 2
  <2>1. IsFiniteSet({1}) /\ Cardinality({1}) = 1
    BY FS_Singleton
  <2>2. {1, 2} = {1} \cup {2} /\ 2 \notin {1}
    OBVIOUS
  <2>. QED
    BY <2>1, <2>2, FS_AddElement
<1>. QED
  BY <1>1, NamesAssumption, FS_Product, FS_CardinalityType DEF Slots

LEMMA OwingCount ==
  ASSUME NEW S \in SUBSET Slots, NEW T \in SUBSET S
  PROVE  /\ IsFiniteSet(S)
         /\ Cardinality(S) \in Nat /\ Cardinality(T) \in Nat
         /\ Cardinality(T) <= Cardinality(S)
<1>1. IsFiniteSet(S)
  BY SlotsFinite, FS_Subset
<1>2. IsFiniteSet(T) /\ Cardinality(T) <= Cardinality(S)
  BY <1>1, FS_Subset
<1>. QED
  BY <1>1, <1>2, FS_CardinalityType

LEMMA TimesMonotonic ==
  ASSUME NEW m \in Nat, NEW a \in Nat, NEW b \in Nat, a <= b
  PROVE  m * a \in Nat /\ m * b \in Nat /\ m * a <= m * b
<1>1. m * (b - a) >= 0 /\ m * (b - a) = m * b - m * a
  OBVIOUS
<1>. QED
  BY <1>1

LEMMA TimesOneLess ==
  ASSUME NEW m \in Nat, NEW a \in Nat, NEW b \in Nat, a <= b - 1
  PROVE  m * a \in Nat /\ m * b \in Nat /\ m * a <= m * b - m
<1>1. b - 1 \in Nat /\ m * (b - 1) = m * b - m
  OBVIOUS
<1>. QED
  BY <1>1, TimesMonotonic

(* A step that lets no tunnel owe more. *)
LEMMA NoNewDebt ==
  ASSUME DebtCovered, link \in Links \cup {None}, ceiling \in Nat \cup {NoCeiling},
         link' = link, ceiling' = ceiling, Owing' \subseteq Owing
  PROVE  DebtCovered'
<1>. SUFFICES ASSUME link # None, ceiling # NoCeiling
              PROVE  link.used + MaxChunk * Cardinality(Owing')
                       <= ceiling + MaxChunk * Cardinality(Slots)
  BY DEF DebtCovered
<1>1. /\ Cardinality(Owing) \in Nat /\ Cardinality(Owing') \in Nat
      /\ Cardinality(Owing') <= Cardinality(Owing)
  BY OwingCount DEF Owing
<1>2. /\ MaxChunk * Cardinality(Owing') \in Nat
      /\ MaxChunk * Cardinality(Owing) \in Nat
      /\ MaxChunk * Cardinality(Owing') <= MaxChunk * Cardinality(Owing)
  BY <1>1, SizesAssumption, TimesMonotonic
<1>3. MaxChunk * Cardinality(Slots) \in Nat
  BY SlotsFinite, SizesAssumption
<1>4. link.used \in Nat /\ ceiling \in Nat
  OBVIOUS
<1>. QED
  BY <1>2, <1>3, <1>4 DEF DebtCovered

(* A step that asks the quota gate, whatever may be owed after it. *)
LEMMA DebtAfterCheck ==
  ASSUME DebtCovered, link \in Links \cup {None}, ceiling \in Nat \cup {NoCeiling},
         link' = link, ceiling' = ceiling, NEW n \in Nat, QuotaAllows(link, n)
  PROVE  DebtCovered'
<1>. SUFFICES ASSUME link # None, ceiling # NoCeiling
              PROVE  link.used + MaxChunk * Cardinality(Owing')
                       <= ceiling + MaxChunk * Cardinality(Slots)
  BY DEF DebtCovered
<1>1. /\ Cardinality(Slots) \in Nat /\ Cardinality(Owing') \in Nat
      /\ Cardinality(Owing') <= Cardinality(Slots)
  BY OwingCount DEF Owing
<1>2. /\ MaxChunk * Cardinality(Owing') \in Nat
      /\ MaxChunk * Cardinality(Slots) \in Nat
      /\ MaxChunk * Cardinality(Owing') <= MaxChunk * Cardinality(Slots)
  BY <1>1, SizesAssumption, TimesMonotonic
<1>3. link.used \in Nat /\ ceiling \in Nat /\ link.used <= ceiling
  BY DEF QuotaAllows, DebtCovered
<1>. QED
  BY <1>2, <1>3

(* A step that counts what was owed in one slot. *)
LEMMA DebtPaid ==
  ASSUME DebtCovered, link \in Links \cup {None}, ceiling \in Nat \cup {NoCeiling},
         NEW n \in Nat, n <= MaxChunk, Count(n), ceiling' = ceiling,
         NEW s \in Owing, Owing' \subseteq Owing \ {s}
  PROVE  DebtCovered'
<1>. SUFFICES ASSUME link # None, ceiling # NoCeiling
              PROVE  link.used + n + MaxChunk * Cardinality(Owing')
                       <= ceiling + MaxChunk * Cardinality(Slots)
  <2>1. link' # None => link # None /\ link' = [link EXCEPT !.used = @ + n]
    BY DEF Count
  <2>. QED
    BY <2>1 DEF DebtCovered
<1>1. /\ IsFiniteSet(Owing) /\ Cardinality(Owing) \in Nat
      /\ Owing \ {s} \subseteq Slots
  BY OwingCount DEF Owing
<1>2. Cardinality(Owing \ {s}) = Cardinality(Owing) - 1
  BY <1>1, FS_RemoveElement
<1>3. /\ Cardinality(Owing') \in Nat
      /\ Cardinality(Owing') <= Cardinality(Owing) - 1
  BY <1>1, <1>2, OwingCount
<1>4. /\ MaxChunk * Cardinality(Owing') \in Nat
      /\ MaxChunk * Cardinality(Owing) \in Nat
      /\ MaxChunk * Cardinality(Owing') <= MaxChunk * Cardinality(Owing) - MaxChunk
  BY <1>1, <1>3, SizesAssumption, TimesOneLess
<1>5. MaxChunk * Cardinality(Slots) \in Nat /\ MaxChunk \in Nat
  BY SlotsFinite, SizesAssumption
<1>6. link.used \in Nat /\ ceiling \in Nat
  OBVIOUS
<1>. QED
  BY <1>4, <1>5, <1>6 DEF DebtCovered

LEMMA QuotaInit == Init => QuotaInv
<1>. SUFFICES ASSUME Init PROVE ChunksBounded /\ DebtCovered
  BY RegistryInit DEF QuotaInv
<1>1. ChunksBounded
  BY SizesAssumption DEF Init, ChunksBounded, Off, PumpAt
<1>2. PICK limit \in Limits, m \in IpLimits :
        link = NewLink(limit, m) /\ ceiling = CeilingOf(limit, 0)
  BY DEF Init
<1>3. Owing = {}
  BY DEF Init, Owing, Slots, OwesFirst, OwesSecond, Holds, Off, PumpAt
<1>4. Cardinality(Owing) = 0
  BY <1>3, FS_EmptySet
<1>5. MaxChunk * Cardinality(Slots) \in Nat /\ MaxChunk * 0 = 0
  BY SlotsFinite, SizesAssumption
<1>6. limit \in Nat
  BY SizesAssumption
<1>. QED
  BY <1>1, <1>2, <1>4, <1>5, <1>6 DEF DebtCovered, NewLink, CeilingOf, NoCeiling

(* The chunks a tunnel holds never exceed the largest read. *)
LEMMA ChunksSetup ==
  ASSUME RegistryInv, ChunksBounded, NEW t \in Tunnels,
         Setup(t) \/ PayloadDrained(t)
  PROVE  ChunksBounded'
<1>. USE SizesAssumption DEF ChunksBounded, RegistryInv, TypeOK, Goto
<1>1. Off.size = 0 /\ Reading.size = 0
  BY DEF Off, Reading, PumpAt
<1>2. ASSUME NEW h \in Headers, FirstChunk(t, h) PROVE ChunksBounded'
  BY <1>2 DEF FirstChunk
<1>3. CASE Dialed(t)
  BY <1>1, <1>3 DEF Dialed, StartPumps
<1>4. CASE PayloadDrained(t)
  BY <1>1, <1>4 DEF PayloadDrained, StartPumps
<1>5. CASE Finish(t)
  BY <1>1, <1>5 DEF Finish
<1>6. CASE Unregister(t)
  BY <1>6 DEF Unregister
<1>7. CASE SetupFails(t) \/ CountFirst(t) \/ CountPayload(t)
  BY <1>7 DEF SetupFails, CountFirst, CountPayload
<1>. QED
  BY <1>2, <1>3, <1>4, <1>5, <1>6, <1>7 DEF Setup, Timed

LEMMA ChunksRelay ==
  ASSUME RegistryInv, ChunksBounded, NEW t \in Tunnels, NEW d \in Directions,
         Relay(t, d)
  PROVE  ChunksBounded'
<1>. DEFINE Moves(p) == p.size <= MaxChunk /\ SetPump(d, t, p) /\ Quiet
<1>1. \E p \in PumpStates : Moves(p)
  <2>. USE SizesAssumption
  <2>1. ASSUME NEW n \in Sizes, Read(t, d, n)
        PROVE  \E p \in PumpStates : Moves(p)
    <3>1. CASE QuotaAllows(link, n)
      <4>1. Moves(PumpAt("throttle", n))
        BY <2>1, <3>1 DEF Read, PumpAt
      <4>. QED
        BY <4>1, PumpTypes
    <3>2. CASE ~ QuotaAllows(link, n)
      <4>1. Moves(Done)
        BY <2>1, <3>2 DEF Read, Done, PumpAt
      <4>. QED
        BY <4>1, PumpTypes
    <3>. QED
      BY <3>1, <3>2
  <2>2. CASE CountChunk(t, d)
    <3>1. Moves(PumpAt("drain", 0))
      BY <2>2 DEF CountChunk, PumpAt
    <3>. QED
      BY <3>1, PumpTypes
  <2>3. CASE Drained(t, d)
    <3>1. Moves(Reading)
      BY <2>3 DEF Drained, Reading, PumpAt
    <3>. QED
      BY <3>1, PumpTypes
  <2>4. CASE Ends(t, d)
    <3>1. Moves(Done)
      BY <2>4 DEF Ends, Done, PumpAt
    <3>. QED
      BY <3>1, PumpTypes
  <2>. QED
    BY <2>1, <2>2, <2>3, <2>4 DEF Relay
<1>. QED
  BY <1>1 DEF ChunksBounded, RegistryInv, TypeOK, Quiet, SetPump

LEMMA ChunksStep ==
  ASSUME RegistryInv, ChunksBounded, [Next]_vars
  PROVE  ChunksBounded'
<1>1. UNCHANGED <<first, up, down>> => ChunksBounded'
  BY DEF ChunksBounded
<1>2. ASSUME NEW t \in Tunnels, NEW a \in Ips \cup {Unknown}, Admit(t, a)
      PROVE  ChunksBounded'
  BY <1>1, <1>2 DEF Admit
<1>3. ASSUME NEW t \in Tunnels, Prune(t) PROVE ChunksBounded'
  BY <1>1, <1>3 DEF Prune
<1>4. CASE Admin
  BY <1>1, <1>4 DEF Admin, SetActive, SetExpired, SetLimit, SetMaxIps, ResetUsage,
                    DeleteLink, RecreateLink, Administer
<1>5. CASE UNCHANGED vars
  BY <1>1, <1>5 DEF vars
<1>. QED
  BY <1>2, <1>3, <1>4, <1>5, ChunksSetup, ChunksRelay DEF Next

(* The slots of one tunnel are its own: who owes after a step of t.        *)
LEMMA OwingOf ==
  ASSUME NEW t \in Tunnels,
         \A s \in Tunnels \ {t} :
           pc'[s] = pc[s] /\ up'[s] = up[s] /\ down'[s] = down[s]
  PROVE  /\ (OwesFirst(t)' => OwesFirst(t)) /\ (OwesSecond(t)' => OwesSecond(t))
              => Owing' \subseteq Owing
         /\ OwesFirst(t) /\ ~ OwesFirst(t)' /\ (OwesSecond(t)' => OwesSecond(t))
              => <<t, 1>> \in Owing /\ Owing' \subseteq Owing \ {<<t, 1>>}
         /\ OwesSecond(t) /\ ~ OwesSecond(t)' /\ (OwesFirst(t)' => OwesFirst(t))
              => <<t, 2>> \in Owing /\ Owing' \subseteq Owing \ {<<t, 2>>}
<1>1. \A s \in Tunnels \ {t} :
        (OwesFirst(s)' <=> OwesFirst(s)) /\ (OwesSecond(s)' <=> OwesSecond(s))
  BY DEF OwesFirst, OwesSecond
<1>2. /\ \A x \in Slots : /\ x[1] \in Tunnels /\ x[2] \in {1, 2}
                          /\ x = <<x[1], x[2]>>
      /\ <<t, 1>> \in Slots /\ <<t, 2>> \in Slots
      /\ <<t, 1>>[1] = t /\ <<t, 2>>[1] = t
      /\ <<t, 1>>[2] = 1 /\ <<t, 2>>[2] = 2
  BY DEF Slots
<1>3. /\ Owing' = {s \in Slots : IF s[2] = 1 THEN OwesFirst(s[1])' ELSE OwesSecond(s[1])'}
      /\ Owing = {s \in Slots : IF s[2] = 1 THEN OwesFirst(s[1]) ELSE OwesSecond(s[1])}
  BY DEF Owing
<1>. QED
  BY <1>1, <1>2, <1>3

LEMMA DebtSetup ==
  ASSUME QuotaInv, NEW t \in Tunnels, Setup(t) \/ PayloadDrained(t)
  PROVE  DebtCovered'
<1>1. /\ TypeOK /\ RegistryExact /\ DebtCovered
      /\ first[t] \in Nat \X Nat /\ first[t][1] <= MaxChunk /\ first[t][2] <= MaxChunk
      /\ link \in Links \cup {None} /\ ceiling \in Nat \cup {NoCeiling}
      /\ pc \in [Tunnels -> Stages]
      /\ up \in [Tunnels -> PumpStates] /\ down \in [Tunnels -> PumpStates]
  BY DEF QuotaInv, RegistryInv, ChunksBounded, TypeOK
<1>2. /\ pc[t] # "relay" => up[t] = Off /\ down[t] = Off
      /\ ~ Holds(Off) /\ ~ Holds(Reading)
  BY <1>1 DEF RegistryExact, Holds, Off, Reading, PumpAt
<1>. USE <1>1, <1>2 DEF OwesFirst, OwesSecond, Goto
<1>3. ASSUME NEW h \in Headers, FirstChunk(t, h) PROVE DebtCovered'
  <2>1. /\ OwesFirst(t)' => OwesFirst(t)
        /\ OwesSecond(t)' => OwesSecond(t)
        /\ \A s \in Tunnels \ {t} :
             pc'[s] = pc[s] /\ up'[s] = up[s] /\ down'[s] = down[s]
    BY <1>3 DEF FirstChunk
  <2>. QED
    BY <1>3, <2>1, OwingOf, NoNewDebt DEF FirstChunk
<1>4. CASE SetupFails(t) \/ Dialed(t) \/ Finish(t) \/ Unregister(t) \/ PayloadDrained(t)
  <2>1. /\ OwesFirst(t)' => OwesFirst(t)
        /\ OwesSecond(t)' => OwesSecond(t)
        /\ \A s \in Tunnels \ {t} :
             pc'[s] = pc[s] /\ up'[s] = up[s] /\ down'[s] = down[s]
    BY <1>4 DEF SetupFails, Dialed, Finish, Unregister, PayloadDrained, StartPumps
  <2>2. link' = link /\ ceiling' = ceiling
    BY <1>4 DEF SetupFails, Dialed, Finish, Unregister, PayloadDrained
  <2>. QED
    BY <2>1, <2>2, OwingOf, NoNewDebt
<1>5. CASE CountFirst(t)
  <2>1. /\ OwesFirst(t) /\ ~ OwesFirst(t)'
        /\ OwesSecond(t)' => OwesSecond(t)
        /\ \A s \in Tunnels \ {t} :
             pc'[s] = pc[s] /\ up'[s] = up[s] /\ down'[s] = down[s]
    BY <1>5 DEF CountFirst
  <2>2. Count(first[t][1]) /\ ceiling' = ceiling
    BY <1>5 DEF CountFirst
  <2>. QED
    BY <2>1, <2>2, OwingOf, DebtPaid
<1>6. CASE CountPayload(t)
  <2>1. /\ OwesSecond(t) /\ ~ OwesSecond(t)'
        /\ OwesFirst(t)' => OwesFirst(t)
        /\ \A s \in Tunnels \ {t} :
             pc'[s] = pc[s] /\ up'[s] = up[s] /\ down'[s] = down[s]
    BY <1>6 DEF CountPayload
  <2>2. Count(first[t][2]) /\ ceiling' = ceiling
    BY <1>6 DEF CountPayload
  <2>. QED
    BY <2>1, <2>2, OwingOf, DebtPaid
<1>. QED
  BY <1>3, <1>4, <1>5, <1>6 DEF Setup, Timed

LEMMA DebtRelay ==
  ASSUME QuotaInv, NEW t \in Tunnels, NEW d \in Directions, Relay(t, d)
  PROVE  DebtCovered'
<1>1. /\ TypeOK /\ RegistryExact /\ DebtCovered
      /\ up[t].size <= MaxChunk /\ down[t].size <= MaxChunk
      /\ link \in Links \cup {None} /\ ceiling \in Nat \cup {NoCeiling}
      /\ pc \in [Tunnels -> Stages]
      /\ up \in [Tunnels -> PumpStates] /\ down \in [Tunnels -> PumpStates]
  BY DEF QuotaInv, RegistryInv, ChunksBounded, TypeOK
<1>2. ASSUME NEW p, ~ Holds(p), SetPump(d, t, p), Quiet
      PROVE  /\ OwesFirst(t)' => OwesFirst(t)
             /\ OwesSecond(t)' => OwesSecond(t)
             /\ \A s \in Tunnels \ {t} :
                  pc'[s] = pc[s] /\ up'[s] = up[s] /\ down'[s] = down[s]
  BY <1>1, <1>2 DEF SetPump, Quiet, OwesFirst, OwesSecond
<1>3. ASSUME NEW n \in Sizes, Read(t, d, n) PROVE DebtCovered'
  <2>1. n \in Nat /\ link' = link /\ ceiling' = ceiling
    BY <1>3, SizesAssumption DEF Read, Quiet
  <2>2. CASE QuotaAllows(link, n)
    BY <1>1, <2>1, <2>2, DebtAfterCheck
  <2>3. CASE ~ QuotaAllows(link, n)
    <3>1. ~ Holds(Done) /\ SetPump(d, t, Done) /\ Quiet
      BY <1>3, <2>3 DEF Read, Holds, Done, PumpAt
    <3>. QED
      BY <1>1, <1>2, <2>1, <3>1, OwingOf, NoNewDebt
  <2>. QED
    BY <2>2, <2>3
<1>4. CASE CountChunk(t, d)
  <2>. DEFINE n == Pump(d)[t].size
  <2>1. /\ n \in Nat /\ n <= MaxChunk
        /\ Count(n) /\ ceiling' = ceiling
    BY <1>1, <1>4 DEF CountChunk, Pump, PumpStates, Quiet
  <2>2. pc[t] = "relay"
    BY <1>1, <1>4 DEF CountChunk, Pump, RegistryExact, Off, PumpAt
  <2>3. ~ Holds(PumpAt("drain", 0)) /\ SetPump(d, t, PumpAt("drain", 0)) /\ Quiet
    BY <1>4 DEF CountChunk, Holds, PumpAt
  <2>4. CASE d = "up"
    <3>1. /\ OwesFirst(t) /\ ~ OwesFirst(t)'
      BY <1>1, <1>4, <2>2, <2>3, <2>4
      DEF CountChunk, Pump, SetPump, Quiet, OwesFirst, Holds
    <3>. QED
      BY <1>1, <1>2, <2>1, <2>3, <3>1, OwingOf, DebtPaid
  <2>5. CASE d = "down"
    <3>1. /\ OwesSecond(t) /\ ~ OwesSecond(t)'
      BY <1>1, <1>4, <2>2, <2>3, <2>5
      DEF CountChunk, Pump, SetPump, Quiet, OwesSecond, Holds
    <3>. QED
      BY <1>1, <1>2, <2>1, <2>3, <3>1, OwingOf, DebtPaid
  <2>. QED
    BY <2>4, <2>5 DEF Directions
<1>5. CASE Drained(t, d)
  <2>1. /\ ~ Holds(Reading) /\ SetPump(d, t, Reading) /\ Quiet
        /\ link' = link /\ ceiling' = ceiling
    BY <1>5 DEF Drained, Holds, Reading, PumpAt, Quiet
  <2>. QED
    BY <1>1, <1>2, <2>1, OwingOf, NoNewDebt
<1>6. CASE Ends(t, d)
  <2>1. /\ ~ Holds(Done) /\ SetPump(d, t, Done) /\ Quiet
        /\ link' = link /\ ceiling' = ceiling
    BY <1>6 DEF Ends, Holds, Done, PumpAt, Quiet
  <2>. QED
    BY <1>1, <1>2, <2>1, OwingOf, NoNewDebt
<1>. QED
  BY <1>3, <1>4, <1>5, <1>6 DEF Relay

(* What the administrator changes leaves every tunnel where it is. *)
LEMMA DebtAdmin ==
  ASSUME QuotaInv, Admin
  PROVE  DebtCovered'
<1>1. /\ DebtCovered /\ link \in Links \cup {None} /\ ceiling \in Nat \cup {NoCeiling}
  BY DEF QuotaInv, RegistryInv, TypeOK
<1>2. \E l : Administer(l)
  BY DEF Admin, SetActive, SetExpired, SetLimit, SetMaxIps, ResetUsage, DeleteLink,
         RecreateLink
<1>3. Owing' = Owing
  BY <1>2 DEF Administer, Owing, OwesFirst, OwesSecond, Slots
<1>. DEFINE D == MaxChunk * Cardinality(Owing)
            C == MaxChunk * Cardinality(Slots)
            Goal == link' # None /\ ceiling' # NoCeiling =>
                      /\ link'.limit # 0 /\ link'.limit <= ceiling'
                      /\ link'.used + D <= ceiling' + C
<1>4. D \in Nat /\ C \in Nat /\ D <= C
  <2>1. /\ Cardinality(Slots) \in Nat /\ Cardinality(Owing) \in Nat
        /\ Cardinality(Owing) <= Cardinality(Slots)
    BY OwingCount DEF Owing
  <2>. QED
    BY <2>1, SizesAssumption, TimesMonotonic
<1>5. Goal => DebtCovered'
  BY <1>3 DEF DebtCovered
<1>6. link # None /\ ceiling # NoCeiling =>
        /\ link.limit # 0 /\ link.limit <= ceiling
        /\ link.used + D <= ceiling + C
  BY <1>1 DEF DebtCovered
<1>. HIDE DEF D, C
<1>. USE <1>1, <1>4, <1>6
<1>7. ASSUME NEW b \in BOOLEAN, SetActive(b) \/ SetExpired(b) PROVE Goal
  BY <1>7 DEF SetActive, SetExpired, Administer
<1>8. ASSUME NEW limit \in Limits, SetLimit(limit) PROVE Goal
  <2>1. limit \in Nat
    BY SizesAssumption
  <2>2. link # None /\ link' = [link EXCEPT !.limit = limit] /\ ceiling' = Raised(limit)
    BY <1>8 DEF SetLimit, Administer
  <2>. QED
    BY <2>1, <2>2 DEF Raised, NoCeiling
<1>9. ASSUME NEW m \in IpLimits, SetMaxIps(m) PROVE Goal
  BY <1>9 DEF SetMaxIps, Administer
<1>10. ASSUME ResetUsage PROVE Goal
  BY <1>10 DEF ResetUsage, Administer, CeilingOf, NoCeiling
<1>11. ASSUME DeleteLink PROVE Goal
  BY <1>11 DEF DeleteLink, Administer
<1>12. ASSUME NEW limit \in Limits, NEW m \in IpLimits, NEW n \in Usages,
              NEW b \in BOOLEAN, RecreateLink(limit, m, n, b)
       PROVE  Goal
  <2>1. limit \in Nat /\ n \in Nat
    BY SizesAssumption
  <2>2. /\ link' = [NewLink(limit, m) EXCEPT !.used = n, !.active = b]
        /\ ceiling' = CeilingOf(limit, n)
    BY <1>12 DEF RecreateLink, Administer
  <2>. QED
    BY <2>1, <2>2 DEF NewLink, CeilingOf, NoCeiling
<1>13. Goal
  BY <1>7, <1>8, <1>9, <1>10, <1>11, <1>12 DEF Admin
<1>. QED
  BY <1>5, <1>13

LEMMA QuotaStep == QuotaInv /\ [Next]_vars => QuotaInv'
<1>. SUFFICES ASSUME QuotaInv, [Next]_vars PROVE DebtCovered'
  BY RegistryStep, ChunksStep DEF QuotaInv
<1>1. /\ DebtCovered /\ RegistryExact
      /\ link \in Links \cup {None} /\ ceiling \in Nat \cup {NoCeiling}
  BY DEF QuotaInv, RegistryInv, TypeOK
<1>2. ASSUME NEW t \in Tunnels, NEW a \in Ips \cup {Unknown}, Admit(t, a)
      PROVE  DebtCovered'
  BY <1>1, <1>2, DebtAfterCheck DEF Admit, Admits
<1>3. UNCHANGED <<link, ceiling, pc, up, down>> => DebtCovered'
  <2>1. UNCHANGED <<pc, up, down>> => Owing' = Owing
    BY DEF Owing, Slots, OwesFirst, OwesSecond
  <2>. QED
    BY <1>1, <2>1, NoNewDebt
<1>4. ASSUME NEW t \in Tunnels, Prune(t) PROVE DebtCovered'
  BY <1>3, <1>4 DEF Prune
<1>5. CASE UNCHANGED vars
  BY <1>3, <1>5 DEF vars
<1>. QED
  BY <1>2, <1>4, <1>5, DebtSetup, DebtRelay, DebtAdmin DEF Next

(* However the waits of its tunnels interleave, and whatever is done to    *)
(* the link meanwhile, the usage of a link stays within the largest quota  *)
(* since its counter was last cleared and two chunks for each tunnel       *)
(* (main.py:783-836, 843-882).                                             *)
THEOREM QuotaOvershootBounded == Spec => []QuotaOvershoot
<1>1. QuotaInv => QuotaOvershoot
  <2>. SUFFICES ASSUME QuotaInv, link # None, ceiling # NoCeiling
                PROVE  link.used <= ceiling + Overshoot
    BY DEF QuotaOvershoot
  <2>1. /\ link.used \in Nat /\ ceiling \in Nat /\ MaxChunk \in Nat
        /\ link.used + MaxChunk * Cardinality(Owing)
             <= ceiling + MaxChunk * Cardinality(Slots)
    BY SizesAssumption DEF QuotaInv, RegistryInv, TypeOK, DebtCovered
  <2>2. MaxChunk * Cardinality(Owing) \in Nat
    BY OwingCount, SizesAssumption DEF Owing
  <2>3. /\ Overshoot = MaxChunk * Cardinality(Slots)
        /\ Overshoot \in Nat
    BY SlotsFinite, SizesAssumption DEF Overshoot
  <2>. QED
    BY <2>1, <2>2, <2>3
<1>. QED
  BY <1>1, QuotaInit, QuotaStep, PTL DEF Spec
=============================================================================
