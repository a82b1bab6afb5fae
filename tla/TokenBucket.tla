----------------------------- MODULE TokenBucket -----------------------------
(***************************************************************************)
(* The bandwidth limiter of src/limiter.py for one link: throttle(), the   *)
(* token bucket it consumes from, and the registry that replaces a bucket  *)
(* when the link's speed limit is changed or its throttle is reset.        *)
(*                                                                         *)
(* Several pumps of the link call throttle() concurrently.  A call runs    *)
(* without interruption up to its asyncio.sleep, and again from each wake  *)
(* up to the next; a pump that sleeps keeps the bucket it started with,    *)
(* also after the registry has moved to another.                           *)
(*                                                                         *)
(* Time is counted in ticks of any length and tokens in integers; the code *)
(* computes both in floating point.                                        *)
(***************************************************************************)
EXTENDS Integers

CONSTANTS
  Pumps,       \* the coroutines that throttle on this link
  Buckets,     \* names for bucket objects
  None,        \* no bucket
  Speeds,      \* speed limits in tokens a tick; 0 is unlimited or no link
  ChunkSizes,  \* sizes of the chunks pumped
  MinRate,     \* MIN_RATE_BYTES
  MinBurst,    \* MIN_BURST_BYTES
  Slack,       \* a bucket is kept while its rate is this close (1024)
  MaxPause,    \* the longest sleep, in ticks (0.25 s)
  Chunks,      \* bound: chunks each pump sends
  WindowMax    \* bound: length of the observed window

ASSUME RatesAssumption ==
  /\ MinRate \in Nat \ {0}
  /\ MinBurst \in Nat
  /\ Slack \in Nat
  /\ MaxPause \in Nat \ {0}
  /\ Speeds \subseteq Nat
ASSUME LoadAssumption ==
  /\ ChunkSizes \subseteq Nat \ {0}
  /\ Chunks \in Nat
  /\ WindowMax \in Nat
  /\ None \notin Buckets
  /\ None \notin [rate : Nat, cap : Nat, tokens : Nat, since : Nat]

VARIABLES
  speed,    \* the link's speed_limit_mbps
  buckets,  \* the bucket objects that are still referenced
  current,  \* the bucket _BUCKETS holds for the link
  jobs,     \* what each pump sleeps for
  left,     \* chunks each pump has yet to send
  window    \* history: tokens spent from one bucket since some moment

vars == <<speed, buckets, current, jobs, left, window>>

-----------------------------------------------------------------------------

Smaller(a, b) == IF a <= b THEN a ELSE b
Larger(a, b)  == IF a >= b THEN a ELSE b
Distance(a, b) == IF a >= b THEN a - b ELSE b - a
CeilDiv(a, b) == (a + b - 1) \div b

(* Mutant of Capacity: the burst has no floor. *)
CapacityNoFloor(rate) == rate

Capacity(rate) == Larger(rate, MinBurst)

(* since is the time since last_refill. *)
NewBucket(rate) == [rate |-> rate, cap |-> Capacity(rate),
                    tokens |-> Capacity(rate), since |-> 0]

(* Mutant of Available: idle time adds up beyond the capacity. *)
AvailableUncapped(b) == b.tokens + b.since * b.rate

(* min(capacity, tokens + elapsed * rate) *)
Available(b) == Smaller(b.cap, b.tokens + b.since * b.rate)

(* Mutant of Refilled: last_refill is not moved. *)
RefilledAgain(b) == [b EXCEPT !.tokens = Available(b)]

Refilled(b)  == [b EXCEPT !.tokens = Available(b), !.since = 0]
Spent(b, n)  == [Refilled(b) EXCEPT !.tokens = @ - n]

Pause(deficit, rate) == Smaller(Larger(CeilDiv(deficit, rate), 1), MaxPause)

Idle   == [need |-> 0, bucket |-> None, due |-> 0]
Closed == [bucket |-> None, spent |-> 0, span |-> 0]
Target == Larger(speed, MinRate)

(* A bucket object lives while the registry or a sleeping pump refers to it. *)
Referenced(id) == id = current \/ \E p \in Pumps : jobs[p].bucket = id

Init ==
  /\ speed \in Speeds
  /\ buckets = [id \in Buckets |-> None]
  /\ current = None
  /\ jobs = [p \in Pumps |-> Idle]
  /\ left = [p \in Pumps |-> Chunks]
  /\ window = Closed

-----------------------------------------------------------------------------

(* One turn of the loop in consume(): p wants n tokens of bucket id, which *)
(* is b before it is refilled.                                             *)
Grant(p, n, id, b) ==
  /\ Available(b) >= n
  /\ buckets' = [buckets EXCEPT ![id] = Spent(b, n)]
  /\ jobs' = [jobs EXCEPT ![p] = Idle]

Sleep(p, n, id, b) ==
  /\ Available(b) < n
  /\ buckets' = [buckets EXCEPT ![id] = Refilled(b)]
  /\ jobs' = [jobs EXCEPT ![p] = [need |-> n, bucket |-> id,
                                  due |-> Pause(n - Available(b), b.rate)]]

Observe(n, id, b) ==
  window' = IF window.bucket = id /\ Available(b) >= n
            THEN [window EXCEPT !.spent = @ + n]
            ELSE window

Consume(p, n, id, b) ==
  /\ Grant(p, n, id, b) \/ Sleep(p, n, id, b)
  /\ Observe(n, id, b)

Keeps == current # None /\ Distance(buckets[current].rate, Target) <= Slack

Ready(p) == jobs[p] = Idle /\ left[p] > 0

(* throttle() on a link that is gone or has no speed limit. *)
PassUnlimited(p) ==
  /\ Ready(p)
  /\ speed = 0
  /\ left' = [left EXCEPT ![p] = @ - 1]
  /\ UNCHANGED <<speed, buckets, current, jobs, window>>

(* Mutant of ThrottleKept: the bucket was looked up before the registry    *)
(* moved on.                                                               *)
ThrottleStale(p, n) ==
  /\ Ready(p)
  /\ speed > 0
  /\ Keeps
  /\ \E id \in Buckets : Referenced(id) /\ Consume(p, n, id, buckets[id])
  /\ left' = [left EXCEPT ![p] = @ - 1]
  /\ UNCHANGED <<speed, current>>

(* throttle() with the bucket that is registered... *)
ThrottleKept(p, n) ==
  /\ Ready(p)
  /\ speed > 0
  /\ Keeps
  /\ Consume(p, n, current, buckets[current])
  /\ left' = [left EXCEPT ![p] = @ - 1]
  /\ UNCHANGED <<speed, current>>

(* ...or with a new one, full, when there is none or the rate has changed. *)
(* An object that nothing refers to stands for the new one.  The observer  *)
(* may watch it from its first grant on.                                   *)
ThrottleNew(p, n, id) ==
  /\ Ready(p)
  /\ speed > 0
  /\ ~ Keeps
  /\ ~ Referenced(id)
  /\ Grant(p, n, id, NewBucket(Target)) \/ Sleep(p, n, id, NewBucket(Target))
  /\ current' = id
  /\ \/ window' = IF window.bucket = id THEN Closed ELSE window
     \/ /\ WindowMax > 0
        /\ window' = [bucket |-> id, span |-> 0,
                      spent |-> IF Capacity(Target) >= n THEN n ELSE 0]
  /\ left' = [left EXCEPT ![p] = @ - 1]
  /\ UNCHANGED speed

(* The sleep of p is over. *)
Wake(p) ==
  /\ jobs[p].need > 0
  /\ jobs[p].due = 0
  /\ Consume(p, jobs[p].need, jobs[p].bucket, buckets[jobs[p].bucket])
  /\ UNCHANGED <<speed, current, left>>

-----------------------------------------------------------------------------
(* Around the limiter.                                                     *)

(* A PATCH, a restore or a deletion of the link; no bucket is touched. *)
SetSpeed(s) ==
  /\ speed' = s
  /\ UNCHANGED <<buckets, current, jobs, left, window>>

(* reset_throttle(), called with a usage reset and with a deletion. *)
ResetThrottle ==
  /\ current' = None
  /\ UNCHANGED <<speed, buckets, jobs, left, window>>

(* The observer looks at any bucket, from any moment on. *)
OpenWindow(id) ==
  /\ WindowMax > 0
  /\ Referenced(id)
  /\ window' = [bucket |-> id, spent |-> 0, span |-> 0]
  /\ UNCHANGED <<speed, buckets, current, jobs, left>>

(* One tick.  The age of a bucket stops to matter once it would be full,   *)
(* and objects that nothing refers to are gone.                            *)
Aged(b) == IF Available(b) = b.cap THEN b ELSE [b EXCEPT !.since = @ + 1]

Tick ==
  /\ buckets' = [id \in Buckets |->
                   IF buckets[id] = None \/ ~ Referenced(id) THEN None
                   ELSE Aged(buckets[id])]
  /\ jobs' = [p \in Pumps |-> [jobs[p] EXCEPT !.due = Larger(@ - 1, 0)]]
  /\ window' = IF /\ window.bucket # None
                  /\ Referenced(window.bucket)
                  /\ window.span < WindowMax
               THEN [window EXCEPT !.span = @ + 1]
               ELSE Closed
  /\ UNCHANGED <<speed, current, left>>

Throttle(p) ==
  \/ PassUnlimited(p)
  \/ \E n \in ChunkSizes :
       \/ ThrottleKept(p, n)
       \/ \E id \in Buckets : ThrottleNew(p, n, id)

Next ==
  \/ \E p \in Pumps : Throttle(p) \/ Wake(p)
  \/ \E s \in Speeds : SetSpeed(s)
  \/ ResetThrottle
  \/ \E id \in Buckets : OpenWindow(id)
  \/ Tick

Spec == Init /\ [][Next]_vars

(* Time passes and the loop runs a pump whose sleep is over. *)
Fairness == WF_vars(Tick) /\ \A p \in Pumps : WF_vars(Wake(p))

FairSpec == Spec /\ Fairness

-----------------------------------------------------------------------------
(* Properties.                                                             *)

BucketRecords == {b \in [rate : Nat, cap : Nat, tokens : Nat, since : Nat] :
                    /\ b.rate >= MinRate
                    /\ b.cap = Capacity(b.rate)
                    /\ b.tokens <= b.cap}

TypeOK ==
  /\ speed \in Speeds
  /\ buckets \in [Buckets -> BucketRecords \cup {None}]
  /\ current \in Buckets \cup {None}
  /\ jobs \in [Pumps -> [need : Nat, bucket : Buckets \cup {None}, due : 0..MaxPause]]
  /\ left \in [Pumps -> Nat]
  /\ window \in [bucket : Buckets \cup {None}, spent : Nat, span : Nat]

(* The registered bucket, the bucket of every sleeping pump and the        *)
(* observed one are there, however often the registry has moved on.        *)
ReferencesExist ==
  /\ current # None => buckets[current] # None
  /\ \A p \in Pumps :
       /\ jobs[p].need > 0 => jobs[p].bucket # None
       /\ jobs[p].bucket # None => buckets[jobs[p].bucket] # None
  /\ window.bucket # None => buckets[window.bucket] # None

(* After the limit has been changed or reset, only the pumps that were     *)
(* waiting already go on at the old rate: nobody joins a bucket that the   *)
(* registry has left, so the link is soon held to one bucket again         *)
(* (limiter.py:50-57, 72-78).                                              *)
Orphans == {p \in Pumps : jobs[p].bucket \notin {None, current}}

OldRateOnlyDrains == [][UNCHANGED current => Orphans' \subseteq Orphans]_vars

(* Over any stretch of time, all pumps together get at most one burst plus *)
(* the configured rate out of a bucket, however their sleeps and wakes     *)
(* interleave and however late a refill comes (limiter.py:25-43).          *)
WindowBound ==
  window.bucket # None =>
    window.spent <= buckets[window.bucket].cap
                      + buckets[window.bucket].rate * window.span

(* What is still in a bucket counts as well: the inductive form. *)
WindowInv ==
  window.bucket # None =>
    window.spent + Available(buckets[window.bucket])
      <= buckets[window.bucket].cap + buckets[window.bucket].rate * window.span

(* A chunk that fits the bucket gets through in the end, if the other      *)
(* pumps of the link do not go on for ever: nobody waits in line, so a     *)
(* large chunk can be overtaken (limiter.py:32-43, 60-73).                 *)
ChunkPasses == \A p \in Pumps : jobs[p].need > 0 ~> jobs[p].need = 0
==============================================================================
