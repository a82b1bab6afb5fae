-------------------------- MODULE TokenBucketProofs --------------------------
(***************************************************************************)
(* The rate bound of the limiter, for any number of pumps, any rates and   *)
(* any length of time, and what becomes of a chunk that is too large.      *)
(***************************************************************************)
EXTENDS TokenBucket, TLAPS

LEMMA ProductNat == \A a, b \in Nat : a * b \in Nat
OBVIOUS

LEMMA NextProduct ==
  \A a, b \in Nat : (a + 1) * b = a * b + b /\ b * (a + 1) = b * a + b
OBVIOUS

LEMMA BucketIsRecord ==
  ASSUME NEW b \in BucketRecords
  PROVE  b \in [rate : Nat, cap : Nat, tokens : Nat, since : Nat]
BY DEF BucketRecords

(* A refill never goes past the capacity and never takes tokens away. *)
LEMMA AvailableType ==
  ASSUME NEW b \in BucketRecords
  PROVE  /\ Available(b) \in Nat
         /\ Available(b) <= b.cap
         /\ b.cap \in Nat /\ b.rate \in Nat \ {0} /\ b.since \in Nat
<1>1. /\ b.rate \in Nat /\ b.cap \in Nat /\ b.tokens \in Nat /\ b.since \in Nat
      /\ b.rate >= MinRate
  BY DEF BucketRecords
<1>2. b.since * b.rate \in Nat
  BY <1>1, ProductNat
<1>3. b.tokens + b.since * b.rate \in Nat
  BY <1>1, <1>2
<1> QED BY <1>1, <1>3, RatesAssumption DEF Available, Smaller

(* A bucket after a refill, and after a grant of n tokens. *)
LEMMA RefilledType ==
  ASSUME NEW b \in BucketRecords
  PROVE  /\ Refilled(b) \in BucketRecords
         /\ Refilled(b).cap = b.cap
         /\ Refilled(b).rate = b.rate
         /\ Refilled(b).tokens = Available(b)
         /\ Refilled(b).since = 0
         /\ Available(Refilled(b)) = Available(b)
<1>1. /\ Available(b) \in Nat /\ Available(b) <= b.cap
      /\ b.cap \in Nat /\ b.rate \in Nat
  BY AvailableType
<1>2. b \in [rate : Nat, cap : Nat, tokens : Nat, since : Nat]
  BY BucketIsRecord
<1>3. /\ Refilled(b) \in [rate : Nat, cap : Nat, tokens : Nat, since : Nat]
      /\ Refilled(b).rate = b.rate /\ Refilled(b).cap = b.cap
      /\ Refilled(b).tokens = Available(b) /\ Refilled(b).since = 0
  BY <1>1, <1>2 DEF Refilled
<1>4. Refilled(b) \in BucketRecords
  BY <1>1, <1>3 DEF BucketRecords
<1>5. Available(Refilled(b)) = Available(b)
  <2>1. 0 * b.rate = 0
    BY <1>1
  <2> QED BY <1>1, <1>3, <2>1 DEF Available, Smaller
<1> QED BY <1>3, <1>4, <1>5

LEMMA SpentType ==
  ASSUME NEW b \in BucketRecords, NEW n \in Nat, n <= Available(b)
  PROVE  /\ Spent(b, n) \in BucketRecords
         /\ Spent(b, n).cap = b.cap
         /\ Spent(b, n).rate = b.rate
         /\ Available(Spent(b, n)) = Available(b) - n
<1>1. /\ Available(b) \in Nat /\ Available(b) <= b.cap
      /\ b.cap \in Nat /\ b.rate \in Nat
  BY AvailableType
<1>2. /\ Refilled(b) \in BucketRecords
      /\ Refilled(b).cap = b.cap /\ Refilled(b).rate = b.rate
      /\ Refilled(b).tokens = Available(b) /\ Refilled(b).since = 0
  BY RefilledType
<1>3. Refilled(b) \in [rate : Nat, cap : Nat, tokens : Nat, since : Nat]
  BY <1>2, BucketIsRecord
<1>4. Available(b) - n \in Nat /\ Available(b) - n <= b.cap
  BY <1>1
<1>5. /\ Spent(b, n) \in [rate : Nat, cap : Nat, tokens : Nat, since : Nat]
      /\ Spent(b, n).rate = b.rate /\ Spent(b, n).cap = b.cap
      /\ Spent(b, n).tokens = Available(b) - n /\ Spent(b, n).since = 0
  BY <1>2, <1>3, <1>4 DEF Spent
<1>6. Spent(b, n) \in BucketRecords
  BY <1>4, <1>5 DEF BucketRecords
<1>7. Available(Spent(b, n)) = Available(b) - n
  <2>1. 0 * b.rate = 0
    BY <1>1
  <2> QED BY <1>1, <1>4, <1>5, <2>1 DEF Available, Smaller
<1> QED BY <1>5, <1>6, <1>7

LEMMA NewBucketType ==
  ASSUME NEW r \in Nat, r >= MinRate
  PROVE  NewBucket(r) \in BucketRecords
BY RatesAssumption DEF NewBucket, BucketRecords, Capacity, Larger

(* A tick gives a bucket at most its rate. *)
LEMMA AgedType ==
  ASSUME NEW b \in BucketRecords
  PROVE  /\ Aged(b) \in BucketRecords
         /\ Aged(b).cap = b.cap
         /\ Aged(b).rate = b.rate
         /\ Available(Aged(b)) <= Available(b) + b.rate
<1>1. /\ Available(b) \in Nat /\ Available(b) <= b.cap
      /\ b.cap \in Nat /\ b.rate \in Nat /\ b.since \in Nat /\ b.tokens \in Nat
  BY AvailableType DEF BucketRecords
<1>2. CASE Available(b) = b.cap
  BY <1>1, <1>2 DEF Aged
<1>3. CASE Available(b) # b.cap
  <2>1. Aged(b) = [rate |-> b.rate, cap |-> b.cap,
                   tokens |-> b.tokens, since |-> b.since + 1]
    BY <1>3 DEF Aged, BucketRecords
  <2>2. Aged(b) \in BucketRecords
    BY <1>1, <2>1 DEF BucketRecords
  <2>3. Available(b) = b.tokens + b.since * b.rate
    BY <1>3 DEF Available, Smaller
  <2>4. Aged(b).tokens + Aged(b).since * Aged(b).rate = Available(b) + b.rate
    <3>1. (b.since + 1) * b.rate = b.since * b.rate + b.rate
      BY <1>1, NextProduct
    <3>2. b.since * b.rate \in Nat
      BY <1>1, ProductNat
    <3> QED BY <1>1, <2>1, <2>3, <3>1, <3>2
  <2>5. Available(Aged(b)) <= Available(b) + b.rate
    BY <1>1, <2>1, <2>4 DEF Available, Smaller
  <2> QED BY <2>1, <2>2, <2>5
<1> QED BY <1>2, <1>3

LEMMA PauseType ==
  ASSUME NEW d \in Nat, NEW r \in Nat \ {0}
  PROVE  Pause(d, r) \in 0..MaxPause
<1>1. CeilDiv(d, r) \in Int
  BY DEF CeilDiv
<1> QED BY <1>1, RatesAssumption DEF Pause, Smaller, Larger

-----------------------------------------------------------------------------
(* The inductive invariant: what a window has spent and what the bucket    *)
(* still holds never exceed a burst plus the rate over the window.         *)

JobRecords == [need : Nat, bucket : Buckets \cup {None}, due : 0..MaxPause]

RateInv == TypeOK /\ ReferencesExist /\ WindowInv

LEMMA IdleType == Idle \in JobRecords
BY RatesAssumption DEF Idle, JobRecords

LEMMA NoneIsNoBucket == None \notin BucketRecords /\ None \notin Buckets
BY LoadAssumption DEF BucketRecords

LEMMA InitInv == Init => RateInv
<1> SUFFICES ASSUME Init PROVE RateInv
  OBVIOUS
<1>1. TypeOK
  BY IdleType, LoadAssumption DEF Init, TypeOK, Closed, JobRecords
<1>2. ReferencesExist /\ WindowInv
  BY DEF Init, ReferencesExist, WindowInv, Idle, Closed
<1> QED BY <1>1, <1>2 DEF RateInv

(* One turn of the loop in consume(), on an old bucket or on a new one. *)
LEMMA TurnType ==
  ASSUME TypeOK, NEW p \in Pumps, NEW n \in Nat \ {0}, NEW id \in Buckets,
         NEW b \in BucketRecords, Grant(p, n, id, b) \/ Sleep(p, n, id, b)
  PROVE  \E nb \in BucketRecords, j \in JobRecords :
           /\ buckets' = [buckets EXCEPT ![id] = nb]
           /\ jobs' = [jobs EXCEPT ![p] = j]
           /\ nb.cap = b.cap /\ nb.rate = b.rate
           /\ Available(nb) = Available(b) - (IF Available(b) >= n THEN n ELSE 0)
           /\ j.bucket \in {None, id}
           /\ j.need > 0 => j.bucket # None
<1>1. Available(b) \in Nat /\ b.rate \in Nat \ {0}
  BY AvailableType
<1>2. CASE Grant(p, n, id, b)
  <2>1. /\ Spent(b, n) \in BucketRecords
        /\ Spent(b, n).cap = b.cap /\ Spent(b, n).rate = b.rate
        /\ Available(Spent(b, n)) = Available(b) - n
    BY <1>1, <1>2, SpentType DEF Grant
  <2>2. /\ buckets' = [buckets EXCEPT ![id] = Spent(b, n)]
        /\ jobs' = [jobs EXCEPT ![p] = Idle]
        /\ Available(b) >= n
    BY <1>2 DEF Grant
  <2>3. Idle.bucket = None /\ Idle.need = 0
    BY DEF Idle
  <2>4. Available(Spent(b, n)) = Available(b) - (IF Available(b) >= n THEN n ELSE 0)
    BY <2>1, <2>2
  <2>5. Idle \in JobRecords /\ Idle.bucket \in {None, id}
        /\ (Idle.need > 0 => Idle.bucket # None)
    BY <2>3, IdleType
  <2> QED BY <2>1, <2>2, <2>4, <2>5
<1>3. CASE Sleep(p, n, id, b)
  <2> DEFINE j == [need |-> n, bucket |-> id,
                   due |-> Pause(n - Available(b), b.rate)]
  <2>1. /\ Refilled(b) \in BucketRecords
        /\ Refilled(b).cap = b.cap /\ Refilled(b).rate = b.rate
        /\ Available(Refilled(b)) = Available(b)
    BY RefilledType
  <2>2. /\ buckets' = [buckets EXCEPT ![id] = Refilled(b)]
        /\ jobs' = [jobs EXCEPT ![p] = j]
        /\ ~ Available(b) >= n
    BY <1>1, <1>3 DEF Sleep
  <2>3. n - Available(b) \in Nat
    BY <1>1, <2>2
  <2>4. j \in JobRecords
    BY <1>1, <2>3, PauseType DEF JobRecords
  <2>5. j.bucket = id /\ id # None
    BY NoneIsNoBucket
  <2>6. Available(Refilled(b)) = Available(b) - (IF Available(b) >= n THEN n ELSE 0)
    BY <1>1, <2>1, <2>2
  <2> HIDE DEF j
  <2> QED BY <2>1, <2>2, <2>4, <2>5, <2>6
<1> QED BY <1>2, <1>3

LEMMA TargetType == speed \in Speeds => Target \in Nat /\ Target >= MinRate
BY RatesAssumption DEF Target, Larger

(* A turn on the bucket that a pump already has. *)
LEMMA ConsumeInv ==
  ASSUME RateInv, NEW p \in Pumps, NEW n \in Nat \ {0}, NEW id \in Buckets,
         buckets[id] # None, Consume(p, n, id, buckets[id]),
         UNCHANGED <<speed, current>>, left' \in [Pumps -> Nat]
  PROVE  RateInv'
<1> DEFINE b == buckets[id]
<1>1. TypeOK /\ ReferencesExist /\ WindowInv
  BY DEF RateInv
<1>2. b \in BucketRecords
  BY <1>1 DEF TypeOK
<1>3. PICK nb \in BucketRecords, j \in JobRecords :
           /\ buckets' = [buckets EXCEPT ![id] = nb]
           /\ jobs' = [jobs EXCEPT ![p] = j]
           /\ nb.cap = b.cap /\ nb.rate = b.rate
           /\ Available(nb) = Available(b) - (IF Available(b) >= n THEN n ELSE 0)
           /\ j.bucket \in {None, id}
           /\ j.need > 0 => j.bucket # None
  BY <1>1, <1>2, TurnType DEF Consume
<1>4. window \in [bucket : Buckets \cup {None}, spent : Nat, span : Nat]
  BY <1>1 DEF TypeOK
<1>5. /\ window' \in [bucket : Buckets \cup {None}, spent : Nat, span : Nat]
      /\ window'.bucket = window.bucket
      /\ window'.span = window.span
      /\ window'.spent = window.spent + (IF window.bucket = id /\ Available(b) >= n
                                         THEN n ELSE 0)
  BY <1>4 DEF Consume, Observe
<1>6. TypeOK'
  BY <1>1, <1>3, <1>5 DEF TypeOK, JobRecords
<1>7. \A i \in Buckets : buckets'[i] = IF i = id THEN nb ELSE buckets[i]
  BY <1>1, <1>3 DEF TypeOK
<1>8. \A q \in Pumps : jobs'[q] = IF q = p THEN j ELSE jobs[q]
  BY <1>1, <1>3 DEF TypeOK
<1>9. ReferencesExist'
  <2>1. \A i \in Buckets : buckets[i] # None => buckets'[i] # None
    BY <1>7, NoneIsNoBucket
  <2>2. /\ current \in Buckets \cup {None} /\ current' = current
        /\ \A q \in Pumps : jobs[q].bucket \in Buckets \cup {None}
    BY <1>1 DEF TypeOK
  <2>3. buckets'[id] # None
    BY <1>7, NoneIsNoBucket
  <2> QED BY <1>1, <1>3, <1>4, <1>5, <1>8, <2>1, <2>2, <2>3 DEF ReferencesExist
<1>10. WindowInv'
  <2> SUFFICES ASSUME window.bucket # None
               PROVE  LET wb == buckets'[window.bucket]
                      IN  window'.spent + Available(wb)
                            <= wb.cap + wb.rate * window.span
    BY <1>5 DEF WindowInv
  <2>1. window.spent + Available(buckets[window.bucket])
          <= buckets[window.bucket].cap + buckets[window.bucket].rate * window.span
    BY <1>1 DEF WindowInv
  <2>2. CASE window.bucket = id
    <3>1. Available(b) \in Nat /\ window.spent \in Nat
      BY <1>2, <1>4, AvailableType
    <3> HIDE DEF b
    <3>2. buckets'[window.bucket] = nb
      BY <1>7, <2>2
    <3>3. window'.spent + Available(nb) = window.spent + Available(b)
      BY <1>3, <1>5, <2>2, <3>1
    <3> QED BY <1>3, <2>1, <2>2, <3>2, <3>3 DEF b
  <2>3. CASE window.bucket # id
    BY <1>4, <1>5, <1>7, <2>1, <2>3
  <2> QED BY <2>2, <2>3
<1> QED BY <1>6, <1>9, <1>10 DEF RateInv

LEMMA WakeInv ==
  ASSUME RateInv, NEW p \in Pumps, Wake(p)
  PROVE  RateInv'
<1>1. TypeOK /\ ReferencesExist
  BY DEF RateInv
<1>2. /\ jobs[p].need \in Nat \ {0}
      /\ jobs[p].bucket \in Buckets
      /\ buckets[jobs[p].bucket] # None
  BY <1>1 DEF TypeOK, ReferencesExist, Wake
<1>3. left' \in [Pumps -> Nat]
  BY <1>1 DEF TypeOK, Wake
<1> QED BY <1>2, <1>3, ConsumeInv DEF Wake

(* A turn on a bucket that has just been made. *)
LEMMA NewInv ==
  ASSUME RateInv, NEW p \in Pumps, NEW n \in ChunkSizes, NEW id \in Buckets,
         ThrottleNew(p, n, id)
  PROVE  RateInv'
<1> DEFINE b == NewBucket(Target)
<1>1. TypeOK /\ ReferencesExist /\ WindowInv /\ n \in Nat \ {0}
  BY LoadAssumption DEF RateInv
<1>2. b \in BucketRecords
  BY <1>1, TargetType, NewBucketType DEF TypeOK
<1>3. PICK nb \in BucketRecords, j \in JobRecords :
           /\ buckets' = [buckets EXCEPT ![id] = nb]
           /\ jobs' = [jobs EXCEPT ![p] = j]
           /\ nb.cap = b.cap /\ nb.rate = b.rate
           /\ Available(nb) = Available(b) - (IF Available(b) >= n THEN n ELSE 0)
           /\ j.bucket \in {None, id}
           /\ j.need > 0 => j.bucket # None
  BY <1>1, <1>2, TurnType DEF ThrottleNew
<1>4. Available(b) = b.cap /\ b.cap = Capacity(Target) /\ b.cap \in Nat
  <2>1. b.cap = Capacity(Target) /\ b.tokens = b.cap /\ b.since = 0
    BY DEF NewBucket
  <2>2. b.cap \in Nat /\ b.rate \in Nat
    BY <1>2, AvailableType
  <2>3. 0 * b.rate = 0
    BY <2>2
  <2> HIDE DEF b
  <2> QED BY <2>1, <2>2, <2>3 DEF Available, Smaller
<1> HIDE DEF b
<1>5. /\ ~ Referenced(id) /\ current' = id /\ speed' = speed
      /\ left' \in [Pumps -> Nat]
  BY <1>1 DEF ThrottleNew, Ready, TypeOK
<1>6. window \in [bucket : Buckets \cup {None}, spent : Nat, span : Nat]
  BY <1>1 DEF TypeOK
<1>7. \/ window' = window /\ window.bucket # id
      \/ window' = Closed
      \/ window' = [bucket |-> id, span |-> 0,
                    spent |-> IF b.cap >= n THEN n ELSE 0]
  BY <1>4, <1>6 DEF ThrottleNew
<1>8. window' \in [bucket : Buckets \cup {None}, spent : Nat, span : Nat]
  BY <1>1, <1>6, <1>7 DEF Closed
<1>9. TypeOK'
  BY <1>1, <1>3, <1>5, <1>8 DEF TypeOK, JobRecords
<1>10. \A i \in Buckets : buckets'[i] = IF i = id THEN nb ELSE buckets[i]
  BY <1>1, <1>3 DEF TypeOK
<1>11. \A q \in Pumps : jobs'[q] = IF q = p THEN j ELSE jobs[q]
  BY <1>1, <1>3 DEF TypeOK
<1>12. ReferencesExist'
  <2>1. buckets'[id] # None
    BY <1>10, NoneIsNoBucket
  <2>2. \A i \in Buckets : buckets[i] # None => buckets'[i] # None
    BY <1>10, NoneIsNoBucket
  <2>3. \A q \in Pumps : jobs[q].bucket \in Buckets \cup {None}
    BY <1>1 DEF TypeOK
  <2>4. window'.bucket # None => buckets'[window'.bucket] # None
    BY <1>1, <1>6, <1>7, <2>1, <2>2 DEF Closed, ReferencesExist
  <2>5. ASSUME NEW q \in Pumps
        PROVE  /\ jobs'[q].need > 0 => jobs'[q].bucket # None
               /\ jobs'[q].bucket # None => buckets'[jobs'[q].bucket] # None
    BY <1>1, <1>3, <1>11, <2>1, <2>2, <2>3 DEF ReferencesExist
  <2> QED BY <1>5, <2>1, <2>4, <2>5 DEF ReferencesExist
<1>13. WindowInv'
  <2>1. CASE window' = window /\ window.bucket # id
    <3>1. window.bucket # None => buckets'[window.bucket] = buckets[window.bucket]
      BY <1>6, <1>10, <2>1
    <3> QED BY <1>1, <2>1, <3>1 DEF WindowInv
  <2>2. CASE window' = Closed
    BY <2>2 DEF WindowInv, Closed
  <2>3. CASE window' = [bucket |-> id, span |-> 0,
                        spent |-> IF b.cap >= n THEN n ELSE 0]
    <3>1. /\ window'.bucket = id /\ window'.span = 0
          /\ window'.spent = IF b.cap >= n THEN n ELSE 0
      BY <2>3
    <3>2. buckets'[id] = nb /\ nb.rate \in Nat
      BY <1>10, AvailableType
    <3>3. nb.rate * 0 = 0
      BY <3>2
    <3>4. window'.spent + Available(nb) <= nb.cap + nb.rate * window'.span
      BY <1>1, <1>3, <1>4, <3>1, <3>3
    <3> QED BY <3>1, <3>2, <3>4 DEF WindowInv
  <2> QED BY <1>7, <2>1, <2>2, <2>3
<1> QED BY <1>9, <1>12, <1>13 DEF RateInv

LEMMA ThrottleInv ==
  ASSUME RateInv, NEW p \in Pumps, Throttle(p)
  PROVE  RateInv'
<1>1. TypeOK /\ ReferencesExist /\ WindowInv
  BY DEF RateInv
<1>2. CASE PassUnlimited(p)
  <2>1. TypeOK'
    BY <1>1, <1>2 DEF TypeOK, PassUnlimited, Ready
  <2> QED BY <1>1, <1>2, <2>1 DEF PassUnlimited, RateInv, ReferencesExist, WindowInv
<1>3. ASSUME NEW n \in ChunkSizes, ThrottleKept(p, n)
      PROVE  RateInv'
  <2>1. /\ n \in Nat \ {0} /\ current \in Buckets /\ buckets[current] # None
        /\ left' \in [Pumps -> Nat]
    BY <1>1, <1>3, LoadAssumption
    DEF TypeOK, ReferencesExist, ThrottleKept, Ready, Keeps
  <2> QED BY <1>3, <2>1, ConsumeInv DEF ThrottleKept
<1> QED BY <1>2, <1>3, NewInv DEF Throttle

LEMMA TickInv == RateInv /\ Tick => RateInv'
<1> SUFFICES ASSUME RateInv, Tick PROVE RateInv'
  OBVIOUS
<1>1. TypeOK /\ ReferencesExist /\ WindowInv
  BY DEF RateInv
<1>2. \A i \in Buckets :
        /\ buckets'[i] = IF buckets[i] = None \/ ~ Referenced(i) THEN None
                         ELSE Aged(buckets[i])
        /\ buckets[i] # None => /\ buckets[i] \in BucketRecords
                                /\ Aged(buckets[i]) \in BucketRecords
  BY <1>1, AgedType DEF Tick, TypeOK
<1>3. \A i \in Buckets : Referenced(i) /\ buckets[i] # None => buckets'[i] # None
  BY <1>2, NoneIsNoBucket
<1>4. \A q \in Pumps : /\ jobs'[q] \in JobRecords
                        /\ jobs'[q].need = jobs[q].need
                        /\ jobs'[q].bucket = jobs[q].bucket
  <2> TAKE q \in Pumps
  <2>1. jobs[q] \in JobRecords /\ Larger(jobs[q].due - 1, 0) \in 0..MaxPause
    BY <1>1, RatesAssumption DEF TypeOK, JobRecords, Larger
  <2>2. jobs'[q] = [jobs[q] EXCEPT !.due = Larger(jobs[q].due - 1, 0)]
    BY DEF Tick
  <2> QED BY <2>1, <2>2 DEF JobRecords
<1>5. window \in [bucket : Buckets \cup {None}, spent : Nat, span : Nat]
  BY <1>1 DEF TypeOK
<1>6. \/ window' = Closed
      \/ /\ window' = [window EXCEPT !.span = @ + 1]
         /\ window.bucket # None /\ Referenced(window.bucket)
  BY DEF Tick
<1>7. window' \in [bucket : Buckets \cup {None}, spent : Nat, span : Nat]
  BY <1>5, <1>6 DEF Closed
<1>8. TypeOK'
  <2>1. buckets' \in [Buckets -> BucketRecords \cup {None}]
    BY <1>2 DEF Tick
  <2>2. jobs' \in [Pumps -> JobRecords]
    BY <1>4 DEF Tick
  <2> QED BY <1>1, <1>7, <2>1, <2>2 DEF Tick, TypeOK, JobRecords
<1>9. ReferencesExist'
  <2>1. current' = current /\ current \in Buckets \cup {None}
        /\ \A q \in Pumps : jobs[q].bucket \in Buckets \cup {None}
    BY <1>1 DEF Tick, TypeOK
  <2>2. current # None => Referenced(current)
    BY DEF Referenced
  <2>3. \A q \in Pumps : jobs[q].bucket # None => Referenced(jobs[q].bucket)
    BY DEF Referenced
  <2>4. window'.bucket # None => /\ window'.bucket = window.bucket
                                 /\ Referenced(window.bucket)
    BY <1>5, <1>6 DEF Closed
  <2> QED BY <1>1, <1>3, <1>4, <1>5, <2>1, <2>2, <2>3, <2>4 DEF ReferencesExist
<1>10. WindowInv'
  <2>1. CASE window' = Closed
    BY <2>1 DEF WindowInv, Closed
  <2>2. CASE /\ window' = [window EXCEPT !.span = @ + 1]
             /\ window.bucket # None /\ Referenced(window.bucket)
    <3>1. PICK w \in Buckets : w = window.bucket
      BY <1>5, <2>2
    <3>2. /\ window'.bucket = w /\ window'.spent = window.spent
          /\ window'.span = window.span + 1
          /\ window.spent \in Nat /\ window.span \in Nat
      BY <1>5, <2>2, <3>1
    <3>3. PICK b \in BucketRecords : b = buckets[w]
      BY <1>1, <1>2, <2>2, <3>1 DEF ReferencesExist
    <3>4. buckets'[w] = Aged(b)
      BY <1>2, <2>2, <3>1, <3>3, NoneIsNoBucket
    <3>5. /\ Aged(b).cap = b.cap /\ Aged(b).rate = b.rate
          /\ Available(Aged(b)) <= Available(b) + b.rate
          /\ Available(b) \in Nat /\ b.cap \in Nat /\ b.rate \in Nat
      BY AgedType, AvailableType
    <3>6. Available(Aged(b)) \in Nat
      BY AgedType, AvailableType
    <3>7. window.spent + Available(b) <= b.cap + b.rate * window.span
      BY <1>1, <2>2, <3>1, <3>3 DEF WindowInv
    <3>8. b.rate * (window.span + 1) = b.rate * window.span + b.rate
          /\ b.rate * window.span \in Nat
      <4>1. window.span \in Nat /\ b.rate \in Nat
        BY <3>2, <3>5
      <4> QED BY <4>1, NextProduct, ProductNat
    <3>9. window'.spent + Available(Aged(b))
            <= Aged(b).cap + Aged(b).rate * window'.span
      BY <3>2, <3>5, <3>6, <3>7, <3>8
    <3> QED BY <3>2, <3>4, <3>9 DEF WindowInv
  <2> QED BY <1>6, <2>1, <2>2
<1> QED BY <1>8, <1>9, <1>10 DEF RateInv

LEMMA StepInv == RateInv /\ [Next]_vars => RateInv'
<1> SUFFICES ASSUME RateInv, [Next]_vars PROVE RateInv'
  OBVIOUS
<1>1. TypeOK /\ ReferencesExist /\ WindowInv
  BY DEF RateInv
<1>2. ASSUME NEW s \in Speeds, SetSpeed(s) PROVE RateInv'
  BY <1>1, <1>2 DEF SetSpeed, RateInv, TypeOK, ReferencesExist, WindowInv
<1>3. CASE ResetThrottle
  BY <1>1, <1>3 DEF ResetThrottle, RateInv, TypeOK, ReferencesExist, WindowInv
<1>4. ASSUME NEW id \in Buckets, OpenWindow(id) PROVE RateInv'
  <2>1. UNCHANGED <<speed, buckets, current, jobs, left>>
        /\ window' = [bucket |-> id, spent |-> 0, span |-> 0]
    BY <1>4 DEF OpenWindow
  <2>2. buckets[id] # None
    BY <1>1, <1>4, NoneIsNoBucket DEF OpenWindow, Referenced, ReferencesExist, TypeOK
  <2>3. PICK b \in BucketRecords : b = buckets[id]
    BY <1>1, <2>2 DEF TypeOK
  <2>4. 0 + Available(b) <= b.cap + b.rate * 0
    BY AvailableType
  <2>5. WindowInv'
    BY <2>1, <2>3, <2>4 DEF WindowInv
  <2> QED BY <1>1, <2>1, <2>2, <2>5 DEF RateInv, TypeOK, ReferencesExist
<1>5. CASE UNCHANGED vars
  BY <1>1, <1>5 DEF vars, RateInv, TypeOK, ReferencesExist, WindowInv
<1> QED BY <1>2, <1>3, <1>4, <1>5, TickInv, ThrottleInv, WakeInv DEF Next

THEOREM RateInvariant == Spec => []RateInv
BY InitInv, StepInv, PTL DEF Spec

(* Tokens stay between zero and the capacity, and the capacity is what the *)
(* rate makes it, for any number of pumps.                                 *)
THEOREM TypeCorrect == Spec => []TypeOK
BY RateInvariant, PTL DEF RateInv

(* Over any length of time, no bucket gives out more than a burst plus its *)
(* rate, whatever the chunk sizes and however the pumps interleave.        *)
THEOREM RateBounded == Spec => []WindowBound
<1>1. RateInv => WindowBound
  <2> SUFFICES ASSUME RateInv, window.bucket # None
               PROVE  window.spent <= buckets[window.bucket].cap
                        + buckets[window.bucket].rate * window.span
    BY DEF WindowBound
  <2>1. PICK b \in BucketRecords : b = buckets[window.bucket]
    BY DEF RateInv, TypeOK, ReferencesExist
  <2>2. window.spent \in Nat /\ window.span \in Nat
    BY DEF RateInv, TypeOK
  <2>3. /\ Available(b) \in Nat /\ b.cap \in Nat /\ b.rate \in Nat
        /\ b.rate * window.span \in Nat
    BY <2>2, AvailableType, ProductNat
  <2>4. window.spent + Available(b) <= b.cap + b.rate * window.span
    BY <2>1 DEF RateInv, WindowInv
  <2> QED BY <2>1, <2>2, <2>3, <2>4
<1> QED BY <1>1, RateInvariant, PTL

(* No step but a change of the registry lets a pump wait on a bucket that  *)
(* the registry has left.                                                  *)
LEMMA DrainStep ==
  ASSUME TypeOK, [Next]_vars, UNCHANGED current
  PROVE  Orphans' \subseteq Orphans
<1>1. \A q \in Pumps : Idle.bucket = None
  BY DEF Idle
<1> SUFFICES ASSUME NEW q \in Pumps, jobs'[q].bucket \notin {None, current}
             PROVE  jobs[q].bucket = jobs'[q].bucket
  BY DEF Orphans
<1>2. ASSUME NEW p \in Pumps, NEW n, NEW id, NEW b,
             Grant(p, n, id, b) \/ Sleep(p, n, id, b),
             id = current \/ id = jobs[p].bucket
      PROVE  jobs[q].bucket = jobs'[q].bucket
  <2>1. jobs \in [Pumps -> [need : Nat, bucket : Buckets \cup {None}, due : 0..MaxPause]]
    BY DEF TypeOK
  <2>2. CASE q # p
    BY <1>2, <2>1, <2>2 DEF Grant, Sleep
  <2>3. CASE q = p
    <3>1. jobs'[q].bucket \in {None, id}
      BY <1>1, <1>2, <2>1, <2>3 DEF Grant, Sleep
    <3> QED BY <1>2, <2>3, <3>1
  <2> QED BY <2>2, <2>3
<1>3. ASSUME NEW p \in Pumps, Throttle(p)
      PROVE  jobs[q].bucket = jobs'[q].bucket
  <2>1. CASE PassUnlimited(p)
    BY <2>1 DEF PassUnlimited
  <2>2. ASSUME NEW n \in ChunkSizes, ThrottleKept(p, n)
        PROVE  jobs[q].bucket = jobs'[q].bucket
    BY <1>2, <2>2 DEF ThrottleKept, Consume
  <2>3. ASSUME NEW n \in ChunkSizes, NEW id \in Buckets, ThrottleNew(p, n, id)
        PROVE  jobs[q].bucket = jobs'[q].bucket
    <3>1. id = current
      BY <2>3 DEF ThrottleNew
    <3> QED BY <1>2, <2>3, <3>1 DEF ThrottleNew
  <2> QED BY <1>3, <2>1, <2>2, <2>3 DEF Throttle
<1>4. ASSUME NEW p \in Pumps, Wake(p)
      PROVE  jobs[q].bucket = jobs'[q].bucket
  BY <1>2, <1>4 DEF Wake, Consume
<1>5. CASE Tick
  <2>1. jobs \in [Pumps -> [need : Nat, bucket : Buckets \cup {None}, due : 0..MaxPause]]
    BY DEF TypeOK
  <2>2. jobs'[q] = [jobs[q] EXCEPT !.due = Larger(jobs[q].due - 1, 0)]
    BY <1>5 DEF Tick
  <2> QED BY <2>1, <2>2
<1>6. CASE UNCHANGED jobs
  BY <1>6
<1> QED BY <1>3, <1>4, <1>5, <1>6
     DEF Next, SetSpeed, ResetThrottle, OpenWindow, vars

(* The old rate only drains away.                                          *)
THEOREM OldRateDrains == Spec => OldRateOnlyDrains
<1>1. TypeOK /\ [Next]_vars => [UNCHANGED current => Orphans' \subseteq Orphans]_vars
  BY DrainStep
<1> QED BY <1>1, TypeCorrect, PTL DEF Spec, OldRateOnlyDrains

(* A chunk larger than the capacity of the bucket it waits for is never    *)
(* granted: not by idle time, and not by a higher or no limit, since the   *)
(* pump keeps the bucket it began with (limiter.py:27-43, 50-57).          *)
TooLarge(p) ==
  /\ jobs[p].need > 0
  /\ jobs[p].need > buckets[jobs[p].bucket].cap

TooLargeWaits == [][\A p \in Pumps : TooLarge(p) => TooLarge(p)']_vars

(* A turn changes the capacity of no bucket, and grants no more than it. *)
LEMMA TurnKeepsLarge ==
  ASSUME TypeOK, NEW q \in Pumps, TooLarge(q), NEW i \in Buckets, i = jobs[q].bucket,
         NEW p \in Pumps, NEW n \in Nat, NEW id \in Buckets, NEW b \in BucketRecords,
         Grant(p, n, id, b) \/ Sleep(p, n, id, b),
         id = i => b = buckets[i],
         p = q => id = i /\ n = jobs[q].need
  PROVE  TooLarge(q)'
<1>0. /\ jobs \in [Pumps -> [need : Nat, bucket : Buckets \cup {None}, due : 0..MaxPause]]
      /\ buckets \in [Buckets -> BucketRecords \cup {None}]
  BY DEF TypeOK
<1>1. \E nb : buckets' = [buckets EXCEPT ![id] = nb] /\ nb.cap = b.cap
  <2>1. CASE Grant(p, n, id, b)
    <3>1. n <= Available(b)
      BY <2>1, AvailableType DEF Grant
    <3>2. Spent(b, n).cap = b.cap
      BY <3>1, SpentType
    <3>. QED
      BY <2>1, <3>2 DEF Grant
  <2>2. CASE Sleep(p, n, id, b)
    BY <2>2, RefilledType DEF Sleep
  <2>. QED
    BY <2>1, <2>2
<1>2. buckets'[i].cap = buckets[i].cap
  BY <1>0, <1>1
<1>3. jobs'[q].need = jobs[q].need /\ jobs'[q].bucket = i
  <2>1. CASE p # q
    BY <1>0, <2>1 DEF Grant, Sleep
  <2>2. CASE p = q
    <3>1. Available(b) \in Nat /\ Available(b) <= b.cap /\ b.cap \in Nat
      BY AvailableType
    <3>2. n > b.cap
      BY <2>2 DEF TooLarge
    <3>3. Sleep(p, n, id, b)
      BY <3>1, <3>2 DEF Grant
    <3>. QED
      BY <1>0, <2>2, <3>3 DEF Sleep
  <2>. QED
    BY <2>1, <2>2
<1>. QED
  BY <1>2, <1>3 DEF TooLarge

LEMMA LargeStep ==
  ASSUME RateInv, [Next]_vars, NEW q \in Pumps, TooLarge(q)
  PROVE  TooLarge(q)'
<1>0. TypeOK /\ ReferencesExist
  BY DEF RateInv
<1>1. PICK i \in Buckets : i = jobs[q].bucket /\ buckets[i] \in BucketRecords
  BY <1>0 DEF TypeOK, ReferencesExist, TooLarge
<1>2. Referenced(i)
  BY <1>1 DEF Referenced
<1>3. ASSUME NEW p \in Pumps, Wake(p) PROVE TooLarge(q)'
  <2>1. /\ jobs[p].need \in Nat /\ jobs[p].bucket \in Buckets
        /\ buckets[jobs[p].bucket] \in BucketRecords
    BY <1>0, <1>3 DEF TypeOK, ReferencesExist, Wake
  <2>2. \/ Grant(p, jobs[p].need, jobs[p].bucket, buckets[jobs[p].bucket])
        \/ Sleep(p, jobs[p].need, jobs[p].bucket, buckets[jobs[p].bucket])
    BY <1>3 DEF Wake, Consume
  <2>. QED
    BY <1>0, <1>1, <2>1, <2>2, TurnKeepsLarge
<1>4. ASSUME NEW p \in Pumps, NEW n \in ChunkSizes, ThrottleKept(p, n) PROVE TooLarge(q)'
  <2>1. /\ n \in Nat /\ current \in Buckets /\ buckets[current] \in BucketRecords
        /\ p # q
    BY <1>0, <1>4, LoadAssumption
       DEF ThrottleKept, Keeps, Ready, Idle, TypeOK, ReferencesExist, TooLarge
  <2>2. \/ Grant(p, n, current, buckets[current]) \/ Sleep(p, n, current, buckets[current])
    BY <1>4 DEF ThrottleKept, Consume
  <2>. QED
    BY <1>0, <1>1, <2>1, <2>2, TurnKeepsLarge
<1>5. ASSUME NEW p \in Pumps, NEW n \in ChunkSizes, NEW id \in Buckets, ThrottleNew(p, n, id)
      PROVE  TooLarge(q)'
  <2>1. n \in Nat /\ id # i /\ p # q
    BY <1>2, <1>5, LoadAssumption DEF ThrottleNew, Ready, Idle, TooLarge
  <2>2. NewBucket(Target) \in BucketRecords
    BY <1>0, TargetType, NewBucketType DEF TypeOK
  <2>3. Grant(p, n, id, NewBucket(Target)) \/ Sleep(p, n, id, NewBucket(Target))
    BY <1>5 DEF ThrottleNew
  <2>. QED
    BY <1>0, <1>1, <2>1, <2>2, <2>3, TurnKeepsLarge
<1>6. CASE Tick
  <2>1. buckets'[i] = Aged(buckets[i])
    BY <1>1, <1>2, <1>6, NoneIsNoBucket DEF Tick
  <2>2. buckets'[i].cap = buckets[i].cap
    BY <1>1, <2>1, AgedType
  <2>3. jobs'[q].need = jobs[q].need /\ jobs'[q].bucket = i
    BY <1>0, <1>1, <1>6 DEF Tick, TypeOK
  <2>. QED
    BY <1>1, <2>2, <2>3 DEF TooLarge
<1>7. CASE UNCHANGED <<buckets, jobs>>
  BY <1>7 DEF TooLarge
<1>. QED
  BY <1>3, <1>4, <1>5, <1>6, <1>7
     DEF Next, Throttle, PassUnlimited, SetSpeed, ResetThrottle, OpenWindow, vars

(* A chunk larger than the burst its link had when it was read never gets  *)
(* through, whatever the limits are changed to (limiter.py:27-43, 50-57).  *)
THEOREM TooLargeIsStuck == Spec => TooLargeWaits
<1>1. RateInv /\ [Next]_vars => [\A p \in Pumps : TooLarge(p) => TooLarge(p)']_vars
  BY LargeStep
<1>. QED
  BY <1>1, RateInvariant, PTL DEF Spec, TooLargeWaits
=============================================================================
