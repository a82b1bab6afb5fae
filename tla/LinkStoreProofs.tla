--------------------------- MODULE LinkStoreProofs ---------------------------
(***************************************************************************)
(* Theorems about the link store, for any number of links, tokens, limits  *)
(* and buffered bytes.                                                     *)
(***************************************************************************)
EXTENDS LinkStore, FiniteSetTheorems, TLAPS

LEMMA ElementsOfSeq ==
  ASSUME NEW S, NEW s \in Seq(S)
  PROVE  Len(s) \in Nat /\ \A i \in 1..Len(s) : s[i] \in S
OBVIOUS

(* Resolving a restored entry gives a call of one of the three kinds. *)
LEMMA CallType ==
  ASSUME TypeOK, script # <<>>
  PROVE  /\ Call \in Calls
         /\ Call.kind \in {"insert", "update", "delete"}
         /\ Head(script) \in Calls
         /\ Tail(script) \in Seq(Calls)
<1>1. Head(script) \in Calls /\ Tail(script) \in Seq(Calls)
  BY DEF TypeOK
<1>2. CASE Head(script).kind # "restore"
  BY <1>1, <1>2 DEF Call, Resolved, Calls
<1>3. CASE Head(script).kind = "restore"
  BY <1>1, <1>3 DEF Call, Resolved, Calls, InsertCall, UpdateCall, NoChange,
                    Changes, Links
<1> QED BY <1>1, <1>2, <1>3

(* The entry a call leaves is a link again, or none. *)
LEMMA AfterType ==
  ASSUME NEW c \in Calls, c.kind \in {"insert", "update", "delete"},
         NEW l \in Links \cup {None}
  PROVE  After(c, l) \in Links \cup {None}
<1>1. CASE c.kind = "insert"
  BY <1>1 DEF After, Calls
<1>2. CASE c.kind = "update" /\ l # None
  <2>1. l \in Links /\ c.change \in Changes
    BY <1>2 DEF Calls
  <2>2. Edited(l, c.change) \in Links
    BY <2>1, NoneAssumption DEF Edited, Links, Changes, Limits
  <2> QED BY <1>2, <2>2 DEF After
<1>3. CASE c.kind = "update" /\ l = None
  BY <1>3 DEF After
<1>4. CASE c.kind = "delete"
  BY <1>4 DEF After
<1> QED BY <1>1, <1>2, <1>3, <1>4

LEMMA PlusType ==
  ASSUME NEW l \in Links, NEW n \in Nat
  PROVE  /\ Plus(l, n) \in Links
         /\ Plus(l, n).used = l.used + n
         /\ Plus(l, n).active = l.active
         /\ Plus(l, n).limit = l.limit
         /\ Plus(l, n).token = l.token
BY DEF Plus, Links

LEMMA ChangeTypes ==
  /\ NoChange \in Changes
  /\ \A a \in BOOLEAN \cup {None}, n \in Limits \cup {None}, r \in BOOLEAN :
       [active |-> a, limit |-> n, reset |-> r] \in Changes
BY DEF NoChange, Changes

(* Every call a handler writes into its script is well formed. *)
LEMMA CallsWellFormed ==
  /\ \A u \in Uuids, l \in Links : InsertCall(u, l) \in Calls
  /\ \A u \in Uuids, ch \in Changes : UpdateCall(u, ch) \in Calls
  /\ \A u \in Uuids : DeleteCall(u) \in Calls
  /\ \A e \in [uuid : Uuids, link : Links] : RestoreCall(e) \in Calls
BY ChangeTypes DEF InsertCall, UpdateCall, DeleteCall, RestoreCall, Calls

(* Whatever the request, a handler only writes a script, while the loop is *)
(* free; the store itself is changed by the calls.                         *)
LEMMA HandlerRuns ==
  ASSUME TypeOK, Handler
  PROVE  /\ Serving
         /\ script' \in Seq(Calls)
         /\ stage' = "start"
         /\ UNCHANGED <<rows, cache, tokenIndex, pending, batch, phase, served,
                        drift, cleared>>
<1> USE CallsWellFormed
<1> DEFINE Runs == /\ Serving
                   /\ script' \in Seq(Calls)
                   /\ stage' = "start"
                   /\ UNCHANGED <<rows, cache, tokenIndex, pending, batch,
                                  phase, served, drift, cleared>>
<1>0. \A n \in Limits, t \in UnusedTokens : FreshLink(n, t) \in Links
  BY DEF FreshLink, Links, UnusedTokens
<1>1. ASSUME NEW u \in Uuids, NEW limit \in Limits, Create(u, limit)
      PROVE  Runs
  <2>1. PICK t \in UnusedTokens : Run(<<InsertCall(u, FreshLink(limit, t))>>)
    BY <1>1 DEF Create
  <2>2. InsertCall(u, FreshLink(limit, t)) \in Calls
    BY <1>0
  <2> QED BY <1>1, <2>1, <2>2 DEF Create, Run, history
<1>2. ASSUME EnsureDefault
      PROVE  Runs
  <2>1. PICK t \in UnusedTokens :
          Run(<<InsertCall(DefaultUuid, FreshLink(0, t))>>)
    BY <1>2 DEF EnsureDefault
  <2>2. 0 \in Limits /\ DefaultUuid \in Uuids
    BY UuidsAssumption, BoundsAssumption DEF Limits
  <2>3. InsertCall(DefaultUuid, FreshLink(0, t)) \in Calls
    BY <1>0, <2>2
  <2> QED BY <1>2, <2>1, <2>3 DEF EnsureDefault, Run, history
<1>3. ASSUME NEW u \in Uuids, NEW ch \in Patches, Patch(u, ch)
      PROVE  Runs
  <2>1. UpdateCall(u, ch) \in Calls
    BY InputsAssumption
  <2> QED BY <1>3, <2>1 DEF Patch, Run, history
<1>4. ASSUME NEW u \in Uuids, NEW add \in TopUps, TopUp(u, add)
      PROVE  Runs
  <2>1. [active |-> TRUE, limit |-> NewLimit(cache[u], add), reset |-> FALSE]
          \in Changes
    BY <1>4, ChangeTypes DEF TopUp
  <2> QED BY <1>4, <2>1 DEF TopUp, Run, history
<1>5. ASSUME NEW u \in Uuids, DeleteLink(u)
      PROVE  Runs
  BY <1>5 DEF DeleteLink, Run, history
<1>6. ASSUME NEW action \in {"enable", "disable", "reset", "delete"},
             NEW uids \in Selections, Bulk(action, uids)
      PROVE  Runs
  <2>1. uids \in Seq(Uuids)
    BY InputsAssumption
  <2>2. ASSUME NEW u \in Uuids
        PROVE  BulkCall(action, u) \in Calls
    <3>1. /\ Switch(TRUE) \in Changes
          /\ Switch(FALSE) \in Changes
          /\ Zero \in Changes
      BY DEF Switch, Zero, Changes
    <3>2. CASE action = "enable"
      BY <3>1, <3>2 DEF BulkCall
    <3>3. CASE action = "disable"
      BY <3>1, <3>3 DEF BulkCall
    <3>4. CASE action = "reset"
      BY <3>1, <3>4 DEF BulkCall
    <3>5. CASE action = "delete"
      BY <3>5 DEF BulkCall
    <3> QED BY <3>2, <3>3, <3>4, <3>5
  <2>3. \A i \in 1..Len(uids) : BulkCall(action, uids[i]) \in Calls
    BY <2>1, <2>2
  <2>4. Len(uids) \in Nat
    BY <2>1
  <2>5. [i \in 1..Len(uids) |-> BulkCall(action, uids[i])] \in Seq(Calls)
    BY <2>3, <2>4
  <2> QED BY <1>6, <2>5 DEF Bulk, Run, history
<1>7. ASSUME NEW mode \in {"merge", "replace"}, NEW backup \in Backups,
             Restore(mode, backup)
      PROVE  Runs
  <2> DEFINE Gone == IF mode = "replace" THEN CachedUuids ELSE {}
             Ins  == [i \in 1..Len(backup) |-> RestoreCall(backup[i])]
  <2>1. PICK old \in SetToSeqs(Gone) :
          Run([i \in 1..Len(old) |-> DeleteCall(old[i])] \o Ins)
    BY <1>7 DEF Restore
  <2>2. Gone \subseteq Uuids /\ IsFiniteSet(Gone)
    BY UuidsAssumption, FS_Subset, FS_EmptySet DEF CachedUuids
  <2>3. Cardinality(Gone) \in Nat
    BY <2>2, FS_CardinalityType
  <2>4. old \in [1..Cardinality(Gone) -> Gone]
    BY DEF SetToSeqs
  <2>5. old \in Seq(Uuids)
    BY <2>2, <2>3, <2>4
  <2>6. Len(old) \in Nat /\ \A i \in 1..Len(old) : DeleteCall(old[i]) \in Calls
    BY <2>5
  <2>7. [i \in 1..Len(old) |-> DeleteCall(old[i])] \in Seq(Calls)
    BY <2>6
  <2>8. backup \in Seq([uuid : Uuids, link : Links])
    BY InputsAssumption
  <2>9. /\ Len(backup) \in Nat
        /\ \A i \in 1..Len(backup) : backup[i] \in [uuid : Uuids, link : Links]
    BY <2>8, ElementsOfSeq
  <2>10. Ins \in Seq(Calls)
    <3>1. \A i \in 1..Len(backup) : RestoreCall(backup[i]) \in Calls
      BY <2>9
    <3> QED BY <2>9, <3>1
  <2>11. [i \in 1..Len(old) |-> DeleteCall(old[i])] \o Ins \in Seq(Calls)
    BY <2>7, <2>10
  <2> HIDE DEF Ins
  <2> QED BY <1>7, <2>1, <2>11 DEF Restore, Run, history
<1> QED BY <1>1, <1>2, <1>3, <1>4, <1>5, <1>6, <1>7 DEF Handler

-----------------------------------------------------------------------------
(* Type correctness.                                                       *)

LEMMA LoadedType ==
  ASSUME NEW table \in [Uuids -> Links \cup {None}]
  PROVE  Loaded(table) \in [Tokens -> Uuids \cup {None}]
BY DEF Loaded

LEMMA NothingType == Nothing \in [Uuids -> Nat]
BY DEF Nothing

LEMMA InitType == Init => TypeOK
<1> SUFFICES ASSUME Init PROVE TypeOK
  OBVIOUS
<1>1. rows \in [Uuids -> Links \cup {None}]
  BY DEF Init
<1>2. tokenIndex \in [Tokens -> Uuids \cup {None}]
  BY <1>1, LoadedType DEF Init
<1>3. script \in Seq(Calls)
  BY DEF Init
<1> QED BY <1>1, <1>2, <1>3, NothingType DEF Init, TypeOK, Flushers, Nothing

LEMMA RestartType == TypeOK /\ Restart => TypeOK'
<1> SUFFICES ASSUME TypeOK, Restart PROVE TypeOK'
  OBVIOUS
<1>1. rows \in [Uuids -> Links \cup {None}]
  BY DEF TypeOK
<1>2. tokenIndex' \in [Tokens -> Uuids \cup {None}]
  BY <1>1, LoadedType DEF Restart
<1>3. script' \in Seq(Calls)
  BY DEF Restart
<1> QED BY <1>1, <1>2, <1>3, NothingType DEF Restart, TypeOK, Nothing

LEMMA CallStepType == TypeOK /\ CallStep => TypeOK'
<1> SUFFICES ASSUME TypeOK, CallStep PROVE TypeOK'
  OBVIOUS
<1>1. script # <<>>
  BY DEF CallStep, CallPop, CallSql, CallFails, CallCache, AtSql
<1>2. /\ Call \in Calls /\ Call.kind \in {"insert", "update", "delete"}
      /\ Tail(script) \in Seq(Calls)
  BY <1>1, CallType
<1>3. Call.uuid \in Uuids
  BY <1>2 DEF Calls
<1>4. /\ After(Call, rows[Call.uuid]) \in Links \cup {None}
      /\ After(Call, cache[Call.uuid]) \in Links \cup {None}
  BY <1>2, <1>3, AfterType DEF TypeOK
<1>5. CASE CallPop
  BY <1>5, <1>3 DEF CallPop, TypeOK
<1>6. CASE CallSql
  <2>1. rows' \in [Uuids -> Links \cup {None}]
    BY <1>6, <1>3, <1>4 DEF CallSql, TypeOK
  <2>2. Owed(Call.uuid) \in Nat
    BY <1>3 DEF Owed, InFlight, TypeOK, Flushers
  <2>3. drift' \in [Uuids -> Int]
    BY <1>6, <1>3, <2>2 DEF CallSql, DriftAfter, TypeOK
  <2>4. cleared' \subseteq Uuids
    BY <1>6, <1>3 DEF CallSql, ClearedAfter, TypeOK
  <2> QED BY <1>6, <2>1, <2>3, <2>4 DEF CallSql, TypeOK
<1>7. CASE CallFails
  BY <1>7 DEF CallFails, TypeOK, history
<1>8. CASE CallCache
  <2>1. cache' \in [Uuids -> Links \cup {None}]
    BY <1>8, <1>3, <1>4 DEF CallCache, TypeOK
  <2>2. tokenIndex' \in [Tokens -> Uuids \cup {None}]
    <3>1. CASE Call.kind = "insert"
      <4>1. Call.link \in Links
        BY <1>2, <3>1 DEF Calls
      <4> QED BY <1>8, <3>1, <1>3, <4>1 DEF CallCache, IndexAfter, TypeOK, Links
    <3>2. CASE Call.kind = "update"
      BY <1>8, <3>2 DEF CallCache, IndexAfter, TypeOK
    <3>3. CASE Call.kind = "delete"
      BY <1>8, <3>3, <1>3 DEF CallCache, IndexAfter, TypeOK, Links
    <3> QED BY <1>2, <3>1, <3>2, <3>3
  <2>3. pending' \in [Uuids -> Nat]
    BY <1>8, <1>3 DEF CallCache, PendingAfter, TypeOK
  <2> QED BY <1>8, <1>2, <2>1, <2>2, <2>3 DEF CallCache, TypeOK, history
<1> QED BY <1>5, <1>6, <1>7, <1>8 DEF CallStep

LEMMA FlushType == TypeOK /\ Flush => TypeOK'
<1> SUFFICES ASSUME TypeOK, Flush PROVE TypeOK'
  OBVIOUS
<1> USE NothingType DEF Flushers
<1>1. CASE FlushTake
  BY <1>1 DEF FlushTake, Take, TypeOK, history
<1>2. CASE Shutdown
  BY <1>2 DEF Shutdown, Take, TypeOK, history
<1>3. ASSUME NEW f \in Flushers, FlushCommit(f) PROVE TypeOK'
  <2>1. ASSUME NEW u \in Uuids, rows[u] # None
        PROVE  Plus(rows[u], batch[f][u]) \in Links
    <3>1. rows[u] \in Links \cup {None} /\ batch[f] \in [Uuids -> Nat]
      BY DEF TypeOK
    <3>2. rows[u] \in Links /\ batch[f][u] \in Nat
      BY <2>1, <3>1
    <3> QED BY <3>2, PlusType
  <2>2. rows' \in [Uuids -> Links \cup {None}]
    BY <1>3, <2>1 DEF FlushCommit, TypeOK
  <2> QED BY <1>3, <2>2 DEF FlushCommit, TypeOK, history
<1>4. ASSUME NEW f \in Flushers, FlushFails(f) PROVE TypeOK'
  <2>1. pending' \in [Uuids -> Nat] /\ batch' \in [Flushers -> [Uuids -> Nat]]
    BY <1>4 DEF FlushFails, TypeOK
  <2> QED BY <1>4, <2>1 DEF FlushFails, TypeOK, history
<1> QED BY <1>1, <1>2, <1>3, <1>4 DEF Flush

LEMMA ChargeType ==
  ASSUME TypeOK, NEW u \in Uuids, NEW n \in ChargeSizes, Charge(u, n)
  PROVE  TypeOK'
<1>1. n \in Nat
  BY BoundsAssumption
<1>2. cache[u] # None => Plus(cache[u], n) \in Links
  BY <1>1, PlusType DEF TypeOK
<1>3. cache' \in [Uuids -> Links \cup {None}]
  BY <1>2 DEF Charge, TypeOK
<1> QED BY <1>1, <1>3 DEF Charge, TypeOK, history

(* An admission only remembers the link. *)
LEMMA ServeType ==
  ASSUME TypeOK, NEW u \in Uuids, Serve(u)
  PROVE  /\ TypeOK'
         /\ UNCHANGED <<rows, cache, tokenIndex, pending, batch, phase, script,
                        stage, drift, cleared>>
BY DEF Serve, TypeOK, history

LEMMA StepType == TypeOK /\ [Next]_vars => TypeOK'
<1> SUFFICES ASSUME TypeOK, [Next]_vars PROVE TypeOK'
  OBVIOUS
<1>1. CASE Handler
  BY <1>1, HandlerRuns DEF TypeOK
<1>2. CASE UNCHANGED vars
  BY <1>2 DEF vars, TypeOK
<1> QED
  BY <1>1, <1>2, CallStepType, FlushType, ServeType, ChargeType, RestartType
  DEF Next, Exit

(* Every state of the store is well typed: counters never go below zero,   *)
(* whatever is popped, re-added or written, and no script holds a call     *)
(* db.py could not make.                                                   *)
THEOREM TypeCorrect == Spec => []TypeOK
BY InitType, StepType, PTL DEF Spec

-----------------------------------------------------------------------------
(* The inductive invariant: what a call does to the rows and to the cache  *)
(* is the same function After, so the two agree again when it is over.     *)

LEMMA EditedFields ==
  ASSUME NEW l \in Links, NEW ch \in Changes
  PROVE  /\ Edited(l, ch) \in Links
         /\ Edited(l, ch).active = IF ch.active = None THEN l.active ELSE ch.active
         /\ Edited(l, ch).limit = IF ch.limit = None THEN l.limit ELSE ch.limit
         /\ Edited(l, ch).used = IF ch.reset THEN 0 ELSE l.used
         /\ Edited(l, ch).token = l.token
BY NoneAssumption DEF Edited, Links, Changes, Limits

LEMMA AfterAgrees ==
  ASSUME NEW c \in Calls, c.kind \in {"insert", "update", "delete"},
         NEW l \in Links \cup {None}, NEW r \in Links \cup {None}, Agree(l, r)
  PROVE  Agree(After(c, l), After(c, r))
<1>1. CASE c.kind = "insert"
  BY <1>1 DEF After, Agree
<1>2. CASE c.kind = "update"
  <2>1. c.change \in Changes
    BY DEF Calls
  <2>2. CASE l = None \/ r = None
    BY <1>2, <2>2 DEF After, Agree
  <2>3. CASE l # None /\ r # None
    <3>1. l \in Links /\ r \in Links
      BY <2>3
    <3>2. /\ Edited(l, c.change) \in Links
          /\ Edited(r, c.change) \in Links
          /\ Edited(l, c.change).active = Edited(r, c.change).active
          /\ Edited(l, c.change).limit = Edited(r, c.change).limit
          /\ Edited(l, c.change).token = Edited(r, c.change).token
      BY <2>1, <2>3, <3>1, EditedFields DEF Agree
    <3> QED BY <1>2, <2>3, <3>2, NoneAssumption DEF After, Agree
  <2> QED BY <2>2, <2>3
<1>3. CASE c.kind = "delete"
  BY <1>3 DEF After, Agree
<1> QED BY <1>1, <1>2, <1>3

LEMMA ShownSettled ==
  /\ stage # "committed" => \A u \in Uuids : Shown(u) = cache[u]
  /\ stage' # "committed" => \A u \in Uuids : Shown(u)' = cache'[u]
BY DEF Shown

(* The cache and the index as a restart rebuilds them. *)
LEMMA LoadedExact ==
  ASSUME NEW table \in [Uuids -> Links \cup {None}], TokensUnique(table)
  PROVE  \A t \in Tokens, u \in Uuids :
           Loaded(table)[t] = u <=> table[u] # None /\ table[u].token = t
<1> SUFFICES ASSUME NEW t \in Tokens, NEW u \in Uuids
             PROVE  Loaded(table)[t] = u <=> table[u] # None /\ table[u].token = t
  OBVIOUS
<1> DEFINE Holds(v) == table[v] # None /\ table[v].token = t
<1>1. CASE \E v \in Uuids : Holds(v)
  <2> DEFINE w == CHOOSE v \in Uuids : Holds(v)
  <2>1. w \in Uuids /\ Holds(w)
    BY <1>1
  <2>2. Loaded(table)[t] = w
    BY <1>1 DEF Loaded
  <2>3. Holds(u) => u = w
    BY <2>1 DEF TokensUnique
  <2> HIDE DEF w
  <2> QED BY <2>1, <2>2, <2>3
<1>2. CASE ~ \E v \in Uuids : Holds(v)
  <2>1. Loaded(table)[t] = None
    BY <1>2 DEF Loaded
  <2> QED BY <1>2, <2>1, NoneAssumption
<1> QED BY <1>1, <1>2

(* What holds of the store whenever no call is under way and the cache has *)
(* just been loaded.                                                       *)
LEMMA FreshInv ==
  ASSUME TypeOK', TokensUnique(rows)', cache' = rows',
         tokenIndex' = Loaded(rows'), stage' = "start",
         pending' = Nothing, batch' = [f \in Flushers |-> Nothing],
         drift' = Nothing
  PROVE  StoreInv'
<1>1. StageOK'
  BY DEF StageOK
<1>2. \A u \in Uuids : Shown(u)' = rows'[u]
  BY ShownSettled
<1>3. CacheMatchesRows'
  BY <1>2 DEF CacheMatchesRows, Agree
<1>4. rows' \in [Uuids -> Links \cup {None}]
  BY DEF TypeOK
<1>5. TokenIndexExact'
  BY <1>4, LoadedExact DEF TokenIndexExact, TokensUnique
<1>6. LedgerExact'
  <2> SUFFICES ASSUME NEW u \in Uuids, rows'[u] # None
               PROVE  rows'[u].used + Owed(u)' = Shown(u)'.used + drift'[u]
    BY DEF LedgerExact
  <2>1. Owed(u)' = 0 /\ drift'[u] = 0
    BY DEF Owed, InFlight, Nothing, Flushers
  <2> QED BY <1>2, <2>1
<1> QED BY <1>1, <1>3, <1>5, <1>6 DEF StoreInv

LEMMA RestartInv == StoreInv /\ Restart => StoreInv'
<1> SUFFICES ASSUME StoreInv, Restart PROVE StoreInv'
  OBVIOUS
<1>1. TypeOK'
  BY RestartType DEF StoreInv
<1>2. TokensUnique(rows)'
  BY DEF StoreInv, Restart, TokensUnique
<1> QED BY <1>1, <1>2, FreshInv DEF Restart

LEMMA InitInv == Init => StoreInv
<1> SUFFICES ASSUME Init PROVE StoreInv
  OBVIOUS
<1>1. \A u \in Uuids : rows[u] = None /\ cache[u] = None
  BY DEF Init
<1>2. StageOK /\ \A u \in Uuids : Shown(u) = None
  BY <1>1 DEF Init, StageOK, Shown
<1>3. TokensUnique(rows) /\ CacheMatchesRows /\ LedgerExact
  BY <1>1, <1>2 DEF TokensUnique, CacheMatchesRows, Agree, LedgerExact
<1>4. TokenIndexExact
  BY <1>1, NoneAssumption DEF TokenIndexExact, Init, Loaded
<1> QED BY <1>2, <1>3, <1>4, InitType DEF StoreInv

(* A step that leaves the tables alone, and every link's shown entry and   *)
(* balance with them, keeps the invariant.                                 *)
LEMMA HandlerInv == StoreInv /\ Handler => StoreInv'
<1> SUFFICES ASSUME StoreInv, Handler PROVE StoreInv'
  OBVIOUS
<1>1. /\ script = <<>>
      /\ stage' = "start"
      /\ UNCHANGED <<rows, cache, tokenIndex, pending, batch, drift>>
  BY HandlerRuns DEF StoreInv, Serving, LoopFree
<1>2. stage = "start"
  BY <1>1 DEF StoreInv, StageOK, TypeOK
<1>3. \A u \in Uuids : Shown(u) = cache[u] /\ Shown(u)' = cache[u]
  BY <1>1, <1>2, ShownSettled
<1>4. \A u \in Uuids : Owed(u)' = Owed(u)
  BY <1>1 DEF Owed, InFlight
<1>5. TypeOK'
  BY StepType DEF StoreInv, Next
<1> QED BY <1>1, <1>3, <1>4, <1>5 DEF StoreInv, StageOK, TokensUnique,
             CacheMatchesRows, TokenIndexExact, LedgerExact

LEMMA PopInv == StoreInv /\ CallPop => StoreInv'
<1> SUFFICES ASSUME StoreInv, CallPop PROVE StoreInv'
  OBVIOUS
<1> DEFINE w == Call.uuid
<1>1. TypeOK /\ TypeOK'
  BY StepType DEF StoreInv, Next, CallStep
<1>2. w \in Uuids
  BY <1>1, CallType DEF CallPop, Calls
<1>3. /\ script' # <<>> /\ stage = "start" /\ stage' = "popped"
      /\ UNCHANGED <<rows, cache, tokenIndex, batch>>
  BY DEF CallPop
<1>4. \A u \in Uuids : Shown(u) = cache[u] /\ Shown(u)' = cache[u]
  BY <1>3, ShownSettled
<1>5. LedgerExact'
  <2> SUFFICES ASSUME NEW u \in Uuids, rows[u] # None
               PROVE  rows[u].used + Owed(u)' = cache[u].used + drift'[u]
    BY <1>3, <1>4 DEF LedgerExact
  <2>1. rows[u].used + Owed(u) = cache[u].used + drift[u]
    BY <1>4 DEF StoreInv, LedgerExact
  <2>2. cache[u] # None
    BY <1>4 DEF StoreInv, CacheMatchesRows, Agree
  <2>3. /\ rows[u].used \in Nat /\ cache[u].used \in Nat /\ drift[u] \in Int
        /\ pending[u] \in Nat /\ InFlight(u) \in Nat
    BY <1>1, <2>2 DEF TypeOK, Links, InFlight, Flushers
  <2>4. InFlight(u)' = InFlight(u)
    BY <1>3 DEF InFlight
  <2>5. CASE u = w
    <3>1. pending'[u] = 0 /\ drift'[u] = drift[u] - pending[u]
      BY <1>1, <1>2, <2>5 DEF CallPop, TypeOK
    <3> QED BY <2>1, <2>3, <2>4, <3>1 DEF Owed
  <2>6. CASE u # w
    <3>1. pending'[u] = pending[u] /\ drift'[u] = drift[u]
      BY <1>1, <1>2, <2>6 DEF CallPop, TypeOK
    <3> QED BY <2>1, <2>3, <2>4, <3>1 DEF Owed
  <2> QED BY <2>5, <2>6
<1> QED BY <1>1, <1>3, <1>4, <1>5 DEF StoreInv, StageOK, TokensUnique,
             CacheMatchesRows, TokenIndexExact

LEMMA FailsInv == StoreInv /\ CallFails => StoreInv'
<1> SUFFICES ASSUME StoreInv, CallFails PROVE StoreInv'
  OBVIOUS
<1>1. /\ stage # "committed" /\ stage' = "start"
      /\ UNCHANGED <<rows, cache, tokenIndex, pending, batch, drift>>
  BY DEF CallFails, AtSql, history
<1>2. \A u \in Uuids : Shown(u) = cache[u] /\ Shown(u)' = cache[u]
  BY <1>1, ShownSettled
<1>3. \A u \in Uuids : Owed(u)' = Owed(u)
  BY <1>1 DEF Owed, InFlight
<1>4. TypeOK'
  BY StepType DEF StoreInv, Next, CallStep
<1> QED BY <1>1, <1>2, <1>3, <1>4 DEF StoreInv, StageOK, TokensUnique,
             CacheMatchesRows, TokenIndexExact, LedgerExact

(* The commit: the row moves on, the cache is now behind by this call. *)
LEMMA SqlInv == StoreInv /\ CallSql => StoreInv'
<1> SUFFICES ASSUME StoreInv, CallSql PROVE StoreInv'
  OBVIOUS
<1> DEFINE c == Call
           w == Call.uuid
<1>1. TypeOK /\ TypeOK'
  BY StepType DEF StoreInv, Next, CallStep
<1>2. script # <<>> /\ stage # "committed"
  BY DEF CallSql, AtSql
<1>3. /\ c \in Calls /\ c.kind \in {"insert", "update", "delete"}
      /\ w \in Uuids
  BY <1>1, <1>2, CallType DEF Calls
<1>4. /\ Call' = c /\ stage' = "committed" /\ script' = script
      /\ UNCHANGED <<cache, tokenIndex, pending, batch>>
  BY DEF CallSql, Call, Resolved
<1> HIDE DEF c
<1>5. \A u \in Uuids : /\ Shown(u) = cache[u]
                       /\ Shown(u)' = IF u = w THEN After(c, cache[u]) ELSE cache[u]
  BY <1>2, <1>4, ShownSettled DEF Shown, c
<1>6. \A u \in Uuids : rows'[u] = IF u = w THEN After(c, rows[u]) ELSE rows[u]
  BY <1>1, <1>3 DEF CallSql, TypeOK, c
<1>7. \A u \in Uuids : /\ rows[u] \in Links \cup {None}
                       /\ cache[u] \in Links \cup {None}
                       /\ Agree(cache[u], rows[u])
  BY <1>1, <1>5 DEF TypeOK, StoreInv, CacheMatchesRows
<1>8. CacheMatchesRows'
  BY <1>3, <1>5, <1>6, <1>7, AfterAgrees DEF CacheMatchesRows
<1>9. c.kind = "insert" => rows[w] = None /\ c.link.token \in UnusedTokens
                           /\ c.link \in Links
  BY <1>3 DEF CallSql, Conflicts, Calls, c
<1>10. c.kind = "update" => c.change \in Changes
  BY <1>3 DEF Calls
<1>11. StageOK'
  <2>1. c.kind = "insert" => cache[w] = None
    BY <1>3, <1>7, <1>9 DEF Agree
  <2> QED BY <1>2, <1>4, <2>1 DEF StageOK, c
<1>12. TokensUnique(rows)'
  <2>1. \A u \in Uuids :
          rows'[u] # None =>
            \/ u = w /\ c.kind = "insert" /\ rows'[u] = c.link
            \/ rows[u] # None /\ rows'[u].token = rows[u].token
    <3> SUFFICES ASSUME NEW u \in Uuids, rows'[u] # None
                 PROVE  \/ u = w /\ c.kind = "insert" /\ rows'[u] = c.link
                        \/ rows[u] # None /\ rows'[u].token = rows[u].token
      OBVIOUS
    <3>1. CASE u # w
      BY <1>6, <3>1
    <3>2. CASE u = w /\ c.kind = "insert"
      BY <1>6, <3>2 DEF After
    <3>3. CASE u = w /\ c.kind = "update"
      <4>1. rows[u] # None /\ rows'[u] = Edited(rows[u], c.change)
        BY <1>6, <3>3 DEF After
      <4> QED BY <1>7, <1>10, <3>3, <4>1, EditedFields
    <3>4. CASE u = w /\ c.kind = "delete"
      BY <1>6, <3>4 DEF After
    <3> QED BY <1>3, <3>1, <3>2, <3>3, <3>4
  <2>2. TokensUnique(rows)
    BY DEF StoreInv
  <2> SUFFICES ASSUME NEW u \in Uuids, NEW v \in Uuids,
                      rows'[u] # None, rows'[v] # None,
                      rows'[u].token = rows'[v].token
               PROVE  u = v
    BY DEF TokensUnique
  <2> QED BY <1>9, <2>1, <2>2 DEF TokensUnique, UnusedTokens
<1>13. TokenIndexExact'
  BY <1>4 DEF StoreInv, TokenIndexExact
<1>14. LedgerExact'
  <2> SUFFICES ASSUME NEW u \in Uuids, rows'[u] # None
               PROVE  rows'[u].used + Owed(u)' = Shown(u)'.used + drift'[u]
    BY DEF LedgerExact
  <2>1. Owed(u)' = Owed(u) /\ Owed(u) \in Nat
    BY <1>1, <1>4 DEF Owed, InFlight, TypeOK, Flushers
  <2>2. rows[u] # None => rows[u].used + Owed(u) = cache[u].used + drift[u]
    BY <1>5 DEF StoreInv, LedgerExact
  <2>3. rows[u] # None => cache[u] # None
    BY <1>7 DEF Agree
  <2>4. drift \in [Uuids -> Int] /\ drift' = DriftAfter(c)
    BY <1>1 DEF TypeOK, CallSql, c
  <2>5. CASE u # w
    <3>1. drift'[u] = drift[u]
      BY <1>3, <2>4, <2>5 DEF DriftAfter, c
    <3> QED BY <1>5, <1>6, <2>1, <2>2, <2>5, <3>1
  <2>6. CASE u = w /\ c.kind = "insert"
    <3>1. rows'[u] = c.link /\ Shown(u)' = c.link
      BY <1>5, <1>6, <2>6 DEF After
    <3>2. After(c, rows[c.uuid]) # None
      BY <1>6, <2>6 DEF c
    <3>3. drift'[u] = Owed(u)
      BY <1>3, <2>4, <2>6, <3>2 DEF DriftAfter, c
    <3> QED BY <1>9, <2>1, <2>6, <3>1, <3>3 DEF Links
  <2>7. CASE u = w /\ c.kind = "update"
    <3>1. /\ rows[u] # None /\ rows'[u] = Edited(rows[u], c.change)
          /\ cache[u] # None /\ Shown(u)' = Edited(cache[u], c.change)
      BY <1>5, <1>6, <2>3, <2>7 DEF After
    <3>2. /\ rows'[u].used = IF c.change.reset THEN 0 ELSE rows[u].used
          /\ Shown(u)'.used = IF c.change.reset THEN 0 ELSE cache[u].used
      BY <1>7, <1>10, <2>7, <3>1, EditedFields
    <3>3. After(c, rows[c.uuid]) # None
      BY <1>6, <2>7 DEF c
    <3>4. drift'[u] = IF c.change.reset THEN Owed(u) ELSE drift[u]
      BY <1>3, <2>4, <2>7, <3>3 DEF DriftAfter, Resets, c
    <3> QED BY <2>1, <2>2, <3>1, <3>2, <3>4
  <2>8. CASE u = w /\ c.kind = "delete"
    BY <1>6, <2>8 DEF After
  <2> QED BY <1>3, <2>5, <2>6, <2>7, <2>8
<1> QED BY <1>1, <1>8, <1>11, <1>12, <1>13, <1>14 DEF StoreInv

(* The cache catches up with the row, and the index with the cache. *)
LEMMA CacheInv == StoreInv /\ CallCache => StoreInv'
<1> SUFFICES ASSUME StoreInv, CallCache PROVE StoreInv'
  OBVIOUS
<1> DEFINE c == Call
           w == Call.uuid
<1>1. TypeOK /\ TypeOK'
  BY StepType DEF StoreInv, Next, CallStep
<1>2. /\ script # <<>> /\ stage = "committed" /\ stage' = "start"
      /\ UNCHANGED <<rows, batch, drift>>
  BY DEF CallCache, history
<1>3. /\ c \in Calls /\ c.kind \in {"insert", "update", "delete"}
      /\ w \in Uuids
  BY <1>1, <1>2, CallType DEF Calls
<1>4. \A u \in Uuids : cache'[u] = IF u = w THEN After(c, cache[u]) ELSE cache[u]
  BY <1>1, <1>3 DEF CallCache, TypeOK
<1>5. \A u \in Uuids : Shown(u) = cache'[u] /\ Shown(u)' = cache'[u]
  BY <1>2, <1>4, ShownSettled DEF Shown
<1>6. CacheMatchesRows'
  BY <1>2, <1>5 DEF StoreInv, CacheMatchesRows
<1>7. StageOK'
  BY <1>2 DEF StageOK
<1>8. TokensUnique(rows)'
  BY <1>2 DEF StoreInv, TokensUnique
<1>9. TypeOK => \A u \in Uuids : /\ cache[u] \in Links \cup {None}
                                 /\ rows[u] \in Links \cup {None}
  BY DEF TypeOK
<1>10. \A u, v \in Uuids :
         /\ cache'[u] # None
         /\ cache'[v] # None
         /\ cache'[u].token = cache'[v].token
         => u = v
  <2>1. \A u \in Uuids : cache'[u] # None =>
          rows[u] # None /\ cache'[u].token = rows[u].token
    BY <1>5 DEF StoreInv, CacheMatchesRows, Agree
  <2> QED BY <2>1 DEF StoreInv, TokensUnique
<1>11. TokenIndexExact'
  <2> SUFFICES ASSUME NEW t \in Tokens, NEW u \in Uuids
               PROVE  tokenIndex'[t] = u <=> cache'[u] # None /\ cache'[u].token = t
    BY DEF TokenIndexExact
  <2>1. \A s \in Tokens, v \in Uuids :
          tokenIndex[s] = v <=> cache[v] # None /\ cache[v].token = s
    BY DEF StoreInv, TokenIndexExact
  <2>2. tokenIndex \in [Tokens -> Uuids \cup {None}] /\ tokenIndex' = IndexAfter(c)
    BY <1>1 DEF TypeOK, CallCache
  <2>3. CASE c.kind = "insert"
    <3>1. c.link \in Links /\ c.link.token \in Tokens
      BY <1>3, <2>3 DEF Calls, Links
    <3>2. cache[w] = None /\ cache'[w] = c.link /\ c.link # None
      BY <1>2, <1>3, <1>4, <2>3, <3>1, NoneAssumption
      DEF StoreInv, StageOK, After
    <3>3. tokenIndex' = [tokenIndex EXCEPT ![c.link.token] = w]
      BY <2>2, <2>3 DEF IndexAfter
    <3>4. CASE t = c.link.token
      BY <1>3, <1>10, <2>2, <3>1, <3>2, <3>3, <3>4
    <3>5. CASE t # c.link.token
      <4>1. tokenIndex'[t] = tokenIndex[t]
        BY <2>2, <3>3, <3>5
      <4> QED BY <1>4, <2>1, <3>2, <3>5, <4>1
    <3> QED BY <3>4, <3>5
  <2>4. CASE c.kind = "update"
    <3>1. tokenIndex' = tokenIndex
      BY <2>2, <2>4 DEF IndexAfter
    <3>2. \A v \in Uuids : /\ (cache'[v] = None) <=> (cache[v] = None)
                           /\ cache[v] # None => cache'[v].token = cache[v].token
      <4>1. c.change \in Changes
        BY <1>3 DEF Calls
      <4>2. cache[w] # None =>
              /\ Edited(cache[w], c.change) \in Links
              /\ Edited(cache[w], c.change).token = cache[w].token
        BY <1>1, <1>3, <1>9, <4>1, EditedFields
      <4> QED BY <1>4, <1>3, <2>4, <4>2, NoneAssumption DEF After
    <3> QED BY <2>1, <3>1, <3>2
  <2>5. CASE c.kind = "delete"
    <3>1. cache'[w] = None
      BY <1>3, <1>4, <2>5 DEF After
    <3>2. CASE cache[w] = None
      BY <1>4, <2>1, <2>2, <2>5, <3>1, <3>2 DEF IndexAfter
    <3>3. CASE cache[w] # None
      <4>1. cache[w].token \in Tokens /\ tokenIndex[cache[w].token] = w
        BY <1>1, <1>3, <1>9, <2>1, <3>3 DEF Links
      <4>2. tokenIndex' = [tokenIndex EXCEPT ![cache[w].token] = None]
        BY <2>2, <2>5, <3>3 DEF IndexAfter
      <4>3. CASE t = cache[w].token
        <5>1. tokenIndex'[t] = None
          BY <2>2, <4>1, <4>2, <4>3
        <5>2. u # w => ~ (cache[u] # None /\ cache[u].token = t)
          BY <2>1, <4>1, <4>3, <1>3
        <5> QED BY <1>3, <1>4, <3>1, <5>1, <5>2, NoneAssumption
      <4>4. CASE t # cache[w].token
        <5>1. tokenIndex'[t] = tokenIndex[t]
          BY <2>2, <4>2, <4>4
        <5> QED BY <1>3, <1>4, <2>1, <3>1, <4>4, <5>1
      <4> QED BY <4>3, <4>4
    <3> QED BY <3>2, <3>3
  <2> QED BY <1>3, <2>3, <2>4, <2>5
<1>12. LedgerExact'
  <2> SUFFICES ASSUME NEW u \in Uuids, rows[u] # None
               PROVE  rows[u].used + Owed(u)' = cache'[u].used + drift[u]
    BY <1>2, <1>5 DEF LedgerExact
  <2>1. rows[u].used + Owed(u) = cache'[u].used + drift[u]
    BY <1>5 DEF StoreInv, LedgerExact
  <2>2. Owed(u)' = Owed(u)
    <3>1. ~ (u = w /\ c.kind = "delete")
      BY <1>4, <1>5 DEF StoreInv, CacheMatchesRows, Agree, After
    <3>2. pending'[u] = pending[u]
      BY <1>1, <1>3, <3>1 DEF CallCache, PendingAfter, TypeOK
    <3> QED BY <1>2, <3>2 DEF Owed, InFlight
  <2> QED BY <2>1, <2>2
<1> QED BY <1>1, <1>6, <1>7, <1>8, <1>11, <1>12 DEF StoreInv

LEMMA OwedType ==
  ASSUME TypeOK
  PROVE  \A u \in Uuids : pending[u] \in Nat /\ InFlight(u) \in Nat
BY DEF TypeOK, InFlight, Flushers

LEMMA ChargeInv ==
  ASSUME StoreInv, NEW w \in Uuids, NEW n \in ChargeSizes, Charge(w, n)
  PROVE  StoreInv'
<1>1. TypeOK /\ TypeOK' /\ n \in Nat
  BY StepType, BoundsAssumption DEF StoreInv, Next
<1>2. /\ script = <<>> /\ stage' = stage
      /\ UNCHANGED <<rows, tokenIndex, batch, script, drift>>
  BY DEF Charge, LoopFree, history
<1>3. stage = "start"
  BY <1>2 DEF StoreInv, StageOK, TypeOK
<1>4. \A u \in Uuids : Shown(u) = cache[u] /\ Shown(u)' = cache'[u]
  BY <1>2, <1>3, ShownSettled
<1>5. \A u \in Uuids : u # w => cache'[u] = cache[u] /\ pending'[u] = pending[u]
  BY <1>1 DEF Charge, TypeOK
<1>6. /\ cache'[w] = IF cache[w] = None THEN None ELSE Plus(cache[w], n)
      /\ pending'[w] = pending[w] + n
  BY <1>1 DEF Charge, TypeOK
<1>7. cache[w] # None => /\ cache'[w] # None
                         /\ cache'[w].used = cache[w].used + n
                         /\ cache'[w].active = cache[w].active
                         /\ cache'[w].limit = cache[w].limit
                         /\ cache'[w].token = cache[w].token
  <2>1. cache[w] \in Links \cup {None}
    BY <1>1 DEF TypeOK
  <2> QED BY <1>1, <1>6, <2>1, PlusType, NoneAssumption
<1>8. StageOK' /\ TokensUnique(rows)'
  BY <1>2, <1>3 DEF StageOK, StoreInv, TokensUnique
<1>9. CacheMatchesRows'
  BY <1>2, <1>4, <1>5, <1>6, <1>7 DEF StoreInv, CacheMatchesRows, Agree
<1>10. TokenIndexExact'
  <2>1. \A u \in Uuids : /\ cache'[u] = None <=> cache[u] = None
                         /\ cache[u] # None => cache'[u].token = cache[u].token
    BY <1>5, <1>6, <1>7
  <2> QED BY <1>2, <2>1 DEF StoreInv, TokenIndexExact
<1>11. LedgerExact'
  <2> SUFFICES ASSUME NEW u \in Uuids, rows[u] # None
               PROVE  rows[u].used + Owed(u)' = cache'[u].used + drift[u]
    BY <1>2, <1>4 DEF LedgerExact
  <2>1. rows[u].used + Owed(u) = cache[u].used + drift[u]
    BY <1>4 DEF StoreInv, LedgerExact
  <2>2. InFlight(u)' = InFlight(u)
    BY <1>2 DEF InFlight
  <2>3. cache[u] # None
    BY <1>4 DEF StoreInv, CacheMatchesRows, Agree
  <2>4. rows[u].used \in Nat /\ cache[u].used \in Nat /\ drift[u] \in Int
    BY <1>1, <2>3 DEF TypeOK, Links
  <2>7. pending[u] \in Nat /\ InFlight(u) \in Nat
    BY <1>1, OwedType
  <2>5. CASE u = w
    BY <1>1, <1>6, <1>7, <2>1, <2>2, <2>3, <2>4, <2>5, <2>7 DEF Owed
  <2>6. CASE u # w
    BY <1>5, <2>1, <2>2, <2>6 DEF Owed
  <2> QED BY <2>5, <2>6
<1> QED BY <1>1, <1>8, <1>9, <1>10, <1>11 DEF StoreInv

(* Taking a batch and giving it back move bytes between the buffer and the *)
(* flusher; what is owed stays the same.                                   *)
LEMMA TakeOwed ==
  ASSUME TypeOK, NEW f \in Flushers, ~ Busy(f), Take(f)
  PROVE  \A u \in Uuids : Owed(u)' = Owed(u)
<1> SUFFICES ASSUME NEW u \in Uuids PROVE Owed(u)' = Owed(u)
  OBVIOUS
<1>1. /\ batch \in [Flushers -> [Uuids -> Nat]] /\ pending \in [Uuids -> Nat]
      /\ batch' = [batch EXCEPT ![f] = pending] /\ pending' = Nothing
      /\ batch[f] = Nothing
  BY DEF TypeOK, Take, Busy
<1>2. Nothing[u] = 0
  BY DEF Nothing
<1>3. CASE f = "maintenance"
  <2>1. /\ batch'["maintenance"][u] = pending[u]
        /\ batch'["shutdown"][u] = batch["shutdown"][u]
        /\ batch["maintenance"][u] = 0
    BY <1>1, <1>2, <1>3 DEF Flushers
  <2> QED BY <1>1, <1>2, <2>1 DEF Owed, InFlight, Flushers
<1>4. CASE f = "shutdown"
  <2>1. /\ batch'["shutdown"][u] = pending[u]
        /\ batch'["maintenance"][u] = batch["maintenance"][u]
        /\ batch["shutdown"][u] = 0
    BY <1>1, <1>2, <1>4 DEF Flushers
  <2> QED BY <1>1, <1>2, <2>1 DEF Owed, InFlight, Flushers
<1> QED BY <1>3, <1>4 DEF Flushers

LEMMA ReleaseOwed ==
  ASSUME TypeOK, NEW f \in Flushers, batch' = [batch EXCEPT ![f] = Nothing]
  PROVE  \A u \in Uuids : InFlight(u)' = InFlight(u) - batch[f][u]
<1> SUFFICES ASSUME NEW u \in Uuids
             PROVE  InFlight(u)' = InFlight(u) - batch[f][u]
  OBVIOUS
<1>1. /\ batch \in [Flushers -> [Uuids -> Nat]]
      /\ Nothing[u] = 0
  BY DEF TypeOK, Nothing
<1>2. CASE f = "maintenance"
  <2>1. /\ batch'["maintenance"][u] = 0
        /\ batch'["shutdown"][u] = batch["shutdown"][u]
    BY <1>1, <1>2 DEF Flushers
  <2> QED BY <1>1, <1>2, <2>1 DEF InFlight, Flushers
<1>3. CASE f = "shutdown"
  <2>1. /\ batch'["shutdown"][u] = 0
        /\ batch'["maintenance"][u] = batch["maintenance"][u]
    BY <1>1, <1>3 DEF Flushers
  <2> QED BY <1>1, <1>3, <2>1 DEF InFlight, Flushers
<1> QED BY <1>2, <1>3 DEF Flushers

LEMMA FlushInv == StoreInv /\ Flush => StoreInv'
<1> SUFFICES ASSUME StoreInv, Flush PROVE StoreInv'
  OBVIOUS
<1>1. TypeOK /\ TypeOK'
  BY StepType DEF StoreInv, Next
<1>2. UNCHANGED <<cache, tokenIndex, script, stage, drift>>
  BY DEF Flush, FlushTake, Shutdown, FlushCommit, FlushFails, history
<1>3. /\ \A u \in Uuids : Shown(u)' = Shown(u)
      /\ StageOK' /\ TokenIndexExact'
  BY <1>2 DEF Shown, Call, Resolved, StoreInv, StageOK, TokenIndexExact
<1>4. ASSUME UNCHANGED rows, \A u \in Uuids : Owed(u)' = Owed(u)
      PROVE  StoreInv'
  BY <1>1, <1>2, <1>3, <1>4
  DEF StoreInv, TokensUnique, CacheMatchesRows, LedgerExact
<1>5. CASE FlushTake
  BY <1>1, <1>4, <1>5, TakeOwed DEF FlushTake, Flushers
<1>6. CASE Shutdown
  BY <1>1, <1>4, <1>6, TakeOwed DEF Shutdown, Serving, LoopFree, Flushers
<1>7. ASSUME NEW f \in Flushers, FlushFails(f) PROVE StoreInv'
  <2>1. \A u \in Uuids : /\ InFlight(u)' = InFlight(u) - batch[f][u]
                         /\ pending'[u] = pending[u] + batch[f][u]
    BY <1>1, <1>7, ReleaseOwed DEF FlushFails
  <2>2. \A u \in Uuids : /\ pending[u] \in Nat /\ batch[f][u] \in Nat
                         /\ InFlight(u) \in Nat
    BY <1>1 DEF TypeOK, InFlight, Flushers
  <2>3. \A u \in Uuids : Owed(u)' = Owed(u)
    BY <2>1, <2>2 DEF Owed
  <2> QED BY <1>4, <1>7, <2>3 DEF FlushFails
<1>8. ASSUME NEW f \in Flushers, FlushCommit(f) PROVE StoreInv'
  <2>1. \A u \in Uuids : /\ rows[u] \in Links \cup {None}
                         /\ batch[f][u] \in Nat
                         /\ pending[u] \in Nat
                         /\ InFlight(u) \in Nat
    BY <1>1 DEF TypeOK, InFlight, Flushers
  <2>2. \A u \in Uuids :
          rows'[u] = IF rows[u] = None THEN None ELSE Plus(rows[u], batch[f][u])
    BY <1>8 DEF FlushCommit
  <2>3. \A u \in Uuids :
          /\ rows'[u] = None <=> rows[u] = None
          /\ rows[u] # None => /\ rows'[u].used = rows[u].used + batch[f][u]
                               /\ rows'[u].active = rows[u].active
                               /\ rows'[u].limit = rows[u].limit
                               /\ rows'[u].token = rows[u].token
    <3> TAKE u \in Uuids
    <3>1. CASE rows[u] = None
      BY <2>2, <3>1
    <3>2. CASE rows[u] # None
      <4>1. rows[u] \in Links /\ rows'[u] = Plus(rows[u], batch[f][u])
        BY <2>1, <2>2, <3>2
      <4> QED BY <2>1, <3>2, <4>1, PlusType, NoneAssumption
    <3> QED BY <3>1, <3>2
  <2>4. \A u \in Uuids : Owed(u)' = Owed(u) - batch[f][u]
    <3> TAKE u \in Uuids
    <3>1. InFlight(u)' = InFlight(u) - batch[f][u] /\ pending'[u] = pending[u]
      BY <1>1, <1>8, ReleaseOwed DEF FlushCommit
    <3> QED BY <2>1, <3>1 DEF Owed
  <2>5. TokensUnique(rows)' /\ CacheMatchesRows'
    BY <1>3, <2>3 DEF StoreInv, TokensUnique, CacheMatchesRows, Agree
  <2>6. LedgerExact'
    <3> SUFFICES ASSUME NEW u \in Uuids, rows[u] # None
                 PROVE  rows'[u].used + Owed(u)' = Shown(u).used + drift[u]
      BY <1>2, <1>3, <2>3 DEF LedgerExact
    <3>1. rows[u].used + Owed(u) = Shown(u).used + drift[u]
      BY DEF StoreInv, LedgerExact
    <3>2. rows[u].used \in Nat /\ Owed(u) \in Nat
      BY <2>1 DEF Links, Owed
    <3> QED BY <2>1, <2>3, <2>4, <3>1, <3>2
  <2> QED BY <1>1, <1>3, <2>5, <2>6 DEF StoreInv
<1> QED BY <1>5, <1>6, <1>7, <1>8 DEF Flush

(* Neither a stuttering step nor an admission touches the store. *)
LEMMA FrameInv ==
  ASSUME StoreInv, TypeOK',
         UNCHANGED <<rows, cache, tokenIndex, pending, batch, script, stage, drift>>
  PROVE  StoreInv'
<1>2. Call' = Call /\ \A u \in Uuids : Shown(u)' = Shown(u) /\ Owed(u)' = Owed(u)
  BY DEF Call, Resolved, Shown, Owed, InFlight
<1> QED BY <1>2 DEF StoreInv, StageOK, TokensUnique, CacheMatchesRows,
             TokenIndexExact, LedgerExact

LEMMA StutterInv == StoreInv /\ UNCHANGED vars => StoreInv'
<1> SUFFICES ASSUME StoreInv, UNCHANGED vars PROVE StoreInv'
  OBVIOUS
<1>1. TypeOK'
  BY StepType DEF StoreInv
<1> QED BY <1>1, FrameInv DEF vars

LEMMA ServeInv ==
  ASSUME StoreInv, NEW u \in Uuids, Serve(u)
  PROVE  StoreInv'
<1>1. TypeOK
  BY DEF StoreInv
<1> QED BY <1>1, ServeType, FrameInv

LEMMA StepInv == StoreInv /\ [Next]_vars => StoreInv'
BY HandlerInv, PopInv, FailsInv, SqlInv, CacheInv, ServeInv, ChargeInv, FlushInv,
   RestartInv, StutterInv
DEF Next, CallStep, Exit

THEOREM StoreInvariant == Spec => []StoreInv
BY InitInv, StepInv, PTL DEF Spec

(* No statement, failed call, flush or restart ever leaves the cache and   *)
(* the file in disagreement on a link or on a setting of it.               *)
THEOREM CacheCoherent == Spec => []CacheMatchesRows
BY StoreInvariant, PTL DEF StoreInv

(* The subscription index is exact for any number of links and tokens.     *)
THEOREM IndexCorrect == Spec => []TokenIndexExact
BY StoreInvariant, PTL DEF StoreInv

(* No byte is lost or counted twice, whatever the interleaving of charges, *)
(* flushes, failures, resets and restarts.                                 *)
THEOREM LedgerCorrect == Spec => []LedgerExact
BY StoreInvariant, PTL DEF StoreInv

-----------------------------------------------------------------------------
(* The three copies implement one table with atomic operations.            *)

LEMMA RefineInit == Init => Atomic!Init
<1> SUFFICES ASSUME Init PROVE Atomic!Init
  OBVIOUS
<1>1. \A u \in Uuids : rows[u] = None /\ Shown(u) = None
  BY DEF Init, Shown
<1>2. \A u \in Uuids : Table[u] = None /\ Saved[u] = 0
  BY <1>1 DEF Table, Saved
<1>3. Table \in [Uuids -> Atomic!Links \cup {None}]
  BY <1>2 DEF Table
<1>4. Saved = [u \in Uuids |-> IF Atomic!Present(u) THEN Table[u].used ELSE 0]
  BY <1>1, <1>2 DEF Saved, Atomic!Present
<1> QED BY <1>3, <1>4 DEF Atomic!Init

(* The abstract table changes only where the shown entry does. *)
LEMMA RefineStutter ==
  ASSUME \A u \in Uuids : Shown(u)' = Shown(u), UNCHANGED rows
  PROVE  UNCHANGED Atomic!vars
<1>1. Table' = Table
  BY DEF Table
<1>2. Saved' = Saved
  BY DEF Saved
<1> QED BY <1>1, <1>2 DEF Atomic!vars

LEMMA RefineBecomes ==
  ASSUME NEW w \in Uuids, NEW entry, NEW usage,
         \A u \in Uuids : u # w => Shown(u)' = Shown(u) /\ rows'[u] = rows[u],
         Shown(w)' = entry, Saved'[w] = usage
  PROVE  Atomic!Becomes(w, entry, usage)
<1>1. Table' = [Table EXCEPT ![w] = entry]
  BY DEF Table
<1>2. Saved' = [Saved EXCEPT ![w] = usage]
  BY DEF Saved
<1> QED BY <1>1, <1>2 DEF Atomic!Becomes

LEMMA RefineSql ==
  ASSUME StoreInv, CallSql
  PROVE  [Atomic!Next]_(Atomic!vars)
<1>1. TypeOK
  BY DEF StoreInv
<1>2. script # <<>> /\ stage # "committed"
  BY DEF CallSql, AtSql
<1>a. PICK c \in Calls : c = Call
  BY <1>1, <1>2, CallType
<1>b. PICK w \in Uuids : w = c.uuid
  BY DEF Calls
<1>3. c.kind \in {"insert", "update", "delete"} /\ w = Call.uuid
  BY <1>1, <1>2, <1>a, <1>b, CallType
<1>4. /\ Call' = c /\ stage' = "committed" /\ script' = script
      /\ UNCHANGED cache
  BY <1>a DEF CallSql, Call, Resolved
<1>5. \A u \in Uuids : /\ Shown(u) = cache[u]
                       /\ Shown(u)' = IF u = w THEN After(c, cache[u]) ELSE cache[u]
  BY <1>2, <1>4, <1>b, ShownSettled DEF Shown
<1>6. \A u \in Uuids : rows'[u] = IF u = w THEN After(c, rows[u]) ELSE rows[u]
  BY <1>1, <1>3, <1>a DEF CallSql, TypeOK
<1>7. \A u \in Uuids : /\ rows[u] \in Links \cup {None}
                       /\ cache[u] \in Links \cup {None}
                       /\ Agree(cache[u], rows[u])
  BY <1>1, <1>5 DEF TypeOK, StoreInv, CacheMatchesRows
<1>8. /\ Table[w] = cache[w]
      /\ Table'[w] = After(c, cache[w])
      /\ Saved[w] = IF rows[w] = None THEN 0 ELSE rows[w].used
      /\ Saved'[w] = IF rows'[w] = None THEN 0 ELSE rows'[w].used
  BY <1>3, <1>5 DEF Table, Saved
<1>9. \A u \in Uuids : u # w => Shown(u)' = Shown(u) /\ rows'[u] = rows[u]
  BY <1>5, <1>6
<1>10. Atomic!Links = Links
  BY DEF Atomic!Links, Links
<1>11. c.kind = "insert" => /\ ~ Conflicts(c)
                            /\ c.link \in Links
  BY <1>a DEF CallSql, Calls
<1>12. c.kind = "update" => c.change \in Changes
  BY <1>3 DEF Calls
<1>13. CASE c.kind = "insert"
  <2>1. rows[w] = None /\ cache[w] = None /\ c.link.token \in UnusedTokens
    BY <1>3, <1>7, <1>11, <1>13, <1>b DEF Conflicts, Agree
  <2>2. Table'[w] = c.link /\ Saved'[w] = c.link.used /\ c.link # None
    BY <1>3, <1>6, <1>8, <1>11, <1>13, NoneAssumption DEF After
  <2>3. Atomic!Becomes(w, c.link, c.link.used)
    BY <1>3, <1>5, <1>9, <2>2, <1>13, RefineBecomes DEF After
  <2>4. \A v \in Uuids : Atomic!Present(v) => Table[v].token # c.link.token
    BY <1>5, <1>7, <2>1 DEF Atomic!Present, Table, Agree, UnusedTokens
  <2>5. Atomic!Insert(w, Table'[w])
    BY <1>8, <2>1, <2>2, <2>3, <2>4 DEF Atomic!Insert, Atomic!Present
  <2> QED BY <1>3, <1>10, <1>11, <1>13, <2>2, <2>5 DEF Atomic!Next
<1>14. CASE c.kind = "update" /\ cache[w] # None
  <2> DEFINE l == cache[w]
             e == Edited(l, c.change)
  <2>1. l \in Links /\ rows[w] \in Links /\ rows[w] # None
    BY <1>3, <1>7, <1>14 DEF Agree
  <2>2. /\ e \in Links
        /\ e.used = IF c.change.reset THEN 0 ELSE l.used
        /\ e.token = l.token
    BY <1>12, <1>14, <2>1, EditedFields
  <2>3. rows'[w] = Edited(rows[w], c.change) /\ rows'[w] # None
    BY <1>3, <1>6, <1>12, <1>14, <2>1, EditedFields, NoneAssumption DEF After
  <2>4. Table'[w] = e /\ Shown(w)' = e
    BY <1>3, <1>5, <1>8, <1>14 DEF After
  <2>5. Saved'[w] = IF c.change.reset THEN 0 ELSE Saved[w]
    BY <1>8, <1>12, <1>14, <2>1, <2>3, EditedFields
  <2>6. Atomic!Becomes(w, e, Saved'[w])
    BY <1>3, <1>9, <2>4, RefineBecomes
  <2>7. CASE c.change.reset
    <3>1. e = [l EXCEPT !.active = e.active, !.limit = e.limit, !.used = 0]
      BY <2>1, <2>2, <2>7 DEF Links
    <3>2. Atomic!StartOver(w, Table'[w].active, Table'[w].limit)
      BY <1>8, <1>14, <2>4, <2>5, <2>6, <2>7, <3>1
      DEF Atomic!StartOver, Atomic!Present
    <3> QED BY <1>3, <1>10, <2>2, <2>4, <3>2 DEF Atomic!Next
  <2>8. CASE ~ c.change.reset
    <3>1. e = [l EXCEPT !.active = e.active, !.limit = e.limit]
      BY <2>1, <2>2, <2>8 DEF Links
    <3>2. Atomic!Edit(w, Table'[w].active, Table'[w].limit)
      BY <1>8, <1>14, <2>4, <2>5, <2>6, <2>8, <3>1
      DEF Atomic!Edit, Atomic!Present
    <3> QED BY <1>3, <1>10, <2>2, <2>4, <3>2 DEF Atomic!Next
  <2> QED BY <2>7, <2>8
<1>15. CASE c.kind = "delete" /\ cache[w] # None
  <2>1. Table'[w] = None /\ Shown(w)' = None /\ Saved'[w] = 0
    BY <1>3, <1>5, <1>6, <1>8, <1>15 DEF After
  <2>2. Atomic!Becomes(w, None, 0)
    BY <1>3, <1>9, <2>1, RefineBecomes
  <2>3. Atomic!Remove(w)
    BY <1>8, <1>15, <2>2 DEF Atomic!Remove, Atomic!Present
  <2> QED BY <1>3, <2>3 DEF Atomic!Next
<1>16. CASE c.kind # "insert" /\ cache[w] = None
  <2>1. rows[w] = None
    BY <1>3, <1>7, <1>16 DEF Agree
  <2>2. \A u \in Uuids : Shown(u)' = Shown(u) /\ rows'[u] = rows[u]
    BY <1>3, <1>5, <1>6, <1>16, <2>1 DEF After
  <2>3. Table' = Table /\ Saved' = Saved
    BY <2>2 DEF Table, Saved
  <2> QED BY <2>3 DEF Atomic!vars
<1> QED BY <1>3, <1>13, <1>14, <1>15, <1>16

(* The cache catching up shows nothing new. *)
LEMMA RefineCache ==
  ASSUME StoreInv, CallCache
  PROVE  UNCHANGED Atomic!vars
<1>1. TypeOK
  BY DEF StoreInv
<1>2. /\ script # <<>> /\ stage = "committed" /\ stage' = "start"
      /\ UNCHANGED rows
  BY DEF CallCache
<1>3. PICK c \in Calls : c = Call
  BY <1>1, <1>2, CallType
<1>4. c.uuid \in Uuids
  BY DEF Calls
<1>5. \A u \in Uuids :
        cache'[u] = IF u = c.uuid THEN After(c, cache[u]) ELSE cache[u]
  BY <1>1, <1>3, <1>4 DEF CallCache, TypeOK
<1>6. \A u \in Uuids : Shown(u)' = Shown(u)
  BY <1>2, <1>3, <1>5, ShownSettled DEF Shown
<1> QED BY <1>2, <1>6, RefineStutter

LEMMA RefineCharge ==
  ASSUME StoreInv, NEW w \in Uuids, NEW n \in ChargeSizes, Charge(w, n)
  PROVE  [Atomic!Next]_(Atomic!vars)
<1>1. TypeOK /\ n \in Nat /\ n > 0
  BY BoundsAssumption DEF StoreInv
<1>2. script = <<>> /\ stage = "start" /\ stage' = stage /\ UNCHANGED rows
  BY DEF Charge, LoopFree, StoreInv, StageOK, TypeOK
<1>3. \A u \in Uuids : /\ Shown(u) = cache[u]
                       /\ Shown(u)' = cache'[u]
                       /\ u # w => cache'[u] = cache[u]
  BY <1>1, <1>2, ShownSettled DEF Charge, TypeOK
<1>4. cache'[w] = IF cache[w] = None THEN None ELSE Plus(cache[w], n)
  BY <1>1 DEF Charge, TypeOK
<1>5. Saved' = Saved
  BY <1>2 DEF Saved
<1>6. CASE cache[w] = None
  <2>1. \A u \in Uuids : Shown(u)' = Shown(u)
    BY <1>3, <1>4, <1>6
  <2> QED BY <1>2, <2>1, RefineStutter
<1>7. CASE cache[w] # None
  <2>1. cache[w] \in Links
    BY <1>1, <1>7 DEF TypeOK
  <2>2. Plus(cache[w], n) \in Links /\ Plus(cache[w], n).used = cache[w].used + n
    BY <1>1, <2>1, PlusType
  <2>3. Table[w] = cache[w] /\ Table'[w] = Plus(cache[w], n)
    BY <1>3, <1>4, <1>7 DEF Table
  <2>4. Table' = [Table EXCEPT ![w] = Plus(cache[w], n)]
    BY <1>3, <1>4, <1>7 DEF Table
  <2>5. Table'[w].used - Table[w].used = n
    BY <1>1, <2>1, <2>2, <2>3 DEF Links
  <2>6. Table' = [Table EXCEPT ![w].used = @ + n]
    BY <2>3, <2>4 DEF Plus
  <2>7. Atomic!Present(w) /\ Atomic!Charge(w, Table'[w].used - Table[w].used)
    BY <1>1, <1>5, <1>7, <2>3, <2>5, <2>6 DEF Atomic!Charge, Atomic!Present
  <2>8. Table'[w] \in Atomic!Links
    BY <2>2, <2>3 DEF Atomic!Links, Links
  <2> QED BY <2>7, <2>8 DEF Atomic!Next
<1> QED BY <1>6, <1>7

LEMMA RefineFlush ==
  ASSUME StoreInv, Flush
  PROVE  [Atomic!Next]_(Atomic!vars)
<1>1. TypeOK
  BY DEF StoreInv
<1>2. \A u \in Uuids : Shown(u)' = Shown(u)
  BY DEF Flush, FlushTake, Shutdown, FlushCommit, FlushFails, Shown, Call, Resolved
<1>3. CASE UNCHANGED rows
  BY <1>2, <1>3, RefineStutter
<1>4. ASSUME NEW f \in Flushers, FlushCommit(f)
      PROVE  [Atomic!Next]_(Atomic!vars)
  <2>1. \A u \in Uuids :
          /\ rows[u] \in Links \cup {None}
          /\ batch[f][u] \in Nat
          /\ rows'[u] = IF rows[u] = None THEN None ELSE Plus(rows[u], batch[f][u])
    BY <1>1, <1>4 DEF TypeOK, FlushCommit
  <2>2. ASSUME NEW u \in Uuids
        PROVE  /\ Saved'[u] \in Nat
               /\ Saved'[u] >= Saved[u]
               /\ ~ Atomic!Present(u) => Saved'[u] = Saved[u]
    <3>1. /\ Saved[u] = IF rows[u] = None THEN 0 ELSE rows[u].used
          /\ Saved'[u] = IF rows'[u] = None THEN 0 ELSE rows'[u].used
      BY DEF Saved
    <3>2. CASE rows[u] = None
      BY <2>1, <3>1, <3>2
    <3>3. CASE rows[u] # None
      <4>1. /\ rows[u] \in Links
            /\ rows'[u] = Plus(rows[u], batch[f][u])
        BY <2>1, <3>3
      <4>2. rows'[u] # None /\ rows'[u].used = rows[u].used + batch[f][u]
        BY <2>1, <4>1, PlusType, NoneAssumption
      <4>3. Shown(u) # None
        BY <3>3 DEF StoreInv, CacheMatchesRows, Agree
      <4>4. Atomic!Present(u)
        BY <4>3 DEF Atomic!Present, Table
      <4> QED BY <2>1, <3>1, <3>3, <4>1, <4>2, <4>4 DEF Links
    <3> QED BY <3>2, <3>3
  <2>3. Saved' \in [Uuids -> Nat]
    BY <2>2 DEF Saved
  <2>4. Table' = Table
    BY <1>2 DEF Table
  <2>5. Atomic!Save(Saved')
    BY <2>2, <2>4 DEF Atomic!Save
  <2> QED BY <2>3, <2>5 DEF Atomic!Next
<1> QED BY <1>3, <1>4 DEF Flush, FlushTake, Shutdown, FlushFails

LEMMA RefineRestart ==
  ASSUME StoreInv, Restart
  PROVE  [Atomic!Next]_(Atomic!vars)
<1>1. \A u \in Uuids : /\ rows[u] \in Links \cup {None}
                       /\ Shown(u)' = rows[u]
                       /\ Agree(Shown(u), rows[u])
  BY ShownSettled DEF StoreInv, TypeOK, Restart, CacheMatchesRows
<1>2. Saved' = Saved
  BY DEF Restart, Saved
<1>3. ASSUME NEW u \in Uuids
      PROVE  Table'[u] = IF Atomic!Present(u)
                         THEN [Table[u] EXCEPT !.used = Saved[u]] ELSE None
  <2>1. Table[u] = Shown(u) /\ Table'[u] = rows[u]
    BY <1>1 DEF Table
  <2>2. CASE rows[u] = None
    BY <1>1, <2>1, <2>2 DEF Agree, Atomic!Present
  <2>3. CASE rows[u] # None
    <3>1. rows[u] \in Links /\ Shown(u) # None /\ Saved[u] = rows[u].used
      BY <1>1, <2>3 DEF Agree, Saved
    <3>2. Shown(u) \in Links
      <4>1. Shown(u) \in Links \cup {None}
        <5>1. TypeOK
          BY DEF StoreInv
        <5>2. CASE stage = "committed"
          <6>1. /\ Call \in Calls
                /\ Call.kind \in {"insert", "update", "delete"}
            BY <5>1, <5>2, CallType DEF StoreInv, StageOK
          <6> QED BY <5>1, <6>1, AfterType DEF Shown, TypeOK
        <5>3. CASE stage # "committed"
          BY <5>1, <5>3 DEF Shown, TypeOK
        <5> QED BY <5>2, <5>3
      <4> QED BY <3>1, <4>1
    <3>3. rows[u] = [Shown(u) EXCEPT !.used = rows[u].used]
      BY <1>1, <2>3, <3>1, <3>2 DEF Agree, Links
    <3> QED BY <2>1, <3>1, <3>3 DEF Atomic!Present
  <2> QED BY <2>2, <2>3
<1>4. Table' = [u \in Uuids |-> IF Atomic!Present(u)
                                THEN [Table[u] EXCEPT !.used = Saved[u]]
                                ELSE None]
  BY <1>3 DEF Table
<1> QED BY <1>2, <1>4 DEF Atomic!Restart, Atomic!Next

LEMMA RefineStep ==
  StoreInv /\ [Next]_vars => [Atomic!Next]_(Atomic!vars)
<1> SUFFICES ASSUME StoreInv, [Next]_vars
             PROVE  [Atomic!Next]_(Atomic!vars)
  OBVIOUS
<1>1. CASE Handler
  <2>1. UNCHANGED <<rows, cache>> /\ script = <<>> /\ stage' = "start"
    BY <1>1, HandlerRuns DEF StoreInv, Serving, LoopFree
  <2>2. stage = "start"
    BY <2>1 DEF StoreInv, StageOK, TypeOK
  <2>3. \A u \in Uuids : Shown(u)' = Shown(u)
    BY <2>1, <2>2, ShownSettled
  <2> QED BY <2>1, <2>3, RefineStutter
<1>2. CASE CallPop \/ CallFails
  <2>1. /\ UNCHANGED <<rows, cache>>
        /\ stage # "committed" /\ stage' # "committed"
    BY <1>2 DEF CallPop, CallFails, AtSql
  <2>2. \A u \in Uuids : Shown(u)' = Shown(u)
    BY <2>1, ShownSettled
  <2> QED BY <2>1, <2>2, RefineStutter
<1>3. CASE UNCHANGED vars
  <2>1. UNCHANGED rows /\ \A u \in Uuids : Shown(u)' = Shown(u)
    BY <1>3 DEF vars, Shown, Call, Resolved
  <2> QED BY <2>1, RefineStutter
<1>4. ASSUME NEW w \in Uuids, Serve(w)
      PROVE  [Atomic!Next]_(Atomic!vars)
  <2>1. UNCHANGED rows /\ \A u \in Uuids : Shown(u)' = Shown(u)
    BY <1>4 DEF Serve, Shown, Call, Resolved
  <2> QED BY <2>1, RefineStutter
<1> QED
  BY <1>1, <1>2, <1>3, <1>4, RefineSql, RefineCache, RefineCharge, RefineFlush,
     RefineRestart
  DEF Next, CallStep, Exit

(* Seen from outside, the three copies of a link behave as one table on    *)
(* which every operation is atomic, and a restart loses nothing but usage  *)
(* that was not yet saved.                                                 *)
THEOREM AtomicRefinement == Spec => ImplementsAtomicStore
<1>1. Init => Atomic!Init
  BY RefineInit
<1>2. StoreInv /\ [Next]_vars => [Atomic!Next]_(Atomic!vars)
  BY RefineStep
<1> QED BY <1>1, <1>2, StoreInvariant, PTL DEF Spec, ImplementsAtomicStore, Atomic!Spec
=============================================================================
