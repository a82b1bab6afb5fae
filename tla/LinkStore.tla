------------------------------ MODULE LinkStore ------------------------------
(***************************************************************************)
(* The link store of src/db.py and the handlers of src/main.py that write  *)
(* to it.                                                                  *)
(*                                                                         *)
(* A link lives in three places: a row of the SQLite table links (rows), a *)
(* dict in _LINKS_CACHE (cache), and the bytes counted since the last      *)
(* flush in _PENDING_USAGE (pending).  _SUB_TOKEN_CACHE (tokenIndex) finds *)
(* a link by its subscription token.  Every endpoint runs on one event     *)
(* loop and calls db.py without awaiting, so calls never overlap; but the  *)
(* flush runs on a worker thread (asyncio.to_thread) and can run between   *)
(* the steps of a call, and the process can be killed between any two.     *)
(*                                                                         *)
(* A handler hands the loop a script of calls; the call at its head goes   *)
(* through the stages "start", "popped" (a reset has dropped the buffered  *)
(* bytes) and "committed" (the statement is in the file, the cache is      *)
(* behind).  Of a link's columns, active, limit_bytes, used_bytes and      *)
(* sub_token are kept; limit stands for the other plain columns, which the *)
(* code copies in the same way.                                            *)
(***************************************************************************)
EXTENDS Integers, FiniteSets, Sequences, SequencesExt

CONSTANTS
  Uuids,        \* link identifiers; a label determines its uuid (utils.py:61)
  DefaultUuid,  \* the uuid of the label "default"
  Tokens,       \* subscription tokens
  None,         \* an absent link, or a column a PATCH leaves alone
  MaxLimit,     \* bound: the largest quota modelled
  MaxUsed,      \* bound: no charge takes a counter, or the owed bytes, beyond
  ChargeSizes,  \* sizes of the chunks that are charged
  Patches,      \* the changes a PATCH may ask for
  TopUps,       \* the amounts topped up, possibly negative
  Selections,   \* the uuid lists a bulk action is given
  Backups,      \* the backup files: sequences of [uuid, link]
  DbErrors      \* whether a statement or a commit may fail

Limits  == 0..MaxLimit
Links   == [active : BOOLEAN, limit : Limits, used : Nat, token : Tokens]
Changes == [active : BOOLEAN \cup {None}, limit : Limits \cup {None},
            reset : BOOLEAN]

ASSUME UuidsAssumption  == IsFiniteSet(Uuids) /\ DefaultUuid \in Uuids
ASSUME NoneAssumption   == /\ None \notin Links
                           /\ None \notin BOOLEAN
                           /\ None \notin Limits
                           /\ None \notin Changes
                           /\ None \notin Uuids
ASSUME BoundsAssumption == /\ MaxLimit \in Nat
                           /\ MaxUsed \in Nat
                           /\ ChargeSizes \subseteq Nat \ {0}
                           /\ TopUps \subseteq Int
ASSUME InputsAssumption == /\ Patches \subseteq Changes
                           /\ Selections \subseteq Seq(Uuids)
                           /\ Backups \subseteq Seq([uuid : Uuids, link : Links])
                           /\ DbErrors \in BOOLEAN

VARIABLES
  rows,        \* the table links
  cache,       \* _LINKS_CACHE
  tokenIndex,  \* _SUB_TOKEN_CACHE
  pending,     \* _PENDING_USAGE, 0 for a missing key
  batch,       \* what each flusher took and has not yet written
  phase,       \* "up", or "stopping" once the shutdown event has fired
  script,      \* the calls the running handler has still to make
  stage,       \* how far the call at the head of script is
  served,      \* the links a connection of this process was admitted to
  drift,       \* history: usage the rows hold, or will, beyond the cache's
  cleared      \* history: the links whose usage this process has reset

vars == <<rows, cache, tokenIndex, pending, batch, phase, script, stage, served,
          drift, cleared>>
history == <<drift, cleared>>

-----------------------------------------------------------------------------
(* Calls and what they do to a link.                                       *)

Flushers == {"maintenance", "shutdown"}
Nothing  == [u \in Uuids |-> 0]
NoChange == [active |-> None, limit |-> None, reset |-> FALSE]

Calls == {c \in [kind   : {"insert", "update", "delete", "restore"},
                 uuid   : Uuids,
                 link   : Links \cup {None},
                 change : Changes] :
            c.kind \in {"insert", "restore"} => c.link \in Links}

InsertCall(u, l)  == [kind |-> "insert", uuid |-> u, link |-> l,
                      change |-> NoChange]
UpdateCall(u, ch) == [kind |-> "update", uuid |-> u, link |-> None,
                      change |-> ch]
DeleteCall(u)     == [kind |-> "delete", uuid |-> u, link |-> None,
                      change |-> NoChange]
RestoreCall(e)    == [kind |-> "restore", uuid |-> e.uuid, link |-> e.link,
                      change |-> NoChange]

(* A restored entry updates a link that is there and inserts one that is   *)
(* not.  An update takes neither the usage nor the token of the backup.    *)
Resolved(c) ==
  IF c.kind # "restore" THEN c
  ELSE IF cache[c.uuid] = None THEN InsertCall(c.uuid, c.link)
  ELSE UpdateCall(c.uuid, [active |-> c.link.active, limit |-> c.link.limit,
                           reset |-> FALSE])

Call == Resolved(Head(script))

Resets(c) == c.kind = "update" /\ c.change.reset

(* Mutant of Edited: a column the request left out is written as null. *)
EditedAll(l, ch) ==
  [l EXCEPT !.active = IF ch.active = None THEN @ ELSE ch.active,
            !.limit  = ch.limit,
            !.used   = IF ch.reset THEN 0 ELSE @]

Edited(l, ch) ==
  [l EXCEPT !.active = IF ch.active = None THEN @ ELSE ch.active,
            !.limit  = IF ch.limit = None THEN @ ELSE ch.limit,
            !.used   = IF ch.reset THEN 0 ELSE @]

(* The entry that call c leaves where a table, rows or cache, had l. *)
After(c, l) ==
  CASE c.kind = "insert" -> c.link
    [] c.kind = "update" -> IF l = None THEN None ELSE Edited(l, c.change)
    [] c.kind = "delete" -> None

(* Mutant of IndexAfter: a deletion leaves the token. *)
IndexKeepsToken(c) ==
  IF c.kind = "insert" THEN [tokenIndex EXCEPT ![c.link.token] = c.uuid]
  ELSE tokenIndex

(* The subscription index after the call: it is keyed by the token the     *)
(* cached link had, and no caller changes a link's token.                  *)
IndexAfter(c) ==
  CASE c.kind = "insert" -> [tokenIndex EXCEPT ![c.link.token] = c.uuid]
    [] c.kind = "update" -> tokenIndex
    [] c.kind = "delete" -> IF cache[c.uuid] = None THEN tokenIndex
                            ELSE [tokenIndex EXCEPT
                                    ![cache[c.uuid].token] = None]

(* Charges still buffered for a deleted link go with it. *)
PendingAfter(c) ==
  IF c.kind = "delete" THEN [pending EXCEPT ![c.uuid] = 0] ELSE pending

InFlight(u) == batch["maintenance"][u] + batch["shutdown"][u]
Owed(u)     == pending[u] + InFlight(u)
Busy(f)     == batch[f] # Nothing

(* The cache entry of u as it will be once the call under way has returned. *)
Shown(u) ==
  IF stage = "committed" /\ Call.uuid = u THEN After(Call, cache[u])
  ELSE cache[u]

UnusedTokens == {t \in Tokens : \A u \in Uuids : rows[u] = None \/ rows[u].token # t}

(* The primary key and the unique index on sub_token. *)
Conflicts(c) ==
  /\ c.kind = "insert"
  /\ rows[c.uuid] # None \/ c.link.token \notin UnusedTokens

-----------------------------------------------------------------------------
(* Start of the process: init_db loads the cache from the file.            *)

TokensUnique(table) ==
  \A u, v \in Uuids : /\ table[u] # None
                      /\ table[v] # None
                      /\ table[u].token = table[v].token
                      => u = v

Loaded(table) ==
  [t \in Tokens |->
     IF \E u \in Uuids : table[u] # None /\ table[u].token = t
     THEN CHOOSE u \in Uuids : table[u] # None /\ table[u].token = t
     ELSE None]

Init ==
  /\ rows = [u \in Uuids |-> None]
  /\ cache = rows
  /\ tokenIndex = Loaded(rows)
  /\ pending = Nothing
  /\ batch = [f \in Flushers |-> Nothing]
  /\ phase = "up"
  /\ script = <<>>
  /\ stage = "start"
  /\ served = {}
  /\ drift = Nothing
  /\ cleared = {}

(* A kill and the start of the next process: only the file survives. *)
Restart ==
  /\ cache' = rows
  /\ tokenIndex' = Loaded(rows)
  /\ pending' = Nothing
  /\ batch' = [f \in Flushers |-> Nothing]
  /\ phase' = "up"
  /\ script' = <<>>
  /\ stage' = "start"
  /\ served' = {}
  /\ drift' = Nothing
  /\ cleared' = {}
  /\ UNCHANGED rows

(* An orderly exit waits for the worker thread that runs a flush. *)
Exit ==
  /\ phase = "stopping"
  /\ \A f \in Flushers : ~ Busy(f)
  /\ script = <<>>
  /\ Restart

-----------------------------------------------------------------------------
(* The handlers.  Each runs when the loop is free and makes its calls      *)
(* without giving the loop away.                                           *)

LoopFree == script = <<>> /\ ~ Busy("shutdown")
Serving  == phase = "up" /\ LoopFree

Run(calls) ==
  /\ script' = calls
  /\ stage' = "start"
  /\ UNCHANGED <<rows, cache, tokenIndex, pending, batch, phase, served,
                 history>>

FreshLink(limit, t) == [active |-> TRUE, limit |-> limit, used |-> 0, token |-> t]

(* Creating a link, from the panel, with a random label or by the bot. *)
Create(u, limit) ==
  /\ Serving
  /\ \E t \in UnusedTokens : Run(<<InsertCall(u, FreshLink(limit, t))>>)

(* Run at every websocket connection, before it is accepted. *)
EnsureDefault ==
  /\ Serving
  /\ \A u \in Uuids : cache[u] = None
  /\ \E t \in UnusedTokens : Run(<<InsertCall(DefaultUuid, FreshLink(0, t))>>)

Patch(u, ch) ==
  /\ Serving
  /\ cache[u] # None
  /\ Run(<<UpdateCall(u, ch)>>)

NewLimit(l, add) == IF l.limit + add < 0 THEN 0 ELSE l.limit + add

TopUp(u, add) ==
  /\ Serving
  /\ cache[u] # None
  /\ NewLimit(cache[u], add) \in Limits
  /\ Run(<<UpdateCall(u, [active |-> TRUE, limit |-> NewLimit(cache[u], add),
                          reset |-> FALSE])>>)

DeleteLink(u) ==
  /\ Serving
  /\ Run(<<DeleteCall(u)>>)

Switch(on) == [active |-> on, limit |-> None, reset |-> FALSE]
Zero       == [active |-> None, limit |-> None, reset |-> TRUE]

BulkCall(action, u) ==
  CASE action = "enable"  -> UpdateCall(u, Switch(TRUE))
    [] action = "disable" -> UpdateCall(u, Switch(FALSE))
    [] action = "reset"   -> UpdateCall(u, Zero)
    [] action = "delete"  -> DeleteCall(u)

Bulk(action, uids) ==
  /\ Serving
  /\ Run([i \in 1..Len(uids) |-> BulkCall(action, uids[i])])

CachedUuids == {u \in Uuids : cache[u] # None}

(* "replace" deletes every cached link first; "merge" deletes none. *)
Restore(mode, backup) ==
  /\ Serving
  /\ \E old \in SetToSeqs(IF mode = "replace" THEN CachedUuids ELSE {}) :
       Run([i \in 1..Len(old) |-> DeleteCall(old[i])]
           \o [i \in 1..Len(backup) |-> RestoreCall(backup[i])])

-----------------------------------------------------------------------------
(* The steps of the call at the head of the script.                        *)

(* A reset first drops the buffered bytes of the link, before its SQL. *)
CallPop ==
  /\ script # <<>>
  /\ stage = "start"
  /\ Resets(Call)
  /\ pending' = [pending EXCEPT ![Call.uuid] = 0]
  /\ drift' = [drift EXCEPT ![Call.uuid] =
                 IF rows[Call.uuid] = None THEN 0 ELSE @ - pending[Call.uuid]]
  /\ stage' = "popped"
  /\ UNCHANGED <<rows, cache, tokenIndex, batch, phase, script, served,
                 cleared>>

AtSql ==
  /\ script # <<>>
  /\ \/ stage = "popped"
     \/ stage = "start" /\ ~ Resets(Call)

(* A new or reset counter starts at a known value; bytes that are still    *)
(* buffered or in a flusher's hands will be added to it.                   *)
DriftAfter(c) ==
  [drift EXCEPT ![c.uuid] =
     IF After(c, rows[c.uuid]) = None THEN 0
     ELSE IF c.kind = "insert" \/ Resets(c) THEN Owed(c.uuid)
     ELSE @]

ClearedAfter(c) ==
  IF c.kind = "update"
  THEN IF Resets(c) THEN cleared \cup {c.uuid} ELSE cleared
  ELSE cleared \ {c.uuid}

(* Mutant of CallSql: the statement of a reset leaves used_bytes alone. *)
CallSqlKeepsUsage ==
  /\ AtSql
  /\ ~ Conflicts(Call)
  /\ rows' = [rows EXCEPT ![Call.uuid] =
                IF @ # None /\ Resets(Call)
                THEN [After(Call, @) EXCEPT !.used = rows[Call.uuid].used]
                ELSE After(Call, @)]
  /\ drift' = DriftAfter(Call)
  /\ cleared' = ClearedAfter(Call)
  /\ stage' = "committed"
  /\ UNCHANGED <<cache, tokenIndex, pending, batch, phase, script, served>>

CallSql ==
  /\ AtSql
  /\ ~ Conflicts(Call)
  /\ rows' = [rows EXCEPT ![Call.uuid] = After(Call, @)]
  /\ drift' = DriftAfter(Call)
  /\ cleared' = ClearedAfter(Call)
  /\ stage' = "committed"
  /\ UNCHANGED <<cache, tokenIndex, pending, batch, phase, script, served>>

(* Mutant of CallFails: the cache was changed before the statement ran. *)
CallFailsLate ==
  /\ AtSql
  /\ Conflicts(Call) \/ DbErrors
  /\ cache' = [cache EXCEPT ![Call.uuid] = After(Call, @)]
  /\ script' = <<>>
  /\ stage' = "start"
  /\ UNCHANGED <<rows, tokenIndex, pending, batch, phase, served, history>>

(* The exception leaves the call and the handler: the rest of the script   *)
(* is never run, and nothing already done is undone.                       *)
CallFails ==
  /\ AtSql
  /\ Conflicts(Call) \/ DbErrors
  /\ script' = <<>>
  /\ stage' = "start"
  /\ UNCHANGED <<rows, cache, tokenIndex, pending, batch, phase, served,
                 history>>

CallCache ==
  /\ script # <<>>
  /\ stage = "committed"
  /\ cache' = [cache EXCEPT ![Call.uuid] = After(Call, @)]
  /\ tokenIndex' = IndexAfter(Call)
  /\ pending' = PendingAfter(Call)
  /\ script' = Tail(script)
  /\ stage' = "start"
  /\ UNCHANGED <<rows, batch, phase, served, history>>

-----------------------------------------------------------------------------
(* Counting traffic and flushing it.                                       *)

Plus(l, n) == [l EXCEPT !.used = @ + n]

(* The end of check_quota_fast. *)
Allows(l, n) == l.limit = 0 \/ l.used + n <= l.limit

(* A connection is admitted: the link is there, switched on and within its *)
(* quota.                                                                  *)
Serve(u) ==
  /\ LoopFree
  /\ cache[u] # None
  /\ cache[u].active
  /\ Allows(cache[u], 0)
  /\ served' = served \cup {u}
  /\ UNCHANGED <<rows, cache, tokenIndex, pending, batch, phase, script, stage,
                 history>>

(* A connection counts what its wait for the rate limiter was for.  Its    *)
(* check came before the wait, so the link may be cut or deleted by now,   *)
(* and any number of connections may be this far at once.                  *)
Charge(u, n) ==
  /\ LoopFree
  /\ u \in served
  /\ cache[u] # None => cache[u].used + n <= MaxUsed
  /\ Owed(u) + n <= MaxUsed
  /\ cache' = [cache EXCEPT ![u] = IF @ = None THEN None
                                   ELSE Plus(@, n)]
  /\ pending' = [pending EXCEPT ![u] = @ + n]
  /\ UNCHANGED <<rows, tokenIndex, batch, phase, script, stage, served,
                 history>>

(* Mutant of Take: the buffer is copied and not emptied. *)
TakeCopy(f) ==
  /\ batch' = [batch EXCEPT ![f] = pending]
  /\ UNCHANGED pending

Take(f) ==
  /\ batch' = [batch EXCEPT ![f] = pending]
  /\ pending' = Nothing

(* The worker thread of the maintenance task, every two seconds. *)
FlushTake ==
  /\ ~ Busy("maintenance")
  /\ pending # Nothing
  /\ Take("maintenance")
  /\ UNCHANGED <<rows, cache, tokenIndex, phase, script, stage, served,
                 history>>

(* The shutdown event flushes on the loop itself. *)
Shutdown ==
  /\ Serving
  /\ phase' = "stopping"
  /\ Take("shutdown")
  /\ UNCHANGED <<rows, cache, tokenIndex, script, stage, served, history>>

(* One UPDATE per uuid, in one transaction; it misses a deleted row. *)
FlushCommit(f) ==
  /\ Busy(f)
  /\ rows' = [u \in Uuids |-> IF rows[u] = None THEN None
                              ELSE Plus(rows[u], batch[f][u])]
  /\ batch' = [batch EXCEPT ![f] = Nothing]
  /\ UNCHANGED <<cache, tokenIndex, pending, phase, script, stage, served,
                 history>>

(* Mutant of FlushFails: the bytes of a failed flush are dropped. *)
FlushDrops(f) ==
  /\ Busy(f)
  /\ DbErrors
  /\ batch' = [batch EXCEPT ![f] = Nothing]
  /\ UNCHANGED <<rows, cache, tokenIndex, pending, phase, script, stage,
                 served, history>>

(* The bytes go back into the buffer, whatever happened to it meanwhile. *)
FlushFails(f) ==
  /\ Busy(f)
  /\ DbErrors
  /\ pending' = [u \in Uuids |-> pending[u] + batch[f][u]]
  /\ batch' = [batch EXCEPT ![f] = Nothing]
  /\ UNCHANGED <<rows, cache, tokenIndex, phase, script, stage, served,
                 history>>

-----------------------------------------------------------------------------

Handler ==
  \/ \E u \in Uuids :
       \/ \E limit \in Limits : Create(u, limit)
       \/ \E ch \in Patches : Patch(u, ch)
       \/ \E add \in TopUps : TopUp(u, add)
       \/ DeleteLink(u)
  \/ EnsureDefault
  \/ \E action \in {"enable", "disable", "reset", "delete"}, uids \in Selections :
       Bulk(action, uids)
  \/ \E mode \in {"merge", "replace"}, backup \in Backups : Restore(mode, backup)

CallStep == CallPop \/ CallSql \/ CallFails \/ CallCache

Flush ==
  \/ FlushTake
  \/ Shutdown
  \/ \E f \in Flushers : FlushCommit(f) \/ FlushFails(f)

Next ==
  \/ Handler
  \/ CallStep
  \/ \E u \in Uuids : Serve(u) \/ \E n \in ChargeSizes : Charge(u, n)
  \/ Flush
  \/ Exit
  \/ Restart

Spec == Init /\ [][Next]_vars

(* A call under way returns, the maintenance task comes round again, and a *)
(* file that can be written now and then is written in the end.            *)
Fairness ==
  /\ WF_vars(CallStep)
  /\ WF_vars(FlushTake)
  /\ SF_vars(FlushCommit("maintenance"))
  /\ WF_vars(FlushCommit("shutdown") \/ FlushFails("shutdown"))
  /\ WF_vars(Exit)

FairSpec == Spec /\ Fairness

-----------------------------------------------------------------------------
(* Properties.                                                             *)

TypeOK ==
  /\ rows \in [Uuids -> Links \cup {None}]
  /\ cache \in [Uuids -> Links \cup {None}]
  /\ tokenIndex \in [Tokens -> Uuids \cup {None}]
  /\ pending \in [Uuids -> Nat]
  /\ batch \in [Flushers -> [Uuids -> Nat]]
  /\ phase \in {"up", "stopping"}
  /\ script \in Seq(Calls)
  /\ stage \in {"start", "popped", "committed"}
  /\ drift \in [Uuids -> Int]
  /\ served \subseteq Uuids /\ cleared \subseteq Uuids

(* Two entries that agree on everything but the usage counter. *)
Agree(l, r) ==
  IF l = None \/ r = None THEN l = r
  ELSE /\ l.active = r.active
       /\ l.limit = r.limit
       /\ l.token = r.token

(* The cache and the file never disagree on which links exist, nor on any  *)
(* column other than used_bytes: not after a statement that failed, not    *)
(* between two calls of a bulk action or a restore, not while the flusher  *)
(* writes.  Only the link of the call under way may be behind, and then it *)
(* is behind by exactly that call (db.py:226-526).                         *)
CacheMatchesRows ==
  \A u \in Uuids : Agree(Shown(u), rows[u])

(* A call past its first stage is still at the head of the script, and an  *)
(* insert that committed found no link in the cache.                       *)
StageOK ==
  /\ stage # "start" => script # <<>>
  /\ stage = "committed" /\ Call.kind = "insert" => cache[Call.uuid] = None

(* A subscription token finds a link exactly when the cache holds a link   *)
(* with that token, so no token outlives its link and none is shared       *)
(* (db.py:281-289, 303-309, 515-526).                                      *)
TokenIndexExact ==
  \A t \in Tokens, u \in Uuids :
    tokenIndex[t] = u <=> cache[u] # None /\ cache[u].token = t

(* No byte is lost or counted twice: what a row holds, what is buffered    *)
(* and what a flusher has in hand add up to the usage the gateway enforces *)
(* the quota with, plus the drift that a reset, a re-created link or a     *)
(* failed reset leaves behind (db.py:336-371, 410-412).                    *)
LedgerExact ==
  \A u \in Uuids :
    rows[u] # None => rows[u].used + Owed(u) = Shown(u).used + drift[u]

StoreInv ==
  /\ TypeOK
  /\ StageOK
  /\ TokensUnique(rows)
  /\ CacheMatchesRows
  /\ TokenIndexExact
  /\ LedgerExact

(* The three copies implement one table on which every operation is atomic *)
(* (AtomicStore): an operation takes effect when its statement commits,    *)
(* also for a restart that comes before the cache has caught up.           *)
Table == [u \in Uuids |-> Shown(u)]
Saved == [u \in Uuids |-> IF rows[u] = None THEN 0 ELSE rows[u].used]

Atomic == INSTANCE AtomicStore WITH table <- Table, saved <- Saved

ImplementsAtomicStore == Atomic!Spec

(* A counter that reached k gets to the file, unless the link is removed,  *)
(* its usage falls back (a reset or a restart), or a reset dropped the     *)
(* buffered bytes and then failed; failing flushes are retried             *)
(* (main.py:85-106, db.py:348-371).                                        *)
UsageBecomesDurable ==
  \A u \in Uuids : \A k \in 1..MaxUsed :
    (cache[u] # None /\ cache[u].used >= k)
      ~> \/ cache[u] = None
         \/ cache[u].used < k
         \/ rows[u] = None
         \/ rows[u].used >= k
         \/ drift[u] < 0

(* What README.md:58 calls resetting a client's usage would be: once a     *)
(* reset has returned and nothing is buffered or in flight, the file holds *)
(* no more than was counted since, so a restart does not bring the old     *)
(* usage back.                                                             *)
ResetIsDurable ==
  \A u \in cleared :
    script = <<>> /\ Owed(u) = 0 /\ cache[u] # None
      => rows[u].used <= cache[u].used

(* What README.md:58 says of the quick top-up, that it adds volume: the    *)
(* traffic a switched-on link had left is still allowed afterwards.        *)
TopUpAddsVolume ==
  [][\A u \in Uuids, add \in TopUps : \A n \in 0..MaxUsed :
       TopUp(u, add) /\ add > 0 /\ Allows(cache[u], n)
         => Allows(After(Head(script'), cache[u]), n)]_vars
=============================================================================
