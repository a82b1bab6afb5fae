----------------------------- MODULE AtomicStore -----------------------------
(***************************************************************************)
(* What the link store of src/db.py promises its callers: ONE table of     *)
(* links on which every operation takes effect at once, although the code  *)
(* keeps three copies of a link's usage (the row, the cached dict and the  *)
(* buffered bytes) and changes them in separate steps.                     *)
(*                                                                         *)
(* table is the store as the gateway sees it; saved is the usage a restart *)
(* of the process comes back with.  A restart may lose usage that was not  *)
(* yet saved, and nothing else: it never undoes or invents a link, a       *)
(* limit, a switch or a subscription token.                                *)
(***************************************************************************)
EXTENDS Naturals

CONSTANTS
  Uuids,     \* the identifiers a link may have
  Tokens,    \* the subscription tokens
  Limits,    \* the quotas, 0 meaning unlimited
  None       \* no link

VARIABLES
  table,     \* [Uuids -> Links or None]
  saved      \* [Uuids -> Nat]

vars == <<table, saved>>

Links == [active : BOOLEAN, limit : Limits, used : Nat, token : Tokens]

Present(u) == table[u] # None

Becomes(u, entry, usage) ==
  /\ table' = [table EXCEPT ![u] = entry]
  /\ saved' = [saved EXCEPT ![u] = usage]

Init ==
  /\ table \in [Uuids -> Links \cup {None}]
  /\ saved = [u \in Uuids |-> IF Present(u) THEN table[u].used ELSE 0]

(* A new link, under an identifier and a token that no link has. *)
Insert(u, l) ==
  /\ ~ Present(u)
  /\ \A v \in Uuids : Present(v) => table[v].token # l.token
  /\ Becomes(u, l, l.used)

(* Switch, quota or both; the usage, counted and saved, is untouched. *)
Edit(u, active, limit) ==
  /\ Present(u)
  /\ Becomes(u, [table[u] EXCEPT !.active = active, !.limit = limit], saved[u])

(* The same with the usage counted and saved set back to zero. *)
StartOver(u, active, limit) ==
  /\ Present(u)
  /\ Becomes(u, [table[u] EXCEPT !.active = active, !.limit = limit,
                                 !.used = 0], 0)

Remove(u) ==
  /\ Present(u)
  /\ Becomes(u, None, 0)

(* Traffic is counted at once and saved later. *)
Charge(u, n) ==
  /\ Present(u)
  /\ n > 0
  /\ table' = [table EXCEPT ![u].used = @ + n]
  /\ UNCHANGED saved

Save(usage) ==
  /\ \A u \in Uuids : /\ usage[u] >= saved[u]
                      /\ ~ Present(u) => usage[u] = saved[u]
  /\ saved' = usage
  /\ UNCHANGED table

Restart ==
  /\ table' = [u \in Uuids |-> IF Present(u)
                               THEN [table[u] EXCEPT !.used = saved[u]]
                               ELSE None]
  /\ UNCHANGED saved

(* The parameters are read off the next state, so that TLC need not range  *)
(* over the naturals.                                                      *)
Next ==
  \/ \E u \in Uuids :
       \/ /\ table'[u] \in Links
          /\ \/ Insert(u, table'[u])
             \/ Edit(u, table'[u].active, table'[u].limit)
             \/ StartOver(u, table'[u].active, table'[u].limit)
             \/ Present(u) /\ Charge(u, table'[u].used - table[u].used)
       \/ Remove(u)
  \/ saved' \in [Uuids -> Nat] /\ Save(saved')
  \/ Restart

Spec == Init /\ [][Next]_vars
==============================================================================
