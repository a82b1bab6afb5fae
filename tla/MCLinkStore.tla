----------------------------- MODULE MCLinkStore -----------------------------
(***************************************************************************)
(* Instances of LinkStore for TLC: the identifiers, the selections of a    *)
(* bulk action and the backup files.                                       *)
(***************************************************************************)
EXTENDS LinkStore

CONSTANTS u1, u2, t1, t2

TwoUuids  == {u1, u2}
OneUuid   == {u1}
TwoTokens == {t1, t2}
OneToken  == {t1}

Entry(u, limit, used, t) ==
  [uuid |-> u, link |-> [active |-> FALSE, limit |-> limit, used |-> used,
                         token |-> t]]

BothUuids == {<<u1, u2>>}
JustOne   == {<<u1>>}

(* The second entry of this backup claims the token of the first.  In a    *)
(* merge into a store that has u1 under another token, it may also clash   *)
(* with a link that is there.                                              *)
ClashingBackup == {<<Entry(u1, 1, 1, t1), Entry(u2, 1, 0, t1)>>}

(* A PATCH that sets a quota, one that switches the link off and zeroes its *)
(* usage, and one that only zeroes it.                                     *)
SomePatches ==
  {[active |-> None, limit |-> 1, reset |-> FALSE],
   [active |-> FALSE, limit |-> None, reset |-> TRUE],
   [active |-> None, limit |-> None, reset |-> TRUE]}

UpAndDown == {1, -1}

NoBackups == {}
==============================================================================
