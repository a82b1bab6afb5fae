------------------------------- MODULE Tables -------------------------------
(***************************************************************************)
(* Tables of SQLite and dictionaries of Python as functions whose domain   *)
(* is the set of keys that are there.                                      *)
(***************************************************************************)

NoRows == [x \in {} |-> {}]

Insert(t, k, row) == [x \in DOMAIN t \cup {k} |-> IF x = k THEN row ELSE t[x]]

Remove(t, ks) == [x \in DOMAIN t \ ks |-> t[x]]

(* The fields of a body replace those of a row, the others stay. *)
Change(row, body) ==
  [f \in DOMAIN row |-> IF f \in DOMAIN body THEN body[f] ELSE row[f]]

(* A table with rows of a set under keys of a set. *)
IsTable(t, Keys, Rows) ==
  DOMAIN t \subseteq Keys /\ \A k \in DOMAIN t : t[k] \in Rows
=============================================================================
