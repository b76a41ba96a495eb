--------------------------- MODULE StableSorting ---------------------------
(* slice::sort_by, which is stable. *)
EXTENDS Integers, SequencesExt

(* Items with their keys and places: the smallest key first, and those of  *)
(* one key by their places.                                                *)
InKeyOrder(rows) ==
  LET before(r) == {q \in rows : q[1] < r[1] \/ (q[1] = r[1] /\ q[2] < r[2])}
  IN  [k \in 1 .. Cardinality(rows) |-> (CHOOSE r \in rows : Cardinality(before(r)) = k - 1)[3]]

(* The items by their keys, the smallest first. *)
StableSort(items, key) == InKeyOrder({<<key[k], k, items[k]>> : k \in DOMAIN items})
=============================================================================
