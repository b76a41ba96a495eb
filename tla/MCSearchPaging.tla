--------------------------- MODULE MCSearchPaging ---------------------------
(* Instances of SearchPaging for TLC. *)
EXTENDS SearchPaging

Hit(rank, boost, keep) ==
  [hit |-> TRUE, counted |-> TRUE, rank |-> rank, boost |-> boost,
   keep |-> keep]

(* Two ranks, so that there are ties; a boosted, a filtered and no hit; a  *)
(* hit that is not counted.                                                *)
MCChunk == {Hit(1, 0, TRUE), Hit(2, 2, TRUE), Hit(1, 0, FALSE),
            [Hit(2, 0, TRUE) EXCEPT !.counted = FALSE],
            [Hit(1, 0, TRUE) EXCEPT !.hit = FALSE]}
=============================================================================
