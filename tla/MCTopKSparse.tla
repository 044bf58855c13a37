----------------------------- MODULE MCTopKSparse -----------------------------
(***************************************************************************)
(* Values of the constants of TopKSparse for TLC.  The halves are 0, 2, 4, *)
(* 6, 8, 12 and their negatives; 14, halfway to 16, is infinite.           *)
(***************************************************************************)
EXTENDS TopKSparseProps

Mixed == {-11, 0, 3, 14}

(* Two of these add up to a half, so ties are all that can go wrong.       *)
Even == {-4, 0, 2}
=============================================================================
