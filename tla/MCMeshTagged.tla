----------------------------- MODULE MCMeshTagged -----------------------------
(***************************************************************************)
(* Values of the constants of MeshTagged for TLC.                          *)
(***************************************************************************)
EXTENDS MeshTaggedProps

AllReduce == [kind |-> "allreduce", root |-> 0]
Broadcast(k) == [kind |-> "broadcast", root |-> k]

(* The id is a number below the round of the second ordered collective.    *)
ZeroId == {0}

(* Ordered collectives of all kinds alone; and next to two broadcasts, an  *)
(* id used twice.                                                          *)
OneId ==
  {<<p, [t \in Tag |-> <<>>]>> : p \in [Round -> Ops]}
    \cup {<<[r \in Round |-> Broadcast(r + 1)], [t \in Tag |-> <<AllReduce, AllReduce>>]>>}

(* In the first use the polls of rank 0 may run out, and then the others'. *)
FirstOfRankZero == {<<0, 0>>}

AllOps == Op
===============================================================================
