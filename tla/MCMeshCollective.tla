--------------------------- MODULE MCMeshCollective ---------------------------
(***************************************************************************)
(* Values of the constants of MeshCollective for TLC.                      *)
(***************************************************************************)
EXTENDS MeshCollectiveProps

AllReduce == [kind |-> "allreduce", root |-> 0]
AllGather == [kind |-> "allgather", root |-> 0]
Broadcast(k) == [kind |-> "broadcast", root |-> k]

AllOps     == Op
TwoRankOps == {AllReduce, Broadcast(1)}
===============================================================================
