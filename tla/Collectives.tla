----------------------------- MODULE Collectives -----------------------------
(***************************************************************************)
(* The vocabulary of the collectives of tensorcore: ranks, rounds,         *)
(* operations, and the contributions an operation's result is made of.     *)
(* A contribution <<j, r>> is the buffer rank j handed to its r-th call;   *)
(* a buffer's contents are the set of contributions that went into it.     *)
(***************************************************************************)
EXTENDS Naturals

CONSTANTS NPeers,     \* n_peers of the group
          MaxRound,   \* bound: number of collectives each rank may call
          Ops         \* the operations the application calls

Rank  == 0 .. NPeers - 1
Round == 0 .. MaxRound - 1

Op == [kind : {"allreduce", "allgather"}, root : {0}]
        \cup [kind : {"broadcast"}, root : Rank]

ASSUME CollectivesAssumption ==
  /\ NPeers \in Nat \ {0}
  /\ MaxRound \in Nat
  /\ Ops \subseteq Op

Inputs(op, r) ==
  IF op.kind = "broadcast" THEN {<<op.root, r>>} ELSE Rank \X {r}

(* The return of a call: which round it was, its status, and on success    *)
(* what the caller finds in its buffer.                                    *)
ReturnRecord ==
  [round : Nat, status : {"none", "ok", "error"}, val : SUBSET (Rank \X Round)]
NoReturn == [round |-> 0, status |-> "none", val |-> {}]
Ok(r, val) == [round |-> r, status |-> "ok", val |-> val]
Error(r) == [round |-> r, status |-> "error", val |-> {}]
=============================================================================
