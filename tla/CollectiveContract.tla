------------------------- MODULE CollectiveContract -------------------------
(***************************************************************************)
(* What the ordered mesh collectives promise their callers, with no        *)
(* registry, no names and no polling: each rank enters the operations of   *)
(* the plan in order, and an operation succeeds at a rank only when every  *)
(* rank has entered it, with exactly the contributions of that operation.  *)
(* MeshCollective is shown to implement this module.                       *)
(***************************************************************************)
EXTENDS Collectives

VARIABLES plan,     \* the operation of each round, the same at every rank
          begun,    \* how many rounds each rank has begun
          open,     \* whether the rank is inside the call of its last round
          joined,   \* the <<rank, round>> pairs whose arguments were accepted
          last      \* the last return of each rank

contractVars == <<plan, begun, open, joined, last>>

Init ==
  /\ plan \in [Round -> Ops]
  /\ begun = [i \in Rank |-> 0]
  /\ open = [i \in Rank |-> FALSE]
  /\ joined = {}
  /\ last = [i \in Rank |-> NoReturn]

Enter(i) ==
  /\ ~open[i]
  /\ begun[i] < MaxRound
  /\ open' = [open EXCEPT ![i] = TRUE]
  /\ joined' = joined \cup {<<i, begun[i]>>}
  /\ begun' = [begun EXCEPT ![i] = @ + 1]
  /\ UNCHANGED <<plan, last>>

ReturnOk(i) ==
  LET r == begun[i] - 1 IN
  /\ open[i]
  /\ Rank \X {r} \subseteq joined
  /\ last' = [last EXCEPT ![i] = Ok(r, Inputs(plan[r], r))]
  /\ open' = [open EXCEPT ![i] = FALSE]
  /\ UNCHANGED <<plan, begun, joined>>

(* A failed call promises nothing about the buffer it was given.           *)
ReturnError(i) ==
  /\ open[i]
  /\ last' = [last EXCEPT ![i] = Error(begun[i] - 1)]
  /\ open' = [open EXCEPT ![i] = FALSE]
  /\ UNCHANGED <<plan, begun, joined>>

(* Rejected arguments use the round up without joining it.                 *)
Reject(i) ==
  /\ ~open[i]
  /\ begun[i] < MaxRound
  /\ last' = [last EXCEPT ![i] = Error(begun[i])]
  /\ begun' = [begun EXCEPT ![i] = @ + 1]
  /\ UNCHANGED <<plan, open, joined>>

(* A rank whose process dies leaves its call without returning.            *)
Abandon(i) ==
  /\ open[i]
  /\ open' = [open EXCEPT ![i] = FALSE]
  /\ UNCHANGED <<plan, begun, joined, last>>

Next ==
  \E i \in Rank :
    Enter(i) \/ ReturnOk(i) \/ ReturnError(i) \/ Reject(i) \/ Abandon(i)

Spec == Init /\ [][Next]_contractVars
=============================================================================
