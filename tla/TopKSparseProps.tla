---------------------------- MODULE TopKSparseProps ----------------------------
(***************************************************************************)
(* What top-k compression with error feedback is supposed to guarantee.    *)
(***************************************************************************)
EXTENDS TopKSparse

(* The state has the shape the code gives it.                              *)
TypeOK ==
  /\ transport \in Transports
  /\ phase \in {"idle", "masked", "packed", "infinite"}
  /\ err \in Vector
  /\ round \in [delta : Vector, err : Vector]
  /\ \E sent \in SUBSET Index : payload \in [sent -> Int]
  /\ rounds \in Nat
  /\ inflight \in Vector
  /\ owed \in Vector
  /\ slack \in [Index -> Nat]
  /\ clean \in BOOLEAN

(* "keep top-K magnitudes; error-feedback retains the residual": at any    *)
(* time, what successful rounds took up and did not deliver is in          *)
(* error_feedback, all of it and nothing else, also when rounds failed.    *)
Conserved == owed = err

(* The same, when the masked delta travels dense.                          *)
ConservedDense == transport = "dense" => Conserved

(* On either transport, as long as in every round exactly K magnitudes     *)
(* reached the threshold, and no infinite value was delivered: what error  *)
(* feedback lacks of an element is at most half a spacing for each of its  *)
(* values that half precision rounded, nothing if it represents them all.  *)
ConservedToRounding ==
  clean /\ phase # "infinite" =>
    \A i \in Index : 2 * Abs(owed[i] - err[i]) <= slack[i]

(* A packed payload is as large as the buffer made for it, or smaller.     *)
PayloadFits == Cardinality(DOMAIN payload) <= K

(* What is packed is at least as large, before it is rounded, as all that  *)
(* is held back.                                                           *)
LargestDelivered ==
  phase = "packed" =>
    \A i \in DOMAIN payload : \A j \in Index :
      Abs(round.delta[i]) >= Abs(round.err[j])
-----------------------------------------------------------------------------
(* A round under way was masked out of what it set out with and the old    *)
(* residual, and its payload is its masked delta, packed.                  *)
RoundMade ==
  /\ phase \in {"masked", "packed"} =>
       LET v == Plus(inflight, err) IN
       /\ round = Mask(v, err)
       /\ clean => Cardinality(Kept(v)) = K
  /\ payload = IF phase = "packed" THEN Pack(round.delta) ELSE NoPayload
  /\ phase \in {"packed", "infinite"} => transport = "sparse"

(* The inductive invariant of the compressed exchange.                     *)
TopKInv == TypeOK /\ RoundMade /\ ConservedDense /\ ConservedToRounding
=============================================================================
