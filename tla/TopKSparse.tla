------------------------------ MODULE TopKSparse ------------------------------
(***************************************************************************)
(* Top-k compression of a parameter's outer delta (compute_delta_topk in   *)
(* lib/distributed/diloco.cpp) and the sparse payload it travels in on     *)
(* Gloo (lib/distributed/sparse_compress.cpp), over the rounds of one      *)
(* rank.  What a round does not send is to stay in error_feedback.         *)
(*                                                                         *)
(* Values are whole numbers, in a unit fine enough for all of them.  On    *)
(* the wire they are rounded to half precision: a half is a significand of *)
(* at most MaxSig times one of the Spacings, the smallest that reaches.    *)
(* In the code MaxSig is 2^11 - 1 and Spacings are 2^-24, 2^-23 .. 2^5.    *)
(***************************************************************************)
EXTENDS Integers, FiniteSets

CONSTANTS N,                 \* num_elements
          KeepNum, KeepDen,  \* keep_fraction = KeepNum / KeepDen
          Values,            \* what training may add to an element in a round
          MaxSig,            \* the largest significand of a half
          Spacings,          \* the distances between neighbouring halves
          Transports,        \* the transports the rank may run on
          MaxRounds          \* bound: outer rounds

ASSUME TopKAssumption ==
  /\ N \in Nat \ {0}
  /\ KeepNum \in Nat /\ KeepDen \in Nat \ {0} /\ KeepNum <= KeepDen
  /\ Values \subseteq Int
  /\ Transports \subseteq {"dense", "sparse"}
  /\ MaxRounds \in Nat

ASSUME HalfAssumption ==
  /\ MaxSig \in Nat
  /\ Spacings \subseteq Nat \ {0}
  /\ \E c \in Spacings : \A s \in Spacings : s <= c

Index == 0 .. N - 1
Vector == [Index -> Int]
Zeros == [i \in Index |-> 0]

VARIABLES
  transport, \* "sparse": the delta is sent packed (Gloo)
  phase,    \* "idle", or "masked"/"packed": inside compute_outer_round;
            \*   "infinite" once a value beyond all halves was delivered
  err,      \* error_feedback of the registered parameter
  round,    \* the round's private error_feedback and masked delta
  payload,  \* the packed payload: value of each index in it
  rounds,   \* rounds begun
  (* history, for the properties only *)
  inflight, \* the delta the round under way set out with
  owed,     \* the deltas of the rounds that succeeded, minus what they delivered
  slack,    \* the spacings at the delivered values that are not halves
  clean     \* every round so far kept exactly K elements

vars ==
  <<transport, phase, err, round, payload, rounds, inflight, owed, slack, clean>>

-----------------------------------------------------------------------------
Abs(x) == IF x < 0 THEN -x ELSE x
Plus(v, w) == [i \in Index |-> v[i] + w[i]]
Minus(v, w) == [i \in Index |-> v[i] - w[i]]

(* How many elements are to be kept.                                       *)
K == LET k == (N * KeepNum) \div KeepDen IN IF k = 0 THEN 1 ELSE k

(* std::nth_element: the K-th largest magnitude of v.                      *)
Threshold(v) ==
  LET AtLeast(t) == {i \in Index : Abs(v[i]) >= t}
      Above(t)   == {i \in Index : Abs(v[i]) > t}
  IN CHOOSE t \in {Abs(v[i]) : i \in Index} :
       Cardinality(Above(t)) < K /\ Cardinality(AtLeast(t)) >= K

Kept(v) == {i \in Index : Abs(v[i]) >= Threshold(v)}

(* Mutant: the residual of an element that is sent is not cleared.         *)
MaskStale(v, old) ==
  [delta |-> [i \in Index |-> IF i \in Kept(v) THEN v[i] ELSE 0],
   err   |-> [i \in Index |-> IF i \in Kept(v) THEN old[i] ELSE v[i]]]

(* compute_delta_topk on v, the delta plus the residual old.               *)
Mask(v, old) ==
  [delta |-> [i \in Index |-> IF i \in Kept(v) THEN v[i] ELSE 0],
   err   |-> [i \in Index |-> IF i \in Kept(v) THEN 0 ELSE v[i]]]

(* tc_diloco_sparse_pack looks for a threshold again, in the masked delta, *)
(* and stops when n_kept = K entries have been written.                    *)
PackThreshold(v) == IF K >= N THEN 0 ELSE Threshold(v)

(* Mutant: the threshold alone decides what is packed.                     *)
PackAll(v) == {i \in Index : Abs(v[i]) >= PackThreshold(v)}

(* Mutant: an entry is packed only if it exceeds the threshold.            *)
PackAbove(v) == {i \in Index : Abs(v[i]) > PackThreshold(v)}

(* Mutant: the first K elements are packed, whatever their magnitude.      *)
PackFirst(v) == {i \in Index : i < K}

PackedIndices(v) ==
  LET candidates == {i \in Index : Abs(v[i]) >= PackThreshold(v)}
  IN {i \in candidates : Cardinality({j \in candidates : j < i}) < K}

-----------------------------------------------------------------------------
(* f32_to_f16_compress.  One significand above the largest, at the widest  *)
(* spacing, is where the bits of a half mean infinity.                     *)
Coarsest == CHOOSE c \in Spacings : \A s \in Spacings : s <= c
Infinity == (MaxSig + 1) * Coarsest

(* The distance of the halves around a magnitude below Infinity.           *)
Spacing(a) ==
  LET reaching == {s \in Spacings : a < (MaxSig + 1) * s}
  IN CHOOSE s \in reaching : \A t \in reaching : s <= t

(* Mutant: the bits that do not fit the significand are cut off.           *)
CutOff(a, s) == s * (a \div s)

(* To the nearest multiple of s, from halfway to the even one.             *)
RoundEven(a, s) ==
  LET q == a \div s
      r == a % s
  IN IF 2 * r > s \/ (2 * r = s /\ q % 2 = 1) THEN s * (q + 1) ELSE s * q

HalfMagnitude(a) ==
  IF a >= Infinity THEN Infinity ELSE RoundEven(a, Spacing(a))
ToHalf(x) == IF x < 0 THEN -HalfMagnitude(-x) ELSE HalfMagnitude(x)

(* What f16_to_f32_compress makes of a half: all of them are numbers of    *)
(* single precision, except the infinite ones.                             *)
Finite(h) == Abs(h) < Infinity

(* Nothing for a value that is a half, otherwise the spacing around it.    *)
Slack(x) == IF Abs(x) % Spacing(Abs(x)) = 0 THEN 0 ELSE Spacing(Abs(x))

-----------------------------------------------------------------------------
Pack(v) == [i \in PackedIndices(v) |-> ToHalf(v[i])]

(* tc_diloco_sparse_unpack_add into a vector of zeros.                     *)
Unpack(p) == [i \in Index |-> IF i \in DOMAIN p THEN p[i] ELSE 0]

NoRound == [delta |-> Zeros, err |-> Zeros]
NoPayload == [i \in {} |-> 0]

-----------------------------------------------------------------------------
Init ==
  /\ transport \in Transports
  /\ phase = "idle"
  /\ err = Zeros
  /\ round = NoRound
  /\ payload = NoPayload
  /\ rounds = 0
  /\ inflight = Zeros
  /\ owed = Zeros
  /\ slack = Zeros
  /\ clean = TRUE

(* A round over the distance of the parameter from its anchor.             *)
MaskDelta ==
  /\ phase = "idle"
  /\ rounds < MaxRounds
  /\ rounds' = rounds + 1
  /\ \E change \in [Index -> Values] :
       LET v == Plus(change, err) IN
       /\ round' = Mask(v, err)
       /\ inflight' = change
       /\ clean' = (clean /\ Cardinality(Kept(v)) = K)
  /\ phase' = "masked"
  /\ UNCHANGED <<transport, err, payload, owed, slack>>

PackPayload ==
  /\ transport = "sparse"
  /\ phase = "masked"
  /\ payload' = Pack(round.delta)
  /\ phase' = "packed"
  /\ UNCHANGED <<transport, err, round, rounds, inflight, owed, slack, clean>>

RoundOver(after) ==
  /\ round' = NoRound
  /\ payload' = NoPayload
  /\ inflight' = Zeros
  /\ phase' = after
  /\ UNCHANGED <<transport, rounds, clean>>

(* The round succeeds, and its error_feedback is committed with it.        *)
Deliver(delta, rounding) ==
  /\ owed' = Minus(Plus(owed, inflight), delta)
  /\ slack' = Plus(slack, rounding)
  /\ err' = round.err
  /\ RoundOver("idle")

DeliverDense ==
  transport = "dense" /\ phase = "masked" /\ Deliver(round.delta, Zeros)

DeliverSparse ==
  /\ phase = "packed"
  /\ \A i \in DOMAIN payload : Finite(payload[i])
  /\ Deliver(Unpack(payload),
             [i \in Index |-> IF i \in DOMAIN payload THEN Slack(round.delta[i]) ELSE 0])

(* Nothing looks at what was delivered: an infinite value goes into the    *)
(* anchor, and what later rounds compute from that is not a number.        *)
DeliverInfinite ==
  /\ phase = "packed"
  /\ \E i \in DOMAIN payload : ~Finite(payload[i])
  /\ err' = round.err
  /\ UNCHANGED <<owed, slack>>
  /\ RoundOver("infinite")

(* Mutant: the round works on the registered error_feedback itself.        *)
RoundFailsInPlace ==
  /\ phase \in {"masked", "packed"}
  /\ err' = round.err
  /\ UNCHANGED <<owed, slack>>
  /\ RoundOver("idle")

(* The exchange or the commit fails: the round's copy is dropped, and the  *)
(* parameter stays where training took it.                                 *)
RoundFails ==
  /\ phase \in {"masked", "packed"}
  /\ UNCHANGED <<err, owed, slack>>
  /\ RoundOver("idle")

Next ==
  \/ MaskDelta \/ PackPayload
  \/ DeliverDense \/ DeliverSparse \/ DeliverInfinite \/ RoundFails

Spec == Init /\ [][Next]_vars
=============================================================================
