------------------------------ MODULE DilocoProps ------------------------------
(***************************************************************************)
(* What the DiLoCo lifecycle guarantees the application that trains.       *)
(***************************************************************************)
EXTENDS Diloco

Context ==
  [async : BOOLEAN, count : 0 .. NParams,
   anchor : [Param -> Int], mom : [Param -> Moment],
   inner : 0 .. MaxInner, since : 0 .. MaxInner, outer : Nat,
   state : {"idle", "running", "ready", "failed"},
   next : Nat, active : Nat, pend : Round, metered : BOOLEAN,
   topology : Epochs, membership : Epochs]

Checkpoint ==
  [taken : {TRUE}, d : Context, live : [Param -> Int], drift : [Param -> Int],
   after : [Param -> Int], commits : [Param -> Nat]]

(* The state has the shape the code gives it.                              *)
TypeOK ==
  /\ live \in [Param -> Int]
  /\ d \in Context
  /\ thread \in {"none", "computing", "exiting", "exited"}
  /\ job \in Round
  /\ pc \in {"app", "wait", "commit", "finalize", "gone"}
  /\ contexts \in Nat
  /\ ckpt \in Checkpoint \cup {NoCheckpoint}
  /\ drift \in [Param -> Int]
  /\ after \in [Param -> Int]
  /\ taken \in [Param -> Nat]

Registered(c) == {p \in Param : p <= c.count}

(* Every inner update reaches the averaged model exactly once: a parameter *)
(* is always the anchor plus what training added since the snapshot the    *)
(* anchor was last moved from, across overlapping rounds, failed rounds,   *)
(* failed commits, crashes and restores.                                   *)
LocalWorkKept ==
  \A p \in Registered(d) : live[p] = d.anchor[p] + drift[p]

(* The outer optimizer remembers every round committed since a parameter   *)
(* was registered, and no round that was not committed.                    *)
MomentsKept ==
  Optimizer # "sgd" =>
    \A p \in Registered(d) : d.mom[p].rounds = taken[p]

(* A context with nothing outstanding has no thread left: a restore is     *)
(* never refused as busy, and the next launch never waits in join.         *)
IdleMeansJoined == pc = "app" /\ d.state = "idle" => thread = "none"

(* A destroyed context has no worker that could still touch it, and no     *)
(* result nobody acknowledged.                                             *)
FinalizedQuiet ==
  pc = "gone" => thread = "none" /\ d.state = "idle" /\ d.pend.n = 0

(* A checkpoint is accepted by any idle context with the same              *)
(* configuration and parameters that is not bound to other epochs, however *)
(* it was taken.                                                           *)
OwnCheckpointAccepted ==
  /\ ckpt.taken
  /\ d.async = ckpt.d.async
  /\ d.count = ckpt.d.count
  /\ d.topology \in {0, ckpt.d.topology}
  /\ d.membership \in {0, ckpt.d.membership}
  => Accepts(ckpt.d)

(* A result waiting to be committed is the outcome of the round that was   *)
(* started last, computed from the anchors still in force.                 *)
ResultIsCurrent ==
  d.state = "ready" =>
    /\ d.active = d.next - 1
    /\ d.pend.n = d.count
    /\ \A p \in Registered(d) : d.pend.anchor[p] - d.anchor[p] \in Steps

(* A call of the application returns.                                      *)
OperationsReturn == pc \in {"wait", "commit", "finalize"} ~> pc \in {"app", "gone"}

-----------------------------------------------------------------------------
(* The inductive invariant.                                                *)

(* A round in flight or to be settled has the id handed out last.          *)
CountersSound(c) ==
  /\ c.since <= c.inner
  /\ c.next > c.active
  /\ c.state # "idle" => c.async /\ c.active = c.next - 1
  /\ c.state # "ready" => ~c.metered
  /\ c.pend.n = IF c.state = "ready" THEN c.count ELSE 0

WorkSound(c, buffers, gone) ==
  \A p \in Registered(c) : buffers[p] = c.anchor[p] + gone[p]

(* A vector of the wrong length has forgotten nothing.                     *)
MomentsSound(c, commits) ==
  Optimizer = "nesterov" =>
    \A p \in Registered(c) :
      /\ c.mom[p].rounds = commits[p]
      /\ commits[p] > 0 => c.mom[p].size = 1

PendingSound(c, buffers, fresh) ==
  c.state = "ready" =>
    \A p \in Registered(c) :
      /\ c.pend.snap[p] = buffers[p] - fresh[p]
      /\ c.pend.anchor[p] - c.anchor[p] \in Steps
      /\ c.pend.mom[p] = Accumulate(c.mom[p])

(* What a context and the history belonging to it say about each other, in *)
(* memory as well as in a checkpoint.                                      *)
ContextSound(c, buffers, gone, fresh, commits) ==
  /\ CountersSound(c)
  /\ WorkSound(c, buffers, gone)
  /\ MomentsSound(c, commits)
  /\ PendingSound(c, buffers, fresh)

JobSound ==
  thread = "computing" =>
    /\ job.n = d.count
    /\ \A p \in Registered(d) :
         /\ job.anchor[p] = d.anchor[p]
         /\ job.mom[p] = d.mom[p]
         /\ job.snap[p] = live[p] - after[p]

ThreadSound ==
  /\ d.state = "running" <=> thread = "computing"
  /\ d.state = "idle" => thread = "none"
  /\ pc = "commit" => d.state \in {"ready", "failed"}
  /\ pc = "gone" => thread = "none" /\ d.state = "idle"

CheckpointSound ==
  ckpt.taken =>
    /\ ckpt.d.state # "running"
    /\ ContextSound(ckpt.d, ckpt.live, ckpt.drift, ckpt.after, ckpt.commits)

DilocoInv ==
  /\ TypeOK
  /\ ContextSound(d, live, drift, after, taken)
  /\ JobSound
  /\ ThreadSound
  /\ CheckpointSound
=============================================================================
