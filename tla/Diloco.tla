-------------------------------- MODULE Diloco --------------------------------
(***************************************************************************)
(* One rank of the DiLoCo optimizer of lib/distributed/diloco.cpp.         *)
(*                                                                         *)
(* The caller's thread trains: every inner step changes the live parameter *)
(* buffers, and every so often an outer round averages, over all ranks,    *)
(* how far the buffers have moved away from an anchor, and moves the       *)
(* anchor.  With async_overlap a worker thread runs the round against a    *)
(* snapshot while training goes on; the caller commits the result later,   *)
(* re-applying to the new anchor what training did since the snapshot.     *)
(*                                                                         *)
(* What the worker receives from the other ranks is outside this module:   *)
(* a round moves each anchor by some element of Steps, or fails.  Buffers  *)
(* hold f32 values, and their arithmetic is taken to be exact.             *)
(***************************************************************************)
EXTENDS Integers

CONSTANTS NParams,     \* parameters the application registers, in order
          Modes,       \* the values of cfg.async_overlap in use
          Optimizer,   \* cfg.outer_optimizer
          Updates,     \* what an inner step may add to a parameter
          Steps,       \* what an outer round may add to an anchor
          Epochs,      \* epoch numbers; 0 stands for "not bound"
          MaxInner,    \* bound: inner steps counted by a context
          MaxRounds,   \* bound: rounds started or committed by a context
          MaxContexts  \* bound: contexts the application creates

ASSUME DilocoAssumption ==
  /\ NParams \in Nat
  /\ Modes \subseteq BOOLEAN
  /\ Optimizer \in {"sgd", "nesterov", "adam"}
  /\ Updates \subseteq Int
  /\ Steps \subseteq Int
  /\ Epochs \subseteq Nat /\ 0 \in Epochs
  /\ MaxInner \in Nat
  /\ MaxRounds \in Nat
  /\ MaxContexts \in Nat

Param == 1 .. NParams

VARIABLES
  live,     \* contents of the registered buffers, owned by the caller
  d,        \* the tc_diloco_ctx: what a checkpoint blob contains
  thread,   \* outer_thread
  job,      \* what the worker's closure captured
  pc,       \* where the caller's thread is
  contexts, \* how many contexts the application has created
  ckpt,     \* the application's last checkpoint: the blob and its own state
  (* history, for the properties only *)
  drift,    \* inner updates since the snapshot of the last committed round
  after,    \* inner updates since the snapshot of the round in flight
  taken     \* rounds committed since the parameter was registered

vars == <<live, d, thread, job, pc, contexts, ckpt, drift, after, taken>>

-----------------------------------------------------------------------------
(* outer_momentum: how many vectors of num_elements it holds, and how many *)
(* rounds have left their mark in it.                                      *)
Moment == [size : 0 .. 2, rounds : Nat]
NoMoment == [size |-> 0, rounds |-> 0]

Zero == [p \in Param |-> 0]
Unmoved == [p \in Param |-> NoMoment]

(* A round's copies of the first n parameters, and the snapshot it is      *)
(* computed from; NoRound is a pair of empty vectors.                      *)
Round == [n : 0 .. NParams, anchor : [Param -> Int], mom : [Param -> Moment],
          snap : [Param -> Int]]
NoRound == [n |-> 0, anchor |-> Zero, mom |-> Unmoved, snap |-> Zero]

(* Mutant: the momentum vector is started afresh in every round.           *)
AccumulateFresh(m) ==
  [size   |-> IF Optimizer = "adam" THEN 2 ELSE 1,
   rounds |-> IF Optimizer = "sgd" THEN 0 ELSE 1]

(* apply_outer_optimizer on one parameter's moments.  A vector that is not *)
(* num_elements long is replaced by zeros first; Adam then appends the     *)
(* second moments.                                                         *)
Accumulate(m) ==
  LET kept == IF m.size = 1 THEN m.rounds ELSE 0 IN
  [size   |-> IF Optimizer = "adam" THEN 2 ELSE 1,
   rounds |-> IF Optimizer = "sgd" THEN kept ELSE kept + 1]

(* compute_outer_round on a round's private copies: the outer optimizer    *)
(* moves each anchor by what the ranks agreed on.                          *)
OuterRound(r, s) ==
  [n |-> r.n, snap |-> r.snap,
   anchor |-> [p \in Param |->
                 IF p <= r.n THEN r.anchor[p] + s[p] ELSE r.anchor[p]],
   mom |-> [p \in Param |->
              IF p <= r.n THEN Accumulate(r.mom[p]) ELSE r.mom[p]]]

(* commit_round: what is written into the buffer of p.  Training done      *)
(* since the snapshot is carried over to the new anchor.                   *)
Output(r, p) == r.anchor[p] + (IF d.async THEN live[p] - r.snap[p] ELSE 0)

(* Mutant: the write loop stops one parameter short.                       *)
WrittenButLast(buffers, values, n) ==
  [p \in Param |-> IF p < n THEN values[p] ELSE buffers[p]]

(* The buffers when the first n of the values have been written.           *)
Written(buffers, values, n) ==
  [p \in Param |-> IF p <= n THEN values[p] ELSE buffers[p]]

Outputs(r) == [p \in Param |-> Output(r, p)]

(* A context as tc_diloco_init leaves it.                                  *)
FreshContext(async) ==
  [async |-> async, count |-> 0, anchor |-> Zero, mom |-> Unmoved,
   inner |-> 0, since |-> 0, outer |-> 0,
   state |-> "idle", next |-> 1, active |-> 0,
   pend |-> NoRound, metered |-> FALSE,
   topology |-> 0, membership |-> 0]

NoCheckpoint == [taken |-> FALSE]

NoThread == thread \in {"none", "exited"}      \* join() returns at once

-----------------------------------------------------------------------------
Init ==
  /\ live = Zero
  /\ d \in {FreshContext(a) : a \in Modes}
  /\ thread = "none"
  /\ job = NoRound
  /\ pc = "app"
  /\ contexts = 1
  /\ ckpt = NoCheckpoint
  /\ drift = Zero /\ after = Zero /\ taken = Zero

(* Mutant: registration does not look at the async state.                  *)
AddParameterAnytime ==
  LET p == d.count + 1 IN
  /\ pc = "app"
  /\ p <= NParams
  /\ d' = [d EXCEPT !.count = p, !.anchor[p] = live[p], !.mom[p] = NoMoment]
  /\ drift' = [drift EXCEPT ![p] = 0]
  /\ taken' = [taken EXCEPT ![p] = 0]
  /\ UNCHANGED <<live, thread, job, pc, contexts, ckpt, after>>

(* tc_diloco_add_parameter: the anchor starts at the current value.        *)
AddParameter ==
  LET p == d.count + 1 IN
  /\ pc = "app"
  /\ d.state = "idle"
  /\ p <= NParams
  /\ d' = [d EXCEPT !.count = p, !.anchor[p] = live[p], !.mom[p] = NoMoment]
  /\ drift' = [drift EXCEPT ![p] = 0]
  /\ taken' = [taken EXCEPT ![p] = 0]
  /\ UNCHANGED <<live, thread, job, pc, contexts, ckpt, after>>

(* One inner step of the application, and tc_diloco_step.                  *)
InnerStep ==
  /\ pc = "app"
  /\ d.inner < MaxInner
  /\ \E u \in [Param -> Updates] :
       /\ live' = [p \in Param |-> live[p] + u[p]]
       /\ drift' = [p \in Param |-> drift[p] + u[p]]
       /\ after' = IF d.state = "idle" THEN after
                   ELSE [p \in Param |-> after[p] + u[p]]
  /\ d' = [d EXCEPT !.inner = @ + 1, !.since = @ + 1]
  /\ UNCHANGED <<thread, job, pc, contexts, ckpt, taken>>

(* What commit_round and publish_committed_metrics do to the context.      *)
CommitInto(r) ==
  [d EXCEPT !.anchor = r.anchor, !.mom = r.mom, !.outer = @ + 1]
CountTaken ==
  taken' = [p \in Param |-> IF p <= d.count THEN taken[p] + 1 ELSE taken[p]]
OfThisContext ==
  [n |-> d.count, anchor |-> d.anchor, mom |-> d.mom, snap |-> live]

(* tc_diloco_apply_outer without overlap: the whole round in one call.  A  *)
(* round that fails leaves everything as it was.                           *)
SyncOuter ==
  /\ ~d.async
  /\ pc = "app"
  /\ d.outer < MaxRounds
  /\ \E s \in [Param -> Steps] :
       LET r == OuterRound(OfThisContext, s) IN
       /\ d' = [CommitInto(r) EXCEPT !.since = 0]
       /\ live' = Written(live, Outputs(r), d.count)
  /\ drift' = Zero
  /\ CountTaken
  /\ UNCHANGED <<thread, job, pc, contexts, ckpt, after>>

(* With overlap: snapshot, take a round id, start the worker.              *)
Launch ==
  /\ d.async
  /\ pc = "app"
  /\ d.state = "idle"
  /\ NoThread
  /\ d.next <= MaxRounds
  /\ job' = OfThisContext
  /\ d' = [d EXCEPT !.state = "running", !.active = d.next, !.next = @ + 1,
                    !.since = 0]
  /\ thread' = "computing"
  /\ after' = Zero
  /\ UNCHANGED <<live, pc, contexts, ckpt, drift, taken>>

(* The worker could not be started: the round id is used up.               *)
SpawnFail ==
  /\ d.async
  /\ pc = "app"
  /\ d.state = "idle"
  /\ NoThread
  /\ d.next <= MaxRounds
  /\ d' = [d EXCEPT !.active = d.next, !.next = @ + 1]
  /\ thread' = "none"
  /\ UNCHANGED <<live, job, pc, contexts, ckpt, drift, after, taken>>

-----------------------------------------------------------------------------
(* The worker publishes its outcome under outer_mutex, then ends.          *)
WorkerReady ==
  /\ thread = "computing"
  /\ \E s \in [Param -> Steps] :
       d' = [d EXCEPT !.state = "ready", !.metered = TRUE,
                      !.pend = OuterRound(job, s)]
  /\ thread' = "exiting"
  /\ job' = NoRound
  /\ UNCHANGED <<live, pc, contexts, ckpt, drift, after, taken>>

(* Mutant: a failing worker ends without publishing its status.            *)
WorkerFailSilent ==
  /\ thread = "computing"
  /\ thread' = "exiting"
  /\ job' = NoRound
  /\ UNCHANGED <<live, d, pc, contexts, ckpt, drift, after, taken>>

WorkerFail ==
  /\ thread = "computing"
  /\ d' = [d EXCEPT !.state = "failed", !.pend = NoRound]
  /\ thread' = "exiting"
  /\ job' = NoRound
  /\ UNCHANGED <<live, pc, contexts, ckpt, drift, after, taken>>

WorkerExit ==
  /\ thread = "exiting"
  /\ thread' = "exited"
  /\ UNCHANGED <<live, d, job, pc, contexts, ckpt, drift, after, taken>>

-----------------------------------------------------------------------------
(* tc_diloco_async_wait.                                                   *)
Wait ==
  /\ pc = "app"
  /\ pc' = "wait"
  /\ UNCHANGED <<live, d, thread, job, contexts, ckpt, drift, after, taken>>

WaitReturn ==
  /\ pc = "wait"
  /\ d.state # "running"
  /\ pc' = "app"
  /\ UNCHANGED <<live, d, thread, job, contexts, ckpt, drift, after, taken>>

(* tc_diloco_async_commit: past the first look at the state the mutex is   *)
(* released and the worker joined.                                         *)
Commit ==
  /\ pc = "app"
  /\ d.state \in {"ready", "failed"}
  /\ pc' = "commit"
  /\ UNCHANGED <<live, d, thread, job, contexts, ckpt, drift, after, taken>>

(* Mutant: the result stays around for another commit.                     *)
SettledKeeps(c) == [c EXCEPT !.state = "idle"]

(* Mutant: the metrics of the settled round are not cleared.               *)
SettledMetered(c) == [c EXCEPT !.state = "idle", !.pend = NoRound]

Settled(c) ==
  [c EXCEPT !.state = "idle", !.pend = NoRound, !.metered = FALSE]

CommitReady ==
  /\ pc = "commit"
  /\ NoThread
  /\ d.state = "ready"
  /\ live' = Written(live, Outputs(d.pend), d.count)
  /\ d' = Settled(CommitInto(d.pend))
  /\ thread' = "none"
  /\ pc' = "app"
  /\ drift' = after
  /\ after' = Zero
  /\ CountTaken
  /\ UNCHANGED <<job, contexts, ckpt>>

(* Mutant: the buffers already written keep the new values.                *)
CommitFailNoRollback ==
  /\ pc = "commit"
  /\ NoThread
  /\ d.state = "ready"
  /\ \E n \in 0 .. d.count - 1 : live' = Written(live, Outputs(d.pend), n)
  /\ d' = Settled(d)
  /\ thread' = "none"
  /\ pc' = "app"
  /\ after' = Zero
  /\ UNCHANGED <<job, contexts, ckpt, drift, taken>>

(* The buffer after the n-th cannot be written: the first n are written    *)
(* back (they could be mapped a moment ago) and the result is dropped.     *)
CommitFail ==
  /\ pc = "commit"
  /\ NoThread
  /\ d.state = "ready"
  /\ \E n \in 0 .. d.count - 1 :
       live' = Written(Written(live, Outputs(d.pend), n), live, n)
  /\ d' = Settled(d)
  /\ thread' = "none"
  /\ pc' = "app"
  /\ after' = Zero
  /\ UNCHANGED <<job, contexts, ckpt, drift, taken>>

(* Mutant: a failure is acknowledged without joining the worker.           *)
CommitFailedUnjoined ==
  /\ pc = "commit"
  /\ d.state = "failed"
  /\ d' = Settled(d)
  /\ pc' = "app"
  /\ after' = Zero
  /\ UNCHANGED <<live, thread, job, contexts, ckpt, drift, taken>>

CommitFailed ==
  /\ pc = "commit"
  /\ NoThread
  /\ d.state = "failed"
  /\ d' = Settled(d)
  /\ thread' = "none"
  /\ pc' = "app"
  /\ after' = Zero
  /\ UNCHANGED <<live, job, contexts, ckpt, drift, taken>>

-----------------------------------------------------------------------------
(* tc_diloco_finalize joins the worker, whatever it is doing, and destroys *)
(* the context only if there is nothing left to acknowledge.               *)
Finalize ==
  /\ pc = "app"
  /\ pc' = "finalize"
  /\ UNCHANGED <<live, d, thread, job, contexts, ckpt, drift, after, taken>>

(* Mutant: the outcome of the joined worker is not looked at.              *)
FinalizeJoinedAnyway ==
  /\ pc = "finalize"
  /\ NoThread
  /\ thread' = "none"
  /\ pc' = "gone"
  /\ UNCHANGED <<live, d, job, contexts, ckpt, drift, after, taken>>

FinalizeJoined ==
  /\ pc = "finalize"
  /\ NoThread
  /\ thread' = "none"
  /\ pc' = IF d.state = "idle" THEN "gone" ELSE "app"
  /\ UNCHANGED <<live, d, job, contexts, ckpt, drift, after, taken>>

SetEpochs ==
  /\ pc = "app"
  /\ d.state = "idle"
  /\ \E t, m \in Epochs : d' = [d EXCEPT !.topology = t, !.membership = m]
  /\ UNCHANGED <<live, thread, job, pc, contexts, ckpt, drift, after, taken>>

(* tc_diloco_state_serialize; the application saves its model with it.     *)
Serialize ==
  /\ pc = "app"
  /\ d.state # "running"
  /\ ckpt' = [taken |-> TRUE, d |-> d, live |-> live,
              drift |-> drift, after |-> after, commits |-> taken]
  /\ UNCHANGED <<live, d, thread, job, pc, contexts, drift, after, taken>>

(* validate_serialized_state.                                              *)
Accepts(c) ==
  /\ c.async = d.async
  /\ c.count = d.count
  /\ d.topology = 0 \/ d.topology = c.topology
  /\ d.membership = 0 \/ d.membership = c.membership
  /\ c.next > c.active
  /\ c.state \in {"ready", "failed"} => d.async
  /\ c.state # "ready" => ~c.metered
  /\ c.pend.n = IF c.state = "ready" THEN c.count ELSE 0

(* tc_diloco_state_deserialize, after the application has reloaded its     *)
(* model.  A blob that is refused changes nothing.                         *)
Deserialize ==
  /\ pc = "app"
  /\ d.state = "idle"
  /\ thread = "none"
  /\ ckpt.taken
  /\ Accepts(ckpt.d)
  /\ d' = ckpt.d
  /\ live' = ckpt.live
  /\ drift' = ckpt.drift /\ after' = ckpt.after /\ taken' = ckpt.commits
  /\ UNCHANGED <<thread, job, pc, contexts, ckpt>>

(* The context is gone, and the application creates another one over the   *)
(* same buffers.                                                           *)
Begin(buffers) ==
  /\ contexts < MaxContexts
  /\ contexts' = contexts + 1
  /\ d' \in {FreshContext(a) : a \in Modes}
  /\ live' = buffers
  /\ thread' = "none"
  /\ job' = NoRound
  /\ pc' = "app"
  /\ drift' = Zero /\ after' = Zero /\ taken' = Zero
  /\ UNCHANGED ckpt

Reinit == pc = "gone" /\ Begin(live)

(* The process dies, in whatever state caller and worker are; the next one *)
(* starts with the buffers of the checkpoint, if there is one.             *)
Crash == Begin(IF ckpt.taken THEN ckpt.live ELSE Zero)

-----------------------------------------------------------------------------
WorkerStep == WorkerReady \/ WorkerFail \/ WorkerExit
Return ==
  WaitReturn \/ CommitReady \/ CommitFail \/ CommitFailed \/ FinalizeJoined

Next ==
  \/ AddParameter \/ InnerStep \/ SyncOuter \/ Launch \/ SpawnFail
  \/ WorkerStep
  \/ Wait \/ Commit \/ Finalize \/ Return
  \/ SetEpochs \/ Serialize \/ Deserialize
  \/ Reinit \/ Crash

Spec == Init /\ [][Next]_vars

(* Both threads are scheduled, and the collectives of a round return.      *)
FairSpec == Spec /\ WF_vars(WorkerStep) /\ WF_vars(Return)
=============================================================================
