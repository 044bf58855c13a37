----------------------------- MODULE DilocoProofs -----------------------------
(***************************************************************************)
(* DilocoInv is an inductive invariant of Diloco, and what the application is   *)
(* promised follows from it.                                               *)
(*                                                                         *)
(* The argument: nothing but a commit moves an anchor while a round is in  *)
(* flight, and the snapshot of that round is what the buffers hold minus   *)
(* the inner updates made since (ContextSound, JobSound).  So the commit   *)
(* writes new anchor + those updates, which is the relation between        *)
(* buffers and anchors that the invariant asks for.                        *)
(***************************************************************************)
EXTENDS DilocoProps, TLAPS

USE DilocoAssumption

(* The outer optimizer leaves a moment vector of one or two lengths.       *)
LEMMA AccumulateType == \A m \in Moment : Accumulate(m) \in Moment
  BY DEF Accumulate, Moment

(* The values a fresh context starts from have the types of its fields.    *)
LEMMA ZeroType ==
  /\ Zero \in [Param -> Int] /\ Zero \in [Param -> Nat]
  /\ Unmoved \in [Param -> Moment]
  /\ NoRound \in Round
  /\ \A a \in Modes : FreshContext(a) \in Context
  BY DEF Zero, Unmoved, NoRound, Round, Moment, NoMoment, FreshContext, Context

(* A round keeps its size and snapshot, moves its n anchors by elements of *)
(* Steps, and lets the moments accumulate.                                 *)
LEMMA OuterRoundSound ==
  ASSUME NEW r \in Round, NEW s \in [Param -> Steps]
  PROVE  /\ OuterRound(r, s) \in Round
         /\ OuterRound(r, s).n = r.n /\ OuterRound(r, s).snap = r.snap
         /\ \A p \in Param : p <= r.n =>
              /\ OuterRound(r, s).anchor[p] = r.anchor[p] + s[p]
              /\ OuterRound(r, s).anchor[p] - r.anchor[p] \in Steps
              /\ OuterRound(r, s).mom[p] = Accumulate(r.mom[p])
  <1>1. /\ OuterRound(r, s).n = r.n /\ OuterRound(r, s).snap = r.snap
        /\ \A p \in Param :
             /\ OuterRound(r, s).anchor[p] = IF p <= r.n THEN r.anchor[p] + s[p] ELSE r.anchor[p]
             /\ OuterRound(r, s).mom[p] = IF p <= r.n THEN Accumulate(r.mom[p]) ELSE r.mom[p]
    BY DEF OuterRound
  <1>2. \A p \in Param : r.anchor[p] \in Int /\ s[p] \in Steps /\ s[p] \in Int
    BY DEF Round
  <1>3. OuterRound(r, s) \in Round
    BY <1>2, AccumulateType DEF OuterRound, Round
  <1> QED
    BY <1>1, <1>2, <1>3

(* Writing some of the values leaves every buffer a number.                *)
LEMMA WrittenType ==
  ASSUME NEW b \in [Param -> Int], NEW v \in [Param -> Int], NEW n \in Int
  PROVE  Written(b, v, n) \in [Param -> Int]
  BY DEF Written

(* Writing values back over what has been written restores the buffers.    *)
LEMMA WrittenBack ==
  ASSUME NEW b \in [Param -> Int], NEW v, NEW n \in Int
  PROVE  Written(Written(b, v, n), b, n) = b
  <1>1. \A p \in Param : Written(Written(b, v, n), b, n)[p] = b[p]
    BY DEF Written
  <1> QED
    BY <1>1 DEF Written

-----------------------------------------------------------------------------
(* The context's fields, for the steps that follow.                        *)
LEMMA Fields ==
  ASSUME NEW c \in Context
  PROVE  /\ c.async \in BOOLEAN /\ c.count \in 0 .. NParams
         /\ c.anchor \in [Param -> Int] /\ c.mom \in [Param -> Moment]
         /\ c.inner \in 0 .. MaxInner /\ c.since \in 0 .. MaxInner
         /\ c.outer \in Nat /\ c.next \in Nat /\ c.active \in Nat
         /\ c.state \in {"idle", "running", "ready", "failed"}
         /\ c.pend \in Round /\ c.metered \in BOOLEAN
         /\ c.topology \in Epochs /\ c.membership \in Epochs
  BY DEF Context

(* A checkpoint that was taken holds a context and its buffers.            *)
LEMMA CheckpointTaken ==
  ASSUME TypeOK, ckpt.taken
  PROVE  ckpt \in Checkpoint
  <1>1. NoCheckpoint.taken = FALSE
    BY DEF NoCheckpoint
  <1> QED
    BY <1>1 DEF TypeOK

(* Committing a round that has the shape of one leaves a context.          *)
LEMMA CommitIntoType ==
  ASSUME d \in Context, NEW r \in Round
  PROVE  CommitInto(r) \in Context
  <1>1. /\ r.anchor \in [Param -> Int] /\ r.mom \in [Param -> Moment]
        /\ d.outer + 1 \in Nat
    BY Fields DEF Round
  <1>2. CommitInto(r) = [d EXCEPT !.anchor = r.anchor, !.mom = r.mom,
                                  !.outer = d.outer + 1]
    BY Zenon DEF CommitInto, Context
  <1> QED
    BY <1>1, <1>2, ZenonT(60) DEF Context

(* Clearing the pending round leaves a context.                            *)
LEMMA SettledType ==
  ASSUME NEW c \in Context
  PROVE  Settled(c) \in Context
  BY ZeroType, Zenon DEF Settled, Context

(* What a commit writes into the buffers are numbers.                      *)
LEMMA OutputsType ==
  ASSUME live \in [Param -> Int], NEW r \in Round
  PROVE  Outputs(r) \in [Param -> Int]
  <1>1. \A p \in Param : Output(r, p) \in Int
    BY DEF Output, Round
  <1> QED
    BY <1>1 DEF Outputs

(* Every action preserves the shape of the state.                          *)
LEMMA TypeStep == DilocoInv /\ [Next]_vars => TypeOK'
  <1> SUFFICES ASSUME DilocoInv, [Next]_vars PROVE TypeOK'
    OBVIOUS
  <1>0. TypeOK /\ d \in Context /\ d.since <= d.inner /\ OfThisContext \in Round
    BY Fields DEF DilocoInv, TypeOK, ContextSound, CountersSound, OfThisContext, Round
  <1>1. CASE AddParameter
    <2>1. d.count + 1 \in Param /\ live[d.count + 1] \in Int /\ NoMoment \in Moment
      BY <1>0, <1>1, Fields DEF AddParameter, TypeOK, Param, NoMoment, Moment
    <2> DEFINE p == d.count + 1
    <2>2. /\ p \in 0 .. NParams
          /\ [d.anchor EXCEPT ![p] = live[p]] \in [Param -> Int]
          /\ [d.mom EXCEPT ![p] = NoMoment] \in [Param -> Moment]
      BY <1>0, <2>1, Fields DEF Param
    <2>3. d' = [d EXCEPT !.count = p, !.anchor = [d.anchor EXCEPT ![p] = live[p]],
                         !.mom = [d.mom EXCEPT ![p] = NoMoment]]
      BY <1>0, <1>1, Zenon DEF AddParameter, Context
    <2>4. d' \in Context
      BY <1>0, <2>2, <2>3, Zenon DEF Context
    <2> QED
      BY <1>0, <1>1, <2>1, <2>4 DEF AddParameter, TypeOK
  <1>2. CASE InnerStep
    <2>1. PICK u \in [Param -> Updates] :
            /\ live' = [p \in Param |-> live[p] + u[p]]
            /\ drift' = [p \in Param |-> drift[p] + u[p]]
            /\ after' = IF d.state = "idle" THEN after
                        ELSE [p \in Param |-> after[p] + u[p]]
      BY <1>2 DEF InnerStep
    <2>2. \A p \in Param : /\ live[p] + u[p] \in Int /\ drift[p] + u[p] \in Int
                           /\ after[p] + u[p] \in Int
      <3>1. \A p \in Param : u[p] \in Int
        BY <2>1
      <3> QED
        BY <1>0, <3>1 DEF TypeOK
    <2>3. live' \in [Param -> Int] /\ drift' \in [Param -> Int] /\ after' \in [Param -> Int]
      BY <1>0, <2>1, <2>2 DEF TypeOK
    <2>4. d.inner + 1 \in 0 .. MaxInner /\ d.since + 1 \in 0 .. MaxInner
      BY <1>0, <1>2, Fields DEF InnerStep
    <2>5. d' = [d EXCEPT !.inner = d.inner + 1, !.since = d.since + 1]
      BY <1>0, <1>2, Zenon DEF InnerStep, Context
    <2>6. d' \in Context
      BY <1>0, <2>4, <2>5, Zenon DEF Context
    <2> QED
      BY <1>0, <1>2, <2>3, <2>6 DEF InnerStep, TypeOK
  <1>3. CASE SyncOuter
    <2>1. PICK s \in [Param -> Steps] :
            LET r == OuterRound(OfThisContext, s) IN
            /\ d' = [CommitInto(r) EXCEPT !.since = 0]
            /\ live' = Written(live, Outputs(r), d.count)
      BY <1>3 DEF SyncOuter
    <2> DEFINE r == OuterRound(OfThisContext, s)
    <2>2. r \in Round
      BY <1>0, OuterRoundSound
    <2>3. Outputs(r) \in [Param -> Int]
      BY <1>0, <2>2, OutputsType DEF TypeOK
    <2> HIDE DEF r
    <2>4. live' \in [Param -> Int]
      <3>1. live' = Written(live, Outputs(r), d.count)
        BY <2>1 DEF r
      <3>2. live \in [Param -> Int] /\ d.count \in Int /\ Outputs(r) \in [Param -> Int]
        BY <1>0, <2>3, Fields DEF TypeOK, r
      <3> QED
        BY <3>1, <3>2, WrittenType
    <2>5. d' \in Context
      <3>1. d' = [CommitInto(r) EXCEPT !.since = 0]
        BY <2>1 DEF r
      <3>2. 0 \in 0 .. MaxInner
        OBVIOUS
      <3> QED
        BY <1>0, <2>2, <3>1, <3>2, CommitIntoType, Zenon DEF Context
    <2>6. taken' \in [Param -> Nat]
      BY <1>0, <1>3 DEF SyncOuter, CountTaken, TypeOK
    <2> QED
      BY <1>0, <1>3, <2>4, <2>5, <2>6, ZeroType DEF SyncOuter, TypeOK
  <1>4. CASE Launch \/ SpawnFail
    <2>1. d.next + 1 \in Nat /\ d.next \in Nat /\ 0 \in 0 .. MaxInner
      BY <1>0, Fields
    <2>2. Launch => d' \in Context
      BY <1>0, <2>1, Fields, ZenonT(40) DEF Launch, Context
    <2>3. SpawnFail => d' \in Context
      BY <1>0, <2>1, Fields, ZenonT(40) DEF SpawnFail, Context
    <2>4. d' \in Context
      BY <1>4, <2>2, <2>3
    <2> QED
      BY <1>0, <1>4, <2>4, ZeroType DEF Launch, SpawnFail, TypeOK
  <1>5. CASE WorkerReady
    <2>1. PICK s \in [Param -> Steps] :
            d' = [d EXCEPT !.state = "ready", !.metered = TRUE, !.pend = OuterRound(job, s)]
      BY <1>5 DEF WorkerReady
    <2>2. OuterRound(job, s) \in Round
      BY <1>0, OuterRoundSound DEF TypeOK
    <2>3. d' \in Context
      BY <1>0, <2>1, <2>2, Fields DEF Context
    <2> QED
      BY <1>0, <1>5, <2>3, ZeroType DEF WorkerReady, TypeOK
  <1>6. CASE WorkerFail
    <2>1. d' \in Context
      BY <1>0, <1>6, Fields, ZeroType DEF WorkerFail, Context
    <2> QED
      BY <1>0, <1>6, <2>1, ZeroType DEF WorkerFail, TypeOK
  <1>7. CASE CommitReady
    <2>1. Outputs(d.pend) \in [Param -> Int]
      BY <1>0, OutputsType, Fields DEF TypeOK
    <2>2. live' \in [Param -> Int]
      <3>1. live \in [Param -> Int] /\ d.count \in Int
        BY <1>0, Fields DEF TypeOK
      <3> QED
        BY <1>7, <2>1, <3>1, WrittenType DEF CommitReady
    <2>3. d' \in Context
      BY <1>0, <1>7, Fields, CommitIntoType, SettledType DEF CommitReady
    <2>4. taken' \in [Param -> Nat]
      BY <1>0, <1>7 DEF CommitReady, CountTaken, TypeOK
    <2> QED
      BY <1>0, <1>7, <2>2, <2>3, <2>4, ZeroType DEF CommitReady, TypeOK
  <1>8. CASE CommitFail \/ CommitFailed
    <2>1. live' = live
      BY <1>0, <1>8, WrittenBack, Fields DEF CommitFail, CommitFailed, TypeOK
    <2>2. d' \in Context
      BY <1>0, <1>8, SettledType DEF CommitFail, CommitFailed
    <2> QED
      BY <1>0, <1>8, <2>1, <2>2, ZeroType DEF CommitFail, CommitFailed, TypeOK
  <1>9. CASE SetEpochs
    <2>1. d' \in Context
      BY <1>0, <1>9, Fields, ZenonT(40) DEF SetEpochs, Context
    <2> QED
      BY <1>0, <1>9, <2>1 DEF SetEpochs, TypeOK
  <1>10. CASE Serialize
    BY <1>0, <1>10 DEF Serialize, TypeOK, Checkpoint
  <1>11. CASE Deserialize
    <2>1. ckpt \in Checkpoint
      BY <1>0, <1>11, CheckpointTaken DEF Deserialize
    <2> QED
      BY <1>0, <1>11, <2>1 DEF Deserialize, TypeOK, Checkpoint
  <1>12. CASE Reinit \/ Crash
    <2>1. PICK b \in [Param -> Int] : Begin(b)
      <3>1. CASE Reinit
        BY <1>0, <3>1 DEF Reinit, TypeOK
      <3>2. CASE Crash
        <4>1. ckpt.taken => ckpt.live \in [Param -> Int]
          BY <1>0, CheckpointTaken DEF TypeOK, Checkpoint
        <4> QED
          BY <3>2, <4>1, ZeroType DEF Crash
      <3> QED
        BY <1>12, <3>1, <3>2
    <2> QED
      BY <1>0, <2>1, ZeroType DEF Begin, TypeOK
  <1>13. CASE \/ WorkerExit \/ Wait \/ WaitReturn \/ Commit \/ Finalize
              \/ FinalizeJoined \/ UNCHANGED vars
    BY <1>0, <1>13 DEF WorkerExit, Wait, WaitReturn, Commit, Finalize, FinalizeJoined,
                       vars, TypeOK
  <1> QED
    BY <1>1, <1>2, <1>3, <1>4, <1>5, <1>6, <1>7, <1>8, <1>9, <1>10, <1>11, <1>12, <1>13
       DEF Next, WorkerStep, Return

-----------------------------------------------------------------------------
(* Rounds ids, the pending result and its metrics agree with the state.    *)
LEMMA CountersStep == DilocoInv /\ [Next]_vars => CountersSound(d')
  <1> SUFFICES ASSUME DilocoInv, [Next]_vars PROVE CountersSound(d')
    OBVIOUS
  <1>0. d \in Context /\ CountersSound(d) /\ ThreadSound
    BY DEF DilocoInv, TypeOK, ContextSound
  <1>f. /\ d.inner \in Int /\ d.since \in Int /\ d.next \in Int /\ d.active \in Int
        /\ d.count \in Int
    BY <1>0, Fields
  <1>z. NoRound.n = 0
    BY DEF NoRound
  <1>1. CASE AddParameter
    <2>1. /\ d'.async = d.async
          /\ d'.inner = d.inner /\ d'.since = d.since /\ d'.next = d.next
          /\ d'.active = d.active /\ d'.state = d.state /\ d.state = "idle"
          /\ d'.metered = d.metered /\ d'.pend = d.pend
      BY <1>0, <1>1, Zenon DEF AddParameter, Context
    <2> QED
      BY <1>0, <2>1 DEF CountersSound
  <1>2. CASE InnerStep
    <2>1. /\ d'.async = d.async
          /\ d'.inner = d.inner + 1 /\ d'.since = d.since + 1 /\ d'.next = d.next
          /\ d'.active = d.active /\ d'.state = d.state /\ d'.count = d.count
          /\ d'.metered = d.metered /\ d'.pend = d.pend
      BY <1>0, <1>2, Zenon DEF InnerStep, Context
    <2> QED
      BY <1>0, <1>f, <2>1 DEF CountersSound
  <1>3. CASE SyncOuter
    <2>1. /\ d'.async = d.async
          /\ d'.inner = d.inner /\ d'.since = 0 /\ d'.next = d.next
          /\ d'.active = d.active /\ d'.state = d.state /\ d'.count = d.count
          /\ d'.metered = d.metered /\ d'.pend = d.pend
      <3>1. PICK r : d' = [CommitInto(r) EXCEPT !.since = 0]
        BY <1>3 DEF SyncOuter
      <3> QED
        BY <1>0, <3>1, Zenon DEF CommitInto, Context
    <2>2. d.inner >= 0
      BY <1>0, Fields
    <2> QED
      BY <1>0, <1>f, <2>1, <2>2 DEF CountersSound
  <1>4. CASE Launch
    <2>1. /\ d'.async = d.async
          /\ d'.inner = d.inner /\ d'.since = 0 /\ d'.next = d.next + 1
          /\ d'.active = d.next /\ d'.state = "running" /\ d.state = "idle"
          /\ d'.metered = d.metered /\ d'.pend = d.pend /\ d.async
      BY <1>0, <1>4, Zenon DEF Launch, Context
    <2>2. d.inner >= 0
      BY <1>0, Fields
    <2> QED
      BY <1>0, <1>f, <2>1, <2>2 DEF CountersSound
  <1>5. CASE SpawnFail
    <2>1. /\ d'.async = d.async
          /\ d'.inner = d.inner /\ d'.since = d.since /\ d'.next = d.next + 1
          /\ d'.active = d.next /\ d'.state = "idle" /\ d.state = "idle"
          /\ d'.metered = d.metered /\ d'.pend = d.pend
      BY <1>0, <1>5, Zenon DEF SpawnFail, Context
    <2> QED
      BY <1>0, <1>f, <2>1 DEF CountersSound
  <1>6. CASE WorkerReady
    <2>1. PICK s \in [Param -> Steps] :
            d' = [d EXCEPT !.state = "ready", !.metered = TRUE, !.pend = OuterRound(job, s)]
      BY <1>6 DEF WorkerReady
    <2>2. /\ d'.async = d.async
          /\ d'.inner = d.inner /\ d'.since = d.since /\ d'.next = d.next
          /\ d'.active = d.active /\ d'.state = "ready" /\ d'.count = d.count
          /\ d'.pend = OuterRound(job, s)
      BY <1>0, <2>1, Zenon DEF Context
    <2>3. d.state = "running" /\ OuterRound(job, s).n = d.count
      BY <1>0, <1>6, OuterRoundSound DEF WorkerReady, ThreadSound, DilocoInv, JobSound, TypeOK
    <2> QED
      BY <1>0, <1>f, <2>2, <2>3 DEF CountersSound
  <1>7. CASE WorkerFail
    <2>1. /\ d'.async = d.async
          /\ d'.inner = d.inner /\ d'.since = d.since /\ d'.next = d.next
          /\ d'.active = d.active /\ d'.state = "failed" /\ d'.metered = d.metered
          /\ d'.pend = NoRound
      BY <1>0, <1>7, Zenon DEF WorkerFail, Context
    <2>2. d.state = "running"
      BY <1>0, <1>7 DEF WorkerFail, ThreadSound
    <2> QED
      BY <1>0, <1>f, <1>z, <2>1, <2>2 DEF CountersSound
  <1>8. CASE CommitReady \/ CommitFail \/ CommitFailed
    <2>1. /\ d'.inner = d.inner /\ d'.since = d.since /\ d'.next = d.next
          /\ d'.active = d.active /\ d'.state = "idle" /\ d'.metered = FALSE
          /\ d'.pend = NoRound
      <3>1. CASE d' = Settled(CommitInto(d.pend))
        BY <1>0, <3>1, Zenon DEF Settled, CommitInto, Context
      <3>2. CASE d' = Settled(d)
        BY <1>0, <3>2, Zenon DEF Settled, Context
      <3> QED
        BY <1>8, <3>1, <3>2 DEF CommitReady, CommitFail, CommitFailed
    <2> QED
      BY <1>0, <1>f, <1>z, <2>1 DEF CountersSound
  <1>9. CASE SetEpochs
    <2>1. /\ d'.async = d.async
          /\ d'.inner = d.inner /\ d'.since = d.since /\ d'.next = d.next
          /\ d'.active = d.active /\ d'.state = d.state /\ d'.count = d.count
          /\ d'.metered = d.metered /\ d'.pend = d.pend
      BY <1>0, <1>9, Zenon DEF SetEpochs, Context
    <2> QED
      BY <1>0, <2>1 DEF CountersSound
  <1>10. CASE Deserialize
    BY <1>10 DEF Deserialize, DilocoInv, CheckpointSound, ContextSound
  <1>11. CASE Reinit \/ Crash
    BY <1>11, <1>z DEF Reinit, Crash, Begin, FreshContext, CountersSound
  <1>12. CASE \/ WorkerExit \/ Wait \/ WaitReturn \/ Commit \/ Finalize
              \/ FinalizeJoined \/ Serialize \/ UNCHANGED vars
    BY <1>0, <1>12 DEF WorkerExit, Wait, WaitReturn, Commit, Finalize, FinalizeJoined,
                       Serialize, vars
  <1> QED
    BY <1>1, <1>2, <1>3, <1>4, <1>5, <1>6, <1>7, <1>8, <1>9, <1>10, <1>11, <1>12
       DEF Next, WorkerStep, Return

-----------------------------------------------------------------------------
(* A step that leaves anchors, moments and what is pending alone.          *)
Quiet ==
  \/ Launch \/ SpawnFail \/ WorkerFail \/ CommitFail \/ CommitFailed
  \/ SetEpochs

(* The steps of Quiet indeed leave them alone.                             *)
LEMMA QuietStep ==
  ASSUME DilocoInv, Quiet
  PROVE  /\ d'.count = d.count /\ d'.anchor = d.anchor /\ d'.mom = d.mom
         /\ live' = live /\ drift' = drift /\ taken' = taken
         /\ d'.state # "ready"
  <1>0. d \in Context /\ TypeOK
    BY DEF DilocoInv, TypeOK
  <1>1. /\ d'.count = d.count /\ d'.anchor = d.anchor /\ d'.mom = d.mom
        /\ d'.state # "ready"
    BY <1>0, ZenonT(40) DEF Quiet, Launch, SpawnFail, WorkerFail, CommitFail, CommitFailed,
                       SetEpochs, Settled, Context
  <1>2. live' = live
    <2>1. CASE CommitFail
      <3>1. live \in [Param -> Int] /\ d.count \in Int
        BY <1>0, Fields DEF TypeOK
      <3>2. PICK n \in 0 .. d.count - 1 :
              live' = Written(Written(live, Outputs(d.pend), n), live, n)
        BY <2>1 DEF CommitFail
      <3> QED
        BY <3>1, <3>2, WrittenBack
    <2>2. CASE ~CommitFail
      BY <2>2 DEF Quiet, Launch, SpawnFail, WorkerFail, CommitFailed, SetEpochs
    <2> QED
      BY <2>1, <2>2
  <1>3. drift' = drift /\ taken' = taken
    BY DEF Quiet, Launch, SpawnFail, WorkerFail, CommitFail, CommitFailed, SetEpochs
  <1> QED
    BY <1>1, <1>2, <1>3

(* A step that changes no context, no buffer and no history.               *)
Idle ==
  \/ WorkerExit \/ Wait \/ WaitReturn \/ Commit \/ Finalize \/ FinalizeJoined
  \/ Serialize \/ UNCHANGED vars

(* The steps of Idle indeed change none of them.                           *)
LEMMA IdleStep ==
  Idle => /\ d' = d /\ live' = live /\ drift' = drift /\ after' = after /\ taken' = taken
          /\ job' = job
  BY DEF Idle, WorkerExit, Wait, WaitReturn, Commit, Finalize, FinalizeJoined,
         Serialize, vars

(* The steps that are neither.                                             *)
LEMMA StepCases ==
  [Next]_vars => \/ Quiet \/ Idle \/ AddParameter \/ InnerStep \/ SyncOuter
                 \/ WorkerReady \/ CommitReady \/ Deserialize
                 \/ (\E b : Begin(b))
  BY DEF Quiet, Idle, Next, WorkerStep, Return, Reinit, Crash

(* No action breaks live = anchor + work since the snapshot, because a     *)
(* commit writes exactly anchor plus the work done since its own snapshot. *)
LEMMA WorkStep == DilocoInv /\ [Next]_vars => WorkSound(d', live', drift')
  <1> SUFFICES ASSUME DilocoInv, [Next]_vars PROVE WorkSound(d', live', drift')
    OBVIOUS
  <1>0. d \in Context /\ TypeOK /\ WorkSound(d, live, drift)
    BY DEF DilocoInv, TypeOK, ContextSound
  <1>f. /\ d.count \in 0 .. NParams /\ d.anchor \in [Param -> Int]
        /\ live \in [Param -> Int] /\ drift \in [Param -> Int] /\ after \in [Param -> Int]
    BY <1>0, Fields DEF TypeOK
  <1>1. CASE Quiet
    BY <1>0, <1>1, QuietStep DEF WorkSound, Registered
  <1>2. CASE Idle
    BY <1>0, <1>2, IdleStep
  <1>3. CASE AddParameter
    <2> DEFINE p == d.count + 1
    <2>1. /\ d'.count = p /\ d'.anchor = [d.anchor EXCEPT ![p] = live[p]]
          /\ live' = live /\ drift' = [drift EXCEPT ![p] = 0] /\ p <= NParams
      BY <1>0, <1>3, Zenon DEF AddParameter, Context
    <2> QED
      <3>1. \A q \in Registered(d') : q = p \/ (q # p /\ q \in Registered(d))
        <4>1. d'.count = d.count + 1 /\ d.count \in Int
          BY <1>f, <2>1
        <4>2. \A q \in Param : q \in Int
          BY DEF Param
        <4> QED
          BY <4>1, <4>2 DEF Registered
      <3>2. p \in Param
        <4>1. d.count + 1 <= NParams /\ d.count \in 0 .. NParams
          BY <1>f, <2>1
        <4> QED
          BY <4>1 DEF Param
      <3>3. ASSUME NEW q \in Registered(d), q # p
            PROVE  live'[q] = d'.anchor[q] + drift'[q]
        <4>1. q \in Param /\ live[q] = d.anchor[q] + drift[q]
          BY <1>0 DEF WorkSound, Registered
        <4>2. d'.anchor[q] = d.anchor[q] /\ drift'[q] = drift[q]
          BY <1>f, <2>1, <3>3, <4>1
        <4> QED
          BY <2>1, <4>1, <4>2
      <3>4. live'[p] = d'.anchor[p] + drift'[p]
        BY <1>f, <2>1, <3>2
      <3> QED
        BY <3>1, <3>3, <3>4 DEF WorkSound
  <1>4. CASE InnerStep
    <2>1. d'.count = d.count /\ d'.anchor = d.anchor
      BY <1>0, <1>4, Zenon DEF InnerStep, Context
    <2>2. PICK u \in [Param -> Updates] :
            /\ live' = [p \in Param |-> live[p] + u[p]]
            /\ drift' = [p \in Param |-> drift[p] + u[p]]
      BY <1>4 DEF InnerStep
    <2>3. \A p \in Param : u[p] \in Int
      BY <2>2
    <2> QED
      BY <1>0, <1>f, <2>1, <2>2, <2>3 DEF WorkSound, Registered
  <1>5. CASE SyncOuter
    <2>1. PICK r : /\ d' = [CommitInto(r) EXCEPT !.since = 0]
                   /\ live' = Written(live, Outputs(r), d.count)
                   /\ r \in Round
      <3>1. OfThisContext \in Round
        BY <1>0, Fields DEF OfThisContext, Round, TypeOK
      <3> QED
        BY <1>5, <3>1, OuterRoundSound DEF SyncOuter
    <2>2. d'.count = d.count /\ d'.anchor = r.anchor
      BY <1>0, <2>1, Zenon DEF CommitInto, Context
    <2>3. \A p \in Registered(d) : live'[p] = r.anchor[p]
      BY <1>5, <2>1 DEF SyncOuter, Written, Outputs, Output, Registered, Round
    <2> QED
      BY <1>5, <2>1, <2>2, <2>3 DEF SyncOuter, WorkSound, Registered, Zero, Round
  <1>6. CASE WorkerReady
    <2>1. d'.count = d.count /\ d'.anchor = d.anchor
      BY <1>0, <1>6, Zenon DEF WorkerReady, Context
    <2> QED
      BY <1>0, <1>6, <2>1 DEF WorkerReady, WorkSound, Registered
  <1>7. CASE CommitReady
    <2>1. d'.count = d.count /\ d'.anchor = d.pend.anchor
      BY <1>0, <1>7, Zenon DEF CommitReady, Settled, CommitInto, Context
    <2>2. d.async /\ \A p \in Registered(d) : d.pend.snap[p] = live[p] - after[p]
      BY <1>7 DEF DilocoInv, ContextSound, CountersSound, PendingSound, CommitReady
    <2>3. \A p \in Registered(d) : live'[p] = d.pend.anchor[p] + (live[p] - d.pend.snap[p])
      BY <1>7, <2>2 DEF CommitReady, Written, Outputs, Output, Registered
    <2>4. \A p \in Param : d.pend.anchor[p] \in Int
      BY <1>0, Fields DEF Round
    <2>5. \A p \in Registered(d) : live'[p] = d.pend.anchor[p] + after[p]
      BY <1>f, <2>2, <2>3, <2>4 DEF Registered
    <2> QED
      BY <1>7, <2>1, <2>5 DEF CommitReady, WorkSound, Registered
  <1>8. CASE Deserialize
    BY <1>8 DEF Deserialize, DilocoInv, CheckpointSound, ContextSound
  <1>9. ASSUME NEW b, Begin(b) PROVE WorkSound(d', live', drift')
    BY <1>9 DEF Begin, FreshContext, WorkSound, Registered, Param
  <1> QED
    BY <1>1, <1>2, <1>3, <1>4, <1>5, <1>6, <1>7, <1>8, <1>9, StepCases

(* A commit installs moments that have counted one round more; nothing     *)
(* else touches them, and a restore brings back the counts saved with them. *)
LEMMA MomentsStep == DilocoInv /\ [Next]_vars => MomentsSound(d', taken')
  <1> SUFFICES ASSUME DilocoInv, [Next]_vars, Optimizer = "nesterov"
               PROVE  MomentsSound(d', taken')
    BY DEF MomentsSound
  <1>0. d \in Context /\ TypeOK /\ MomentsSound(d, taken)
    BY DEF DilocoInv, TypeOK, ContextSound
  <1>f. /\ d.count \in 0 .. NParams /\ d.mom \in [Param -> Moment]
        /\ taken \in [Param -> Nat]
    BY <1>0, Fields DEF TypeOK
  <1>a. ASSUME NEW p \in Registered(d)
        PROVE  /\ Accumulate(d.mom[p]).rounds = taken[p] + 1
               /\ Accumulate(d.mom[p]).size = 1
    <2>1. p \in Param /\ d.mom[p] \in Moment /\ taken[p] \in Nat
      BY <1>f DEF Registered
    <2>2. d.mom[p].rounds = taken[p] /\ (taken[p] > 0 => d.mom[p].size = 1)
      BY <1>0 DEF MomentsSound
    <2> QED
      BY <2>1, <2>2 DEF Accumulate
  <1>1. CASE Quiet
    BY <1>0, <1>1, QuietStep DEF MomentsSound, Registered
  <1>2. CASE Idle
    BY <1>0, <1>2, IdleStep
  <1>3. CASE AddParameter
    <2> DEFINE p == d.count + 1
    <2>1. /\ d'.count = p /\ d'.mom = [d.mom EXCEPT ![p] = NoMoment]
          /\ taken' = [taken EXCEPT ![p] = 0] /\ p <= NParams
      BY <1>0, <1>3, Zenon DEF AddParameter, Context
    <2> QED
      BY <1>0, <1>f, <2>1 DEF MomentsSound, Registered, Param, NoMoment
  <1>4. CASE InnerStep \/ WorkerReady
    <2>1. d'.count = d.count /\ d'.mom = d.mom /\ taken' = taken
      BY <1>0, <1>4, ZenonT(40) DEF InnerStep, WorkerReady, Context
    <2> QED
      BY <1>0, <2>1 DEF MomentsSound, Registered
  <1>5. CASE SyncOuter
    <2>1. PICK s \in [Param -> Steps] :
            d' = [CommitInto(OuterRound(OfThisContext, s)) EXCEPT !.since = 0]
      BY <1>5 DEF SyncOuter
    <2>2. d'.count = d.count /\ d'.mom = OuterRound(OfThisContext, s).mom
      BY <1>0, <2>1, Zenon DEF CommitInto, Context
    <2>3. OfThisContext \in Round
      BY <1>0, Fields DEF OfThisContext, Round, TypeOK
    <2>4. \A p \in Registered(d) : d'.mom[p] = Accumulate(d.mom[p])
      BY <2>2, <2>3, OuterRoundSound DEF Registered, OfThisContext
    <2>5. \A p \in Registered(d) : taken'[p] = taken[p] + 1
      BY <1>5 DEF SyncOuter, CountTaken, Registered
    <2> QED
      BY <1>a, <2>2, <2>4, <2>5 DEF MomentsSound, Registered
  <1>6. CASE CommitReady
    <2>1. d'.count = d.count /\ d'.mom = d.pend.mom
      BY <1>0, <1>6, Zenon DEF CommitReady, Settled, CommitInto, Context
    <2>2. \A p \in Registered(d) : d.pend.mom[p] = Accumulate(d.mom[p])
      BY <1>6 DEF DilocoInv, ContextSound, PendingSound, CommitReady
    <2>3. \A p \in Registered(d) : taken'[p] = taken[p] + 1
      BY <1>6 DEF CommitReady, CountTaken, Registered
    <2> QED
      BY <1>a, <2>1, <2>2, <2>3 DEF MomentsSound, Registered
  <1>7. CASE Deserialize
    BY <1>7 DEF Deserialize, DilocoInv, CheckpointSound, ContextSound
  <1>8. ASSUME NEW b, Begin(b) PROVE MomentsSound(d', taken')
    BY <1>8 DEF Begin, FreshContext, MomentsSound, Registered, Param
  <1> QED
    BY <1>1, <1>2, <1>3, <1>4, <1>5, <1>6, <1>7, <1>8, StepCases

(* A ready result stays one step away from the anchors in force, and its   *)
(* snapshot as far behind the buffers as the training since the launch.    *)
LEMMA PendingStep == DilocoInv /\ [Next]_vars => PendingSound(d', live', after')
  <1> SUFFICES ASSUME DilocoInv, [Next]_vars, d'.state = "ready"
               PROVE  PendingSound(d', live', after')
    BY DEF PendingSound
  <1>0. d \in Context /\ TypeOK /\ PendingSound(d, live, after) /\ ThreadSound
    BY DEF DilocoInv, TypeOK, ContextSound
  <1>1. CASE Quiet
    BY <1>1, QuietStep
  <1>2. CASE Idle
    BY <1>0, <1>2, IdleStep
  <1>3. CASE AddParameter \/ SyncOuter \/ CommitReady
    <2>1. d'.state = "idle"
      <3>1. CASE AddParameter \/ CommitReady
        BY <1>0, <3>1, Zenon DEF AddParameter, CommitReady, Settled, CommitInto, Context
      <3>2. CASE SyncOuter
        <4>1. d.state = "idle"
          BY <3>2 DEF SyncOuter, DilocoInv, ContextSound, CountersSound
        <4>2. PICK r : d' = [CommitInto(r) EXCEPT !.since = 0]
          BY <3>2 DEF SyncOuter
        <4> QED
          BY <1>0, <4>1, <4>2, Zenon DEF CommitInto, Context
      <3> QED
        BY <1>3, <3>1, <3>2
    <2> QED
      BY <2>1
  <1>4. CASE InnerStep
    <2>1. /\ d'.count = d.count /\ d'.anchor = d.anchor /\ d'.mom = d.mom
          /\ d'.pend = d.pend /\ d'.state = d.state
      BY <1>0, <1>4, Zenon DEF InnerStep, Context
    <2>2. PICK u \in [Param -> Updates] :
            /\ live' = [p \in Param |-> live[p] + u[p]]
            /\ after' = [p \in Param |-> after[p] + u[p]]
      BY <1>4, <2>1 DEF InnerStep
    <2>3. \A p \in Param : u[p] \in Int /\ live[p] \in Int /\ after[p] \in Int
      BY <1>0, <2>2 DEF TypeOK
    <2> QED
      BY <1>0, <2>1, <2>2, <2>3 DEF PendingSound, Registered
  <1>5. CASE WorkerReady
    <2>1. PICK s \in [Param -> Steps] :
            d' = [d EXCEPT !.state = "ready", !.metered = TRUE, !.pend = OuterRound(job, s)]
      BY <1>5 DEF WorkerReady
    <2>2. /\ d'.count = d.count /\ d'.anchor = d.anchor /\ d'.mom = d.mom
          /\ d'.pend = OuterRound(job, s)
      BY <1>0, <2>1, Zenon DEF Context
    <2>3. /\ job \in Round /\ job.n = d.count
          /\ \A p \in Registered(d) : /\ job.anchor[p] = d.anchor[p]
                                      /\ job.mom[p] = d.mom[p]
                                      /\ job.snap[p] = live[p] - after[p]
      BY <1>0, <1>5 DEF WorkerReady, DilocoInv, JobSound, TypeOK
    <2>4. \A p \in Registered(d) : /\ d'.pend.snap[p] = live[p] - after[p]
                                   /\ d'.pend.anchor[p] - d.anchor[p] \in Steps
                                   /\ d'.pend.mom[p] = Accumulate(d.mom[p])
      BY <2>2, <2>3, OuterRoundSound DEF Registered
    <2> QED
      BY <1>5, <2>2, <2>4 DEF WorkerReady, PendingSound, Registered
  <1>6. CASE Deserialize
    BY <1>6 DEF Deserialize, DilocoInv, CheckpointSound, ContextSound
  <1>7. ASSUME NEW b, Begin(b) PROVE FALSE
    BY <1>7 DEF Begin, FreshContext
  <1> QED
    BY <1>1, <1>2, <1>3, <1>4, <1>5, <1>6, <1>7, StepCases

(* What the worker captured keeps agreeing with the context while it       *)
(* computes: nothing can register, commit or restore in the meantime.      *)
LEMMA JobStep == DilocoInv /\ [Next]_vars => JobSound'
  <1> SUFFICES ASSUME DilocoInv, [Next]_vars, thread' = "computing"
               PROVE  /\ job'.n = d'.count
                      /\ \A p \in Registered(d') :
                           /\ job'.anchor[p] = d'.anchor[p]
                           /\ job'.mom[p] = d'.mom[p]
                           /\ job'.snap[p] = live'[p] - after'[p]
    BY DEF JobSound
  <1>0. d \in Context /\ TypeOK /\ JobSound /\ ThreadSound
    BY DEF DilocoInv, TypeOK
  <1>1. CASE Launch
    <2>1. d'.count = d.count /\ d'.anchor = d.anchor /\ d'.mom = d.mom
      BY <1>0, <1>1, Zenon DEF Launch, Context
    <2>2. job' = OfThisContext /\ live' = live /\ after' = Zero
      BY <1>1 DEF Launch
    <2>3. \A p \in Param : live[p] \in Int
      BY <1>0 DEF TypeOK
    <2> QED
      BY <2>1, <2>2, <2>3 DEF OfThisContext, Registered, Zero
  <1>2. CASE InnerStep
    <2>1. d'.count = d.count /\ d'.anchor = d.anchor /\ d'.mom = d.mom /\ job' = job
          /\ thread = "computing"
      BY <1>0, <1>2, Zenon DEF InnerStep, Context
    <2>2. d.state # "idle"
      BY <1>0, <2>1 DEF ThreadSound
    <2>3. PICK u \in [Param -> Updates] :
            /\ live' = [p \in Param |-> live[p] + u[p]]
            /\ after' = [p \in Param |-> after[p] + u[p]]
      BY <1>2, <2>2 DEF InnerStep
    <2>4. \A p \in Param : u[p] \in Int /\ live[p] \in Int /\ after[p] \in Int
      BY <1>0, <2>3 DEF TypeOK
    <2> QED
      BY <1>0, <2>1, <2>3, <2>4 DEF JobSound, Registered
  <1>3. CASE Idle
    <2>1. thread = "computing"
      BY <1>3 DEF Idle, WorkerExit, Wait, WaitReturn, Commit, Finalize, FinalizeJoined,
                  Serialize, vars
    <2> QED
      BY <1>0, <1>3, <2>1, IdleStep DEF JobSound
  <1>4. CASE \/ WorkerReady \/ WorkerFail \/ CommitReady \/ CommitFail \/ CommitFailed
             \/ SpawnFail \/ (\E b : Begin(b))
    BY <1>4 DEF WorkerReady, WorkerFail, CommitReady, CommitFail, CommitFailed,
                SpawnFail, Begin
  <1>5. CASE AddParameter \/ SyncOuter \/ SetEpochs \/ Deserialize
    <2>1. d.state = "idle"
      BY <1>5 DEF AddParameter, SyncOuter, SetEpochs, Deserialize, DilocoInv, ContextSound,
                  CountersSound
    <2>2. thread = "computing"
      BY <1>5 DEF AddParameter, SyncOuter, SetEpochs, Deserialize
    <2> QED
      BY <1>0, <2>1, <2>2 DEF ThreadSound
  <1> QED
    BY <1>1, <1>2, <1>3, <1>4, <1>5, StepCases DEF Quiet

(* The worker computes exactly while the state is running, and an idle     *)
(* context has been joined.                                                *)
LEMMA ThreadStep == DilocoInv /\ [Next]_vars => ThreadSound'
  <1> SUFFICES ASSUME DilocoInv, [Next]_vars PROVE ThreadSound'
    OBVIOUS
  <1>0. d \in Context /\ TypeOK /\ ThreadSound
    BY DEF DilocoInv, TypeOK
  <1>1. CASE AddParameter \/ InnerStep \/ SetEpochs
    <2>1. d'.state = d.state /\ thread' = thread /\ pc' = pc
      BY <1>0, <1>1, Zenon DEF AddParameter, InnerStep, SetEpochs, Context
    <2> QED
      BY <1>0, <2>1 DEF ThreadSound
  <1>2. CASE SyncOuter
    <2>1. PICK r : d' = [CommitInto(r) EXCEPT !.since = 0]
      BY <1>2 DEF SyncOuter
    <2>2. d'.state = d.state
      BY <1>0, <2>1, Zenon DEF CommitInto, Context
    <2> QED
      BY <1>0, <1>2, <2>2 DEF SyncOuter, ThreadSound
  <1>3. CASE Launch \/ WorkerReady \/ WorkerFail
    <2>1. /\ Launch => d'.state = "running"
          /\ WorkerReady => d'.state = "ready"
          /\ WorkerFail => d'.state = "failed"
      BY <1>0, Zenon DEF Launch, WorkerReady, WorkerFail, Context
    <2> QED
      BY <1>0, <1>3, <2>1 DEF Launch, WorkerReady, WorkerFail, ThreadSound
  <1>4. CASE SpawnFail \/ CommitReady \/ CommitFail \/ CommitFailed
    <2>1. d'.state = "idle"
      BY <1>0, <1>4, Zenon DEF SpawnFail, CommitReady, CommitFail, CommitFailed,
                               Settled, CommitInto, Context
    <2> QED
      BY <1>4, <2>1 DEF SpawnFail, CommitReady, CommitFail, CommitFailed, ThreadSound
  <1>5. CASE Deserialize
    BY <1>0, <1>5 DEF Deserialize, DilocoInv, CheckpointSound, ThreadSound
  <1>6. CASE Reinit \/ Crash
    BY <1>6 DEF Reinit, Crash, Begin, FreshContext, ThreadSound
  <1>7. CASE Idle
    <2>1. CASE Serialize \/ Wait \/ Finalize \/ Commit \/ UNCHANGED vars
      BY <1>0, <2>1 DEF Serialize, Wait, Finalize, Commit, vars, ThreadSound
    <2>2. CASE WorkerExit \/ WaitReturn \/ FinalizeJoined
      BY <1>0, <2>2 DEF WorkerExit, WaitReturn, FinalizeJoined, NoThread, ThreadSound
    <2> QED
      BY <1>7, <2>1, <2>2 DEF Idle
  <1> QED
    BY <1>1, <1>2, <1>3, <1>4, <1>5, <1>6, <1>7 DEF Next, WorkerStep, Return, Idle

(* A checkpoint is a sound context with its history, since one is never    *)
(* taken while a round is running.                                         *)
LEMMA CheckpointStep == DilocoInv /\ [Next]_vars => CheckpointSound'
  <1> SUFFICES ASSUME DilocoInv, [Next]_vars PROVE CheckpointSound'
    OBVIOUS
  <1>1. CASE Serialize
    BY <1>1 DEF Serialize, CheckpointSound, DilocoInv
  <1>2. CASE ckpt' = ckpt
    BY <1>2 DEF DilocoInv, CheckpointSound
  <1>3. ckpt' = ckpt \/ Serialize
    BY DEF Next, WorkerStep, Return, vars, AddParameter, InnerStep, SyncOuter, Launch,
           SpawnFail, WorkerReady, WorkerFail, WorkerExit, Wait, WaitReturn, Commit,
           CommitReady, CommitFail, CommitFailed, Finalize, FinalizeJoined, SetEpochs,
           Deserialize, Reinit, Crash, Begin
  <1> QED
    BY <1>1, <1>2, <1>3

(* The first context satisfies the invariant.                              *)
LEMMA InitDilocoInv == Init => DilocoInv
  <1> SUFFICES ASSUME Init PROVE DilocoInv
    OBVIOUS
  <1>1. TypeOK
    BY ZeroType DEF Init, TypeOK
  <1>2. ContextSound(d, live, drift, after, taken)
    BY DEF Init, ContextSound, CountersSound, WorkSound, MomentsSound, PendingSound,
           FreshContext, NoRound, Registered, Param
  <1>3. JobSound /\ ThreadSound /\ CheckpointSound
    BY DEF Init, JobSound, ThreadSound, CheckpointSound, FreshContext, NoCheckpoint
  <1> QED
    BY <1>1, <1>2, <1>3 DEF DilocoInv

-----------------------------------------------------------------------------
(* The inductive invariant holds in every reachable state of diloco.cpp.   *)
THEOREM Invariance == Spec => []DilocoInv
  <1>1. DilocoInv /\ [Next]_vars => DilocoInv'
    BY TypeStep, CountersStep, WorkStep, MomentsStep, PendingStep, JobStep, ThreadStep,
       CheckpointStep DEF DilocoInv, ContextSound
  <1> QED
    BY InitDilocoInv, <1>1, PTL DEF Spec

(* diloco.cpp keeps its state in the shape declared for it.                *)
THEOREM TypeCorrect == Spec => []TypeOK
  <1>1. DilocoInv => TypeOK
    BY DEF DilocoInv
  <1> QED
    BY <1>1, Invariance, PTL

(* No inner update is lost or counted twice: commit_round, its rollback, a *)
(* restore and a crash leave every registered buffer at its anchor plus the *)
(* training done since the snapshot of the last committed round.           *)
THEOREM WorkCorrect == Spec => []LocalWorkKept
  <1>1. DilocoInv => LocalWorkKept
    BY DEF DilocoInv, ContextSound, WorkSound, LocalWorkKept
  <1> QED
    BY <1>1, Invariance, PTL

(* With SGD and Nesterov the moments of apply_outer_optimizer count every  *)
(* committed round and no other.  (With Adam they do not: see the README.) *)
THEOREM MomentsCorrect == ASSUME Optimizer # "adam" PROVE Spec => []MomentsKept
  <1>1. DilocoInv => MomentsKept
    BY DEF DilocoInv, ContextSound, MomentsSound, MomentsKept
  <1> QED
    BY <1>1, Invariance, PTL

(* An idle context has been joined (tc_diloco_async_commit).               *)
THEOREM JoinedCorrect == Spec => []IdleMeansJoined
  <1>1. DilocoInv => IdleMeansJoined
    BY DEF DilocoInv, ThreadSound, ContextSound, IdleMeansJoined
  <1> QED
    BY <1>1, Invariance, PTL

(* tc_diloco_finalize destroys only a context with no worker and nothing   *)
(* left to acknowledge.                                                    *)
THEOREM FinalizeCorrect == Spec => []FinalizedQuiet
  <1>1. DilocoInv => FinalizedQuiet
    BY DEF DilocoInv, ThreadSound, ContextSound, CountersSound, FinalizedQuiet
  <1> QED
    BY <1>1, Invariance, PTL

(* What tc_diloco_state_serialize wrote, validate_serialized_state accepts *)
(* in any context with the same parameters and unbound or equal epochs.    *)
THEOREM CheckpointCorrect == Spec => []OwnCheckpointAccepted
  <1>1. DilocoInv => OwnCheckpointAccepted
    BY DEF DilocoInv, CheckpointSound, ContextSound, CountersSound, OwnCheckpointAccepted, Accepts
  <1> QED
    BY <1>1, Invariance, PTL

(* The result tc_diloco_async_commit finds ready is that of the round that *)
(* was started last, computed from the anchors it is about to replace.     *)
THEOREM ResultCorrect == Spec => []ResultIsCurrent
  <1>1. DilocoInv => ResultIsCurrent
    BY DEF DilocoInv, ContextSound, CountersSound, PendingSound, ResultIsCurrent
  <1> QED
    BY <1>1, Invariance, PTL
===============================================================================
