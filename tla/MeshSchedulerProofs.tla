-------------------------- MODULE MeshSchedulerProofs --------------------------
(***************************************************************************)
(* Proofs about MeshScheduler, for any rows, resources, pools, limits,     *)
(* clients and numbers of events.                                          *)
(*                                                                         *)
(* Queue: only the holder of the lock is between its load and its last     *)
(* event, and what it has loaded is the file but for the row it edits      *)
(* (LockHeld, OneEdit), so a write loses nothing, and a row without its    *)
(* event is the holder's or was left by a dead process (EveryRowLogged).   *)
(* A row that the gate has seen is either covered by its event or differs  *)
(* by now (GateLooks).                                                     *)
(*                                                                         *)
(* Leases: placed work has a lease that is at most one pass old            *)
(* (Renewed), or excused by a reason not to renew it, and then its expiry  *)
(* takes it out of the placed work.  The steps that could take the lease   *)
(* away find a contradiction: a dead job that matches it would be that     *)
(* very work (DistinctOwners), whose probe did not say dead (LookedAfter); *)
(* a claim has seen no lease where the status showed one (StatusHolds);    *)
(* a failed launch gives back the lease it has itself claimed (Launching). *)
(*                                                                         *)
(* Limits: all placed work is among what a pass has counted (Tracked), and *)
(* a launch has found room for one more (WithinLaunch).                    *)
(***************************************************************************)
EXTENDS MeshSchedulerProps, FiniteSetTheorems, TLAPS

USE SchedulerAssumption, QueueAssumption

(* A placement is a row on a resource; the row is the owner of its lease.  *)
LEMMA PlaceFacts ==
  /\ \A p \in Place : p[1] \in Job /\ p[2] \in Resource /\ p[1] \in Holder
  /\ \A p, q \in Place : p[1] = q[1] /\ p[2] = q[2] => p = q
  /\ Free \notin Job
  /\ \A j \in Job : j \notin Foreign
  BY DEF Place, Holder

(* A process outside any command is a process.                             *)
LEMMA RestingType == Resting \in Process
  BY DEF Resting, Process, NoEvents, Doc, Content

(* Spending from a bound leaves a bound.                                   *)
LEMMA SpendType ==
  ASSUME budget \in [Event -> Nat], NEW event \in Event, Spend(event)
  PROVE  budget' \in [Event -> Nat]
  BY DEF Spend

(* The commands on the queue keep its shape.                               *)
LEMMA QueueTypeStep ==
  ASSUME QueueTypeOK, NEW accepted \in SUBSET (Job \X {"running", "paused"}), QueueStep(accepted)
  PROVE  QueueTypeOK'
  <1> USE RestingType DEF QueueTypeOK
  <1> PICK c \in Client : \/ Submit(c, accepted) \/ Cancel(c) \/ Write(c) \/ AppendEvent(c)
                          \/ BootstrapRead(c) \/ BootstrapBind(c) \/ Die(c)
    BY DEF QueueStep
  <1> client[c] \in Process /\ client[c].doc \in Doc /\ client[c].jobs \in SUBSET Job
    BY DEF Process
  <1> /\ Spend("edits") => budget' \in [Event -> Nat]
      /\ Spend("bootstraps") => budget' \in [Event -> Nat]
      /\ Spend("deaths") => budget' \in [Event -> Nat]
    BY SpendType DEF Event
  <1>1. ASSUME NEW j \in Job, NEW row \in Row, LockAndEdit(c, j, row) PROVE QueueTypeOK'
    <2>1. [queue EXCEPT ![j] = row] \in Doc
      BY DEF Doc, Content
    <2>2. [at |-> "locked", doc |-> [queue EXCEPT ![j] = row], jobs |-> {j}] \in Process
      BY <2>1 DEF Process
    <2> QED
      BY <1>1, <2>2 DEF LockAndEdit, Goes
  <1>2. CASE Submit(c, accepted)
    <2>1. PICK new \in accepted : LockAndEdit(c, new[1], new[2])
      BY <1>2 DEF Submit
    <2>2. new[1] \in Job /\ new[2] \in Row
      BY DEF Row
    <2> QED
      BY <1>1, <2>1, <2>2
  <1>3. CASE Cancel(c)
    <2>1. \A j \in Job : Cancelled(queue[j]) \in Row
      BY DEF Cancelled, Row
    <2> QED
      BY <1>1, <1>3, <2>1 DEF Cancel, Present
  <1>4. CASE Write(c)
    BY <1>4 DEF Write, Goes, StillTorn, Process
  <1>5. CASE AppendEvent(c)
    <2> PICK j \in client[c].jobs :
          /\ log' = [log EXCEPT ![j] = client[c].doc[j]]
          /\ queue' = queue /\ torn' = StillTorn
          /\ IF client[c].jobs = {j} THEN Rests(c) /\ holder' = Nobody
             ELSE Goes(c, "wrote", client[c].doc, client[c].jobs \ {j}) /\ UNCHANGED holder
          /\ UNCHANGED budget
      BY <1>5 DEF AppendEvent
    <2>1. log' \in Doc
      BY DEF Doc
    <2>2. client' \in [Client -> Process]
      BY DEF Rests, Goes, Process
    <2> QED
      BY <2>1, <2>2 DEF StillTorn
  <1>6. CASE BootstrapRead(c)
    BY <1>6 DEF BootstrapRead, Goes, Process, Present
  <1>7. CASE BootstrapBind(c)
    BY <1>7 DEF BootstrapBind, Goes, Rests, Process
  <1>8. CASE Die(c)
    BY <1>8 DEF Die, Rests
  <1> QED
    BY <1>2, <1>3, <1>4, <1>5, <1>6, <1>7, <1>8

(* Whatever a control command does next, the lock, the loaded files, the   *)
(* pending events and the log stay consistent.                             *)
LEMMA QueueInvStep ==
  ASSUME QueueTypeOK, QueueInv, NEW accepted \in SUBSET (Job \X {"running", "paused"}),
         QueueStep(accepted)
  PROVE  QueueInv'
  <1> PICK c \in Client : \/ Submit(c, accepted) \/ Cancel(c) \/ Write(c) \/ AppendEvent(c)
                          \/ BootstrapRead(c) \/ BootstrapBind(c) \/ Die(c)
    BY DEF QueueStep
  <1> QueueTypeOK'
    BY QueueTypeStep
  <1> USE DEF QueueTypeOK
  <1> /\ client[c] \in Process /\ client[c].doc \in Doc /\ client[c].jobs \in SUBSET Job
      /\ c # Nobody
    BY DEF Process
  <1>1. ASSUME NEW j \in Job, NEW row \in Row, LockAndEdit(c, j, row) PROVE QueueInv'
    <2> [queue EXCEPT ![j] = row] \in Doc
      BY DEF Doc, Content
    <2>1. /\ client' = [client EXCEPT ![c] = [at |-> "locked", doc |-> [queue EXCEPT ![j] = row], jobs |-> {j}]]
          /\ holder = Nobody /\ holder' = c /\ client[c].at = "idle"
          /\ queue' = queue /\ log' = log /\ torn' = torn
      BY <1>1 DEF LockAndEdit, Goes
    <2>2. /\ client'[c].at = "locked" /\ client'[c].jobs = {j} /\ client'[c].doc[j] = row
          /\ \A k \in Job \ {j} : client'[c].doc[k] = queue[k]
          /\ \A d \in Client \ {c} : client'[d] = client[d]
      BY <2>1 DEF Doc
    <2>3. LockHeld'
      BY <2>1, <2>2 DEF QueueInv, LockHeld
    <2>4. OneEdit'
      BY <2>1, <2>2 DEF QueueInv, OneEdit
    <2>5. Pending' /\ TornRows'
      BY <2>1, <2>2 DEF QueueInv, Pending, TornRows, Present
    <2>6. EveryRowLogged'
      BY <2>1, <2>2 DEF QueueInv, EveryRowLogged
    <2> QED
      BY <2>3, <2>4, <2>5, <2>6 DEF QueueInv
  <1>2. CASE Submit(c, accepted)
    <2>1. PICK new \in accepted : LockAndEdit(c, new[1], new[2])
      BY <1>2 DEF Submit
    <2>2. new[1] \in Job /\ new[2] \in Row
      BY DEF Row
    <2> QED
      BY <1>1, <2>1, <2>2
  <1>3. CASE Cancel(c)
    <2>1. \A j \in Job : Cancelled(queue[j]) \in Row
      BY DEF Cancelled, Row
    <2> QED
      BY <1>1, <1>3, <2>1 DEF Cancel, Present
  <1>4. CASE Write(c)
    <2>1. /\ client[c].at = "locked" /\ queue' = client[c].doc /\ log' = log
          /\ client' = [client EXCEPT ![c] = [at |-> "wrote", doc |-> client[c].doc, jobs |-> client[c].jobs]]
          /\ torn' = {j \in torn : queue'[j] # log'[j]} /\ holder' = holder
      BY <1>4 DEF Write, Goes, StillTorn
    <2>2. /\ client'[c].at = "wrote" /\ client'[c].jobs = client[c].jobs
          /\ client'[c].doc = queue'
          /\ \A d \in Client \ {c} : client'[d] = client[d]
      BY <2>1
    <2>3. PICK j \in Job : /\ client[c].jobs = {j} /\ queue'[j] \in Row
                           /\ \A k \in Job \ {j} : queue'[k] = queue[k]
      <3>1. \E j \in Job : /\ client[c].jobs = {j} /\ client[c].doc[j] \in Row
                           /\ \A k \in Job \ {j} : client[c].doc[k] = queue[k]
        BY <2>1 DEF QueueInv, OneEdit
      <3> QED
        BY <3>1, <2>1
    <2>4. \A d \in Client \ {c} : client[d].at \notin {"locked", "wrote"}
      BY <2>1 DEF QueueInv, LockHeld
    <2>5. Present(queue) \subseteq Present(queue') /\ j \in Present(queue')
      BY <2>3 DEF Present, Row
    <2>6. LockHeld'
      BY <2>1, <2>2 DEF QueueInv, LockHeld
    <2>7. OneEdit'
      BY <2>2, <2>4 DEF OneEdit
    <2>8. Pending'
      BY <2>2, <2>3, <2>4, <2>5 DEF QueueInv, Pending
    <2>9. TornRows'
      BY <2>1, <2>5 DEF QueueInv, TornRows
    <2>10. EveryRowLogged'
      BY <2>1, <2>2, <2>3, <2>4 DEF QueueInv, EveryRowLogged, LockHeld
    <2> QED
      BY <2>6, <2>7, <2>8, <2>9, <2>10 DEF QueueInv
  <1>5. CASE AppendEvent(c)
    <2> PICK j \in client[c].jobs :
          /\ client[c].at = "wrote"
          /\ log' = [log EXCEPT ![j] = client[c].doc[j]]
          /\ queue' = queue /\ torn' = {k \in torn : queue'[k] # log'[k]}
          /\ IF client[c].jobs = {j} THEN Rests(c) /\ holder' = Nobody
             ELSE Goes(c, "wrote", client[c].doc, client[c].jobs \ {j}) /\ UNCHANGED holder
      BY <1>5 DEF AppendEvent, StillTorn
    <2>1. log'[j] = client[c].doc[j] /\ \A k \in Job \ {j} : log'[k] = log[k]
      BY DEF Doc
    <2>2. \A d \in Client \ {c} : client'[d] = client[d] /\ client[d].at \notin {"locked", "wrote"}
      BY DEF Rests, Goes, QueueInv, LockHeld
    <2>3. \/ /\ client[c].jobs = {j} /\ holder' = Nobody /\ client'[c].at = "idle"
          \/ /\ client[c].jobs # {j} /\ holder' = holder /\ client'[c].at = "wrote"
             /\ client'[c].doc = client[c].doc /\ client'[c].jobs = client[c].jobs \ {j}
      BY DEF Rests, Goes, Resting
    <2>4. holder = c
      BY DEF QueueInv, LockHeld
    <2>5. LockHeld'
      BY <2>2, <2>3, <2>4 DEF QueueInv, LockHeld
    <2>6. OneEdit'
      BY <2>2, <2>3 DEF OneEdit
    <2>7. \A k \in torn : k # j => k \in torn'
      BY <2>1 DEF QueueInv, TornRows
    <2>8. Pending'
      <3>1. Present(queue') = Present(queue)
        BY DEF Present
      <3>2. ASSUME NEW d \in Client, client'[d].at \in {"read", "wrote"}
            PROVE  client'[d].jobs \subseteq Present(queue')
        BY <2>2, <2>3, <3>1, <3>2 DEF QueueInv, Pending
      <3>3. ASSUME NEW d \in Client, client'[d].at = "wrote", NEW k \in client'[d].jobs,
                   client'[d].doc[k] # queue'[k]
            PROVE  k \in torn'
        <4>1. d = c /\ k \in client[c].jobs /\ k # j /\ client[c].doc[k] # queue[k]
          BY <2>2, <2>3, <3>3
        <4> QED
          BY <4>1, <2>7 DEF QueueInv, Pending
      <3> QED
        BY <3>2, <3>3 DEF Pending
    <2>9. TornRows'
      BY DEF QueueInv, TornRows
    <2>10. queue[j] # log'[j] => j \in torn'
      BY <2>1 DEF QueueInv, Pending
    <2>11. EveryRowLogged'
      BY <2>1, <2>2, <2>3, <2>4, <2>7, <2>10 DEF QueueInv, EveryRowLogged
    <2> QED
      BY <2>5, <2>6, <2>8, <2>9, <2>11 DEF QueueInv
  <1>6. CASE BootstrapRead(c)
    <2>1. /\ client[c].at = "idle" /\ UNCHANGED <<queue, log, holder, torn>>
          /\ client' = [client EXCEPT ![c] = [at |-> "read", doc |-> queue, jobs |-> Present(queue)]]
      BY <1>6 DEF BootstrapRead, Goes
    <2>2. /\ client'[c].at = "read" /\ client'[c].jobs = Present(queue)
          /\ \A d \in Client \ {c} : client'[d] = client[d]
      BY <2>1
    <2> QED
      <3>1. LockHeld'
        BY <2>1, <2>2 DEF QueueInv, LockHeld
      <3>2. OneEdit'
        BY <2>1, <2>2 DEF QueueInv, OneEdit
      <3>3. Pending'
        BY <2>1, <2>2 DEF QueueInv, Pending, Present
      <3>4. TornRows' /\ EveryRowLogged'
        BY <2>1, <2>2 DEF QueueInv, TornRows, EveryRowLogged, Present
      <3> QED
        BY <3>1, <3>2, <3>3, <3>4 DEF QueueInv
  <1>7. CASE BootstrapBind(c)
    <2>1. /\ client[c].at = "read" /\ holder = Nobody /\ UNCHANGED <<queue, log, torn>>
          /\ \/ /\ log = NoEvents /\ holder' = c
                /\ client' = [client EXCEPT ![c] = [at |-> "wrote", doc |-> client[c].doc, jobs |-> client[c].jobs]]
             \/ /\ holder' = holder /\ client' = [client EXCEPT ![c] = Resting]
      BY <1>7 DEF BootstrapBind, Goes, Rests
    <2>2. /\ \A d \in Client \ {c} : client'[d] = client[d]
          /\ \/ /\ log = NoEvents /\ holder' = c /\ client'[c].at = "wrote"
                /\ client'[c].doc = client[c].doc /\ client'[c].jobs = client[c].jobs
             \/ /\ holder' = holder /\ client'[c].at = "idle"
      BY <2>1 DEF Resting
    <2>3. \A d \in Client : client[d].at \notin {"locked", "wrote"}
      BY <2>1 DEF QueueInv, LockHeld
    <2>4. log = NoEvents => \A j \in Present(queue) : j \in torn
      BY <2>1 DEF QueueInv, EveryRowLogged, NoEvents, Present
    <2>5. LockHeld' /\ OneEdit'
      BY <2>1, <2>2, <2>3 DEF QueueInv, LockHeld, OneEdit
    <2>6. Pending'
      BY <2>1, <2>2, <2>3, <2>4 DEF QueueInv, Pending, Present
    <2>7. TornRows' /\ EveryRowLogged'
      BY <2>1, <2>2, <2>3 DEF QueueInv, TornRows, EveryRowLogged, Present
    <2> QED
      BY <2>5, <2>6, <2>7 DEF QueueInv
  <1>8. CASE Die(c)
    <2>1. /\ UNCHANGED <<queue, log>> /\ client[c].at # "idle"
          /\ client' = [client EXCEPT ![c] = Resting]
          /\ holder' = IF holder = c THEN Nobody ELSE holder
          /\ torn' = IF client[c].at = "wrote"
                     THEN torn \cup {j \in client[c].jobs : queue[j] # log[j]} ELSE torn
      BY <1>8 DEF Die, Rests
    <2>2. client'[c].at = "idle" /\ \A d \in Client \ {c} : client'[d] = client[d]
      BY <2>1 DEF Resting
    <2>3. LockHeld' /\ OneEdit'
      BY <2>1, <2>2 DEF QueueInv, LockHeld, OneEdit
    <2>4. Pending' /\ TornRows'
      BY <2>1, <2>2 DEF QueueInv, Pending, TornRows, Present
    <2>5. EveryRowLogged'
      BY <2>1, <2>2 DEF QueueInv, EveryRowLogged
    <2> QED
      BY <2>3, <2>4, <2>5 DEF QueueInv
  <1> QED
    BY <1>2, <1>3, <1>4, <1>5, <1>6, <1>7, <1>8

(* What the models start from has the right shape.                         *)
LEMMA ConstantTypes ==
  /\ NoLeases \in [Resource -> Holder \cup {Free}]
  /\ Unprobed \in [Place -> {"yes", "no", "unknown"}]
  /\ NoEvents \in Doc
  /\ 1 \in Resource
  BY DEF NoLeases, Unprobed, NoEvents, Doc, Content, Resource

(* Whatever is spent, the bounds stay bounds.                              *)
LEMMA BudgetTypes ==
  ASSUME budget \in [Event -> Nat]
  PROVE  /\ \A e \in {"outages", "restarts", "strays", "claims", "drains", "failures",
                      "confirmations"} : Spend(e) => budget' \in [Event -> Nat]
         /\ UNCHANGED budget => budget' \in [Event -> Nat]
  BY SpendType DEF Event

(* The end of a pass, and the way to the next resource.                    *)
LEMMA OverType ==
  ASSUME Over PROVE PassTypeOK'
  BY ConstantTypes DEF Over, PassTypeOK

(* Going on to the next resource keeps the shape of a pass.                *)
LEMMA LeaveType ==
  ASSUME PassTypeOK, NEW S \in SUBSET Place, Leave(S)
  PROVE  PassTypeOK'
  <1>1. CASE cur < NResources
    <2>1. cur + 1 \in Resource
      BY <1>1 DEF PassTypeOK, Resource
    <2> QED
      BY <1>1, <2>1 DEF Leave, PassTypeOK, Visiting, read, probes, leases
  <1>2. CASE ~(cur < NResources)
    BY <1>2, OverType DEF Leave
  <1> QED
    BY <1>1, <1>2

(* Claims and releases keep the shape of the arbiter.                      *)
LEMMA ArbiterTypes ==
  ASSUME WorldTypeOK, NEW r \in Resource
  PROVE  /\ \A h \in Holder \cup {Free} : Claimed(r, h) =>
              /\ lease' \in [Resource -> Holder \cup {Free}]
              /\ slip' \in [Resource -> Nat] /\ excused' \subseteq Resource
         /\ Dropped(r) =>
              /\ lease' \in [Resource -> Holder \cup {Free}]
              /\ slip' \in [Resource -> Nat] /\ excused' \subseteq Resource
              /\ gone \subseteq Resource => gone' \subseteq Resource
  BY DEF WorldTypeOK, Claimed, Dropped

(* So does the end of a pass that was refused.                             *)
LEMMA RefusedType ==
  ASSUME WorldTypeOK, Refused PROVE WorldTypeOK' /\ PassTypeOK'
  BY OverType DEF Refused, WorldTypeOK, topology, work

(* The steps of a pass keep the shape of the state.                        *)
LEMMA PassStepType ==
  ASSUME TypeOK, PassStep \/ Outage \/ Unanswered \/ Restart
  PROVE  TypeOK' /\ UNCHANGED files
  <1> USE ConstantTypes, BudgetTypes
  <1> QueueTypeOK /\ WorldTypeOK /\ PassTypeOK /\ budget \in [Event -> Nat]
    BY DEF TypeOK, QueueTypeOK
  <1> SUFFICES /\ UNCHANGED files /\ budget' \in [Event -> Nat]
               /\ WorldTypeOK' /\ PassTypeOK'
    BY DEF TypeOK, QueueTypeOK, files
  <1> Schedulable \subseteq Place /\ \A r \in Resource : LiveOn(r) \subseteq Place
    BY DEF Schedulable, Loaded, LiveOn, On
  <1> cur \in Resource
    BY DEF PassTypeOK
  <1> {} \in SUBSET Place
    OBVIOUS
  <1>1. CASE Begin
    <2>1. slip' \in [Resource -> Nat]
      BY <1>1 DEF Begin, WorldTypeOK
    <2> QED
      BY <1>1, <2>1 DEF Begin, WorldTypeOK, PassTypeOK, qvars, topology, work, probes,
                        leases, choice
  <1>2. CASE TopologyRefuses \/ QueueRefuses \/ LoadFails
    BY <1>2, RefusedType DEF TopologyRefuses, QueueRefuses, LoadFails, qvars
  <1>3. CASE Outage \/ Restart
    BY <1>3, RefusedType DEF Outage, Restart
  <1>4. CASE TopologyAccepts \/ QueueAccepts
    BY <1>4 DEF TopologyAccepts, QueueAccepts, QueueTypeOK, WorldTypeOK, PassTypeOK, qvars,
                files, world, topology, arbiter, work, read, probes, leases, choice
  <1>5. CASE Load
    <2>1. Schedulable' \subseteq Place
      BY DEF Schedulable, Loaded
    <2>2. PassTypeOK'
      BY <1>5, <2>1 DEF Load, QueueTypeOK, PassTypeOK, leases, choice
    <2> QED
      BY <1>5, <2>1, <2>2 DEF Load, WorldTypeOK, qvars, topology
  <1>6. CASE Probe
    <2> PICK p \in todo :
          /\ \/ /\ live' = [live EXCEPT ![p] = IF p \in up THEN "yes" ELSE "no"]
                /\ UNCHANGED <<excused, budget>>
             \/ /\ Spend("outages")
                /\ excused' = IF lease[p[2]] # Free THEN excused \cup {p[2]} ELSE excused
                /\ UNCHANGED live
          /\ IF todo = {p} THEN pc' = "complete" /\ todo' = Schedulable
                           ELSE pc' = "probe" /\ todo' = todo \ {p}
          /\ UNCHANGED <<files, topology, lease, slip, work, cur, read, cands, leases, choice>>
      BY <1>6 DEF Probe
    <2>1. p[2] \in Resource
      BY PlaceFacts DEF PassTypeOK
    <2>2. PassTypeOK'
      BY DEF PassTypeOK, read, leases, choice
    <2>3. WorldTypeOK'
      BY <2>1 DEF WorldTypeOK, topology, work
    <2> QED
      BY <2>2, <2>3
  <1>7. CASE Complete
    <2>1. WorldTypeOK'
      BY <1>7 DEF Complete, WorldTypeOK, world, topology, arbiter, work
    <2>2. PassTypeOK'
      BY <1>7 DEF Complete, PassTypeOK, read, leases, choice
    <2> QED
      BY <1>7, <2>1, <2>2 DEF Complete
  <1>8. CASE Status
    BY <1>8 DEF Status, WorldTypeOK, PassTypeOK, Visiting, qvars, world, topology, arbiter, work,
                read, probes, choice
  <1>9. CASE Skip
    BY <1>9, LeaveType DEF Skip, WorldTypeOK, qvars, world, topology, arbiter, work
  <1>10. CASE Reconcile
    <2>1. /\ lease' \in [Resource -> Holder \cup {Free}]
          /\ slip' \in [Resource -> Nat] /\ excused' \subseteq Resource
          /\ gone' \subseteq Resource
      BY <1>10, ArbiterTypes DEF Reconcile, WorldTypeOK, PassTypeOK, arbiter
    <2>2. seen' \in Holder \cup {Free}
      BY <1>10 DEF Reconcile, PassTypeOK
    <2>3. UNCHANGED files /\ budget' \in [Event -> Nat]
      BY <1>10 DEF Reconcile
    <2> QED
      BY <1>10, <2>1, <2>2, <2>3 DEF Reconcile, WorldTypeOK, PassTypeOK, Visiting, topology, work,
                                   read, probes
  <1>11. CASE Conflict \/ Busy \/ Unanswered
    <2>1. NotRenewed /\ budget' \in [Event -> Nat]
      BY <1>11 DEF Conflict, Busy, Unanswered
    <2> QED
      BY <2>1, LeaveType DEF NotRenewed, WorldTypeOK, topology, work
  <1>12. CASE Heartbeat \/ Adopt
    <2>1. PICK p \in LiveOn(cur), h \in Holder \cup {Free} :
            /\ Claimed(cur, h) \/ UNCHANGED arbiter
            /\ Leave({}) /\ UNCHANGED <<qvars, topology, work>>
      <3>1. \A p \in LiveOn(cur) : p[1] \in Holder
        BY PlaceFacts
      <3> QED
        BY <1>12, <3>1 DEF Heartbeat, Adopt, WorldTypeOK
    <2> QED
      BY <2>1, LeaveType, ArbiterTypes DEF WorldTypeOK, qvars, topology, arbiter, work
  <1>13. CASE Claim
    <2> PICK admitted \in SUBSET Launchable(cur) : \E p \in admitted :
          /\ Claimed(cur, p[1])
          /\ \/ /\ IF admitted = Launchable(cur) THEN UNCHANGED budget ELSE Spend("outages")
                /\ cand' = p /\ pc' = "start"
                /\ UNCHANGED <<cur, read, probes, leases, seen, planned>>
             \/ Spend("outages") /\ Leave({})
          /\ UNCHANGED <<files, topology, work>>
      BY <1>13 DEF Claim
    <2> PICK p \in admitted :
          /\ Claimed(cur, p[1])
          /\ \/ /\ IF admitted = Launchable(cur) THEN UNCHANGED budget ELSE Spend("outages")
                /\ cand' = p /\ pc' = "start"
                /\ UNCHANGED <<cur, read, probes, leases, seen, planned>>
             \/ Spend("outages") /\ Leave({})
          /\ UNCHANGED <<files, topology, work>>
      OBVIOUS
    <2>1. p \in Place /\ p[1] \in Holder
      BY PlaceFacts DEF Launchable, On, Loaded
    <2>2. WorldTypeOK'
      BY <2>1, ArbiterTypes DEF WorldTypeOK, topology, work
    <2>3. PassTypeOK'
      <3>1. CASE cand' = p /\ pc' = "start" /\ UNCHANGED <<cur, read, probes, leases, seen, planned>>
        BY <2>1, <3>1 DEF PassTypeOK, Visiting, read, probes, leases
      <3>2. CASE Leave({})
        BY <3>2, LeaveType
      <3> QED
        BY <3>1, <3>2
    <2> QED
      BY <2>2, <2>3
  <1>14. CASE Idle
    BY <1>14, LeaveType DEF Idle, WorldTypeOK, world, topology, arbiter, work
  <1>15. CASE StartOk \/ StartUnseen \/ StartUnconfirmed
    <2>0. cand \in Place
      BY <1>15 DEF StartOk, StartUnseen, StartUnconfirmed, PassTypeOK
    <2>1. PassTypeOK'
      BY <1>15, <2>0, LeaveType DEF StartOk, StartUnseen, StartUnconfirmed
    <2>2. UNCHANGED files /\ budget' \in [Event -> Nat]
      BY <1>15 DEF StartOk, StartUnseen, StartUnconfirmed, qvars
    <2>3. up' \in SUBSET Place /\ up \subseteq up'
      BY <1>15, <2>0 DEF StartOk, StartUnseen, StartUnconfirmed, WorldTypeOK, world, work
    <2>4. UNCHANGED <<topology, lease, slip, done, astray, excused>>
      BY <1>15 DEF StartOk, StartUnseen, StartUnconfirmed, world, arbiter, work
    <2> QED
      BY <2>1, <2>2, <2>3, <2>4 DEF WorldTypeOK, topology
  <1>16. CASE StartFails
    <2>0. cand \in Place
      BY <1>16 DEF StartFails, PassTypeOK
    <2>1. up' \in SUBSET Place /\ astray' \subseteq up'
      BY <1>16, <2>0 DEF StartFails, WorldTypeOK
    <2>2. WorldTypeOK'
      BY <1>16, <2>1 DEF StartFails, WorldTypeOK, topology
    <2>3. PassTypeOK'
      BY <1>16 DEF StartFails, PassTypeOK, Visiting, read, probes, leases, choice
    <2> QED
      BY <1>16, <2>2, <2>3 DEF StartFails
  <1>17. CASE Undo
    <2>1. \/ UNCHANGED arbiter
          \/ /\ lease' = [lease EXCEPT ![cur] = Free]
             /\ slip' = [slip EXCEPT ![cur] = 0]
             /\ excused' = excused \ {cur}
      BY <1>17 DEF Undo
    <2>2. WorldTypeOK'
      <3>1. /\ lease' \in [Resource -> Holder \cup {Free}]
            /\ slip' \in [Resource -> Nat] /\ excused' \subseteq Resource
        BY <2>1 DEF WorldTypeOK, arbiter
      <3> QED
        BY <1>17, <3>1 DEF Undo, WorldTypeOK, topology, work
    <2> QED
      BY <1>17, <2>2, LeaveType DEF Undo
  <1> QED
    BY <1>1, <1>2, <1>3, <1>4, <1>5, <1>6, <1>7, <1>8, <1>9, <1>10, <1>11, <1>12, <1>13, <1>14,
       <1>15, <1>16, <1>17 DEF PassStep

(* So does what happens around the scheduler.                              *)
LEMMA WorldType ==
  ASSUME TypeOK, World
  PROVE  TypeOK' /\ UNCHANGED files
  <1> USE BudgetTypes
  <1> QueueTypeOK /\ WorldTypeOK /\ PassTypeOK /\ budget \in [Event -> Nat]
    BY DEF TypeOK, QueueTypeOK
  <1> SUFFICES /\ UNCHANGED files /\ budget' \in [Event -> Nat]
               /\ WorldTypeOK' /\ PassTypeOK'
    BY DEF TypeOK, QueueTypeOK, files
  <1>1. ASSUME NEW p \in Place, End(p) \/ Stray(p) PROVE WorldTypeOK' /\ UNCHANGED pass
    <2>1. p[1] \in Job
      BY PlaceFacts
    <2> QED
      BY <1>1, <2>1 DEF End, Stray, WorldTypeOK, topology, arbiter
  <1>2. ASSUME NEW p \in Place, End(p) \/ Stray(p)
        PROVE  UNCHANGED files /\ budget' \in [Event -> Nat]
    BY <1>2 DEF End, Stray
  <1>3. ASSUME NEW r \in Resource, ForeignClaim(r)
        PROVE  WorldTypeOK' /\ UNCHANGED <<files, pass>> /\ budget' \in [Event -> Nat]
    BY <1>3, ArbiterTypes DEF ForeignClaim, WorldTypeOK, Holder, topology, work
  <1>4. ASSUME NEW r \in Resource, ForeignRelease(r) \/ Expire(r)
        PROVE  /\ WorldTypeOK' /\ gone' \subseteq Resource
               /\ UNCHANGED <<qvars, pc, cur, read, probes, shot, choice>>
    BY <1>4, ArbiterTypes DEF ForeignRelease, Expire, WorldTypeOK, PassTypeOK, topology, work
  <1>5. ASSUME NEW r \in Resource, Drain(r)
        PROVE  WorldTypeOK' /\ UNCHANGED <<files, pass>> /\ budget' \in [Event -> Nat]
    BY <1>5 DEF Drain, WorldTypeOK, work
  <1>6. CASE Publish
    BY <1>6 DEF Publish, WorldTypeOK, PassTypeOK, work, qvars, pass, read, probes, leases, choice
  <1>7. UNCHANGED pass => PassTypeOK'
    BY DEF PassTypeOK, pass, read, probes, leases, choice
  <1>8. gone' \subseteq Resource /\ UNCHANGED <<pc, cur, read, probes, shot, choice>> => PassTypeOK'
    BY DEF PassTypeOK, read, probes, choice
  <1> QED
    BY <1>1, <1>2, <1>3, <1>4, <1>5, <1>6, <1>7, <1>8 DEF World, qvars

(* The parts of the pass on which the schedulable placements depend.       *)
LEMMA SameSchedulable ==
  UNCHANGED <<rows, inv>> => Schedulable' = Schedulable
  BY DEF Schedulable, Loaded

(* Placed work is a row on a resource, and no row is the mark of no holder.*)
LEMMA PlacedFacts ==
  ASSUME TypeOK
  PROVE  /\ Placed \subseteq Place
         /\ \A p \in Placed : p[1] \in Job /\ p[2] \in Resource /\ p[1] # Free
  BY PlaceFacts DEF TypeOK, WorldTypeOK, Placed

(* Leaving a resource: whatever was done there, placed work on it holds    *)
(* its lease, and the lease is renewed or excused.                         *)
LEMMA LeaveInv ==
  ASSUME TypeOK, TypeOK', PassInv, pc \in Visiting, NEW S, Leave(S),
         \A r \in Resource \ {cur} : /\ lease'[r] = lease[r] /\ slip'[r] = slip[r]
                                     /\ r \in excused' <=> r \in excused,
         Placed' \subseteq Schedulable,
         \A p \in Placed' : p[2] # cur => p \in Placed,
         \A p \in Placed' : p[2] = cur =>
            lease'[cur] = p[1] /\ (cur \in excused' \/ slip'[cur] = 0)
  PROVE  PassInv'
  <1> cur \in Resource /\ cur \in Nat /\ Resource \subseteq Nat
    BY DEF TypeOK, PassTypeOK, Resource
  <1>1. /\ Placed' \subseteq Place /\ \A p \in Placed' : p[2] \in Resource
        /\ Placed \subseteq Place
    BY PlacedFacts, PlaceFacts DEF TypeOK, WorldTypeOK, Placed
  <1>2. ASSUME NEW p \in Placed', p[2] # cur
        PROVE  /\ p \in Placed /\ p[2] \in Nat
               /\ lease'[p[2]] = lease[p[2]] /\ slip'[p[2]] = slip[p[2]]
               /\ p[2] \in excused' <=> p[2] \in excused
    <2>1. p[2] \in Resource \ {cur}
      BY <1>1, <1>2
    <2> QED
      BY <1>2, <2>1
  <1>3. PlacedWorkHoldsLease'
    BY <1>2 DEF PassInv, PlacedWorkHoldsLease
  <1>4. ASSUME NEW p \in Placed', p[2] < cur \/ p[2] = cur
        PROVE  p[2] \in excused' \/ slip'[p[2]] = 0
    BY <1>2, <1>4 DEF PassInv, Renewed
  <1>5. ASSUME NEW p \in Placed', p[2] > cur
        PROVE  p[2] \in excused' \/ slip'[p[2]] <= 1
    BY <1>2, <1>5 DEF PassInv, Renewed
  <1>6. CASE cur < NResources
    <2>1. /\ pc' = "visit" /\ cur' = cur + 1
          /\ UNCHANGED <<inv, rows, todo, live, cands, shot, gone>>
      BY <1>6 DEF Leave, read, probes, leases
    <2>2. Schedulable' = Schedulable
      BY <2>1, SameSchedulable
    <2>3. cur' \in Nat /\ \A p \in Placed' : p[2] \in Nat
      <3>1. cur + 1 \in Nat
        OBVIOUS
      <3> QED
        BY <1>1, <2>1, <3>1
    <2>4. \A p \in Placed' : p[2] < cur' <=> p[2] < cur \/ p[2] = cur
      BY <2>1, <2>3
    <2>5. LookedAfter'
      <3>1. ASSUME NEW p \in Placed', live'[p] = "no"
            PROVE  p[2] < cur'
        BY <1>2, <2>1, <2>4, <3>1 DEF PassInv, LookedAfter
      <3>2. \A p \in cands : live[p] = "no"
        BY DEF PassInv, LookedAfter
      <3> QED
        BY <2>1, <2>2, <3>1, <3>2 DEF PassInv, LookedAfter, Visiting
    <2>6. ASSUME NEW p \in Placed', ~(p[2] < cur')
          PROVE  p \in Placed /\ p[2] > cur /\ (p[2] \in excused' <=> p[2] \in excused)
      BY <1>2, <2>3, <2>4, <2>6
    <2>7. Unknown'
      BY <2>1, <2>3, <2>6 DEF PassInv, Unknown, Visiting
    <2>8. Renewed'
      <3>1. ASSUME NEW p \in Placed', p[2] \notin excused'
            PROVE  slip'[p[2]] <= 1 /\ (p[2] < cur' => slip'[p[2]] = 0)
        BY <1>4, <1>5, <2>3, <2>4, <3>1
      <3> QED
        BY <2>1, <3>1 DEF Renewed
    <2>9. StatusHolds'
      BY <2>1, <2>3, <2>6 DEF PassInv, StatusHolds, Visiting
    <2> QED
      BY <1>3, <2>1, <2>5, <2>7, <2>8, <2>9 DEF PassInv, Launching
  <1>7. CASE ~(cur < NResources)
    <2>1. pc' = "idle" /\ cur' = 1 /\ live' = Unprobed /\ cands' = {}
      BY <1>7 DEF Leave, Over
    <2>2. \A p \in Placed' : live'[p] = "unknown"
      BY <1>1, <2>1 DEF Unprobed
    <2>3. LookedAfter'
      BY <2>1, <2>2 DEF LookedAfter, AfterLoad, Visiting
    <2>4. Unknown' /\ StatusHolds' /\ Launching'
      BY <2>1 DEF Unknown, StatusHolds, Launching, Visiting
    <2>5. \A p \in Placed' : p[2] < cur \/ p[2] = cur
      BY <1>1, <1>7 DEF Resource
    <2>6. Renewed'
      BY <1>4, <2>1, <2>5 DEF Renewed
    <2> QED
      BY <1>3, <2>3, <2>4, <2>6 DEF PassInv
  <1> QED
    BY <1>6, <1>7

(* A step outside the pass, that does not touch the leases of placed work  *)
(* or of a launch.                                                         *)
LEMMA AsideInv ==
  ASSUME TypeOK, PassInv, Placed' \subseteq Placed,
         UNCHANGED <<pc, cur, inv, rows, todo, live, cands, shot, seen, cand>>,
         \A p \in Placed' : /\ lease'[p[2]] = lease[p[2]] /\ slip'[p[2]] = slip[p[2]]
                            /\ p[2] \in excused' <=> p[2] \in excused
                            /\ p[2] \in gone' => p[2] \in gone,
         pc \in {"start", "undo"} => lease'[cur] = lease[cur] /\ slip'[cur] = slip[cur]
  PROVE  PassInv'
  <1>1. Schedulable' = Schedulable
    BY SameSchedulable
  <1>2. PlacedWorkHoldsLease'
    BY DEF PassInv, PlacedWorkHoldsLease
  <1>3. LookedAfter'
    BY <1>1 DEF PassInv, LookedAfter, AfterLoad
  <1>4. Unknown' /\ StatusHolds'
    BY DEF PassInv, Unknown, StatusHolds
  <1>5. Renewed' /\ Launching'
    BY DEF PassInv, Renewed, Launching
  <1> QED
    BY <1>2, <1>3, <1>4, <1>5 DEF PassInv

(* A pass that ends before it acts excuses every lease.                    *)
LEMMA RefusedInv ==
  ASSUME TypeOK, TypeOK', PassInv, Refused
  PROVE  PassInv'
  <1>1. /\ pc' = "idle" /\ cur' = 1 /\ live' = Unprobed /\ cands' = {}
        /\ excused' = {r \in Resource : lease[r] # Free}
        /\ UNCHANGED <<lease, slip, up, astray>>
    BY DEF Refused, Over, work
  <1>2. Placed' = Placed
    BY <1>1 DEF Placed
  <1>3. PlacedWorkHoldsLease'
    BY <1>1, <1>2 DEF PassInv, PlacedWorkHoldsLease
  <1>4. \A p \in Placed' : live'[p] = "unknown" /\ p[2] \in excused'
    BY <1>1, <1>2, PlacedFacts DEF PassInv, PlacedWorkHoldsLease, Unprobed
  <1> QED
    BY <1>1, <1>3, <1>4 DEF PassInv, LookedAfter, AfterLoad, Unknown, Renewed, StatusHolds,
                            Launching, Visiting

(* What is known about placed work on the resource that a pass has come    *)
(* to: no other job matches its lease.                                     *)
LEMMA CurrentFacts ==
  ASSUME DistinctOwners, TypeOK, PassInv, pc \in Visiting, NEW p \in Placed, p[2] = cur
  PROVE  /\ p[1] \in Job /\ lease[cur] = p[1] /\ lease[cur] # Free
         /\ cur \notin inv /\ cur \notin gone /\ shot[cur] = p[1]
         /\ pc = "act" => seen = p[1]
         /\ live[p] = "yes" \/ (live[p] = "unknown" /\ cur \in excused)
         /\ p \in On(cur) /\ Known(p[1], cur)
         /\ \A q \in On(cur) : Matches(p[1], q[1]) => q = p
  <1> /\ p[1] \in Job /\ p[1] # Free /\ cur \in Nat /\ p \in Place
    BY PlacedFacts DEF TypeOK, PassTypeOK, Resource
  <1>1. lease[cur] = p[1]
    BY DEF PassInv, PlacedWorkHoldsLease
  <1>2. p \in Schedulable
    BY DEF PassInv, LookedAfter, AfterLoad
  <1>3. cur \notin inv /\ p \in On(cur)
    BY <1>2 DEF Schedulable, On
  <1>4. /\ cur \notin gone /\ shot[cur] = p[1]
        /\ pc = "act" => seen = p[1]
    BY DEF PassInv, StatusHolds
  <1>5. live[p] # "no"
    BY DEF PassInv, LookedAfter
  <1>6. live[p] = "unknown" => cur \in excused
    BY DEF PassInv, Unknown
  <1>7. live[p] \in {"yes", "no", "unknown"}
    BY DEF TypeOK, PassTypeOK
  <1>8. Known(p[1], cur)
    BY <1>3 DEF Known, Matches
  <1>9. ASSUME NEW q \in On(cur), Matches(p[1], q[1]) PROVE q = p
    <2>1. q \in Place /\ q[2] = cur /\ q[1] \in Job
      BY PlaceFacts DEF On, Loaded
    <2>2. p[1] = q[1]
      BY <1>9, <2>1 DEF Matches, DistinctOwners
    <2> QED
      BY <2>1, <2>2, PlaceFacts
  <1> QED
    BY <1>1, <1>3, <1>4, <1>5, <1>6, <1>7, <1>8, <1>9

(* Up to the arbiter status the pass only reads.                           *)
LEMMA ReadingInv ==
  ASSUME TypeOK, TypeOK', PassInv,
         Begin \/ TopologyAccepts \/ QueueAccepts \/ Load \/ Probe \/ Complete \/ Status
  PROVE  PassInv'
  <1> USE DEF PassInv
  <1>0. /\ Placed \subseteq Place
        /\ \A p \in Placed : p[1] \in Job /\ p[2] \in Resource /\ p[2] \in Nat /\ p[1] # Free
    BY PlacedFacts DEF Resource
  <1>1. CASE Begin
    <2>1. /\ pc = "idle" /\ pc' = "topology" /\ UNCHANGED <<lease, up, astray, excused, cur, live, cands>>
          /\ slip' = [r \in Resource |-> IF lease[r] # Free /\ slip[r] < Ttl
                                         THEN slip[r] + 1 ELSE slip[r]]
      BY <1>1 DEF Begin, work, probes
    <2>2. Placed' = Placed
      BY <2>1 DEF Placed
    <2>3. PlacedWorkHoldsLease'
      BY <2>1, <2>2 DEF PlacedWorkHoldsLease
    <2>4. LookedAfter'
      <3>1. cands = {} /\ \A p \in Placed : live[p] # "no"
        BY <2>1 DEF LookedAfter, Visiting
      <3> QED
        BY <2>1, <2>2, <3>1 DEF LookedAfter, AfterLoad, Visiting
    <2>5. Renewed'
      <3>1. ASSUME NEW p \in Placed, p[2] \notin excused PROVE slip'[p[2]] <= 1
        BY <1>0, <2>1, <3>1 DEF Renewed
      <3> QED
        BY <2>1, <2>2, <3>1 DEF Renewed, Visiting
    <2> QED
      BY <2>1, <2>3, <2>4, <2>5 DEF Unknown, StatusHolds, Launching, Visiting
  <1>2. CASE TopologyAccepts \/ QueueAccepts
    <2>1. /\ pc \in {"topology", "queue"} /\ pc' \in {"queue", "load"}
          /\ UNCHANGED <<lease, slip, up, astray, excused, cur, live, cands>>
      BY <1>2 DEF TopologyAccepts, QueueAccepts, world, arbiter, work, probes
    <2>2. Placed' = Placed
      BY <2>1 DEF Placed
    <2>3. PlacedWorkHoldsLease'
      BY <2>1, <2>2 DEF PlacedWorkHoldsLease
    <2>4. LookedAfter'
      <3>1. cands = {} /\ \A p \in Placed : live[p] # "no"
        BY <2>1 DEF LookedAfter, Visiting
      <3> QED
        BY <2>1, <2>2, <3>1 DEF LookedAfter, AfterLoad, Visiting
    <2> QED
      BY <2>1, <2>2, <2>3, <2>4 DEF Unknown, Renewed, StatusHolds, Launching, Visiting
  <1>3. CASE Load
    <2>1. /\ pc = "load" /\ todo' = Schedulable' /\ astray' = astray \cup (up \ Schedulable')
          /\ UNCHANGED <<lease, slip, up, excused, cur, live, cands>>
          /\ pc' = IF todo' = {} THEN "status" ELSE "probe"
      BY <1>3 DEF Load
    <2>2. Placed' \subseteq Placed /\ Placed' \subseteq Schedulable'
      BY <2>1 DEF Placed
    <2>3. PlacedWorkHoldsLease'
      BY <2>1, <2>2 DEF PlacedWorkHoldsLease
    <2>4. LookedAfter'
      <3>1. cands = {} /\ \A p \in Placed : live[p] # "no"
        BY <2>1 DEF LookedAfter, Visiting
      <3> QED
        BY <2>1, <2>2, <3>1 DEF LookedAfter, AfterLoad, Visiting
    <2>5. Unknown'
      BY <2>1, <2>2 DEF Unknown, Visiting
    <2> QED
      BY <2>1, <2>2, <2>3, <2>4, <2>5 DEF Renewed, StatusHolds, Launching, Visiting
  <1>4. CASE Probe
    <2> PICK p \in todo :
          /\ pc = "probe"
          /\ \/ /\ live' = [live EXCEPT ![p] = IF p \in up THEN "yes" ELSE "no"]
                /\ UNCHANGED <<excused, budget>>
             \/ /\ excused' = IF lease[p[2]] # Free THEN excused \cup {p[2]} ELSE excused
                /\ UNCHANGED live
          /\ IF todo = {p} THEN pc' = "complete" /\ todo' = Schedulable
                           ELSE pc' = "probe" /\ todo' = todo \ {p}
          /\ UNCHANGED <<lease, slip, work, cur, inv, rows, cands>>
      BY <1>4 DEF Probe, read
    <2>1. Placed' = Placed /\ Schedulable' = Schedulable
      BY SameSchedulable DEF Placed, work
    <2>2. PlacedWorkHoldsLease'
      BY <2>1 DEF PlacedWorkHoldsLease
    <2>3. cands = {} /\ \A q \in Placed : live[q] # "no"
      BY DEF LookedAfter, Visiting
    <2>4. ASSUME NEW q \in Placed
          PROVE  /\ live'[q] # "no"
                 /\ q # p => live'[q] = live[q]
                 /\ q = p => live'[q] = "yes" \/ (live'[q] = live[q] /\ q[2] \in excused')
      <3>1. q \in up /\ lease[q[2]] # Free /\ live \in [Place -> {"yes", "no", "unknown"}]
        BY <1>0 DEF Placed, PlacedWorkHoldsLease, TypeOK, PassTypeOK
      <3> QED
        BY <1>0, <2>3, <3>1
    <2>5. LookedAfter'
      BY <2>1, <2>3, <2>4 DEF LookedAfter, AfterLoad, Visiting
    <2>6. excused \subseteq excused'
      OBVIOUS
    <2>7. Unknown'
      BY <2>1, <2>4, <2>6 DEF Unknown, Visiting
    <2>8. Renewed'
      BY <2>1, <2>6 DEF Renewed, Visiting
    <2> QED
      BY <2>2, <2>5, <2>7, <2>8 DEF StatusHolds, Launching, Visiting
  <1>5. CASE Complete
    <2> PICK p \in todo :
          /\ pc = "complete" /\ todo' = todo \ {p}
          /\ cands' \in {cands, cands \cup {p}} /\ (cands' # cands => live[p] = "no")
          /\ pc' = IF todo = {p} THEN "status" ELSE "complete"
          /\ UNCHANGED <<lease, slip, excused, up, astray, cur, inv, rows, live>>
      BY <1>5 DEF Complete, world, arbiter, work, read
    <2>1. Placed' = Placed /\ Schedulable' = Schedulable
      BY SameSchedulable DEF Placed
    <2>2. PlacedWorkHoldsLease'
      BY <2>1 DEF PlacedWorkHoldsLease
    <2>3. LookedAfter'
      <3>1. /\ cands' \subseteq Schedulable /\ \A q \in cands' : live[q] = "no"
            /\ todo' \subseteq Schedulable
        BY DEF LookedAfter
      <3> QED
        BY <2>1, <3>1 DEF LookedAfter, AfterLoad, Visiting
    <2> QED
      BY <2>1, <2>2, <2>3 DEF Unknown, Renewed, StatusHolds, Launching, Visiting
  <1>6. CASE Status
    <2>1. /\ pc = "status" /\ pc' = "visit" /\ shot' = lease /\ gone' = {}
          /\ UNCHANGED <<lease, slip, excused, up, astray, cur, inv, rows, live, cands>>
      BY <1>6 DEF Status, world, arbiter, work, read, probes
    <2>2. Placed' = Placed /\ Schedulable' = Schedulable
      BY <2>1, SameSchedulable DEF Placed
    <2>3. PlacedWorkHoldsLease'
      BY <2>1, <2>2 DEF PlacedWorkHoldsLease
    <2>4. LookedAfter'
      BY <2>1, <2>2 DEF LookedAfter, AfterLoad, Visiting
    <2>5. cur = 1 /\ \A p \in Placed : ~(p[2] < cur)
      BY <1>0, <2>1 DEF LookedAfter, Visiting, Resource
    <2>6. Unknown'
      BY <2>1, <2>2 DEF Unknown, Visiting
    <2>7. Renewed'
      BY <2>1, <2>2, <2>5 DEF Renewed
    <2>8. StatusHolds'
      BY <2>1, <2>2 DEF StatusHolds, PlacedWorkHoldsLease
    <2> QED
      BY <2>1, <2>3, <2>4, <2>6, <2>7, <2>8 DEF Launching
  <1> QED
    BY <1>1, <1>2, <1>3, <1>4, <1>5, <1>6

(* A step that acts on one resource and goes on to the next, launching or  *)
(* releasing nothing: what LeaveInv asks for is that the lease of placed   *)
(* work is renewed, or left as it is for a reason.                         *)
LEMMA PassOnInv ==
  ASSUME DistinctOwners, TypeOK, TypeOK', PassInv, pc \in Visiting, Leave({}), UNCHANGED work,
         \A r \in Resource \ {cur} : /\ lease'[r] = lease[r] /\ slip'[r] = slip[r]
                                     /\ r \in excused' <=> r \in excused,
         \A p \in Placed : p[2] = cur =>
            lease'[cur] = p[1] /\ (cur \in excused' \/ slip'[cur] = 0)
  PROVE  PassInv'
  <1>1. Placed' = Placed
    BY DEF Placed, work
  <1>2. Placed' \subseteq Schedulable
    BY <1>1 DEF PassInv, LookedAfter, AfterLoad
  <1> QED
    BY <1>1, <1>2, LeaveInv

(* A resource with nothing to do is left as it was.                        *)
LEMMA SkipInv ==
  ASSUME DistinctOwners, TypeOK, TypeOK', PassInv, Skip
  PROVE  PassInv'
  <1>1. pc \in Visiting /\ cur \in inv /\ Leave({}) /\ UNCHANGED <<lease, slip, excused, work>>
    BY DEF Skip, Visiting, world, arbiter
  <1>2. \A p \in Placed : p[2] # cur
    BY <1>1, CurrentFacts
  <1> QED
    BY <1>1, <1>2, PassOnInv

(* Reconciliation does not release the lease of placed work: the dead job  *)
(* that matches it would be that work itself.                              *)
LEMMA ReconcileInv ==
  ASSUME DistinctOwners, TypeOK, TypeOK', PassInv, Reconcile
  PROVE  PassInv'
  <1> DEFINE Drops == Stale /\ Dropped(cur)
  <1>1. /\ pc = "visit" /\ pc' = "act"
        /\ UNCHANGED <<work, cur, inv, rows, todo, live, cands, shot>>
        /\ ~Drops => UNCHANGED <<lease, slip, excused, gone>> /\ seen' = shot[cur]
    BY DEF Reconcile, read, probes, arbiter
  <1>2. Placed' = Placed /\ Schedulable' = Schedulable
    BY <1>1, SameSchedulable DEF Placed, work
  <1>3. ASSUME Drops, NEW p \in Placed, p[2] = cur PROVE FALSE
    <2>1. /\ shot[cur] = p[1] /\ live[p] # "no"
          /\ \A q \in On(cur) : Matches(p[1], q[1]) => q = p
      BY <1>1, <1>3, CurrentFacts DEF Visiting
    <2> QED
      BY <1>1, <1>3, <2>1 DEF Stale
  <1>4. ASSUME NEW p \in Placed
        PROVE  /\ p[2] \in Resource /\ lease'[p[2]] = lease[p[2]] /\ slip'[p[2]] = slip[p[2]]
               /\ p[2] \in excused' <=> p[2] \in excused
               /\ p[2] \in gone' => p[2] \in gone
               /\ p[2] = cur => seen' = shot[cur]
    <2>1. CASE Drops
      BY <1>1, <1>3, <2>1, PlacedFacts DEF Dropped, TypeOK, WorldTypeOK
    <2>2. CASE ~Drops
      BY <1>1, <2>2, PlacedFacts
    <2> QED
      BY <2>1, <2>2
  <1>5. PlacedWorkHoldsLease'
    BY <1>2, <1>4 DEF PassInv, PlacedWorkHoldsLease
  <1>6. LookedAfter'
    BY <1>1, <1>2 DEF PassInv, LookedAfter, AfterLoad, Visiting
  <1>7. Unknown'
    BY <1>1, <1>2, <1>4 DEF PassInv, Unknown, Visiting
  <1>8. Renewed'
    BY <1>1, <1>2, <1>4 DEF PassInv, Renewed, Visiting
  <1>9. StatusHolds'
    BY <1>1, <1>2, <1>4 DEF PassInv, StatusHolds, Visiting
  <1> QED
    BY <1>1, <1>5, <1>6, <1>7, <1>8, <1>9 DEF PassInv, Launching

(* A lease that could not be renewed is excused.                           *)
LEMMA NotRenewedInv ==
  ASSUME DistinctOwners, TypeOK, TypeOK', PassInv, pc = "act", NotRenewed
  PROVE  PassInv'
  <1>1. /\ pc \in Visiting /\ Leave({}) /\ UNCHANGED <<lease, slip, work>>
        /\ excused' = IF lease[cur] # Free THEN excused \cup {cur} ELSE excused
    BY DEF NotRenewed, Visiting
  <1>2. ASSUME NEW p \in Placed, p[2] = cur PROVE lease[cur] = p[1] /\ cur \in excused'
    BY <1>1, <1>2, CurrentFacts
  <1> QED
    BY <1>1, <1>2, PassOnInv

(* The heartbeat on a resource with placed work is for that work, and does *)
(* not put another name into the lease.                                    *)
LEMMA HeartbeatInv ==
  ASSUME DistinctOwners, TypeOK, TypeOK', PassInv, Heartbeat
  PROVE  PassInv'
  <1> PICK q \in LiveOn(cur) :
        /\ pc = "act" /\ (OwnLease(q) \/ Adopts(q))
        /\ IF cur \in gone
           THEN UNCHANGED arbiter
           ELSE Claimed(cur, IF Adopts(q) \/ q[1] \in Exclusive THEN q[1] ELSE lease[cur])
        /\ Leave({}) /\ UNCHANGED work
    BY DEF Heartbeat
  <1>1. cur \in Resource /\ lease \in [Resource -> Holder \cup {Free}] /\ slip \in [Resource -> Nat]
    BY DEF TypeOK, WorldTypeOK, PassTypeOK
  <1>2. ASSUME NEW p \in Placed, p[2] = cur PROVE lease'[cur] = p[1] /\ slip'[cur] = 0
    <2>1. /\ seen = p[1] /\ cur \notin gone /\ lease[cur] = p[1] /\ Known(p[1], cur)
          /\ \A x \in On(cur) : Matches(p[1], x[1]) => x = p
      BY <1>2, CurrentFacts DEF Visiting
    <2>2. ~Adopts(q) /\ q = p
      BY <2>1 DEF OwnLease, Adopts, LiveOn
    <2> QED
      BY <1>1, <2>1, <2>2 DEF Claimed
  <1>3. \A r \in Resource \ {cur} : /\ lease'[r] = lease[r] /\ slip'[r] = slip[r]
                                    /\ r \in excused' <=> r \in excused
    BY <1>1 DEF Claimed, arbiter
  <1>4. pc \in Visiting
    BY DEF Visiting
  <1> QED
    BY <1>2, <1>3, <1>4, PassOnInv

(* Where no lease was seen there is no placed work: a claim takes nothing  *)
(* away, and the launch it is for holds what was claimed.                  *)
LEMMA ClaimInv ==
  ASSUME DistinctOwners, TypeOK, TypeOK', PassInv, Adopt \/ Claim \/ Idle
  PROVE  PassInv'
  <1> /\ cur \in Resource /\ lease \in [Resource -> Holder \cup {Free}]
      /\ slip \in [Resource -> Nat]
    BY DEF TypeOK, WorldTypeOK, PassTypeOK
  <1>1. pc = "act" /\ pc \in Visiting /\ seen = Free /\ UNCHANGED work
    BY DEF Adopt, Claim, Idle, Visiting, world
  <1>2. \A p \in Placed : p[2] # cur
    BY <1>1, CurrentFacts
  <1>3. \A r \in Resource \ {cur} : /\ lease'[r] = lease[r] /\ slip'[r] = slip[r]
                                    /\ r \in excused' <=> r \in excused
    BY DEF Adopt, Claim, Idle, Claimed, world, arbiter
  <1>4. CASE Leave({})
    BY <1>1, <1>2, <1>3, <1>4, PassOnInv
  <1>5. CASE ~Leave({})
    <2> PICK p \in Launchable(cur) :
          /\ Claimed(cur, p[1]) /\ cand' = p /\ pc' = "start"
          /\ UNCHANGED <<cur, inv, rows, todo, live, cands, shot, gone>>
      BY <1>5 DEF Adopt, Claim, Idle, read, probes, leases
    <2>1. Placed' = Placed /\ Schedulable' = Schedulable
      BY <1>1, SameSchedulable DEF Placed, work
    <2>2. \A q \in Placed : q[2] \in Resource \ {cur}
      BY <1>2, PlacedFacts
    <2>3. PlacedWorkHoldsLease'
      BY <1>3, <2>1, <2>2 DEF PassInv, PlacedWorkHoldsLease
    <2>4. LookedAfter'
      BY <1>1, <2>1 DEF PassInv, LookedAfter, AfterLoad, Visiting
    <2>5. Unknown'
      BY <1>1, <1>3, <2>1, <2>2 DEF PassInv, Unknown, Visiting
    <2>6. Renewed'
      BY <1>1, <1>3, <2>1, <2>2 DEF PassInv, Renewed, Visiting
    <2>7. StatusHolds'
      BY <1>1, <2>1, <2>2 DEF PassInv, StatusHolds, Visiting
    <2>8. Launching'
      <3>1. p \in cands /\ p[2] = cur
        BY DEF Launchable, On
      <3>2. lease'[cur] = p[1] /\ slip'[cur] = 0
        BY DEF Claimed
      <3> QED
        BY <3>1, <3>2 DEF Launching
    <2> QED
      BY <2>3, <2>4, <2>5, <2>6, <2>7, <2>8 DEF PassInv
  <1> QED
    BY <1>4, <1>5

(* A launch that worked is placed work under the lease just claimed; one   *)
(* that failed gives that lease back, which no placed work holds.          *)
LEMMA LaunchInv ==
  ASSUME DistinctOwners, TypeOK, TypeOK', PassInv,
         StartOk \/ StartUnseen \/ StartUnconfirmed \/ StartFails \/ Undo
  PROVE  PassInv'
  <1> /\ cur \in Resource /\ lease \in [Resource -> Holder \cup {Free}]
      /\ slip \in [Resource -> Nat]
    BY DEF TypeOK, WorldTypeOK, PassTypeOK
  <1>1. pc \in {"start", "undo"} /\ pc \in Visiting
    BY DEF StartOk, StartUnseen, StartUnconfirmed, StartFails, Undo, Visiting
  <1>2. /\ cand \in cands /\ cand[2] = cur
        /\ lease[cur] = cand[1] /\ slip[cur] = 0
        /\ cand \in Schedulable /\ live[cand] = "no"
    BY <1>1 DEF PassInv, Launching, LookedAfter
  <1>3. Placed \subseteq Schedulable
    BY <1>1 DEF PassInv, LookedAfter, AfterLoad
  <1>4. ASSUME NEW p \in Placed, p[2] = cur PROVE FALSE
    <2>1. lease[cur] = p[1] /\ live[p] # "no"
      BY <1>1, <1>4, CurrentFacts
    <2>2. p = cand
      BY <1>2, <1>4, <2>1, PlacedFacts, PlaceFacts DEF Schedulable, Loaded
    <2> QED
      BY <1>2, <2>1, <2>2
  <1>5. CASE StartOk \/ StartUnseen \/ StartUnconfirmed
    <2>1. /\ \E S : Leave(S)
          /\ up' \in {up, up \cup {cand}} /\ UNCHANGED <<astray, lease, slip, excused>>
      BY <1>5 DEF StartOk, StartUnseen, StartUnconfirmed, world, arbiter, work
    <2>2. Placed' \subseteq Placed \cup {cand}
      BY <2>1 DEF Placed
    <2>3. \A p \in Placed' : p[2] = cur => lease'[cur] = p[1] /\ slip'[cur] = 0
      BY <1>2, <1>4, <2>1, <2>2
    <2>4. /\ Placed' \subseteq Schedulable
          /\ \A p \in Placed' : p[2] # cur => p \in Placed
      BY <1>2, <1>3, <2>2
    <2> QED
      BY <1>1, <2>1, <2>3, <2>4, LeaveInv
  <1>6. CASE StartFails
    <2>1. /\ pc = "start" /\ pc' = "undo"
          /\ \/ up' = up \cup {cand} /\ astray' = astray \cup {cand}
             \/ UNCHANGED <<up, astray>>
          /\ UNCHANGED <<lease, slip, excused, cur, inv, rows, todo, live, cands, shot, gone, cand>>
      BY <1>6 DEF StartFails, read, probes, leases, choice
    <2>2. Placed' \subseteq Placed /\ Schedulable' = Schedulable
      BY <2>1, SameSchedulable DEF Placed
    <2>3. PlacedWorkHoldsLease' /\ Launching'
      BY <1>2, <2>1, <2>2 DEF PassInv, PlacedWorkHoldsLease, Launching
    <2>4. LookedAfter'
      BY <2>1, <2>2 DEF PassInv, LookedAfter, AfterLoad, Visiting
    <2>5. Unknown' /\ StatusHolds'
      BY <2>1, <2>2 DEF PassInv, Unknown, StatusHolds, Visiting
    <2>6. Renewed'
      BY <2>1, <2>2 DEF PassInv, Renewed, Visiting
    <2> QED
      BY <2>3, <2>4, <2>5, <2>6 DEF PassInv
  <1>7. CASE Undo
    <2>1. Leave({}) /\ UNCHANGED work
      BY <1>7 DEF Undo
    <2>2. \A r \in Resource \ {cur} : /\ lease'[r] = lease[r] /\ slip'[r] = slip[r]
                                      /\ r \in excused' <=> r \in excused
      BY <1>7 DEF Undo, arbiter
    <2> QED
      BY <1>1, <1>4, <2>1, <2>2, PassOnInv
  <1> QED
    BY <1>5, <1>6, <1>7

(* The environment: a lease that expires has missed a renewal for which    *)
(* there was a reason, and a claim finds the resource without one.         *)
LEMMA WorldInv ==
  ASSUME TypeOK, PassInv, World
  PROVE  PassInv'
  <1> USE DEF PassInv
  <1> /\ lease \in [Resource -> Holder \cup {Free}] /\ slip \in [Resource -> Nat]
    BY DEF TypeOK, WorldTypeOK
  <1>1. \A p \in Placed : /\ p \in Place /\ p[1] \in Job /\ p[2] \in Resource
                          /\ lease[p[2]] = p[1] /\ lease[p[2]] \in Job /\ lease[p[2]] # Free
    BY PlacedFacts DEF PlacedWorkHoldsLease
  <1>2. pc \in {"start", "undo"} => lease[cur] \in Job /\ lease[cur] # Free /\ slip[cur] = 0
    <2>1. cands \subseteq Place
      BY DEF TypeOK, PassTypeOK
    <2> QED
      BY <2>1, PlaceFacts DEF Launching
  <1>3. ASSUME NEW p \in Place, End(p) \/ Stray(p) PROVE PassInv'
    <2>1. UNCHANGED <<pc, cur, inv, rows, todo, live, cands, shot, seen, cand, gone, lease, slip, excused>>
      BY <1>3 DEF End, Stray, pass, read, probes, leases, choice, arbiter
    <2>2. Placed' \subseteq Placed
      BY <1>3 DEF End, Stray, Placed
    <2> QED
      BY <2>1, <2>2, AsideInv
  <1>4. ASSUME NEW r \in Resource, ForeignClaim(r) PROVE PassInv'
    <2>1. /\ lease[r] = Free /\ UNCHANGED <<pc, cur, inv, rows, todo, live, cands, shot, seen, cand, gone, up, astray>>
          /\ \A s \in Resource \ {r} : /\ lease'[s] = lease[s] /\ slip'[s] = slip[s]
                                       /\ s \in excused' <=> s \in excused
      BY <1>4 DEF ForeignClaim, Claimed, pass, read, probes, leases, choice, work
    <2>2. Placed' = Placed /\ \A p \in Placed : p[2] \in Resource \ {r}
      BY <1>1, <2>1 DEF Placed
    <2>3. pc \in {"start", "undo"} => lease'[cur] = lease[cur] /\ slip'[cur] = slip[cur]
      BY <1>2, <2>1 DEF TypeOK, PassTypeOK
    <2> QED
      BY <2>1, <2>2, <2>3, AsideInv
  <1>5. ASSUME NEW r \in Resource, ForeignRelease(r) \/ Expire(r) PROVE PassInv'
    <2>1. /\ UNCHANGED <<pc, cur, inv, rows, todo, live, cands, shot, seen, cand>>
          /\ \A s \in Resource \ {r} : /\ lease'[s] = lease[s] /\ slip'[s] = slip[s]
                                       /\ s \in excused' <=> s \in excused
                                       /\ s \in gone' => s \in gone
          /\ up' = up /\ astray \subseteq astray'
      BY <1>5 DEF ForeignRelease, Expire, Dropped, read, probes, choice, work
    <2>2. ASSUME NEW p \in Placed', p[2] = r PROVE FALSE
      <3>1. p \in Placed /\ lease[r] = p[1] /\ lease[r] \in Job /\ p \in up
        BY <1>1, <2>1, <2>2 DEF Placed
      <3>2. CASE ForeignRelease(r)
        BY <3>1, <3>2, PlaceFacts DEF ForeignRelease
      <3>3. CASE Expire(r)
        <4>1. slip[r] >= 2
          BY <3>3 DEF Expire
        <4>2. r \in excused
          BY <2>2, <3>1, <4>1 DEF Renewed
        <4> QED
          BY <2>2, <3>1, <3>3, <4>2 DEF Expire, Placed
      <3> QED
        BY <1>5, <3>2, <3>3
    <2>3. Placed' \subseteq Placed /\ \A p \in Placed' : p[2] \in Resource \ {r}
      BY <1>1, <2>1, <2>2 DEF Placed
    <2>4. pc \in {"start", "undo"} => cur # r
      BY <1>2, <1>5, PlaceFacts DEF ForeignRelease, Expire
    <2>5. pc \in {"start", "undo"} => lease'[cur] = lease[cur] /\ slip'[cur] = slip[cur]
      BY <2>1, <2>4 DEF TypeOK, PassTypeOK
    <2> QED
      BY <2>1, <2>3, <2>5, AsideInv
  <1>6. ASSUME NEW r \in Resource, Drain(r) \/ Publish PROVE PassInv'
    <2>1. UNCHANGED <<pc, cur, inv, rows, todo, live, cands, shot, seen, cand, gone, lease, slip, excused, up, astray>>
      BY <1>6 DEF Drain, Publish, pass, read, probes, leases, choice, work
    <2>2. Placed' = Placed
      BY <2>1 DEF Placed
    <2> QED
      BY <2>1, <2>2, AsideInv
  <1> QED
    BY <1>3, <1>4, <1>5, <1>6, ConstantTypes DEF World

(* Every step of a pass keeps what is known of it.                         *)
LEMMA PassInvStep ==
  ASSUME DistinctOwners, TypeOK, TypeOK', PassInv, PassStep \/ Outage \/ Unanswered \/ Restart
  PROVE  PassInv'
  <1>1. CASE \/ Begin \/ TopologyAccepts \/ QueueAccepts \/ Load \/ Probe \/ Complete \/ Status
    BY <1>1, ReadingInv
  <1>2. CASE TopologyRefuses \/ QueueRefuses \/ LoadFails \/ Outage \/ Restart
    BY <1>2, RefusedInv DEF TopologyRefuses, QueueRefuses, LoadFails, Outage, Restart
  <1>3. CASE Skip
    BY <1>3, SkipInv
  <1>4. CASE Reconcile
    BY <1>4, ReconcileInv
  <1>5. CASE Conflict \/ Busy \/ Unanswered
    BY <1>5, NotRenewedInv DEF Conflict, Busy, Unanswered
  <1>6. CASE Heartbeat
    BY <1>6, HeartbeatInv
  <1>7. CASE Adopt \/ Claim \/ Idle
    BY <1>7, ClaimInv
  <1>8. CASE StartOk \/ StartUnseen \/ StartUnconfirmed \/ StartFails \/ Undo
    BY <1>8, LaunchInv
  <1> QED
    BY <1>1, <1>2, <1>3, <1>4, <1>5, <1>6, <1>7, <1>8 DEF PassStep

(* The commands on the queue do not touch a pass.                          *)
LEMMA CommandInv ==
  ASSUME TypeOK, PassInv, NEW step, Command(step)
  PROVE  PassInv'
  <1>1. UNCHANGED <<pc, cur, inv, rows, todo, live, cands, shot, gone, seen, cand, lease, slip, excused, up, astray>>
    BY DEF Command, world, arbiter, work, probes, leases, choice
  <1>2. Placed' = Placed
    BY <1>1 DEF Placed
  <1> QED
    BY <1>1, <1>2, AsideInv

(* The rows without an event that the gate would have seen: a change of    *)
(* the file since the gate read it, or the event, takes a row out of them. *)
LEMMA GateStep ==
  ASSUME QueueInv, GateLooks,
         PassStep \/ Outage \/ Unanswered \/ Restart \/ World, UNCHANGED files
  PROVE  GateLooks'
  <1> UNCHANGED <<queue, log, torn>>
    BY DEF files
  <1>1. CASE Begin
    BY <1>1 DEF Begin, GateLooks
  <1>2. CASE TopologyAccepts
    BY <1>2 DEF TopologyAccepts, GateLooks
  <1>3. CASE QueueAccepts
    <2>1. Intact(rows) /\ pc = "queue" /\ pc' = "load" /\ UNCHANGED <<rows, lost>>
      BY <1>3 DEF QueueAccepts, read
    <2>2. ASSUME NEW j \in lost PROVE FALSE
      <3>1. j \in Present(queue) /\ queue[j] # log[j] /\ rows[j] = queue[j]
        BY <2>1 DEF GateLooks, QueueInv, TornRows
      <3>2. j \in Present(rows)
        BY <3>1 DEF Present
      <3> QED
        BY <2>1, <3>1, <3>2 DEF Intact
    <2> QED
      BY <2>1, <2>2 DEF GateLooks
  <1>4. CASE Load
    BY <1>4 DEF Load, GateLooks
  <1>5. CASE TopologyRefuses \/ QueueRefuses \/ LoadFails \/ Outage \/ Restart
    BY <1>5 DEF TopologyRefuses, QueueRefuses, LoadFails, Outage, Restart, Refused, Over, GateLooks
  <1>6. CASE Probe \/ Complete \/ Status \/ Reconcile \/ StartFails
    BY <1>6 DEF Probe, Complete, Status, Reconcile, StartFails, read, GateLooks
  <1>7. ASSUME NEW S, Leave(S) PROVE GateLooks'
    BY <1>7 DEF Leave, Over, read, GateLooks
  <1>8. CASE Skip \/ Conflict \/ Heartbeat \/ Adopt \/ Busy \/ Unanswered \/ Idle
             \/ StartOk \/ StartUnseen \/ StartUnconfirmed \/ Undo
    BY <1>7, <1>8 DEF Skip, Conflict, Heartbeat, Adopt, Busy, Unanswered, Idle, StartOk, StartUnseen,
                      StartUnconfirmed, Undo, NotRenewed
  <1>9. CASE Claim
    <2>1. (\E S : Leave(S)) \/ (pc' = "start" /\ UNCHANGED read)
      BY <1>9 DEF Claim
    <2> QED
      BY <1>7, <2>1 DEF read, GateLooks
  <1>10. CASE World
    <2>1. UNCHANGED <<pc, rows, lost>>
      BY <1>10 DEF World, End, Stray, ForeignClaim, ForeignRelease, Expire, Drain, Publish, pass, read
    <2> QED
      BY <2>1 DEF GateLooks
  <1> QED
    BY <1>1, <1>2, <1>3, <1>4, <1>5, <1>6, <1>8, <1>9, <1>10 DEF PassStep

-----------------------------------------------------------------------------
(* What the pass has counted.                                              *)

(* The counts depend only on what a pass has read and launched.            *)
LEMMA SameLimits ==
  ASSUME UNCHANGED <<inv, rows, live, shot, planned>>
  PROVE  /\ Counted' = Counted
         /\ \A j : WithinLimits(j)' <=> WithinLimits(j)
  <1>1. Schedulable' = Schedulable /\ \A r : On(r)' = On(r)
    BY DEF Schedulable, On, Loaded
  <1>2. \A p : JobForLease(p)' <=> JobForLease(p)
    BY <1>1 DEF JobForLease
  <1>3. Counted' = Counted
    BY <1>1, <1>2 DEF Counted, Noted
  <1> QED
    BY <1>3 DEF WithinLimits, RowCount, TenantCount

(* They hold on when the pass stands still and work ends beside it.        *)
LEMMA CountAside ==
  ASSUME CountInv, UNCHANGED <<pc, inv, rows, live, shot, planned, cand>>, Placed' \subseteq Placed
  PROVE  CountInv'
  <1>1. Tracked'
    BY DEF CountInv, Tracked
  <1>2. WithinLaunch'
    BY SameLimits DEF CountInv, WithinLaunch
  <1> QED
    BY <1>1, <1>2 DEF CountInv

(* And when it goes on, having launched some of what was not alive.        *)
LEMMA CountLeave ==
  ASSUME CountInv, pc \in Visiting, NEW S, Leave(S),
         \A p \in Placed' : p \in Placed \/ (live[p] = "no" /\ (p \in S \/ p[1] \in Confirmed))
  PROVE  CountInv'
  <1>1. CASE cur < NResources
    <2>1. pc' = "visit" /\ UNCHANGED <<live, shot>> /\ planned' = planned \cup S
      BY <1>1 DEF Leave, probes, leases
    <2>2. ASSUME NEW p \in Placed'
          PROVE  /\ live[p] = "unknown" => shot[p[2]] = p[1]
                 /\ live[p] = "no" => p \in planned' \/ p[1] \in Confirmed
      BY <2>1, <2>2 DEF CountInv, Tracked
    <2> QED
      BY <2>1, <2>2 DEF CountInv, Tracked, WithinLaunch
  <1>2. CASE ~(cur < NResources)
    BY <1>2 DEF Leave, Over, CountInv, Tracked, WithinLaunch, Visiting
  <1> QED
    BY <1>1, <1>2

(* Every step of a pass keeps the count complete.                          *)
LEMMA CountStep ==
  ASSUME TypeOK, PassInv, CountInv, PassStep \/ Outage \/ Unanswered \/ Restart
  PROVE  CountInv'
  <1>1. CASE \/ Begin \/ TopologyAccepts \/ QueueAccepts \/ Load \/ Probe \/ Complete
             \/ TopologyRefuses \/ QueueRefuses \/ LoadFails \/ Outage \/ Restart
    <2>1. pc' \notin Visiting
      BY <1>1 DEF Begin, TopologyAccepts, QueueAccepts, Load, Probe, Complete, TopologyRefuses,
                  QueueRefuses, LoadFails, Outage, Restart, Refused, Over, Visiting
    <2> QED
      BY <2>1 DEF CountInv, Tracked, WithinLaunch, Visiting
  <1>2. CASE Status
    <2>1. pc = "status" /\ pc' = "visit" /\ shot' = lease /\ Placed' = Placed /\ live' = live
      BY <1>2 DEF Status, world, work, Placed, probes
    <2>2. \A p \in Placed : live[p] # "no" /\ lease[p[2]] = p[1]
      BY <2>1 DEF PassInv, LookedAfter, PlacedWorkHoldsLease, Visiting
    <2> QED
      BY <2>1, <2>2 DEF CountInv, Tracked, WithinLaunch
  <1>3. CASE Reconcile \/ StartFails
    <2>1. /\ pc \in Visiting /\ pc' \in {"act", "undo"}
          /\ UNCHANGED <<live, shot, planned>> /\ Placed' \subseteq Placed
      BY <1>3 DEF Reconcile, StartFails, probes, leases, choice, work, Placed, Visiting
    <2> QED
      BY <2>1 DEF CountInv, Tracked, WithinLaunch
  <1>4. CASE Claim
    <2>1. pc = "act" /\ pc \in Visiting /\ Placed' = Placed
      BY <1>4 DEF Claim, work, Placed, Visiting
    <2>2. CASE Leave({})
      BY <2>1, <2>2, CountLeave
    <2>3. CASE ~Leave({})
      <3>1. PICK p \in Launchable(cur) : /\ cand' = p /\ pc' = "start"
                                         /\ UNCHANGED <<inv, rows, live, shot, planned>>
        BY <1>4, <2>3 DEF Claim, read, probes, leases
      <3>2. WithinLimits(p[1])'
        BY <3>1, SameLimits DEF Launchable
      <3> QED
        BY <2>1, <3>1, <3>2 DEF CountInv, Tracked, WithinLaunch
    <2> QED
      BY <2>2, <2>3
  <1>5. CASE Skip \/ Conflict \/ Heartbeat \/ Adopt \/ Busy \/ Unanswered \/ Idle \/ Undo
    <2>1. pc \in Visiting /\ Leave({}) /\ Placed' = Placed
      BY <1>5 DEF Skip, Conflict, Heartbeat, Adopt, Busy, Unanswered, Idle, Undo, NotRenewed,
                  world, work, Placed, Visiting
    <2> QED
      BY <2>1, CountLeave
  <1>6. CASE StartOk \/ StartUnseen
    <2>1. pc \in Visiting /\ Leave({cand}) /\ Placed' \subseteq Placed \cup {cand}
      BY <1>6 DEF StartOk, StartUnseen, world, work, Placed, Visiting
    <2>2. live[cand] = "no"
      BY <1>6 DEF StartOk, StartUnseen, PassInv, Launching, LookedAfter
    <2>3. \A p \in Placed' : p \in Placed \/ (live[p] = "no" /\ (p \in {cand} \/ p[1] \in Confirmed))
      BY <2>1, <2>2
    <2> QED
      BY <2>1, <2>3, CountLeave
  <1>7. CASE StartUnconfirmed
    <2>1. /\ pc \in Visiting /\ Leave({}) /\ Placed' \subseteq Placed \cup {cand}
          /\ cand[1] \in Confirmed
      BY <1>7 DEF StartUnconfirmed, Placed, Visiting
    <2>2. live[cand] = "no"
      BY <1>7 DEF StartUnconfirmed, PassInv, Launching, LookedAfter
    <2>3. \A p \in Placed' : p \in Placed \/ (live[p] = "no" /\ (p \in {} \/ p[1] \in Confirmed))
      BY <2>1, <2>2
    <2> QED
      BY <2>1, <2>3, CountLeave
  <1> QED
    BY <1>1, <1>2, <1>3, <1>4, <1>5, <1>6, <1>7 DEF PassStep

(* Placed work is counted, unless it was launched by this very pass        *)
(* without confirmation.                                                   *)
LEMMA AllCounted ==
  ASSUME DistinctOwners, SchedulerInv, pc \in Visiting, NEW p \in Placed
  PROVE  p \in Counted \/ (live[p] = "no" /\ p[1] \in Confirmed)
  <1>1. p \in Schedulable /\ p \in Place /\ p[1] \in Job /\ p[1] # Free /\ p[1] \in Nat
    BY PlacedFacts DEF SchedulerInv, PassInv, LookedAfter, AfterLoad
  <1>2. live[p] \in {"yes", "no", "unknown"}
    BY <1>1 DEF SchedulerInv, TypeOK, PassTypeOK
  <1>3. CASE live[p] = "no"
    BY <1>3 DEF SchedulerInv, CountInv, Tracked, Counted
  <1>4. CASE live[p] = "yes"
    BY <1>1, <1>4 DEF Counted, Noted
  <1>5. CASE live[p] = "unknown"
    <2>1. shot[p[2]] = p[1]
      BY <1>5 DEF SchedulerInv, CountInv, Tracked
    <2>2. ASSUME NEW q \in On(p[2]), Matches(shot[p[2]], q[1]) PROVE p[1] <= q[1]
      <3>1. q[1] \in Job
        BY PlaceFacts DEF On, Loaded
      <3>2. p[1] = q[1]
        BY <1>1, <2>1, <2>2, <3>1 DEF Matches, DistinctOwners
      <3> QED
        BY <1>1, <3>2
    <2>3. JobForLease(p)
      BY <1>1, <2>1, <2>2 DEF JobForLease, Matches
    <2> QED
      BY <1>1, <1>5, <2>3 DEF Counted, Noted
  <1> QED
    BY <1>2, <1>3, <1>4, <1>5

(* A step that completes nothing, and under which what is counted stays    *)
(* counted.                                                                *)
LEMMA CompletionAside ==
  ASSUME CompletionsCounted, done' = done, live' = live,
         \A p \in cands' : p[2] >= cur' /\ done[p[1]] # "no" => p \in cands /\ p[2] >= cur,
         \A q \in Counted : pc \in Visiting \/ live[q] = "yes" =>
            q \in Counted' /\ (pc' \in Visiting \/ live[q] = "yes")
  PROVE  CompletionsCounted'
  <1> SUFFICES ASSUME NEW p \in cands', done'[p[1]] = "tracked", p[2] >= cur',
                      ~(p[1] \in Confirmed /\ ~InOnePlace(p[1]))
               PROVE  \E q \in Counted' : q[1] = p[1] /\ (pc' \in Visiting \/ live'[q] = "yes")
    BY DEF CompletionsCounted
  <1>1. PICK q \in Counted : q[1] = p[1] /\ (pc \in Visiting \/ live[q] = "yes")
    BY DEF CompletionsCounted
  <1> QED
    BY <1>1

(* A worker that ends, and with it the work of its row, had been counted:  *)
(* found alive, or by its lease, or launched by this pass.                 *)
LEMMA EndCounted ==
  ASSUME DistinctOwners, SchedulerInv, NEW q \in Place, End(q)
  PROVE  CompletionsCounted'
  <1>1. /\ q \in up
        /\ UNCHANGED <<pc, cur, inv, rows, live, cands, shot, planned>>
    BY DEF End, pass, read, probes, leases, choice
  <1>2. Counted' = Counted
    BY <1>1, SameLimits
  <1> SUFFICES ASSUME NEW p \in cands, done'[p[1]] = "tracked", p[2] >= cur
               PROVE  \/ \E k \in Counted : k[1] = p[1] /\ (pc \in Visiting \/ live[k] = "yes")
                      \/ p[1] \in Confirmed /\ ~InOnePlace(p[1])
    BY <1>1, <1>2 DEF CompletionsCounted
  <1>3. CASE done[p[1]] = "tracked"
    BY <1>3 DEF SchedulerInv, CompletionsCounted
  <1>4. CASE done[p[1]] # "tracked"
    <2>1. /\ p \in Place /\ p[1] \in Job /\ p[2] \in Nat /\ q[1] \in Job /\ q[2] \in Nat
          /\ p[2] \in Pool[p[1]] /\ q[2] \in Pool[q[1]]
          /\ cur \in Nat /\ done \in [Job -> {"no", "tracked", "astray"}]
      BY PlaceFacts DEF SchedulerInv, TypeOK, WorldTypeOK, PassTypeOK, Resource, Place
    <2>2. p[1] = q[1] /\ q \notin astray /\ q[2] \notin excused
      BY <1>4, <2>1 DEF End
    <2>3. q \in Placed
      BY <1>1, <2>2 DEF Placed
    <2>4. /\ pc \in {"complete", "status"} \cup Visiting /\ q \in Schedulable
          /\ live[q] = "no" => pc \in Visiting /\ q[2] < cur
      BY <2>3 DEF SchedulerInv, PassInv, LookedAfter, AfterLoad
    <2>5. CASE live[q] = "yes"
      BY <2>2, <2>4, <2>5 DEF Counted, Noted
    <2>6. CASE live[q] # "yes"
      <3>1. live[q] = "no" \/ live[q] = "unknown"
        BY <2>6 DEF SchedulerInv, TypeOK, PassTypeOK
      <3>2. pc \in Visiting /\ q[2] < cur
        BY <2>1, <2>2, <2>3, <2>4, <3>1 DEF SchedulerInv, PassInv, Unknown
      <3>3. CASE q \in Counted
        BY <2>2, <3>2, <3>3
      <3>4. CASE q \notin Counted
        <4>1. q[1] \in Confirmed
          BY <2>3, <3>2, <3>4, AllCounted
        <4>2. q[2] # p[2]
          BY <2>1, <3>2
        <4> QED
          BY <2>1, <2>2, <4>1, <4>2 DEF InOnePlace
      <3> QED
        BY <3>3, <3>4
    <2> QED
      BY <2>5, <2>6
  <1> QED
    BY <1>3, <1>4

(* A row whose work is completed beside a pass was counted by the pass.    *)
LEMMA CompletionStep ==
  ASSUME DistinctOwners, SchedulerInv, [Next]_vars
  PROVE  CompletionsCounted'
  <1>0. /\ CompletionsCounted /\ cur \in Nat /\ \A p \in cands : p[2] \in Nat
        /\ \A p \in cands : pc \in {"complete", "status"} \cup Visiting
    BY PlaceFacts DEF SchedulerInv, TypeOK, PassTypeOK, Resource, PassInv, LookedAfter
  <1>1. CASE \/ Begin \/ TopologyAccepts \/ QueueAccepts \/ Load \/ Probe
             \/ TopologyRefuses \/ QueueRefuses \/ LoadFails \/ Outage \/ Restart
    <2>1. cands' = {}
      BY <1>0, <1>1 DEF Begin, TopologyAccepts, QueueAccepts, Load, Probe, TopologyRefuses,
         QueueRefuses, LoadFails, Outage, Restart, Refused, Over, probes, Visiting
    <2> QED
      BY <2>1 DEF CompletionsCounted
  <1>2. CASE Complete
    <2>1. /\ pc = "complete" /\ UNCHANGED <<cur, inv, rows, live, shot, planned, done>>
          /\ \A p \in cands' : p \in cands \/ done[p[1]] = "no"
      BY <1>2 DEF Complete, world, work, read, leases, choice
    <2>2. Counted' = Counted
      BY <2>1, SameLimits
    <2> QED
      BY <1>0, <2>1, <2>2, CompletionAside DEF Visiting
  <1>3. CASE Status
    <2>1. /\ pc = "status" /\ pc' = "visit"
          /\ UNCHANGED <<cur, inv, rows, live, cands, planned, done>>
      BY <1>3 DEF Status, world, work, read, probes, choice
    <2>2. Schedulable' = Schedulable
      BY <2>1, SameSchedulable
    <2>3. \A q \in Counted : live[q] = "yes" => q \in Counted'
      BY <2>1, <2>2 DEF Counted, Noted
    <2> QED
      BY <1>0, <2>1, <2>3, CompletionAside DEF Visiting
  <1>4. ASSUME NEW S, Leave(S), pc \in Visiting, done' = done PROVE CompletionsCounted'
    <2>1. CASE cur < NResources
      <3>1. /\ pc' = "visit" /\ cur' = cur + 1 /\ planned' = planned \cup S
            /\ UNCHANGED <<inv, rows, live, cands, shot>>
        BY <1>4, <2>1 DEF Leave, read, probes, leases
      <3>2. Schedulable' = Schedulable /\ \A r : On(r)' = On(r)
        BY <3>1 DEF Schedulable, On, Loaded
      <3>3. \A p : JobForLease(p)' <=> JobForLease(p)
        BY <3>1, <3>2 DEF JobForLease
      <3>4. Counted \subseteq Counted'
        BY <3>1, <3>2, <3>3 DEF Counted, Noted
      <3>5. \A p \in cands : p[2] >= cur' => p[2] >= cur
        BY <1>0, <3>1
      <3> QED
        BY <1>0, <1>4, <3>1, <3>4, <3>5, CompletionAside DEF Visiting
    <2>2. CASE ~(cur < NResources)
      BY <1>4, <2>2 DEF Leave, Over, CompletionsCounted
    <2> QED
      BY <2>1, <2>2
  <1>5. CASE Skip \/ Conflict \/ Heartbeat \/ Adopt \/ Busy \/ Unanswered \/ Idle \/ Undo
             \/ StartOk \/ StartUnseen \/ StartUnconfirmed
    <2>1. (\E S : Leave(S)) /\ pc \in Visiting /\ done' = done
      BY <1>5 DEF Skip, Conflict, Heartbeat, Adopt, Busy, Unanswered, Idle, Undo, StartOk, StartUnseen,
         StartUnconfirmed, NotRenewed, world, work, Visiting
    <2> QED
      BY <1>4, <2>1
  <1>6. ASSUME pc \in Visiting => pc' \in Visiting,
               UNCHANGED <<cur, inv, rows, live, cands, shot, planned, done>>
        PROVE  CompletionsCounted'
    <2>1. Counted' = Counted
      BY <1>6, SameLimits
    <2> QED
      BY <1>0, <1>6, <2>1, CompletionAside
  <1>7. CASE Reconcile \/ StartFails
    BY <1>6, <1>7 DEF Reconcile, StartFails, work, read, probes, leases, choice, Visiting
  <1>8. CASE Claim
    <2>1. pc = "act" /\ done' = done
      BY <1>8 DEF Claim, work
    <2>2. CASE Leave({})
      BY <1>4, <2>1, <2>2 DEF Visiting
    <2>3. CASE ~Leave({})
      BY <1>6, <1>8, <2>1, <2>3 DEF Claim, read, probes, leases, Visiting
    <2> QED
      BY <2>2, <2>3
  <1>9. CASE World
    <2>1. CASE \E p \in Place : End(p)
      BY <2>1, EndCounted
    <2>2. CASE ~\E p \in Place : End(p)
      BY <1>6, <1>9, <2>2 DEF World, Stray, ForeignClaim, ForeignRelease, Expire, Drain, Publish, work,
         pass, read, probes, leases, choice
    <2> QED
      BY <2>1, <2>2
  <1>10. CASE Command(QueueStep(Submittable)) \/ UNCHANGED vars
    BY <1>6, <1>10 DEF Command, vars, world, work, pass, read, probes, leases, choice
  <1> QED
    BY <1>1, <1>2, <1>3, <1>5, <1>7, <1>8, <1>9, <1>10 DEF Next, PassStep

-----------------------------------------------------------------------------
(* The part of the invariant that does not depend on the owners.           *)
SafeInv == TypeOK /\ QueueInv /\ GateLooks

(* Nothing is placed, queued or read at the start.                         *)
LEMMA InitInv ==
  Init => SchedulerInv
  <1> SUFFICES ASSUME Init PROVE SchedulerInv
    OBVIOUS
  <1> USE DEF Init, QueueInit
  <1>1. queue \in Doc /\ budget \in [Event -> Nat] /\ log \in Doc
    BY ConstantTypes
  <1>2. QueueTypeOK
    BY <1>1, RestingType DEF QueueTypeOK
  <1>3. WorldTypeOK /\ PassTypeOK
    BY ConstantTypes DEF WorldTypeOK, PassTypeOK, NoLeases
  <1>4. QueueInv
    <2>1. \A c \in Client : client[c].at = "idle" /\ c # Nobody
      BY DEF Resting
    <2>2. \A j \in torn : j \in Present(queue) /\ queue[j] # log[j]
      BY DEF NoEvents, Present
    <2>3. LockHeld /\ OneEdit /\ Pending /\ TornRows /\ EveryRowLogged
      BY <2>1, <2>2 DEF LockHeld, OneEdit, Pending, TornRows, EveryRowLogged
    <2> QED
      BY <2>3 DEF QueueInv
  <1>5. GateLooks
    BY DEF GateLooks
  <1>6. Placed = {} /\ cands = {}
    BY DEF Placed
  <1>7. PassInv
    BY <1>6 DEF PassInv, PlacedWorkHoldsLease, LookedAfter, AfterLoad, Unknown, Renewed, StatusHolds,
                Launching, Visiting
  <1>8. CountInv
    BY <1>6 DEF CountInv, Tracked, WithinLaunch
  <1>9. CompletionsCounted
    BY <1>6 DEF CompletionsCounted
  <1> QED
    BY <1>2, <1>3, <1>4, <1>5, <1>7, <1>8, <1>9 DEF SchedulerInv, TypeOK

(* The unconditional part of the invariant is kept by every step.          *)
LEMMA SafeStep ==
  ASSUME SafeInv, [Next]_vars
  PROVE  SafeInv'
  <1> USE DEF SafeInv
  <1>1. CASE Command(QueueStep(Submittable))
    <2>1. QueueStep(Submittable) /\ Submittable \in SUBSET (Job \X {"running", "paused"})
      BY <1>1 DEF Command, Submittable
    <2>2. QueueTypeOK' /\ QueueInv'
      BY <2>1, QueueTypeStep, QueueInvStep DEF TypeOK
    <2>3. WorldTypeOK' /\ PassTypeOK'
      BY <1>1 DEF Command, TypeOK, WorldTypeOK, PassTypeOK, world, topology, arbiter, work, probes,
                  leases, choice
    <2>4. GateLooks'
      BY <1>1 DEF Command, GateLooks
    <2> QED
      BY <2>2, <2>3, <2>4 DEF TypeOK
  <1>2. CASE PassStep \/ Outage \/ Unanswered \/ Restart \/ World
    <2>1. TypeOK' /\ UNCHANGED files
      BY <1>2, PassStepType, WorldType
    <2>2. QueueInv'
      BY <2>1 DEF files, QueueInv, LockHeld, OneEdit, Pending, TornRows, EveryRowLogged, Present
    <2> QED
      BY <1>2, <2>1, <2>2, GateStep
  <1>3. CASE UNCHANGED vars
    <2>1. /\ UNCHANGED <<queue, log, holder, client, torn, budget>>
          /\ UNCHANGED <<blocked, published, lease, slip, up, done, astray, excused>>
          /\ UNCHANGED <<pc, cur, inv, rows, lost, todo, live, cands, shot, gone, seen, planned, cand>>
      BY <1>3 DEF vars, qvars, files, world, topology, arbiter, work, pass, read, probes, leases,
                  choice
    <2>2. QueueTypeOK' /\ WorldTypeOK' /\ PassTypeOK'
      BY <2>1 DEF TypeOK, QueueTypeOK, WorldTypeOK, PassTypeOK
    <2>3. QueueInv'
      BY <2>1 DEF QueueInv, LockHeld, OneEdit, Pending, TornRows, EveryRowLogged, Present
    <2>4. GateLooks'
      BY <2>1 DEF GateLooks
    <2> QED
      BY <2>2, <2>3, <2>4 DEF TypeOK
  <1> QED
    BY <1>1, <1>2, <1>3 DEF Next

(* With distinct owners all of it is.                                      *)
LEMMA SchedulerStep ==
  ASSUME DistinctOwners, SchedulerInv, [Next]_vars
  PROVE  SchedulerInv'
  <1>1. SafeInv' /\ TypeOK'
    BY SafeStep DEF SchedulerInv, SafeInv
  <1>3. CountInv'
    <2>1. CASE PassStep \/ Outage \/ Unanswered \/ Restart
      BY <2>1, CountStep DEF SchedulerInv
    <2>2. CASE World
      <3>1. UNCHANGED <<pc, inv, rows, live, shot, planned, cand>>
        BY <2>2 DEF World, End, Stray, ForeignClaim, ForeignRelease, Expire, Drain, Publish, pass,
                    read, probes, leases, choice
      <3>2. Placed' \subseteq Placed
        BY <2>2 DEF World, End, Stray, ForeignClaim, ForeignRelease, Expire, Drain, Publish, work,
                    Placed
      <3> QED
        BY <3>1, <3>2, CountAside DEF SchedulerInv
    <2>3. CASE Command(QueueStep(Submittable)) \/ UNCHANGED vars
      <3>1. UNCHANGED <<pc, inv, rows, live, shot, planned, cand, up, astray>>
        BY <2>3 DEF Command, vars, world, work, pass, read, probes, leases, choice
      <3>2. Placed' = Placed
        BY <3>1 DEF Placed
      <3> QED
        BY <3>1, <3>2, CountAside DEF SchedulerInv
    <2> QED
      BY <2>1, <2>2, <2>3 DEF Next
  <1>2. PassInv'
    <2>1. CASE Command(QueueStep(Submittable))
      BY <2>1, CommandInv DEF SchedulerInv
    <2>2. CASE PassStep \/ Outage \/ Unanswered \/ Restart
      BY <1>1, <2>2, PassInvStep DEF SchedulerInv
    <2>3. CASE World
      BY <2>3, WorldInv DEF SchedulerInv
    <2>4. CASE UNCHANGED vars
      <3>1. UNCHANGED <<pc, cur, inv, rows, todo, live, cands, shot, gone, seen, cand, lease, slip,
                        excused, up, astray>>
        BY <2>4 DEF vars, world, arbiter, work, pass, read, probes, leases, choice
      <3>2. Placed' = Placed
        BY <3>1 DEF Placed
      <3> QED
        BY <3>1, <3>2, AsideInv DEF SchedulerInv
    <2> QED
      BY <2>1, <2>2, <2>3, <2>4 DEF Next
  <1> QED
    BY <1>1, <1>2, <1>3, CompletionStep DEF SchedulerInv, SafeInv

-----------------------------------------------------------------------------
(* Whoever dies, and however the commands interleave: the shape of the     *)
(* state, the consistency of the jobs file with its log, and what the gate *)
(* has established (mesh_resource_scheduler.py, cmd_submit, cmd_cancel,    *)
(* cmd_bootstrap and queue_integrity_gate).                                *)
THEOREM Safe ==
  Spec => []SafeInv
  <1>1. Init => SafeInv
    BY InitInv DEF SchedulerInv, SafeInv
  <1>2. SafeInv /\ [Next]_vars => SafeInv'
    BY SafeStep
  <1> QED
    BY <1>1, <1>2, PTL DEF Spec

(* The variables of the scheduler model keep their shape.                  *)
THEOREM TypeCorrect ==
  Spec => []TypeOK
  <1>1. SafeInv => TypeOK
    BY DEF SafeInv
  <1> QED
    BY <1>1, Safe, PTL

(* A row without the event of its content belongs to the process that      *)
(* holds the lock, or to one that died (append_jsonl after write_json).    *)
THEOREM RowsLogged ==
  Spec => []EveryRowLogged
  <1>1. SafeInv => EveryRowLogged
    BY DEF SafeInv, QueueInv
  <1> QED
    BY <1>1, Safe, PTL

(* submit and cancel never undo each other's rows, although each of them   *)
(* writes the whole file it loaded (cmd_submit, cmd_cancel).               *)
THEOREM NoLostUpdate ==
  Spec => WritesOneRow
  <1>1. SafeInv => (\A c \in Client : Write(c) =>
                      \A j \in Job : queue'[j] # queue[j] => client[c].jobs = {j})
    <2> SUFFICES ASSUME SafeInv, NEW c \in Client, Write(c), NEW j \in Job, queue'[j] # queue[j]
                 PROVE  client[c].jobs = {j}
      OBVIOUS
    <2>1. client[c].at = "locked" /\ queue' = client[c].doc
      BY DEF Write
    <2>2. PICK k \in Job : client[c].jobs = {k}
                           /\ \A i \in Job \ {k} : client[c].doc[i] = queue[i]
      BY <2>1 DEF SafeInv, QueueInv, OneEdit
    <2> QED
      BY <2>1, <2>2
  <1> QED
    BY <1>1, Safe, PTL DEF WritesOneRow

(* No pass acts on a jobs file in which a row has lacked its event since   *)
(* before the gate read it (queue_integrity_gate, load_jobs).              *)
THEOREM GateKept ==
  Spec => GateMeaning
  <1>1. SafeInv => (Load => lost = {})
    BY DEF SafeInv, GateLooks, Load
  <1> QED
    BY <1>1, Safe, PTL DEF GateMeaning

(* The inductive invariant holds when no two jobs share an owner.          *)
THEOREM Invariance ==
  ASSUME DistinctOwners
  PROVE  Spec => []SchedulerInv
  <1>1. Init => SchedulerInv
    BY InitInv
  <1>2. SchedulerInv /\ [Next]_vars => SchedulerInv'
    BY SchedulerStep
  <1> QED
    BY <1>1, <1>2, PTL DEF Spec

(* Placed work never loses its lease: not to a reconciliation, not to an   *)
(* expiry while the passes renew it, not to a failed launch of another     *)
(* job, not to another client (reconcile_stale_leases, heartbeat_lease,    *)
(* release_lease, claim_job).                                              *)
THEOREM PlacedWorkKept ==
  ASSUME DistinctOwners
  PROVE  Spec => []PlacedWorkHoldsLease
  <1>1. SchedulerInv => PlacedWorkHoldsLease
    BY DEF SchedulerInv, PassInv
  <1> QED
    BY <1>1, Invariance, PTL

-----------------------------------------------------------------------------
(* The limits, and that what is complete is not started again.             *)

(* A file with finitely many rows has finitely many placements.            *)
LEMMA FinitePlaces ==
  ASSUME IsFiniteSet(Job)
  PROVE  IsFiniteSet(Place)
  <1>1. IsFiniteSet(Resource)
    BY FS_Interval DEF Resource
  <1>2. IsFiniteSet(Job \X Resource)
    BY <1>1, FS_Product
  <1> QED
    BY <1>2, FS_Subset DEF Place

(* One more than was counted.                                              *)
LEMMA OneMore ==
  ASSUME IsFiniteSet(Job), NEW A, NEW B \in SUBSET Place, NEW p \in Place, NEW n \in Nat,
         A \subseteq B \cup {p}, Cardinality(B) < n
  PROVE  Cardinality(A) <= n
  <1>1. IsFiniteSet(B) /\ Cardinality(B) \in Nat
    BY FinitePlaces, FS_Subset, FS_CardinalityType
  <1>2. IsFiniteSet(B \cup {p}) /\ Cardinality(B \cup {p}) \in Nat
    BY <1>1, FS_AddElement, FS_CardinalityType
  <1>3. \/ Cardinality(B \cup {p}) = Cardinality(B)
        \/ Cardinality(B \cup {p}) = Cardinality(B) + 1
    BY <1>1, FS_AddElement
  <1>4. Cardinality(A) <= Cardinality(B \cup {p}) /\ Cardinality(A) \in Nat
    BY <1>2, FS_Subset, FS_CardinalityType
  <1> QED
    BY <1>1, <1>2, <1>3, <1>4

(* A part of a bounded set of placements is bounded.                       *)
LEMMA NoMore ==
  ASSUME IsFiniteSet(Job), NEW A, NEW B \in SUBSET Place, NEW n \in Nat,
         A \subseteq B, Cardinality(B) <= n
  PROVE  Cardinality(A) <= n
  <1>1. IsFiniteSet(B) /\ Cardinality(B) \in Nat
    BY FinitePlaces, FS_Subset, FS_CardinalityType
  <1>2. Cardinality(A) <= Cardinality(B) /\ Cardinality(A) \in Nat
    BY <1>1, FS_Subset, FS_CardinalityType
  <1> QED
    BY <1>1, <1>2

(* A launch found room among all that is placed, not only what it counted. *)
LEMMA LimitsStep ==
  ASSUME DistinctOwners, IsFiniteSet(Job), ConfirmedInOnePlace,
         TenantMax = 0 \/ Confirmed = {}, SchedulerInv, LimitsHold, [Next]_vars
  PROVE  LimitsHold'
  <1> Placed \subseteq Place
    BY PlacedFacts DEF SchedulerInv
  <1>1. CASE StartOk \/ StartUnconfirmed
    <2>1. pc = "start" /\ pc \in Visiting /\ Placed' \subseteq Placed \cup {cand}
      BY <1>1 DEF StartOk, StartUnconfirmed, Placed, Visiting
    <2>2. /\ WithinLimits(cand[1])
          /\ \A p \in Placed : p \in Counted \/ p[1] \in Confirmed
      BY <2>1, AllCounted DEF SchedulerInv, CountInv, WithinLaunch
    <2>3. cand \in Place /\ cand[1] \in Job /\ Counted \subseteq Place
      BY <2>1, PlaceFacts DEF SchedulerInv, TypeOK, PassTypeOK, Counted, Noted, Schedulable, Loaded
    <2>4. ASSUME NEW j \in Job
          PROVE  Cardinality({p \in Placed' : p[1] = j}) <= MaxParallel[j]
      <3>1. CASE cand[1] = j
        <4> DEFINE B == {p \in Counted : p[1] = j}
        <4>1. Cardinality(B) < MaxParallel[j]
          BY <2>2, <3>1 DEF WithinLimits, RowCount
        <4>2. {p \in Placed' : p[1] = j} \subseteq B \cup {cand}
          <5> SUFFICES ASSUME NEW p \in Placed, p[1] = j, j \in Confirmed PROVE p = cand
            BY <2>1, <2>2
          <5>1. p \in Place /\ p[2] \in Pool[j] /\ cand[2] \in Pool[j]
            BY <2>3, <3>1 DEF Place
          <5>2. p[2] = cand[2]
            BY <5>1 DEF ConfirmedInOnePlace, InOnePlace
          <5> QED
            BY <2>3, <3>1, <5>1, <5>2, PlaceFacts
        <4>3. B \in SUBSET Place /\ MaxParallel[j] \in Nat
          BY <2>3
        <4> HIDE DEF B
        <4> QED
          BY <2>3, <4>1, <4>2, <4>3, OneMore
      <3>2. CASE cand[1] # j
        <4> DEFINE B == {p \in Placed : p[1] = j}
        <4>1. Cardinality(B) <= MaxParallel[j]
          BY DEF LimitsHold
        <4>2. {p \in Placed' : p[1] = j} \subseteq B
          BY <2>1, <3>2
        <4>3. B \in SUBSET Place /\ MaxParallel[j] \in Nat
          OBVIOUS
        <4> HIDE DEF B
        <4> QED
          BY <4>1, <4>2, <4>3, NoMore
      <3> QED
        BY <3>1, <3>2
    <2>5. ASSUME TenantMax # 0, NEW j \in Job
          PROVE  Cardinality({p \in Placed' : Tenant[p[1]] = Tenant[j]}) <= TenantMax
      <3>1. CASE Tenant[cand[1]] = Tenant[j]
        <4> DEFINE B == {p \in Counted : Tenant[p[1]] = Tenant[j]}
        <4>1. Cardinality(B) < TenantMax
          BY <2>2, <2>5, <3>1 DEF WithinLimits, TenantCount
        <4>2. {p \in Placed' : Tenant[p[1]] = Tenant[j]} \subseteq B \cup {cand}
          BY <2>1, <2>2, <2>5
        <4>3. B \in SUBSET Place /\ TenantMax \in Nat
          BY <2>3
        <4> HIDE DEF B
        <4> QED
          BY <2>3, <4>1, <4>2, <4>3, OneMore
      <3>2. CASE Tenant[cand[1]] # Tenant[j]
        <4> DEFINE B == {p \in Placed : Tenant[p[1]] = Tenant[j]}
        <4>1. Cardinality(B) <= TenantMax
          BY <2>5 DEF LimitsHold
        <4>2. {p \in Placed' : Tenant[p[1]] = Tenant[j]} \subseteq B
          BY <2>1, <3>2
        <4>3. B \in SUBSET Place /\ TenantMax \in Nat
          OBVIOUS
        <4> HIDE DEF B
        <4> QED
          BY <4>1, <4>2, <4>3, NoMore
      <3> QED
        BY <3>1, <3>2
    <2> QED
      BY <2>4, <2>5 DEF LimitsHold
  <1>2. CASE ~StartOk /\ ~StartUnconfirmed
    <2>1. Placed' \subseteq Placed
      <3>1. CASE PassStep \/ Outage \/ Unanswered \/ Restart
        BY <1>2, <3>1 DEF PassStep, Begin, TopologyRefuses, TopologyAccepts, QueueRefuses,
             QueueAccepts, Load, LoadFails, Probe, Complete, Status, Skip, Reconcile, Conflict,
             Heartbeat, Adopt, Busy, Claim, Idle, StartUnseen, StartFails, Undo,
             Outage, Unanswered, Restart, Refused, NotRenewed, world, work, Placed
      <3>2. CASE World
        BY <3>2 DEF World, End, Stray, ForeignClaim, ForeignRelease, Expire, Drain, Publish, work,
                    Placed
      <3>3. CASE Command(QueueStep(Submittable)) \/ UNCHANGED vars
        BY <3>3 DEF Command, vars, world, work, Placed
      <3> QED
        BY <3>1, <3>2, <3>3 DEF Next
    <2>2. ASSUME NEW j \in Job
          PROVE  Cardinality({p \in Placed' : p[1] = j}) <= MaxParallel[j]
      <3>1. Cardinality({p \in Placed : p[1] = j}) <= MaxParallel[j]
        BY DEF LimitsHold
      <3>2. /\ {p \in Placed' : p[1] = j} \subseteq {p \in Placed : p[1] = j}
            /\ {p \in Placed : p[1] = j} \in SUBSET Place /\ MaxParallel[j] \in Nat
        BY <2>1
      <3> QED
        BY <3>1, <3>2, NoMore
    <2>3. ASSUME TenantMax # 0, NEW j \in Job
          PROVE  Cardinality({p \in Placed' : Tenant[p[1]] = Tenant[j]}) <= TenantMax
      <3>1. Cardinality({p \in Placed : Tenant[p[1]] = Tenant[j]}) <= TenantMax
        BY <2>3 DEF LimitsHold
      <3>2. /\ {p \in Placed' : Tenant[p[1]] = Tenant[j]}
                 \subseteq {p \in Placed : Tenant[p[1]] = Tenant[j]}
            /\ {p \in Placed : Tenant[p[1]] = Tenant[j]} \in SUBSET Place /\ TenantMax \in Nat
        BY <2>1
      <3> QED
        BY <3>1, <3>2, NoMore
    <2> QED
      BY <2>2, <2>3 DEF LimitsHold
  <1> QED
    BY <1>1, <1>2

(* max_parallel and --max-running-per-tenant hold over all the passes      *)
(* taken together, whatever a single pass has not seen: a probe that timed *)
(* out is counted by its lease, and a launch when it is made.  A row of    *)
(* the class cuda_exclusive or with an evidence file has to have one       *)
(* resource, and no tenant limit, because a launch whose identity or       *)
(* evidence fails is not counted                                           *)
(* (initial_scheduler_counts, mark_planned, schedule_resource).            *)
THEOREM LimitsKept ==
  ASSUME DistinctOwners, IsFiniteSet(Job), ConfirmedInOnePlace, TenantMax = 0 \/ Confirmed = {}
  PROVE  Spec => []LimitsHold
  <1>1. Init => LimitsHold
    <2> SUFFICES ASSUME Init PROVE LimitsHold
      OBVIOUS
    <2>1. /\ \A j \in Job : {p \in Placed : p[1] = j} = {}
          /\ \A j \in Job : {p \in Placed : Tenant[p[1]] = Tenant[j]} = {}
      BY DEF Init, Placed
    <2>2. Cardinality({}) = 0
      BY FS_EmptySet
    <2>3. /\ \A j \in Job : Cardinality({p \in Placed : p[1] = j}) = 0
          /\ \A j \in Job : Cardinality({p \in Placed : Tenant[p[1]] = Tenant[j]}) = 0
      BY <2>1, <2>2
    <2>4. TenantMax >= 0 /\ \A j \in Job : MaxParallel[j] >= 0
      OBVIOUS
    <2> QED
      BY <2>3, <2>4 DEF LimitsHold
  <1>2. SchedulerInv /\ LimitsHold /\ [Next]_vars => LimitsHold'
    BY LimitsStep
  <1> QED
    BY <1>1, <1>2, Invariance, PTL DEF Spec

(* A row with max_parallel one is not started again when its work has been *)
(* completed, although the completion may come after the pass has asked    *)
(* for it and found it incomplete: who completed it counts against the     *)
(* limit until the pass ends (complete_job, choose_candidate).  Rows that  *)
(* need confirmation have to have one resource, as for the limits.         *)
THEOREM CompleteStaysComplete ==
  ASSUME DistinctOwners, IsFiniteSet(Job), ConfirmedInOnePlace
  PROVE  Spec => NoRerun
  <1>1. SchedulerInv => (pc = "start" /\ pc' # "start" /\ up' # up =>
                   (MaxParallel[cand[1]] = 1 => done[cand[1]] # "tracked"))
    <2> SUFFICES ASSUME SchedulerInv, pc = "start", MaxParallel[cand[1]] = 1, done[cand[1]] = "tracked"
                 PROVE  FALSE
      OBVIOUS
    <2>1. cand \in cands /\ cand[2] = cur /\ cur \in Nat
      BY DEF SchedulerInv, PassInv, Launching, TypeOK, PassTypeOK, Resource
    <2>2. PICK q \in Counted : q[1] = cand[1]
      BY <2>1 DEF SchedulerInv, CompletionsCounted, ConfirmedInOnePlace
    <2> DEFINE B == {p \in Counted : p[1] = cand[1]}
    <2>3. Cardinality(B) < 1
      BY DEF SchedulerInv, CountInv, WithinLaunch, WithinLimits, RowCount
    <2>4. B \in SUBSET Place
      BY DEF SchedulerInv, TypeOK, PassTypeOK, Counted, Noted, Schedulable, Loaded
    <2>5. IsFiniteSet(B) /\ Cardinality(B) \in Nat
      BY <2>4, FinitePlaces, FS_Subset, FS_CardinalityType
    <2>6. Cardinality(B) = 0 => B = {}
      BY <2>5, FS_EmptySet
    <2>7. q \in B
      BY <2>2
    <2> HIDE DEF B
    <2> QED
      BY <2>3, <2>5, <2>6, <2>7
  <1> QED
    BY <1>1, Invariance, PTL DEF NoRerun
===============================================================================
