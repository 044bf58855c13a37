---------------------------- MODULE MeshScheduler ----------------------------
(***************************************************************************)
(* The passes of scripts/mesh_resource_scheduler.py over the mesh, with    *)
(* the queue of JobQueue, the lease arbiter and the workers around them.   *)
(*                                                                         *)
(* A pass (schedule_once) looks at one thing after the other -- inventory  *)
(* and topology snapshot, queue and event log, the queue again, a probe    *)
(* per placement, the completions, the leases -- and then acts on each     *)
(* resource in turn, on what it has seen.  Everything it looked at goes on *)
(* changing: workers end or appear, leases expire, other clients claim     *)
(* and release, jobs are submitted and cancelled, resources drained.       *)
(*                                                                         *)
(* A placement is a row of the queue expanded to one of its resources.     *)
(* Every resource has capacity one, as all have in the checked-in          *)
(* inventory, so the arbiter holds at most one lease for each.             *)
(***************************************************************************)
EXTENDS JobQueue

CONSTANTS NResources,  \* resources, visited in the order of their names
          Pool,        \* Pool[j]: the resources that row j selects
          Fixed,       \* rows with resource or resources, not resource_pool
          Exclusive,   \* rows of the class cuda_exclusive
          Recorded,    \* rows with an evidence_path
          Tenant,      \* Tenant[j]
          Priority,    \* Priority[j]
          MaxParallel, \* MaxParallel[j]: placements of j at a time
          TenantMax,   \* --max-running-per-tenant, 0 for no limit
          Foreign,     \* clients that claim leases directly
          Owner,       \* Owner[h]: the owner named in the leases of h
          Adoptable,   \* <<f, j>>: the leases of f describe the workload of j
          Free,
          Ttl          \* passes a lease lasts when it is not renewed

Resource == 1 .. NResources
Holder == Job \cup Foreign
Place == {p \in Job \X Resource : p[2] \in Pool[p[1]]}

ASSUME SchedulerAssumption ==
  /\ NResources \in Nat \ {0}
  /\ Job \subseteq Nat
  /\ Pool \in [Job -> SUBSET Resource]
  /\ Fixed \subseteq Job
  /\ Exclusive \subseteq Job /\ Recorded \subseteq Job
  /\ MaxParallel \in [Job -> Nat]
  /\ TenantMax \in Nat
  /\ Foreign \cap Job = {}
  /\ Free \notin Holder
  /\ Adoptable \subseteq Foreign \X Job
  /\ Ttl \in Nat /\ Ttl >= 2

VARIABLES
  \* the world
  blocked,   \* resources with status "blocked" in the inventory
  published, \* the same in the published topology snapshot
  lease,     \* the arbiter: who holds each resource, or Free
  slip,      \* passes begun since the lease was claimed or renewed
  up,        \* placements whose worker is running
  done,      \* rows whose completion command says complete, and who did it
  \* the pass
  pc, cur,   \* where the pass is, and the resource it has come to
  inv,       \* the inventory it loaded
  rows,      \* the jobs file it loaded
  lost,      \* ghost: rows without an event since before the gate read them
  todo,      \* placements still to be probed, or to be asked for completion
  live,      \* the answers of the probes
  cands,     \* dead placements that are not complete
  shot,      \* the leases in the arbiter status
  gone,      \* ghost: resources whose lease in shot has ended since
  seen,      \* the lease of cur after reconciliation
  planned,   \* placements launched and counted by this pass
  cand,      \* the placement being launched
  \* ghosts
  astray,    \* running workers the scheduler does not look after: it never
             \* started them, or it reported their start as failed, or they
             \* lost their lease for a reason in excused, or were drained
  excused    \* resources whose lease a pass had a reason not to renew

topology == <<blocked, published>>
arbiter == <<lease, slip, excused>>
work == <<up, done, astray>>
world == <<topology, arbiter, work>>
read == <<inv, rows, lost>>
probes == <<todo, live, cands>>
leases == <<shot, gone>>
choice == <<seen, planned, cand>>
pass == <<pc, cur, read, probes, leases, choice>>
vars == <<qvars, world, pass>>

NoPlace == <<0, 0>>
Confirmed == Exclusive \cup Recorded  \* rows that need more than a probe
Visiting == {"visit", "act", "start", "undo"}
Unprobed == [p \in Place |-> "unknown"]
NoLeases == [r \in Resource |-> Free]

-----------------------------------------------------------------------------
(* The jobs of a pass: expand_job_resources over the rows it loaded.  A    *)
(* pool leaves out blocked resources.                                      *)
Loaded == {p \in Place : rows[p[1]] # "absent" /\ (p[1] \in Fixed \/ p[2] \notin inv)}
Schedulable == {p \in Loaded : p[2] \notin inv}
On(r) == {p \in Loaded : p[2] = r}
First(p, S) == \A q \in S : p[1] < q[1] \/ (p[1] = q[1] /\ p[2] <= q[2])

(* A row cannot be expanded, or wants to run on a blocked resource: the    *)
(* whole pass fails.                                                       *)
Placeable(j, row, inventory) ==
  IF j \in Fixed
  THEN row = "running" => Pool[j] \cap inventory = {}
  ELSE ~(Pool[j] \subseteq inventory)
Unplaceable(doc) == \E j \in Present(doc) : ~Placeable(j, doc[j], inv)

(* The checks of submit, before it takes the lock: the topology gate, and  *)
(* the same expansion.                                                     *)
Submittable ==
  {new \in Job \X {"running", "paused"} :
     published = blocked /\ Placeable(new[1], new[2], blocked)}

(* matching_leases: a lease belongs to a job by sync id or by owner.       *)
Matches(h, j) == h = j \/ Owner[h] = Owner[j]
Known(h, r) == \E p \in On(r) : Matches(h, p[1])
JobForLease(p) ==
  /\ shot[p[2]] # Free /\ Matches(shot[p[2]], p[1])
  /\ \A q \in On(p[2]) : Matches(shot[p[2]], q[1]) => p[1] <= q[1]

(* Mutant: only what a probe has found live counts.                        *)
NotedLive == {p \in Schedulable : live[p] = "yes"}

(* initial_scheduler_counts and mark_planned: the placements that count    *)
(* against the limits.                                                     *)
Noted ==
  {p \in Schedulable : live[p] = "yes" \/ (live[p] # "no" /\ JobForLease(p))}
Counted == Noted \cup planned
RowCount(j) == Cardinality({p \in Counted : p[1] = j})
TenantCount(t) == Cardinality({p \in Counted : Tenant[p[1]] = t})
WithinLimits(j) ==
  /\ RowCount(j) < MaxParallel[j]
  /\ TenantMax = 0 \/ TenantCount(Tenant[j]) < TenantMax

(* choose_candidate: what could be launched on r, and the order of choice: *)
(* fair share of the tenants, then priority, then id.                      *)
Launchable(r) ==
  {p \in cands \cap On(r) : rows[p[1]] = "running" /\ WithinLimits(p[1])}
Before(p, q) ==
  LET m == TenantCount(Tenant[p[1]])
      n == TenantCount(Tenant[q[1]]) IN
  \/ m < n
  \/ m = n /\ Priority[p[1]] > Priority[q[1]]
  \/ m = n /\ Priority[p[1]] = Priority[q[1]] /\ p[1] <= q[1]

(* The enabled jobs that a probe found live on r.                          *)
LiveOn(r) == {p \in On(r) : live[p] = "yes" /\ Enabled(rows[p[1]])}

-----------------------------------------------------------------------------
(* The arbiter, as far as the scheduler uses it.  A lease id is never used *)
(* again, so a lease in shot that has ended can no longer be named.        *)
Claimed(r, h) ==
  /\ lease' = [lease EXCEPT ![r] = h]
  /\ slip' = [slip EXCEPT ![r] = 0]
  /\ excused' = excused \ {r}
Dropped(r) ==
  /\ lease' = [lease EXCEPT ![r] = Free]
  /\ slip' = [slip EXCEPT ![r] = 0]
  /\ excused' = excused \ {r}
  /\ gone' = IF pc \in Visiting THEN gone \cup {r} ELSE gone

-----------------------------------------------------------------------------
Init ==
  /\ QueueInit
  /\ blocked = {} /\ published = {}
  /\ lease = NoLeases /\ slip = [r \in Resource |-> 0]
  /\ up = {} /\ done = [j \in Job |-> "no"]
  /\ gone = {} /\ astray = {} /\ excused = {}
  /\ pc = "idle" /\ cur = 1 /\ inv = {} /\ rows = NoEvents /\ lost = {}
  /\ todo = {} /\ live = Unprobed /\ cands = {} /\ shot = NoLeases
  /\ seen = Free /\ planned = {} /\ cand = NoPlace

(* The pass is over, in whatever way.                                      *)
Over ==
  /\ pc' = "idle" /\ cur' = 1 /\ inv' = {} /\ rows' = NoEvents /\ lost' = {}
  /\ todo' = {} /\ live' = Unprobed /\ cands' = {} /\ shot' = NoLeases
  /\ gone' = {} /\ seen' = Free /\ planned' = {} /\ cand' = NoPlace

(* A pass that fails before it acts renews no lease.                       *)
Refused ==
  /\ Over
  /\ excused' = {r \in Resource : lease[r] # Free}
  /\ UNCHANGED <<topology, lease, slip, work>>

(* load_inventory.                                                         *)
Begin ==
  /\ pc = "idle"
  /\ pc' = "topology"
  /\ inv' = blocked
  /\ slip' = [r \in Resource |-> IF lease[r] # Free /\ slip[r] < Ttl
                                 THEN slip[r] + 1 ELSE slip[r]]
  /\ UNCHANGED <<qvars, topology, lease, work, excused, cur, rows, lost,
                 probes, leases, choice>>

(* topology_authority_gate: the snapshot has to agree with the inventory.  *)
TopologyRefuses ==
  /\ pc = "topology" /\ published # inv
  /\ Refused
  /\ UNCHANGED qvars

(* It does, and queue_event_integrity reads the jobs file ...              *)
TopologyAccepts ==
  /\ pc = "topology" /\ published = inv
  /\ pc' = "queue"
  /\ rows' = queue
  /\ lost' = torn
  /\ UNCHANGED <<qvars, world, cur, inv, probes, leases, choice>>

(* ... and then the event log.                                             *)
QueueRefuses ==
  /\ pc = "queue" /\ ~Intact(rows)
  /\ Refused
  /\ UNCHANGED qvars

QueueAccepts ==
  /\ pc = "queue" /\ Intact(rows)
  /\ pc' = "load"
  /\ UNCHANGED <<qvars, world, cur, read, probes, leases, choice>>

(* Anything the pass needs may be missing: a stale snapshot, an unreadable *)
(* file, a status command that times out.                                  *)
Outage ==
  /\ pc \in {"topology", "queue", "load", "status"}
  /\ Spend("outages")
  /\ Refused
  /\ UNCHANGED files

(* load_jobs reads the queue file a second time.  What is not expanded, or *)
(* is blocked, is not looked after any more.                               *)
Load ==
  /\ pc = "load"
  /\ ~Unplaceable(queue)
  /\ rows' = queue
  /\ UNCHANGED <<qvars, topology, lease, slip, up, done, excused, cur, inv,
                 lost, live, cands, leases, choice>>
  /\ todo' = Schedulable'
  /\ pc' = IF todo' = {} THEN "status" ELSE "probe"
  /\ astray' = astray \cup (up \ Schedulable')

LoadFails ==
  /\ pc = "load"
  /\ Unplaceable(queue)
  /\ Refused
  /\ UNCHANGED qvars

(* probe_job for one placement after the other: exit code zero, another,   *)
(* or a timeout.                                                           *)
Probe ==
  \E p \in todo :
    /\ pc = "probe" /\ First(p, todo)
    /\ \/ /\ live' = [live EXCEPT ![p] = IF p \in up THEN "yes" ELSE "no"]
          /\ UNCHANGED <<excused, budget>>
       \/ /\ Spend("outages")
          /\ excused' = IF lease[p[2]] # Free THEN excused \cup {p[2]} ELSE excused
          /\ UNCHANGED live
    /\ IF todo = {p} THEN pc' = "complete" /\ todo' = Schedulable
                     ELSE pc' = "probe" /\ todo' = todo \ {p}
    /\ UNCHANGED <<files, topology, lease, slip, work, cur, read, cands,
                   leases, choice>>

(* Mutant: whatever is dead is a candidate, complete or not.               *)
CompleteIgnored ==
  \E p \in todo :
    /\ pc = "complete" /\ First(p, todo)
    /\ cands' = IF live[p] = "no" THEN cands \cup {p} ELSE cands
    /\ todo' = todo \ {p}
    /\ pc' = IF todo = {p} THEN "status" ELSE "complete"
    /\ UNCHANGED <<qvars, world, cur, read, live, leases, choice>>

(* complete_job for one after the other; a timeout is not "incomplete".    *)
Complete ==
  \E p \in todo :
    /\ pc = "complete" /\ First(p, todo)
    /\ \/ /\ cands' = IF live[p] = "no" /\ done[p[1]] = "no" THEN cands \cup {p} ELSE cands
          /\ UNCHANGED budget
       \/ Spend("outages") /\ UNCHANGED cands
    /\ todo' = todo \ {p}
    /\ pc' = IF todo = {p} THEN "status" ELSE "complete"
    /\ UNCHANGED <<files, world, cur, read, live, leases, choice>>

(* arbiter status.                                                         *)
Status ==
  /\ pc = "status"
  /\ shot' = lease
  /\ gone' = {}
  /\ pc' = "visit"
  /\ UNCHANGED <<qvars, world, cur, read, probes, choice>>

(* On to the next resource, or the end of the pass.                        *)
Leave(launched) ==
  IF cur < NResources
  THEN /\ pc' = "visit" /\ cur' = cur + 1
       /\ seen' = Free /\ planned' = planned \cup launched /\ cand' = NoPlace
       /\ UNCHANGED <<read, probes, leases>>
  ELSE Over

(* A resource that the inventory blocks is passed over.                    *)
Skip ==
  /\ pc = "visit" /\ cur \in inv
  /\ Leave({})
  /\ UNCHANGED <<qvars, world>>

(* Mutant: a job that is not known to be live counts as dead.              *)
StaleUnlessLive ==
  shot[cur] # Free /\ \E p \in On(cur) : live[p] # "yes" /\ Matches(shot[cur], p[1])

(* reconcile_stale_leases: a lease that matches a job whose probe says     *)
(* dead is released.  If the release fails, or its answer does not arrive, *)
(* the lease counts as still there.                                        *)
Stale ==
  shot[cur] # Free /\ \E p \in On(cur) : live[p] = "no" /\ Matches(shot[cur], p[1])
Reconcile ==
  /\ pc = "visit" /\ cur \notin inv
  /\ pc' = "act"
  /\ IF Stale /\ cur \notin gone
     THEN \/ Dropped(cur) /\ seen' = Free /\ UNCHANGED budget
          \/ Dropped(cur) /\ seen' = shot[cur] /\ Spend("outages")
          \/ seen' = shot[cur] /\ Spend("outages") /\ UNCHANGED <<arbiter,
                                                                  gone>>
     ELSE seen' = shot[cur] /\ UNCHANGED <<arbiter, gone, budget>>
  /\ UNCHANGED <<files, topology, work, cur, read, probes, shot, planned,
                 cand>>

(* Mutant: a busy resource's lease is renewed for its holder.              *)
NotRenewedButKept ==
  /\ slip' = [slip EXCEPT ![cur] = 0]
  /\ Leave({})
  /\ UNCHANGED <<files, topology, lease, excused, work>>

(* The lease of a resource is left as it is, for a good reason.            *)
NotRenewed ==
  /\ excused' = IF lease[cur] # Free THEN excused \cup {cur} ELSE excused
  /\ Leave({})
  /\ UNCHANGED <<files, topology, lease, slip, work>>

(* handle_live_holders with several live jobs: an error, nothing is done.  *)
Conflict ==
  /\ pc = "act" /\ Cardinality(LiveOn(cur)) > 1
  /\ NotRenewed /\ UNCHANGED budget

(* The lease seen is one that the live job p may keep up.                  *)
OwnLease(p) == Known(seen, cur) /\ Matches(seen, p[1])
Adopts(p) == ~Known(seen, cur) /\ <<seen, p[1]>> \in Adoptable

(* The live job's lease is renewed; the metadata of an adopted or a CUDA   *)
(* lease then carry the job's sync id.  It fails if the lease is gone.     *)
Heartbeat ==
  \E p \in LiveOn(cur) :
    /\ pc = "act" /\ LiveOn(cur) = {p}
    /\ seen # Free /\ (OwnLease(p) \/ Adopts(p))
    /\ IF cur \in gone
       THEN UNCHANGED arbiter
       ELSE Claimed(cur, IF Adopts(p) \/ p[1] \in Exclusive THEN p[1] ELSE lease[cur])
    /\ Leave({})
    /\ UNCHANGED <<qvars, topology, work>>

(* A live job without a lease is adopted, if nobody was faster.            *)
Adopt ==
  \E p \in LiveOn(cur) :
    /\ pc = "act" /\ LiveOn(cur) = {p} /\ seen = Free
    /\ IF lease[cur] = Free THEN Claimed(cur, p[1]) ELSE UNCHANGED arbiter
    /\ Leave({})
    /\ UNCHANGED <<qvars, topology, work>>

(* The lease is somebody else's, or of a job that is not known to be live. *)
Busy ==
  /\ pc = "act" /\ seen # Free
  /\ Cardinality(LiveOn(cur)) <= 1
  /\ \A p \in LiveOn(cur) : ~OwnLease(p) /\ ~Adopts(p)
  /\ NotRenewed /\ UNCHANGED budget

(* The identity of a live worker, or the arbiter, does not answer.         *)
Unanswered ==
  /\ pc = "act" /\ Cardinality(LiveOn(cur)) = 1
  /\ Spend("outages")
  /\ NotRenewed

(* choose_candidate among the admitted ones, and claim_job.  When the      *)
(* answer of the arbiter does not arrive the lease may be held all the     *)
(* same, and nothing is started.                                           *)
Claim ==
  \E admitted \in SUBSET Launchable(cur) : \E p \in admitted :
    /\ pc = "act" /\ LiveOn(cur) = {} /\ seen = Free /\ lease[cur] = Free
    /\ \A q \in admitted : Before(p, q)
    /\ Claimed(cur, p[1])
    /\ \/ /\ IF admitted = Launchable(cur) THEN UNCHANGED budget ELSE Spend("outages")
          /\ cand' = p /\ pc' = "start"
          /\ UNCHANGED <<cur, read, probes, leases, seen, planned>>
       \/ /\ Spend("outages")
          /\ Leave({})
    /\ UNCHANGED <<files, topology, work>>

(* Nothing to launch, nothing that is admitted, or somebody was faster.    *)
Idle ==
  /\ pc = "act" /\ LiveOn(cur) = {} /\ seen = Free
  /\ IF Launchable(cur) = {} \/ lease[cur] # Free THEN UNCHANGED budget ELSE Spend("outages")
  /\ Leave({})
  /\ UNCHANGED <<files, world>>

(* start_job, post_start_probe_job and collect_worker_identity succeed.    *)
StartOk ==
  /\ pc = "start"
  /\ up' = up \cup {cand}
  /\ Leave({cand})
  /\ UNCHANGED <<qvars, topology, lease, slip, done, astray, excused>>

(* Without a post-start probe a worker that dies at once counts as well.   *)
StartUnseen ==
  /\ pc = "start" /\ cand[1] \notin Exclusive
  /\ Spend("failures")
  /\ Leave({cand})
  /\ UNCHANGED <<files, world>>

(* Mutant: the lease is released although the worker has been verified.    *)
StartUnconfirmedUndone ==
  /\ pc = "start" /\ cand[1] \in Confirmed
  /\ Spend("confirmations")
  /\ up' = up \cup {cand}
  /\ pc' = "undo"
  /\ UNCHANGED <<files, topology, lease, slip, done, astray, excused, cur,
                 read, probes, leases, choice>>

(* The worker is up, but its identity is not established, or the evidence  *)
(* file cannot be written: the launch is not ok, or is cut short, the      *)
(* lease stays, and mark_planned is not called.                            *)
StartUnconfirmed ==
  /\ pc = "start" /\ cand[1] \in Confirmed
  /\ Spend("confirmations")
  /\ up' = up \cup {cand}
  /\ Leave({})
  /\ UNCHANGED <<files, topology, lease, slip, done, astray, excused>>

(* The start fails, times out or is not confirmed.  The worker may be up,  *)
(* or come up, all the same.                                               *)
StartFails ==
  /\ pc = "start"
  /\ Spend("failures")
  /\ pc' = "undo"
  /\ \/ up' = up \cup {cand} /\ astray' = astray \cup {cand}
     \/ UNCHANGED <<up, astray>>
  /\ UNCHANGED <<files, topology, lease, slip, done, excused, cur, read,
                 probes, leases, choice>>

(* release_after_failed_start, of the lease just claimed, if it works.     *)
Undo ==
  /\ pc = "undo"
  /\ \/ /\ lease' = [lease EXCEPT ![cur] = Free]
        /\ slip' = [slip EXCEPT ![cur] = 0]
        /\ excused' = excused \ {cur}
        /\ UNCHANGED budget
     \/ Spend("outages") /\ UNCHANGED arbiter
  /\ Leave({})
  /\ UNCHANGED <<files, topology, work>>

(* The scheduler dies; systemd starts it again.                            *)
Restart ==
  /\ pc # "idle"
  /\ Spend("restarts")
  /\ Refused
  /\ UNCHANGED files

PassStep ==
  \/ Begin \/ TopologyRefuses \/ TopologyAccepts \/ QueueRefuses \/ QueueAccepts
  \/ Load \/ LoadFails
  \/ Probe \/ Complete \/ Status \/ Skip \/ Reconcile
  \/ Conflict \/ Heartbeat \/ Adopt \/ Busy \/ Claim \/ Idle
  \/ StartOk \/ StartUnseen \/ StartUnconfirmed \/ StartFails \/ Undo

-----------------------------------------------------------------------------
(* What happens around the scheduler.                                      *)

(* A worker ends, with its work complete or not.                           *)
End(p) ==
  /\ p \in up
  /\ up' = up \ {p} /\ astray' = astray \ {p}
  /\ \/ /\ done[p[1]] = "no"
        /\ done' = [done EXCEPT ![p[1]] = IF p \in astray \/ p[2] \in excused
                                          THEN "astray" ELSE "tracked"]
        /\ UNCHANGED budget
     \/ done[p[1]] # "no" /\ UNCHANGED <<done, budget>>
     \/ done[p[1]] = "no" /\ Spend("failures") /\ UNCHANGED done
  /\ UNCHANGED <<files, topology, arbiter, pass>>

(* A worker appears that no pass has just started: by hand, or late.       *)
Stray(p) ==
  /\ p \notin up
  /\ Spend("strays")
  /\ up' = up \cup {p} /\ astray' = astray \cup {p}
  /\ UNCHANGED <<files, topology, lease, slip, done, excused, pass>>

ForeignClaim(r) ==
  \E f \in Foreign :
    /\ lease[r] = Free
    /\ Spend("claims")
    /\ Claimed(r, f)
    /\ UNCHANGED <<files, topology, work, pass>>

ForeignRelease(r) ==
  /\ lease[r] \in Foreign
  /\ Dropped(r)
  /\ UNCHANGED <<qvars, topology, work, pc, cur, read, probes, shot, choice>>

(* The time to live of a lease has run out.                                *)
Expire(r) ==
  /\ lease[r] # Free /\ slip[r] >= Ttl
  /\ Dropped(r)
  /\ astray' = IF r \in excused
               THEN astray \cup {p \in up : p[2] = r /\ p[1] = lease[r]} ELSE astray
  /\ UNCHANGED <<qvars, topology, up, done, pc, cur, read, probes, shot,
                 choice>>

(* update_inventory_status: drain and undrain.                             *)
Drain(r) ==
  /\ Spend("drains")
  /\ blocked' = IF r \in blocked THEN blocked \ {r} ELSE blocked \cup {r}
  /\ UNCHANGED <<files, published, lease, slip, work, excused, pass>>

(* The topology authority publishes a new snapshot.                        *)
Publish ==
  /\ published # blocked
  /\ published' = blocked
  /\ UNCHANGED <<qvars, blocked, lease, slip, work, excused, pass>>

World ==
  \/ \E p \in Place : End(p) \/ Stray(p)
  \/ \E r \in Resource : ForeignClaim(r) \/ ForeignRelease(r) \/ Expire(r) \/ Drain(r)
  \/ Publish

(* A step of a control command.                                            *)
Command(step) ==
  /\ step
  /\ lost' = {j \in lost \cap torn' : queue'[j] = queue[j]}
  /\ UNCHANGED <<world, pc, cur, inv, rows, probes, leases, choice>>

Next ==
  \/ Command(QueueStep(Submittable))
  \/ PassStep
  \/ Outage \/ Unanswered \/ Restart
  \/ World

Spec == Init /\ [][Next]_vars

(* The loop goes on, control processes go on unless they die, workers end, *)
(* leases expire, snapshots are published.                                 *)
FairSpec ==
  /\ Spec
  /\ WF_vars(PassStep)
  /\ WF_vars(\E c \in Client : Command(Write(c) \/ AppendEvent(c) \/ BootstrapBind(c)))
  /\ WF_vars(\E p \in Place : End(p))
  /\ WF_vars(\E r \in Resource : Expire(r))
  /\ WF_vars(Publish)
===============================================================================
