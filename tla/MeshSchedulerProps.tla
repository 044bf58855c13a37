-------------------------- MODULE MeshSchedulerProps --------------------------
(***************************************************************************)
(* What the scheduler and its queue are supposed to guarantee.             *)
(***************************************************************************)
EXTENDS MeshScheduler

(* The state has the shape the code gives it.                              *)
QueueTypeOK ==
  /\ queue \in Doc /\ log \in Doc
  /\ holder \in Client \cup {Nobody}
  /\ client \in [Client -> Process]
  /\ torn \subseteq Job
  /\ budget \in [Event -> Nat]
WorldTypeOK ==
  /\ blocked \subseteq Resource /\ published \subseteq Resource
  /\ lease \in [Resource -> Holder \cup {Free}]
  /\ slip \in [Resource -> Nat]
  /\ up \subseteq Place /\ astray \subseteq up
  /\ done \in [Job -> {"no", "tracked", "astray"}]
  /\ excused \subseteq Resource
PassTypeOK ==
  /\ pc \in {"idle", "topology", "queue", "load", "probe", "complete", "status"} \cup Visiting
  /\ cur \in Resource
  /\ inv \subseteq Resource /\ rows \in Doc /\ lost \subseteq Job
  /\ todo \subseteq Place /\ cands \subseteq Place
  /\ live \in [Place -> {"yes", "no", "unknown"}]
  /\ shot \in [Resource -> Holder \cup {Free}]
  /\ gone \subseteq Resource
  /\ seen \in Holder \cup {Free}
  /\ planned \subseteq Place
  /\ cand \in Place \/ (cand = NoPlace /\ pc \notin {"start", "undo"})
TypeOK == QueueTypeOK /\ WorldTypeOK /\ PassTypeOK

(* The event log covers the jobs file: a row without the event of its      *)
(* present content belongs to a process that still holds the queue lock,   *)
(* or to one that died before it appended the event (submit, cancel and    *)
(* bootstrap of mesh_resource_scheduler.py).                               *)
EveryRowLogged ==
  \A j \in Job : queue[j] # log[j] =>
    \/ j \in torn
    \/ \E c \in Client : holder = c /\ client[c].at = "wrote" /\ j \in client[c].jobs

(* No lost update: a write of the whole file changes only the row that its *)
(* command is about.                                                       *)
WritesOneRow ==
  [][\A c \in Client : Write(c) =>
       \A j \in Job : queue'[j] # queue[j] => client[c].jobs = {j}]_vars

(* What the queue gate is worth although the jobs file is read once for    *)
(* it and once more after it: no pass goes to work on a file with a row    *)
(* that has lacked its event since before the gate first looked.           *)
GateMeaning == [][Load => lost = {}]_vars

(* The work the scheduler looks after.                                     *)
Placed == up \ astray

(* Jobs do not share an owner, so that a lease names one job.              *)
DistinctOwners == \A i, j \in Job : Owner[i] = Owner[j] => i = j

(* Work the scheduler placed keeps its lease until it ends: whatever dies, *)
(* expires, is claimed or changes between the steps of a pass, no pass     *)
(* releases the lease of a running worker, and none forgets to renew it    *)
(* unless it had a reason (see excused).                                   *)
PlacedWorkHoldsLease ==
  \A p \in Placed : lease[p[2]] = p[1]

(* max_parallel and --max-running-per-tenant: counted over everything the  *)
(* scheduler looks after, not only over what one pass has seen.            *)
LimitsHold ==
  /\ \A j \in Job : Cardinality({p \in Placed : p[1] = j}) <= MaxParallel[j]
  /\ TenantMax # 0 => \A j \in Job :
       Cardinality({p \in Placed : Tenant[p[1]] = Tenant[j]}) <= TenantMax

(* Work that is complete is not started again: the completion is read      *)
(* after the probe, so a worker that ends in between is not taken for one  *)
(* that never did its work.                                                *)
NoRerun ==
  [][pc = "start" /\ pc' # "start" /\ up' # up =>
       (MaxParallel[cand[1]] = 1 => done[cand[1]] # "tracked")]_vars

(* A job that is queued to run gets done, unless it is cancelled or        *)
(* paused, a row lacks its event (which stops every pass), or a resource   *)
(* stays drained.                                                          *)
QueuedRuns ==
  \A j \in Job :
    queue[j] = "running" ~>
      \/ done[j] # "no" \/ queue[j] # "running"
      \/ torn # {} \/ blocked # {}

-----------------------------------------------------------------------------
(* The inductive invariant.                                                *)

(* The lock is held by the one process between its load and its last       *)
(* event, and what that process has loaded is the file but for one row.    *)
LockHeld == \A c \in Client : holder = c <=> client[c].at \in {"locked", "wrote"}
OneEdit ==
  \A c \in Client : client[c].at = "locked" =>
    \E j \in Job :
      /\ client[c].jobs = {j}
      /\ client[c].doc[j] \in Row
      /\ \A k \in Job \ {j} : client[c].doc[k] = queue[k]

(* Rows are never removed.  An event that is about to be appended has the  *)
(* hash of the present row, unless bootstrap made it from a file that      *)
(* somebody rewrote, and left without an event, before it had the lock.    *)
Pending ==
  \A c \in Client :
    /\ client[c].at \in {"read", "wrote"} => client[c].jobs \subseteq Present(queue)
    /\ client[c].at = "wrote" =>
         \A j \in client[c].jobs : client[c].doc[j] # queue[j] => j \in torn
TornRows == \A j \in torn : j \in Present(queue) /\ queue[j] # log[j]

(* What the gate has looked at.                                            *)
GateLooks ==
  /\ lost \subseteq torn
  /\ pc \in {"queue", "load"} => \A j \in lost : queue[j] = rows[j]
  /\ pc = "load" => lost = {}

AfterLoad == pc \in {"probe", "complete", "status"} \cup Visiting

(* A pass looks after all placed work, and what it takes for dead, and     *)
(* still has to act on, is dead unless it is astray.                       *)
LookedAfter ==
  /\ pc \notin Visiting => cur = 1
  /\ AfterLoad => Placed \subseteq Schedulable
  /\ pc = "complete" => todo \subseteq Schedulable
  /\ \A p \in cands : pc \in {"complete", "status"} \cup Visiting /\ live[p] = "no"
  /\ cands \subseteq Schedulable
  /\ \A p \in Placed : live[p] = "no" => pc \in Visiting /\ p[2] < cur

(* A probe that did not answer excuses the lease it was about.             *)
Unknown ==
  \A p \in Placed :
    /\ live[p] = "unknown"
    /\ \/ pc = "probe" /\ p \notin todo
       \/ pc \in {"complete", "status"}
       \/ pc \in Visiting /\ p[2] >= cur
    => p[2] \in excused

(* The lease of placed work misses at most the renewal of this pass.       *)
Renewed ==
  \A p \in Placed : p[2] \notin excused =>
    /\ slip[p[2]] <= 1
    /\ pc = "idle" \/ (pc \in Visiting /\ p[2] < cur) => slip[p[2]] = 0

(* The arbiter status is right about the placed work that is still to come.*)
StatusHolds ==
  \A p \in Placed : pc \in Visiting /\ p[2] >= cur =>
    /\ p[2] \notin gone
    /\ shot[p[2]] = p[1]
    /\ pc = "act" /\ p[2] = cur => seen = p[1]

(* A launch has just claimed the lease.                                    *)
Launching ==
  pc \in {"start", "undo"} =>
    /\ cand \in cands /\ cand[2] = cur
    /\ lease[cur] = cand[1] /\ slip[cur] = 0

(* A pass knows of all placed work, and has counted it, except what it     *)
(* launched without confirmation; the row it launches is within its limits. *)
Tracked ==
  \A p \in Placed : pc \in Visiting =>
    /\ live[p] = "unknown" => shot[p[2]] = p[1]
    /\ live[p] = "no" => p \in planned \/ p[1] \in Confirmed
WithinLaunch == pc = "start" => WithinLimits(cand[1])

(* Rows that need more than a probe are fixed to one resource each.        *)
InOnePlace(j) == \A r, s \in Pool[j] : r = s
ConfirmedInOnePlace == \A j \in Confirmed : InOnePlace(j)

(* A candidate whose row has been completed since the pass asked about it  *)
(* was completed by a placement that the pass has counted.                 *)
CompletionsCounted ==
  \A p \in cands : done[p[1]] = "tracked" /\ p[2] >= cur =>
    \/ \E q \in Counted : q[1] = p[1] /\ (pc \in Visiting \/ live[q] = "yes")
    \/ p[1] \in Confirmed /\ ~InOnePlace(p[1])

QueueInv == LockHeld /\ OneEdit /\ Pending /\ TornRows /\ EveryRowLogged
PassInv ==
  PlacedWorkHoldsLease /\ LookedAfter /\ Unknown /\ Renewed /\ StatusHolds /\ Launching
CountInv == Tracked /\ WithinLaunch
SchedulerInv ==
  TypeOK /\ QueueInv /\ GateLooks /\ PassInv /\ CountInv /\ CompletionsCounted
===============================================================================
