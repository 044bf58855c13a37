------------------------------- MODULE JobQueue -------------------------------
(***************************************************************************)
(* The jobs file of scripts/mesh_resource_scheduler.py and its append-only *)
(* event log.                                                              *)
(*                                                                         *)
(* submit and cancel load the whole file, change one row and write it      *)
(* back, then append an event with the hash of the row, all under an       *)
(* advisory lock.  bootstrap binds an existing file to an empty log: it    *)
(* reads the file before it takes the lock.  A process may die between any *)
(* two of these steps; the operating system then drops its lock.           *)
(*                                                                         *)
(* A row stands for its content, hence for its hash.  cancel stores the    *)
(* time, so cancelling twice gives another hash.  The log is reduced to    *)
(* what queue_event_integrity reads from it: the last hash of each job.    *)
(***************************************************************************)
EXTENDS Naturals, FiniteSets

CONSTANTS Job,       \* ids of rows, in the order of the file
          Client,    \* processes that run the control commands
          Nobody,
          Starts     \* files that may exist at the start, each with a bound on
                     \* how often the events of the environment may happen

Row == {"running", "paused", "cancelled", "recancelled"}
Content == Row \cup {"absent"}
Doc == [Job -> Content]

Present(doc) == {j \in Job : doc[j] # "absent"}
Enabled(row) == row \in {"running", "paused"}
Cancelled(row) == IF row = "cancelled" THEN "recancelled" ELSE "cancelled"

NoEvents == [j \in Job |-> "absent"]

Event == {"edits", "bootstraps", "deaths", "outages", "restarts", "strays", "claims", "drains",
          "failures", "confirmations"}

ASSUME QueueAssumption ==
  /\ Nobody \notin Client
  /\ Starts \subseteq [queue : Doc, budget : [Event -> Nat]]

VARIABLES
  queue,   \* the jobs file
  log,     \* the hash that the last event of each job carries
  holder,  \* who holds the queue lock
  client,  \* where each control process is, with the file it has loaded
  torn,    \* ghost: rows whose event is missing for good: their writer died,
           \* or they are older than the log
  budget   \* what is left of the bounds on events of the environment

files == <<queue, log, holder, client, torn>>
qvars == <<files, budget>>

Spend(event) ==
  /\ budget[event] > 0
  /\ budget' = [budget EXCEPT ![event] = @ - 1]

(* A control process: the file it will write (or, for bootstrap, has read) *)
(* and the rows whose events it still has to append.                       *)
Process == [at : {"idle", "locked", "wrote", "read"}, doc : Doc, jobs : SUBSET Job]
Resting == [at |-> "idle", doc |-> NoEvents, jobs |-> {}]

Goes(c, at, doc, jobs) ==
  client' = [client EXCEPT ![c] = [at |-> at, doc |-> doc, jobs |-> jobs]]
Rests(c) == client' = [client EXCEPT ![c] = Resting]

QueueInit ==
  /\ \E start \in Starts : queue = start.queue /\ budget = start.budget
  /\ log \in {queue, NoEvents}
  /\ holder = Nobody
  /\ client = [c \in Client |-> Resting]
  /\ torn = {j \in Job : queue[j] # log[j]}

(* Mutant: the file is loaded before the lock is taken.                    *)
LockAndEditAnytime(c, j, row) ==
  /\ client[c].at = "idle"
  /\ Spend("edits")
  /\ holder' = c
  /\ Goes(c, "locked", [queue EXCEPT ![j] = row], {j})
  /\ UNCHANGED <<queue, log, torn>>

(* locked_queue, then load_jobs_doc.                                       *)
LockAndEdit(c, j, row) ==
  /\ client[c].at = "idle"
  /\ holder = Nobody
  /\ Spend("edits")
  /\ holder' = c
  /\ Goes(c, "locked", [queue EXCEPT ![j] = row], {j})
  /\ UNCHANGED <<queue, log, torn>>

(* submit: a row that exists is only replaced with --replace, and the row  *)
(* has passed the checks against the inventory.                            *)
Submit(c, accepted) ==
  \E new \in accepted, replace \in BOOLEAN :
    /\ queue[new[1]] = "absent" \/ replace
    /\ LockAndEdit(c, new[1], new[2])

Cancel(c) ==
  \E j \in Present(queue) : LockAndEdit(c, j, Cancelled(queue[j]))

StillTorn == {j \in torn : queue'[j] # log'[j]}

(* Mutant: the lock is given back before the event is appended.            *)
WriteAndUnlock(c) ==
  /\ client[c].at = "locked"
  /\ queue' = client[c].doc
  /\ log' = log
  /\ Goes(c, "wrote", client[c].doc, client[c].jobs)
  /\ torn' = StillTorn
  /\ holder' = Nobody
  /\ UNCHANGED budget

(* write_jobs_doc replaces the file as a whole.                            *)
Write(c) ==
  /\ client[c].at = "locked"
  /\ queue' = client[c].doc
  /\ log' = log
  /\ Goes(c, "wrote", client[c].doc, client[c].jobs)
  /\ torn' = StillTorn
  /\ UNCHANGED <<holder, budget>>

(* append_jsonl: one event per row.  The lock goes with the last one.      *)
AppendEvent(c) ==
  \E j \in client[c].jobs :
    /\ client[c].at = "wrote"
    /\ log' = [log EXCEPT ![j] = client[c].doc[j]]
    /\ queue' = queue
    /\ torn' = StillTorn
    /\ IF client[c].jobs = {j}
       THEN Rests(c) /\ holder' = Nobody
       ELSE /\ Goes(c, "wrote", client[c].doc, client[c].jobs \ {j})
            /\ UNCHANGED holder
    /\ UNCHANGED budget

(* cmd_bootstrap reads the file and makes its events without the lock ...  *)
BootstrapRead(c) ==
  /\ client[c].at = "idle"
  /\ Spend("bootstraps")
  /\ Goes(c, "read", queue, Present(queue))
  /\ UNCHANGED <<queue, log, holder, torn>>

(* ... and appends them under it, if the log has no events.                *)
BootstrapBind(c) ==
  /\ client[c].at = "read"
  /\ holder = Nobody
  /\ IF log = NoEvents /\ client[c].jobs # {}
     THEN holder' = c /\ Goes(c, "wrote", client[c].doc, client[c].jobs)
     ELSE Rests(c) /\ UNCHANGED holder
  /\ UNCHANGED <<queue, log, torn, budget>>

(* The process dies; whatever it had not appended is never appended.       *)
Die(c) ==
  /\ client[c].at # "idle"
  /\ Spend("deaths")
  /\ torn' = IF client[c].at = "wrote"
             THEN torn \cup {j \in client[c].jobs : queue[j] # log[j]}
             ELSE torn
  /\ holder' = IF holder = c THEN Nobody ELSE holder
  /\ Rests(c)
  /\ UNCHANGED <<queue, log>>

QueueStep(accepted) ==
  \E c \in Client : \/ Submit(c, accepted) \/ Cancel(c) \/ Write(c) \/ AppendEvent(c)
                    \/ BootstrapRead(c) \/ BootstrapBind(c) \/ Die(c)

(* Mutant: any event will do, whatever hash it carries.                    *)
IntactSomehow(doc) == \A j \in Present(doc) : log[j] # "absent"

(* queue_event_integrity: every row of the file has an event, and the last *)
(* one has the row's hash.                                                 *)
Intact(doc) == \A j \in Present(doc) : doc[j] = log[j]
===============================================================================
