# Formal models of tensorcore

TLA+ models of the stateful parts of tensorcore, the TLC configurations that
check them on small instances, and proofs, checked by TLAPS, of the theorems
that hold for every instance. Paths below are relative to `src/`.

Run `tlc -config X.cfg M` for a row of the table of runs, and
`tlapm MProofs.tla` for the proofs.

## 1. Inventory

tensorcore is a tensor runtime in C, C++ and Objective-C++. Most of its code is
kernels: functions on arrays that keep no state. What can go wrong over time, or
between processes, is in `lib/distributed/` and in the Python scripts that
administer a mesh of workers.

| Component | State it keeps | Operations | Talks to | Hard behaviour | What makes it correct |
|---|---|---|---|---|---|
| **Mesh collectives** `mesh_collective.cpp` | round counter, registry of published snapshots, connection to each peer | group init, allreduce, broadcast, allgather, the same with a tag, release of a tag, shutdown | remote tensors (registry, fetch, reconnect) | pull only: what a slow peer still needs must not be freed; polls time out; ranks die; rounds fail at some ranks | exact result, full completion barrier, no token freed too early, shutdown is a rendezvous, every call returns, retention is bounded |
| **DiLoCo** `diloco.cpp` | anchors, optimizer moments, error feedback, async state, pending result, worker thread, counters, epochs | add parameter, step, apply outer, poll, wait, commit, finalize, epochs, serialize, deserialize | distributed front end (all-reduce), top-k | training overlaps a round; partial commit and rollback; join; checkpoint of a ready or failed round; crash | no update lost or applied twice, moments remember every committed round, no leaked worker, own checkpoints are accepted |
| **Top-k compression** `diloco.cpp`, `sparse_compress.cpp` | error feedback per parameter | mask, pack, sparse all-reduce, unpack | DiLoCo, Gloo | ties at the threshold, fewer non-zeros than K, values that half precision rounds or takes for infinite, a round that fails after masking | residual is exactly what was not delivered, up to the rounding of half precision |
| **Gloo transport** `gloo_tcp.cpp` | sockets to rank 0 and to the ring neighbours | rendezvous, ring topology exchange, broker and ring all-reduce, barrier, gather | operating system | unframed streams, one-sided failures, reads without time limit | same route everywhere, whole ring, streams in step, setup returns |
| **Remote tensors** `remote_tensor.cpp` | registry, sessions, peers, worker threads | register, unregister, fetch, connect, reconnect, shutdown | transport authentication | shutdown against accept, serve and reconnect | no use of a freed entry, bounded sessions, shutdown terminates |
| **Remote shards** `remote_shard.cpp` | shard table | publish, fetch | remote tensors | partial fetch | whole shard or error |
| **Transport authentication** `transport_auth.cpp` | key ring, nonces | client and server handshake, key rotation | sockets | rotation while handshakes run | agreement on peer, context and key |
| **Distributed front end** `distributed.mm`, `distributed_cpu.cpp`, `ring_local.mm` | backend, group | init, collectives by backend, finalize | Gloo, local ring | fallback between backends | same backend everywhere |
| **Core runtime** `lib/core/` | device handle, free lists of the buffer pool, pipeline cache | create, allocate, free | drivers | buffers recycled under a lock | a buffer is in one place; left to the callers |
| **Mesh resource scheduler** `scripts/mesh_resource_scheduler.py` | queue of jobs and its append-only event log (leases are the arbiter's) | submit, cancel, bootstrap, drain; a scheduling pass: integrity gate, probes, status, then per resource release, heartbeat, adopt, or claim and launch | lease arbiter, workers, topology snapshot, files | a pass acts on what it read earlier; crash between queue and event; leases expire; starts time out; cancelled jobs that still run | one job per resource, queue and log agree, limits per tenant hold |
| **Topology authority** `scripts/topology_authority.py` | none: a pass over declarations and observations writes a signed snapshot | reconcile, verify | files, scheduler | stale observations, conflicting identities | the scheduler admits only fresh, clean, verified snapshots |
| Kernels, GGUF reader, bindings, evidence scripts, benches | none that outlives a call | | | | not modelled |

`PROJECT.json` lists the components with their status, and under `hazards`
the places in the code where the hard behaviours bite.

## 2. Plan

Done in this project so far, in this order: mesh collectives, DiLoCo, top-k,
Gloo ring setup with its proofs, the mesh resource scheduler with its queue and
its proofs, the tagged mesh collectives and theirs. What could follow:

1. **GlooBroker**: broadcast, all-reduce, gather and barrier through rank 0 on
   unframed streams, with deaths in the middle, and what the next collective
   reads. Composed with the outcome of GlooRingSetup.
2. **GlooRing**: the chunked ring all-reduce; every chunk is summed once at
   every rank, and the two-thread exchange does not deadlock.
3. **DilocoGroup**: several Diloco ranks over an abstract collective, to state
   when the anchors of the ranks stay equal and how a local commit failure
   breaks that.
4. **RemoteTensor** (registry, sessions, shutdown), then **RemoteShard** on it;
   the part of it MeshCollective assumes becomes a refinement.
5. **TransportAuth**: handshake and key rotation with ideal primitives.

Abstract specifications worth having: `CollectiveContract` (done), a contract
of the Gloo collectives that both the broker and the ring implement, and an
"exactly once" contract of DiLoCo's updates.

## 3. Modules

| Module | What it is |
|---|---|
| `Collectives` | ranks, rounds, operations, contributions; shared by the next two |
| `CollectiveContract` | the abstract promise of an ordered collective, without registry or polls |
| `MeshCollective` | `mesh_collective.cpp`, ordered operations |
| `MeshCollectiveProps`, `MeshCollectiveProofs` | its properties, the inductive invariant, the refinement mapping; the proofs |
| `MeshTagged`, `MeshTaggedProps`, `MeshTaggedProofs` | the tagged operations next to the ordered ones; composes with `MeshCollective`; their properties and how each id implements `CollectiveContract`; the proofs |
| `Diloco`, `DilocoProps`, `DilocoProofs` | `diloco.cpp`, the lifecycle of one rank |
| `TopKSparse`, `TopKSparseProps`, `TopKSparseProofs` | masking and the sparse payload |
| `GlooRingSetup`, `GlooRingSetupProps`, `GlooRingSetupProofs` | the end of `tc_gloo_init` |
| `JobQueue` | the jobs file and event log of `mesh_resource_scheduler.py`: submit, cancel, bootstrap, dying processes |
| `MeshScheduler`, `MeshSchedulerProps`, `MeshSchedulerProofs` | its scheduling passes over that queue, with the lease arbiter, the workers and the topology snapshot around them |
| `MC*` | values of the constants for TLC |

Next to some definitions stands a second one, introduced by a comment "Mutant":
the same definition with a plausible mistake. Putting it in place of the
original makes the property named in `PROJECT.json` fail, which shows that the
property depends on that piece of code.

### MeshCollective

`pc[i]` is where the thread of rank `i` is; `rnd` is `round_counter`; `cursor`
the loop variable over peers; `reg` the registry together with
`snapshot_cache` (the code always changes both); `buf` the caller's buffer, as
the *set of contributions* `<<rank, round>>` in it. A step is one successful
poll or the local code between two polls. `retry_fetch` is one step: it
succeeds where the name is registered, and, with `Faults`, it may give up
in any state. So may group init and the drain at shutdown; calls may be
refused and ranks may die at any step. Each rank has its own value of
`decentralized_allreduce` (`AllToAll`), because each process reads it from its
own environment. The schedule of operations, `plan`, is chosen freely but is
the same for all ranks: that is the contract of ordered collectives. A rank
that calls something else is outside the model, as is a second thread inside
the ordered calls (`collective_mu` serialises them).

`reg` of a dead or closed rank is empty: fetches from it fail. Entries come and
go while the rank's server is up, which is what `remote_tensor.cpp` provides;
that module itself is not modelled yet.

### MeshTagged

Every rank has, next to the thread of `MeshCollective`, one thread per id that
makes the tagged calls of `tplan`. `tuse[i][t]` counts the uses of id `t` rank
`i` has begun, `tpc`, `tcursor`, `tbuf` and `tlast` are the tagged counterparts
of `pc`, `cursor`, `buf` and `last`; `tpc` is "idle" exactly when the id is not
in `active_tagged`. Both kinds of calls keep their entries in the one registry
and `snapshot_cache` a rank has, `reg`: a tagged entry is not `ordered` and has
its id where an ordered one has its round, as in `tc_mesh_snapshot`. `treg[i][t]`
is no state but what `begin_tagged` and `release_tagged` select there.
`reclaim_before` goes over all entries and spares the tagged ones only because
it looks at the flag; the mutant without that look frees them, since ids are
numbers like rounds. Only `release_tagged` and the end of the server take the
tokens away. Entries are looked up as the code does, by operation and id; that
they also carry the contributions of one particular use is what the properties
are about. `TagCall` is `begin_tagged` with the publication of the input, and
has both of its conditions; that the id is also free at the other ranks
(`FreeForUse`), and that it is released only when all have returned
(`AllReturned`), is the contract the header puts on the callers, and a mutant
shows that results go wrong without it. Polls of tagged calls run out where
`TagTimeouts` says, and then for every rank that waits for one that gave up.
`release_tagged` is one step: its look at `active_tagged` and its collection of
the entries are under different locks, but only a second use of the id at the
same rank could come between them, which that contract excludes.

### Diloco

`d` is the `tc_diloco_ctx`, exactly the part a checkpoint contains; `thread`
is `outer_thread`, `job` what the worker's lambda captured, `live` the
caller's buffers. Whether rounds overlap is a field of the context (`d.async`),
drawn from `Modes` when it is created and compared when a checkpoint is
restored. One operation is one action, except that `wait`, `commit` and
`finalize` are split where they block: `async_commit` looks at the state, drops
the mutex, joins the worker and looks again. Training is an action that adds to
the buffers while the worker runs. The round's network part is an arbitrary
element of `Steps` or a failure, so no assumption is made about the other ranks.
A checkpoint can be taken in any state in which the code agrees to, restored in
any context the code accepts it for, and the process can crash in any state.

Taken as given: one caller thread per context (`outer_mutex` protects the
caller against the worker, not callers against each other), exact arithmetic on
the parameters, and no failing allocation. `drift`, `after` and `taken` are
history: what training did, and how many rounds were committed.

### TopKSparse

`Mask` is `compute_delta_topk`, `Pack` and `Unpack` are the
payload. `round` is the private copy a round works on, which is committed by
`Deliver` or dropped by `RoundFails`; `transport` says whether this context
exchanges dense vectors or packed payloads, and `owed` is history: what the
deltas contained and no delivery brought. One rank: the payloads of other ranks
are added to the same result and do not touch this rank's residual.

Values are whole multiples of a unit. `ToHalf` is what `f32_to_f16_compress`
makes of one: the nearest number with a significand of at most `MaxSig` at one
of the `Spacings`, halfway to the even one, and infinite from where the widest
spacing ends. With the unit 2^-24, `MaxSig` 2047 and the spacings 1, 2 .. 2^29
this is half precision, its subnormals included; what is lost below the smallest
of them is a loss of rounding like the others. (Single precision has finer
values than 2^-24; for them take a smaller unit, with the same spacings in that
unit.) `slack` is history: the spacings at those delivered values that were not
halves. The code looks at no value it delivers, so `DeliverInfinite` takes the
context to a phase of which nothing is said any more. Sums are taken as exact.

### GlooRingSetup

From the point in `tc_gloo_init` where every rank holds a connection to rank 0.
`up[r]` and `down[r]` are the two directions of it, as sequences of messages;
`at` is the loop variable of rank 0, which handles its peers strictly in order.
Any port, connect, accept or handshake may fail at any rank. A read or write on
a rank-0 connection fails only if the process at the other end has died; it may
then fail even with unread data in the stream, because a reset discards it. A
rank that has returned keeps its connections open; groups that are destroyed
while others still set up are not modelled. `OptIns` says which processes have
`TC_GLOO_RING=1`. The variable is meant for the whole group: with ranks that
differ, those that opted in wait for the others. `GlooRing_setup` allows any
subset, because the safety properties hold for all of them; the liveness
property is conditional on all or none having opted in and on nobody dying.

### JobQueue and MeshScheduler

`queue` is the jobs file and `log` what `queue_event_integrity` gets from the
event log: the last hash of each job. A row stands for its content, so that
equal means equal hashes. `holder` is the advisory lock, `client[c]` where a
control process is between its load and its last event, with the file it has
read; `torn` is history, the rows whose event is missing for good. `submit`
runs its checks against inventory and snapshot before it takes the lock;
`bootstrap` reads the file before it does. A process may die at any point, and
the system drops its lock.

A pass is split where the code lets time go by: `pc` says how far it is, `cur`
which resource it has come to. `inv`, `rows`, `live`, `cands` and `shot` are
what it has read: inventory, jobs file, the answers of the probes, the dead
placements that are not complete, and the arbiter's status. They are not
touched while the world (`blocked`, `published`, `lease`, `up`, `done`) moves
on. `planned` is what the pass has launched and counted. `seen`
is the lease of the current resource after reconciliation, `cand` the placement
being launched, between its claim and its verification. Everything that can
fail spends from a bound: a probe, completion command, status, claim, heartbeat,
release or identity check that does not answer (`outages`), a start that fails
or a worker that ends undone (`failures`), an identity that is not
established or an evidence file that cannot be written
(`confirmations`), a restart of the scheduler in any state, workers that
appear on their own, foreign claims, drains. `lease` and `slip` model the
arbiter (claims, renewals, and expiry after `Ttl` passes without renewal), `up`
and `done` the workers: both are outside `src/` and marked external.

Three ghosts carry the meaning of the properties. `astray` are running workers
the scheduler does not look after: it never started them, it reported their
start as failed, they were drained, or they lost their lease for a reason.
`excused` are the resources whose lease a pass had a reason not to renew: it
was refused, got no answer, or found another holder. `gone` are the resources
whose lease has ended since the status was read; a lease id is never used
again, so it can no longer be named.

Simplified: capacity is one, as in the checked-in inventory; the per-row
`tenant_max_parallel` is represented by the global limit; a candidate that admission
refuses is one that is not among `admitted`, and the GPU reconciliation gate a
claim that is not made; an
evidence file that cannot be written during reconciliation is a reconciliation
followed by `Unanswered` or `Idle`.

## 4. Runs

Deadlock is checked in the two scheduler runs: the scheduler's loop never stops.
The other configurations say `CHECK_DEADLOCK FALSE`: an application may stop calling, and
all ranks may have returned, been shut down or died. That nobody stops where
they should not is what the liveness properties say.

| Run | Instance | States | Shows |
|---|---|---|---|
| `MeshCollective_tagged` | 3 ranks, 2 rounds, rank 1 all-to-all; ordered operations of all kinds without tags, or two broadcasts next to one id used twice for an allreduce, with timeouts in the first use that begin at rank 0 | 367 k | the inductive invariant `TaggedInv`; results are of the right use of the id (`TaggedExact`), tagged calls are a barrier, tagged tokens outlive their readers although ordered calls reclaim from the same registry, everybody gets through and shuts down with TC_OK (`AllShutDown`) |
| `MeshCollective_faults` | 2 ranks, 3 rounds, allreduce and broadcast, faults | 740 k | the inductive invariant `CollectiveInv`, exact result, completion barrier, tokens outlive readers, shutdown rendezvous, one round's token retained after a success whatever failed before (`OneRoundRetained`), refinement of the contract, every call returns |
| `MeshCollective_retention` | 2 ranks, 2 rounds, faults | violation | finding 1 |
| `Diloco_rounds` | 2 parameters, contexts synchronous or overlapped, 2 inner steps, 2 rounds, two possible outcomes of a round | 226 k | the inductive invariant `DilocoInv`, work and moments over consecutive rounds, partial commits, restores |
| `Diloco_lifecycle` | 1 parameter, overlapped, 2 contexts bound or unbound to an epoch, crash and finalize | 345 k | result current, idle means joined, finalized is quiet, own checkpoints are accepted, wait, commit and finalize return |
| `Diloco_adam` | Adam, 2 rounds | violation | finding 2 |
| `TopK_residual` | 4 elements, K = 2, values -11, 0, 3, 14, halves 0, 2, 4, 6, 8, 12, 2 rounds, dense or packed | 71 k | the inductive invariant `TopKInv`; residual exact with the dense exchange, ties and failing rounds included; packed, as long as exactly K reach the threshold and nothing infinite is delivered, off by at most half a spacing for each value rounded; payload fits; nothing larger is held back |
| `TopK_ties` | the same, packed only, values -4, 0, 2, of which any two add up to a half | violation | finding 3 |
| `GlooRing_setup` | 4 ranks, any subset opts in, any die | 236 k | the inductive invariant `RingInv`, same route everywhere, whole ring, streams in step and left empty, everybody returns if nobody dies |
| `GlooRing_abandoned` | 3 ranks, deaths | violation | finding 4 |
| `Scheduler_passes` | 2 rows (one in the pool of both resources, one fixed to the first and of the CUDA class), 2 resources, 2 control processes, 1 foreign client, `Ttl` 2, eight scenarios | 219 k | the inductive invariant `SchedulerInv`; queue and log agree, no update lost, no pass works on a row that lacked its event; placed work holds its lease, limits, complete work is not started again, queued work gets done |
| `Scheduler_unidentified` | one CUDA row in the pool of both resources | violation | finding 5 |

**Why the bounds are enough.** Reclamation in the mesh looks one round back, so
three rounds show a round that is entered while the previous one is being
reclaimed and the one before has failed; three ranks show a fast, a slow and a
middle rank, and a loop over peers with something before and after one's own
rank. Among the three ranks of the tagged run all forms of the allreduce meet:
rank 0 is the root of the centralised form, rank 1 collects from everybody, and
rank 2 fetches the result of rank 0. Faults are checked with two ranks only;
with more ranks and other mixtures of algorithms the safety properties are
proved; that run has no rank with the all-to-all form, which the tagged run
mixes in. In DiLoCo two rounds are the smallest number in which moments carry
over, two parameters the smallest with a partial commit, two contexts the
smallest with a restore into a fresh context (`Diloco_lifecycle`; the other run
restores into the context that wrote the checkpoint); more inner steps only add
to the same sums. K of 2 among 4 elements has ties, zeros and strictly ordered
magnitudes, and two rounds carry a residual over. Of its values 3 is rounded up
from halfway and -11 to the nearest, 14 and above become infinite, and what is
kept back may add up to a half or not. Three ranks are the smallest ring the
code sets up, four the smallest with ranks that are not neighbours. An id has to
be used twice to meet what its first use left behind; its number is below that
of the second ordered round, so that reclaiming would meet it; and a first use
that fails at some ranks leaves the most. For the scheduler, two rows that share
a resource and two resources that share a row are what makes claims, counts and
the order of visits matter, two control processes what makes the lock matter.
Each of the eight scenarios pairs the events that meet in a hazard (edits with
bootstrap and death; drains with outages or strays; failing starts with restarts
and outages; and so on) rather than allowing all of them everywhere. No tenant
limit is set in these runs; that part of `LimitsHold` rests on its proof. Every
safety property of the passing runs is also proved for every value of the
constants, two of them under the hypotheses section 5 names.

**Fairness.** `MeshCollective!Fairness`: the thread of every rank keeps running,
and its waits are bounded: `retry_fetch` makes at most 41 attempts and the drain
five seconds, so giving up is part of the same fair action. Without faults the
polls are taken to succeed before they run out. `Diloco!FairSpec`: both
threads are scheduled, and a round's collectives return, in the code within the
transport's own limits or not at all; a round that hangs makes `async_wait` hang
with it, by design. The caller is never forced to call anything.
`GlooRingSetup!FairSpec`: every process is scheduled. The steps that have a time
limit (connect, accept) always have an outcome; reads from rank 0 have none, and
are enabled only when there is data or the peer died.
`MeshTagged!FairTaggedSpec` only says that the system does not stop while a
thread can go on, which is less than that every thread is scheduled: no thread
can keep another one waiting by going on forever. Its ordered polls do not run
out, as in the faultless `MeshCollective`.
`MeshScheduler!FairSpec`: the loop goes on (the service is restarted when
it dies), control processes go on unless they die, workers end, leases
that are not renewed expire, and the topology authority publishes. Every event
that can delay work is bounded, so `QueuedRuns` says that work gets done once
these have stopped; its escapes are the ones of the code (a row cancelled or
paused, a row without its event, which stops every pass, a drained resource).

## 5. Proofs

Most are of the form `Spec => []Inv`, from an inductive invariant
(`CollectiveInv`, `TaggedInv`, `DilocoInv`, `TopKInv`, `RingInv`,
`SchedulerInv`) that TLC checks as well. Assumed are only the `ASSUME`s on the
constants, and for the scheduler the hypotheses named there.

**MeshCollectiveProofs**, for any number of ranks, rounds, any operations, any
`AllToAll`, with and without faults:
type correctness, `ResultExact`, `CompletionBarrier`, `TokensOutliveReaders`,
`ShutdownRendezvous`, `OneRoundRetained`, and `Refinement`
(`Spec => ImplementsContract`).
The properties themselves are not inductive; the argument runs through what
published entries say. `EntriesSound`: an entry for round r says that its owner
joined r, and a token that its owner needs nobody's payload any more.
`CallSound` says what a rank inside a call has gathered: the inputs, or the
tokens, of all ranks below `cursor`. At the end of the loop that is all of them,
which gives the result and the barrier. `TokensKept` is the heart: a live rank
keeps its token of round r as long as *some* rank may still be in round r. It is
preserved because `reclaim_before(r)` runs only after the barrier of r, which
proves that all ranks are in r or later, so nobody is in a round before r.
`ShutdownSound` is the same argument for the shutdown tokens.
`OneRoundRetained` needs to know of the registry that no entry is from a round
the rank has not begun; then the reclamation of a successful call, which takes
all earlier rounds, leaves its own token only, also after rounds that failed.
What is violated in finding 1 is the same bound without "successful".
The refinement maps `begun` to `rnd` and `open` to "inside a call"; every step
is one of the contract's or leaves its variables alone.

**MeshTaggedProofs**, for any number of ranks, ids, uses and programs, with
timeouts of tagged polls wherever `TagTimeouts` allows them. First, the two kinds
of calls do not disturb each other in the registry they share.
`OrderedUndisturbed` (`TaggedSpec => O!Spec`, where `O` is `MeshCollective` on
the ordered entries alone): every ordered step finds, registers, releases and
reclaims among its own entries what it would if there were no others, and a
tagged step changes none of them; so everything proved of the ordered
collectives holds with tagged ones in flight. `TagsUndisturbed`: conversely, the
entries of an id change by its own calls and its release or with the server, and
by nothing else. Both come down to the flag `ordered`, in `Find`, `Release` and
`ReclaimBefore` on one side and in `OfId` on the other
(`OrderedImitated`, `OrderedSparesTags`, `TagStepUnseen`). Then
`TaggedExact`, `TaggedBarrier` and `TaggedTokensOutliveReaders`. Names in the
registry carry an id and no use of it; what makes up for that is `BehindIsFree`:
a rank that is behind in its use of an id is one use behind, and has neither a
call nor an entry of it. It follows from the callers' contract (`FreeForUse`,
`AllReturned`), which is part of the specification, and gives `FindsOwnUse`: an
entry found by its name belongs to the finder's own use. From there the argument
is that of a round: `TagCallSound` says what a call has gathered,
`TagReturnSound` what a return of TC_OK says of the other ranks, `TagTokenKept`
that the token of a successful call stays while anybody is still in that use.
Shutdown and the end of the server need that no rank has a tagged call left
then. `TaggedRefinement` concludes that each id implements `CollectiveContract`
by itself (`ImplementsIdContract`): its uses are the rounds, the application's
program for the id the plan, and a rank has joined the uses it has begun.

**DilocoProofs**, for any number of parameters, updates, outcomes, rounds and
contexts: type correctness, `LocalWorkKept`, `MomentsKept` (except for Adam,
finding 2), `IdleMeansJoined` and `FinalizedQuiet`, `OwnCheckpointAccepted`,
`ResultIsCurrent`.
`ContextSound` is stated of a context and its history, once for the one in
memory and once for the one in the checkpoint, so that restoring is one step.
`LocalWorkKept` needs to know that the snapshot in a pending result is what the
buffer was `after` updates ago (`PendingSound`), that the same holds for the
worker's captured copy (`JobSound`), and that a worker is computing exactly
while the state is RUNNING (`ThreadSound`). Moments need the size of the vector
as well, since the code takes it for the initialised flag (`MomentsSound`).

**TopKSparseProofs**, for vectors of any length, any keep fraction, any whole
values and any format of halves: `ConservedDense`, because masking splits a
vector into what is sent and what is kept back, and only a committed round moves
the residual; and for the packed exchange `ConservedToRounding`, `PayloadFits`
and `LargestDelivered`. `ConservedToRounding` is exact conservation only if all
that was delivered were halves (`HalvesConserved`). Rounding moves a magnitude
below `Infinity` by at most half the spacing around it (`RoundEvenClose`,
`HalfClose`), which bounds what a delivery adds to the difference by its `slack`
(`PackedLoss`). The rest counts indices. That the threshold `nth_element`
returns exists (`ThresholdExists`) is shown by taking, of the magnitudes that at
least K elements reach, the one that the fewest reach: an argument on
cardinalities of index sets, with no induction over vectors. The payload takes
the first K of the indices that reach its threshold, so it fits whatever ties
there are; without ties it takes all that the mask has kept, so nothing is
dropped (`PacksWhole`); and the threshold found again in the masked delta is
never below the one the mask was made with (`ThresholdAgain`), so nothing larger
is held back.

**GlooRingSetupProofs**, for any number of ranks from three on, any subset that
opts in, any failures and deaths: `RouteAgreed`, `RingWhole`, `InStep` and
`StreamsClean`. The invariant says how far rank 0 is with each peer (unheard,
untold, told, uncounted, counted, answered), and for each phase which messages
the two streams can hold and where the peer can be (`PeerInStep`, for living
peers; a dead one says nothing about its stream from rank 0 any more). That
gives the streams in step. `AnswersAgree` adds what holds only while nobody
has died: all answers that were sent are equal. `VotesSound` is what the outcome
stands for: a vote carries the state of the voter's own two edges, rank 0's
verdict is the conjunction of the votes it has counted, and what a rank has
vouched for stays; so an answer TRUE means a whole ring.

**MeshSchedulerProofs**, for any rows, resources, pools, limits, clients and
numbers of events: type correctness, `EveryRowLogged`, `WritesOneRow`,
`GateMeaning`; `PlacedWorkHoldsLease` if no two rows share an owner
(`DistinctOwners`); `NoRerun` if moreover the file has finitely many rows and
those of the CUDA class or with an evidence path have one resource each
(`ConfirmedInOnePlace`); and `LimitsHold` if in addition no tenant limit is set
where there are such rows. `Scheduler_passes` satisfies all of these; without
`ConfirmedInOnePlace`, `LimitsHold` fails, which is finding 5. Queue: only the holder
of the lock is between its load and its last event, and what it has loaded is
the file but for its own row, so a write loses nothing; a row without event is
the holder's or was left by a dead process. Leases: placed work has a lease that
is at most one pass old (`Renewed`), or is excused, and then expiry takes it out
of the placed work. Each step that could take the lease away meets a
contradiction: a dead job that matches it would be that very work, whose probe
did not say dead; a claim has seen no lease where the status shows one; a failed
launch gives back the lease it has itself claimed. Limits: all placed
work is among what a pass has counted (`Tracked`), and a launch found room; a
launch that was not counted is of a confirmed row, which has no other resource
to be launched on. Reruns: a pass may hold a candidate whose work has been
completed since it asked. `CompletionsCounted` says that the placement that completed
it is among what the pass has counted (found alive, found by its lease, or
launched by this pass), so that with `max_parallel` one there is no room left for
the candidate.

**Only model-checked**: the liveness properties (`AllShutDown`, `CallsReturn`,
`OperationsReturn`, `SetupReturnsIfAlive`, `QueuedRuns`), which are beyond the prover.
That the hypotheses of the scheduler's last two theorems cannot be dropped is
shown for `LimitsHold` only (`Scheduler_unidentified`).

## 6. Findings

1. *Mesh retention* (`MeshCollective_retention`). The header and
   `docs/distributed.md` promise bounded retention; a collective that fails in
   its completion barrier returns with its payload, result and token still
   registered, and they stay until some later barrier succeeds.
2. *Adam moments* (`Diloco_adam`). `apply_outer_optimizer` zeroes
   `outer_momentum` when it is not `num_elements` long; the Adam branch makes it
   twice as long, so every round starts from zero moments.
3. *Ties in top-k* (`TopK_ties`). The packed payload stops at K entries in index
   order; entries at the threshold beyond that are dropped although their error
   feedback was cleared. With fewer than K non-zero elements, zeros take places.
   The values of this run are halves, so rounding has no part in it.
4. *Abandoned ring setup* (`GlooRing_abandoned`). The comment in `tc_gloo_init`
   says a per-rank silent fallback can deadlock peers and failures are therefore
   fatal; the code falls back per rank, with TC_OK, and the peers do wait
   forever when one rank dies.
5. *Limits of the scheduler* (`Scheduler_unidentified`). `docs/mesh_resource_scheduler.md`
   says `max_parallel` bounds the placements active or planned in a pass. A CUDA
   worker that was started and verified, but not identified, keeps its lease
   and its worker while the launch counts as not ok, and only launches that are ok are
   counted; the same pass launches the row once more on its next resource. The
   same happens when the evidence file of a launch cannot be written.

## 7. Not modelled

Numeric kernels, the GGUF reader, bindings, benches and evidence scripts: no
state that outlives a call. They are most of the repository's lines, which is
why the models cover a small share of it. Rounding of single precision, so that
sums depend on their order; half precision on the wire is modelled, but not what
becomes of a context after an infinite value. Allocation failures.
Authentication inside connects and fetches (a failure is one of the outcomes of
the step). The `poll` and query functions, which change nothing. Of the
scheduler: audit and evidence files (a write that fails is modelled where it
changes the course of a pass), quarantine proposals, dry runs, resources of
capacity above one, the sweep over the GPUs, jobs that share an owner in the
proofs. How topology snapshots are made, signed and verified. Faults of the
ordered collectives while tagged ones run, and tagged calls whose callers break
the header's contract. Everything under "Plan".
