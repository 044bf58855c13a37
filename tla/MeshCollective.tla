---------------------------- MODULE MeshCollective ----------------------------
(***************************************************************************)
(* The ordered collectives of lib/distributed/mesh_collective.cpp.         *)
(*                                                                         *)
(* Every rank runs a byte server and a client.  A rank publishes a copy of *)
(* its input in its own server's registry under the name                   *)
(* _mesh/<op>/<round>/<rank>, and obtains what it needs by polling the     *)
(* registries of its peers.  Nobody pushes anything, so the only thing     *)
(* that keeps an entry alive until its last reader came is the completion  *)
(* barrier that ends each operation: the rank publishes a "done" token,    *)
(* polls the token of every peer, and only then frees its payloads.  The   *)
(* tokens of a round are freed when the barrier of a later round passes.   *)
(*                                                                         *)
(* One step of a rank is one successful poll, or the local code between    *)
(* two polls.  The forty attempts of retry_fetch are one step: it succeeds *)
(* in a state where the name is registered, and fails (Faults) in any.     *)
(***************************************************************************)
EXTENDS Collectives

CONSTANTS AllToAll,   \* the ranks with decentralized_allreduce set: each
                      \*   process reads TC_MESH_ALLREDUCE_ALGORITHM for itself
          Faults      \* whether polls time out, calls are rejected, ranks die

ASSUME MeshAssumption == AllToAll \subseteq Rank /\ Faults \in BOOLEAN

VARIABLES
  plan,     \* plan[r]: the operation every rank calls in round r
  pc,       \* where the rank's only collective thread is
  rnd,      \* round_counter: the next round number to hand out
  cursor,   \* loop variable over peers of the loop the rank is in
  buf,      \* contents of the caller's buffer
  reg,      \* the rank's server registry (and snapshot_cache)
  last,     \* the last return of the rank
  sd,       \* what tc_mesh_group_init or _shutdown has to report
  (* history, for the properties only *)
  joined,   \* <<rank, round>> of the calls that passed argument checks
  tokened   \* <<rank, round>> of the completion tokens ever published

vars == <<plan, pc, rnd, cursor, buf, reg, last, sd, joined, tokened>>

-----------------------------------------------------------------------------
(* Registry entries.  A token carries no data; "bye" is shutdown's token.  *)
(* The operations of this module are the ordered ones: their names have    *)
(* prefixes of their own and the snapshots behind them the flag "ordered". *)
Entry == [kind : {"in", "out", "done", "bye"}, ordered : {TRUE}, round : Nat,
          val : SUBSET (Rank \X Round)]

In(i, r)  == [kind |-> "in",   ordered |-> TRUE, round |-> r, val |-> {<<i, r>>}]
Out(r, v) == [kind |-> "out",  ordered |-> TRUE, round |-> r, val |-> v]
Done(r)   == [kind |-> "done", ordered |-> TRUE, round |-> r, val |-> {}]
Bye       == [kind |-> "bye",  ordered |-> TRUE, round |-> 0, val |-> {}]

(* Mutant: names without the round counter in them.                        *)
FindAnyRound(p, kind, r) == {e \in reg[p] : e.ordered /\ e.kind = kind}

Find(p, kind, r) == {e \in reg[p] : e.ordered /\ e.kind = kind /\ e.round = r}

Release(entries, kind, r) ==
  {e \in entries : ~(e.ordered /\ e.kind = kind /\ e.round = r)}

(* Mutant: reclaiming the round whose barrier has just completed as well.  *)
ReclaimThrough(entries, r) ==
  {e \in entries : ~e.ordered \/ e.kind = "bye" \/ e.round > r}

(* Mutant: nothing is reclaimed.                                           *)
ReclaimNothing(entries, r) == entries

(* Mutant: snapshots of tagged collectives, whose round is an id, as well. *)
ReclaimAnyBefore(entries, r) ==
  {e \in entries : e.kind = "bye" \/ e.round >= r}

(* reclaim_before drops the ordered snapshots of rounds before r; shutdown *)
(* registers its token without a snapshot.                                 *)
ReclaimBefore(entries, r) ==
  {e \in entries : ~e.ordered \/ e.kind = "bye" \/ e.round >= r}

-----------------------------------------------------------------------------
(* Mutant: the loop takes rank 0 for the local rank at every rank.         *)
FirstPeerSkipsZero(i) == 1

(* Mutant: the payloads of a call named with the round handed out next.    *)
CurNext(i) == rnd[i]

(* The loops "for rank in 0..n_peers-1, skipping my_rank".                 *)
FirstPeer(i) == IF i = 0 THEN 1 ELSE 0
NextPeer(i, p) == IF p + 1 = i THEN p + 2 ELSE p + 1

Cur(i) == rnd[i] - 1          \* the round of the call the rank is in

Calling == {"collect", "fetch", "token", "barrier"}
InCall(i) == pc[i] \in Calling
Label == Calling \cup {"start", "connect", "idle", "bye", "drain", "closed",
                       "crashed"}

(* The round's payload at i comes from every peer, or from one.            *)
Collects(i, op) ==
  \/ op.kind = "allgather"
  \/ op.kind = "allreduce" /\ i \in AllToAll \cup {0}
Sends(i, op) == op.kind = "broadcast" => op.root = i
PublishesResult(i, op) ==
  op.kind = "allreduce" /\ i = 0 /\ i \notin AllToAll
SourceKind(op) == IF op.kind = "broadcast" THEN "in" ELSE "out"

AfterPublish(i, op) ==
  IF Collects(i, op) THEN "collect"
  ELSE IF op.kind = "broadcast" /\ op.root = i THEN "token"
  ELSE "fetch"

Goto(i, label) == pc' = [pc EXCEPT ![i] = label]
Return(i, ret) == last' = [last EXCEPT ![i] = ret] /\ Goto(i, "idle")

(* Mutant: a client that stays open while its owner drains.                *)
ClientOpenInDrain(i, p) ==
  \/ pc[i] = "connect" /\ cursor[i] > p
  \/ pc[i] \in Calling \cup {"idle", "bye", "drain"}

(* A rank's client holds a connection to p from its connect to p until it  *)
(* shuts the client down.                                                  *)
ClientOpen(i, p) ==
  \/ pc[i] = "connect" /\ cursor[i] > p
  \/ pc[i] \in Calling \cup {"idle", "bye"}
ServerUp(i) == pc[i] \notin {"start", "closed", "crashed"}

-----------------------------------------------------------------------------
Init ==
  /\ plan \in [Round -> Ops]
  /\ pc = [i \in Rank |-> "start"]
  /\ rnd = [i \in Rank |-> 0]
  /\ cursor = [i \in Rank |-> 0]
  /\ buf = [i \in Rank |-> {}]
  /\ reg = [i \in Rank |-> {}]
  /\ last = [i \in Rank |-> NoReturn]
  /\ sd = [i \in Rank |-> "ok"]
  /\ joined = {}
  /\ tokened = {}

(* tc_mesh_group_init: bind the server, then connect to each peer in turn, *)
(* retrying while the peer has not bound its server yet.                   *)
Bind(i) ==
  /\ pc[i] = "start"
  /\ cursor' = [cursor EXCEPT ![i] = FirstPeer(i)]
  /\ Goto(i, "connect")
  /\ UNCHANGED <<plan, rnd, buf, reg, last, sd, joined, tokened>>

Connect(i) ==
  /\ pc[i] = "connect"
  /\ cursor[i] < NPeers
  /\ ServerUp(cursor[i])
  /\ cursor' = [cursor EXCEPT ![i] = NextPeer(i, @)]
  /\ UNCHANGED <<plan, pc, rnd, buf, reg, last, sd, joined, tokened>>

Ready(i) ==
  /\ pc[i] = "connect"
  /\ cursor[i] >= NPeers
  /\ Goto(i, "idle")
  /\ UNCHANGED <<plan, rnd, cursor, buf, reg, last, sd, joined, tokened>>

InitFail(i) ==
  /\ Faults
  /\ pc[i] \in {"start", "connect"}
  /\ sd' = [sd EXCEPT ![i] = "error"]
  /\ Goto(i, "closed")
  /\ UNCHANGED <<plan, rnd, cursor, buf, reg, last, joined, tokened>>

-----------------------------------------------------------------------------
(* A collective is called: it takes its round number, then publishes.      *)
Call(i) ==
  LET r  == rnd[i]
      op == plan[r]
  IN
  /\ pc[i] = "idle"
  /\ r < MaxRound
  /\ rnd' = [rnd EXCEPT ![i] = r + 1]
  /\ buf' = [buf EXCEPT ![i] = {<<i, r>>}]
  /\ reg' = [reg EXCEPT ![i] = IF Sends(i, op) THEN @ \cup {In(i, r)} ELSE @]
  /\ cursor' = [cursor EXCEPT ![i] = FirstPeer(i)]
  /\ joined' = joined \cup {<<i, r>>}
  /\ Goto(i, AfterPublish(i, op))
  /\ UNCHANGED <<plan, last, sd, tokened>>

(* next_round(g) is evaluated before the arguments are looked at, so a     *)
(* call that is refused has consumed its round.                            *)
Reject(i) ==
  /\ Faults
  /\ pc[i] = "idle"
  /\ rnd[i] < MaxRound
  /\ rnd' = [rnd EXCEPT ![i] = @ + 1]
  /\ Return(i, Error(rnd[i]))
  /\ UNCHANGED <<plan, cursor, buf, reg, sd, joined, tokened>>

(* One iteration of the loop that fetches a peer's input and reduces it    *)
(* into the buffer (allreduce) or stores it in its slot (allgather).       *)
Collect(i) ==
  /\ pc[i] = "collect"
  /\ cursor[i] < NPeers
  /\ \E e \in Find(cursor[i], "in", Cur(i)) :
       buf' = [buf EXCEPT ![i] = @ \cup e.val]
  /\ cursor' = [cursor EXCEPT ![i] = NextPeer(i, @)]
  /\ UNCHANGED <<plan, pc, rnd, reg, last, sd, joined, tokened>>

Collected(i) ==
  LET r == Cur(i) IN
  /\ pc[i] = "collect"
  /\ cursor[i] >= NPeers
  /\ reg' = [reg EXCEPT ![i] =
       IF PublishesResult(i, plan[r]) THEN @ \cup {Out(r, buf[i])} ELSE @]
  /\ Goto(i, "token")
  /\ UNCHANGED <<plan, rnd, cursor, buf, last, sd, joined, tokened>>

(* A rank that does not collect overwrites its buffer with the broadcast   *)
(* root's input, or with the result published by rank 0.                   *)
Fetch(i) ==
  LET op == plan[Cur(i)] IN
  /\ pc[i] = "fetch"
  /\ \E e \in Find(op.root, SourceKind(op), Cur(i)) :
       buf' = [buf EXCEPT ![i] = e.val]
  /\ Goto(i, "token")
  /\ UNCHANGED <<plan, rnd, cursor, reg, last, sd, joined, tokened>>

FetchFail(i) ==
  /\ Faults
  /\ \/ pc[i] = "fetch"
     \/ pc[i] = "collect" /\ cursor[i] < NPeers
  /\ reg' = [reg EXCEPT ![i] = Release(@, "in", Cur(i))]
  /\ Return(i, Error(Cur(i)))
  /\ UNCHANGED <<plan, rnd, cursor, buf, sd, joined, tokened>>

-----------------------------------------------------------------------------
(* collective_barrier, and what follows it in each operation.              *)
PublishToken(i) ==
  /\ pc[i] = "token"
  /\ reg' = [reg EXCEPT ![i] = @ \cup {Done(Cur(i))}]
  /\ tokened' = tokened \cup {<<i, Cur(i)>>}
  /\ cursor' = [cursor EXCEPT ![i] = FirstPeer(i)]
  /\ Goto(i, "barrier")
  /\ UNCHANGED <<plan, rnd, buf, last, sd, joined>>

AwaitToken(i) ==
  /\ pc[i] = "barrier"
  /\ cursor[i] < NPeers
  /\ Find(cursor[i], "done", Cur(i)) # {}
  /\ cursor' = [cursor EXCEPT ![i] = NextPeer(i, @)]
  /\ UNCHANGED <<plan, pc, rnd, buf, reg, last, sd, joined, tokened>>

Finish(i) ==
  LET r == Cur(i)
      payloadsFreed == Release(Release(reg[i], "in", r), "out", r)
  IN
  /\ pc[i] = "barrier"
  /\ cursor[i] >= NPeers
  /\ reg' = [reg EXCEPT ![i] = ReclaimBefore(payloadsFreed, r)]
  /\ Return(i, Ok(r, buf[i]))
  /\ UNCHANGED <<plan, rnd, cursor, buf, sd, joined, tokened>>

(* Mutant: the status of the barrier is dropped.                           *)
BarrierFailIgnored(i) ==
  /\ Faults
  /\ pc[i] = "barrier"
  /\ cursor[i] < NPeers
  /\ Return(i, Ok(Cur(i), buf[i]))
  /\ UNCHANGED <<plan, rnd, cursor, buf, reg, sd, joined, tokened>>

(* A peer's token never came: nothing the rank published is freed.         *)
BarrierFail(i) ==
  /\ Faults
  /\ pc[i] = "barrier"
  /\ cursor[i] < NPeers
  /\ Return(i, Error(Cur(i)))
  /\ UNCHANGED <<plan, rnd, cursor, buf, reg, sd, joined, tokened>>

-----------------------------------------------------------------------------
(* tc_mesh_group_shutdown: publish a token, poll the token of every peer,  *)
(* close the outbound connections, wait for the inbound ones to be closed, *)
(* close the server.  Each stage runs whatever the one before it reported. *)
Shutdown(i) ==
  /\ pc[i] = "idle"
  /\ Faults \/ rnd[i] = MaxRound
  /\ reg' = [reg EXCEPT ![i] = @ \cup {Bye}]
  /\ cursor' = [cursor EXCEPT ![i] = FirstPeer(i)]
  /\ Goto(i, "bye")
  /\ UNCHANGED <<plan, rnd, buf, last, sd, joined, tokened>>

AwaitBye(i) ==
  /\ pc[i] = "bye"
  /\ cursor[i] < NPeers
  /\ Find(cursor[i], "bye", 0) # {}
  /\ cursor' = [cursor EXCEPT ![i] = NextPeer(i, @)]
  /\ UNCHANGED <<plan, pc, rnd, buf, reg, last, sd, joined, tokened>>

CloseClient(i) ==
  /\ pc[i] = "bye"
  /\ cursor[i] >= NPeers
  /\ Goto(i, "drain")
  /\ UNCHANGED <<plan, rnd, cursor, buf, reg, last, sd, joined, tokened>>

(* Mutant: the status of the shutdown handshake is dropped.                *)
ByeFailIgnored(i) ==
  /\ Faults
  /\ pc[i] = "bye"
  /\ cursor[i] < NPeers
  /\ Goto(i, "drain")
  /\ UNCHANGED <<plan, rnd, cursor, buf, reg, last, sd, joined, tokened>>

ByeFail(i) ==
  /\ Faults
  /\ pc[i] = "bye"
  /\ cursor[i] < NPeers
  /\ sd' = [sd EXCEPT ![i] = "error"]
  /\ Goto(i, "drain")
  /\ UNCHANGED <<plan, rnd, cursor, buf, reg, last, joined, tokened>>

CloseServer(i) ==
  /\ pc[i] = "drain"
  /\ \A j \in Rank \ {i} : ~ClientOpen(j, i)
  /\ reg' = [reg EXCEPT ![i] = {}]
  /\ Goto(i, "closed")
  /\ UNCHANGED <<plan, rnd, cursor, buf, last, sd, joined, tokened>>

DrainTimeout(i) ==
  /\ Faults
  /\ pc[i] = "drain"
  /\ \E j \in Rank \ {i} : ClientOpen(j, i)
  /\ sd' = [sd EXCEPT ![i] = "error"]
  /\ reg' = [reg EXCEPT ![i] = {}]
  /\ Goto(i, "closed")
  /\ UNCHANGED <<plan, rnd, cursor, buf, last, joined, tokened>>

Crash(i) ==
  /\ Faults
  /\ pc[i] \notin {"closed", "crashed"}
  /\ reg' = [reg EXCEPT ![i] = {}]
  /\ Goto(i, "crashed")
  /\ UNCHANGED <<plan, rnd, cursor, buf, last, sd, joined, tokened>>

-----------------------------------------------------------------------------
Progress(i) ==
  \/ Bind(i) \/ Connect(i) \/ Ready(i)
  \/ Call(i) \/ Collect(i) \/ Collected(i) \/ Fetch(i)
  \/ PublishToken(i) \/ AwaitToken(i) \/ Finish(i)
  \/ Shutdown(i) \/ AwaitBye(i) \/ CloseClient(i) \/ CloseServer(i)

(* Mutant: a barrier that polls forever.                                   *)
GiveUpButBarrier(i) == FetchFail(i) \/ ByeFail(i) \/ DrainTimeout(i)

(* retry_fetch and the drain give up after a fixed time.                   *)
GiveUp(i) == FetchFail(i) \/ BarrierFail(i) \/ ByeFail(i) \/ DrainTimeout(i)

Next ==
  \E i \in Rank :
    Progress(i) \/ GiveUp(i) \/ InitFail(i) \/ Reject(i) \/ Crash(i)

Spec == Init /\ [][Next]_vars

(* A rank's thread is scheduled, and its waits are bounded.                *)
Fairness == \A i \in Rank : WF_vars(Progress(i) \/ GiveUp(i))
FairSpec == Spec /\ Fairness
=============================================================================
