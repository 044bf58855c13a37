------------------------- MODULE MeshCollectiveProps -------------------------
(***************************************************************************)
(* What the ordered mesh collectives are supposed to guarantee.            *)
(***************************************************************************)
EXTENDS MeshCollective, FiniteSets

(* The state has the shape the code gives it: a rank's round counter and   *)
(* loop variable stay in range, and its registry holds only entries of     *)
(* the four families of names.                                             *)
TypeOK ==
  /\ plan \in [Round -> Ops]
  /\ pc \in [Rank -> Label]
  /\ rnd \in [Rank -> 0 .. MaxRound]
  /\ cursor \in [Rank -> 0 .. NPeers]
  /\ buf \in [Rank -> SUBSET (Rank \X Round)]
  /\ reg \in [Rank -> SUBSET Entry]
  /\ last \in [Rank -> ReturnRecord]
  /\ sd \in [Rank -> {"ok", "error"}]
  /\ joined \subseteq Rank \X Round
  /\ tokened \subseteq Rank \X Round

(* A collective that returns TC_OK leaves in the caller's buffer exactly   *)
(* the inputs of that round, none missing and none of another round, also  *)
(* after earlier rounds failed at some of the ranks.                       *)
ResultExact ==
  \A i \in Rank : last[i].status = "ok" =>
    last[i].val = Inputs(plan[last[i].round], last[i].round)

(* Rank j has everything it needs from the others for round r.             *)
Supplied(j, r) ==
  \/ rnd[j] > r + 1
  \/ rnd[j] = r + 1 /\ pc[j] \notin {"collect", "fetch"}

(* The completion barrier: when a rank's collective returns TC_OK, every   *)
(* rank has joined it and has finished reading the payloads of others.     *)
CompletionBarrier ==
  \A i \in Rank : last[i].status = "ok" =>
    \A j \in Rank : <<j, last[i].round>> \in joined /\ Supplied(j, last[i].round)

(* Rank j still has to poll the round-r token of rank i.                   *)
AwaitsTokenOf(j, i, r) ==
  /\ rnd[j] = r + 1
  /\ \/ pc[j] \in {"collect", "fetch", "token"}
     \/ pc[j] = "barrier" /\ cursor[j] <= i

(* A token stays published until every peer still inside the round has     *)
(* polled it, however far ahead its owner ran and whichever rounds failed  *)
(* in between: reclaim_before and shutdown never starve a slower rank.     *)
(* (A rank that died, or whose shutdown reported an error, is exempt.)     *)
TokensOutliveReaders ==
  \A i, j \in Rank : \A r \in Round :
    /\ <<i, r>> \in tokened
    /\ i # j /\ AwaitsTokenOf(j, i, r)
    /\ pc[i] # "crashed" /\ ~(pc[i] = "closed" /\ sd[i] = "error")
    => Find(i, "done", r) # {}

(* A shutdown that reports TC_OK was a rendezvous: every peer had called   *)
(* shutdown too (or died), so no peer is left inside a collective or able  *)
(* to start one.                                                           *)
ShutdownRendezvous ==
  \A i \in Rank : pc[i] = "closed" /\ sd[i] = "ok" =>
    \A j \in Rank : pc[j] \in {"bye", "drain", "closed", "crashed"}

(* Snapshots the group retains (tc_mesh_retained_snapshot_count).          *)
Retained(i) == {e \in reg[i] : e.kind # "bye"}

(* Between two calls a rank whose last call succeeded holds one completion *)
(* token, that of this call, and nothing else: what earlier calls left     *)
(* behind when they failed is reclaimed with it.                           *)
OneRoundRetained ==
  \A i \in Rank : pc[i] = "idle" =>
    /\ last[i].status = "none" => Retained(i) = {}
    /\ last[i].status = "ok" => Retained(i) = {Done(last[i].round)}

(* "Ordered collectives keep this bounded" (mesh_collective.h), with or    *)
(* without failures: between two calls the snapshots a rank retains        *)
(* belong to one round.                                                    *)
RetentionBounded ==
  \A i \in Rank : pc[i] = "idle" =>
    \A e, f \in Retained(i) : e.round = f.round

(* Every call returns: nobody waits forever, since every wait is a bounded *)
(* number of polls.                                                        *)
CallsReturn == \A i \in Rank : InCall(i) ~> ~InCall(i)

(* Without faults every rank gets through all its rounds and shuts down    *)
(* cleanly.                                                                *)
AllShutDown ==
  <>(\A i \in Rank : pc[i] = "closed" /\ sd[i] = "ok" /\ rnd[i] = MaxRound)

-----------------------------------------------------------------------------
(* The inductive invariant behind the properties above.                    *)

(* What each published entry says about its owner and its round.           *)
EntrySound(i, e) ==
  /\ e.kind = "in" => e.val = {<<i, e.round>>} /\ <<i, e.round>> \in joined
  /\ e.kind = "out" => /\ <<i, e.round>> \in joined
                       /\ plan[e.round].kind = "allreduce"
                       /\ e.val = Rank \X {e.round}
  /\ e.kind = "done" => e.val = {} /\ <<i, e.round>> \in tokened
  /\ e.kind = "bye" => pc[i] \in {"bye", "drain"}

EntriesSound == \A i \in Rank : \A e \in reg[i] : EntrySound(i, e)

(* Rounds are joined before they are left, and a token is published only   *)
(* by a rank that joined the round and needs nobody's payload any more.    *)
HistorySound ==
  /\ \A i \in Rank : \A r \in Round : <<i, r>> \in joined => r < rnd[i]
  /\ \A i \in Rank : \A r \in Round : <<i, r>> \in tokened =>
       /\ <<i, r>> \in joined
       /\ \/ rnd[i] > r + 1
          \/ rnd[i] = r + 1 /\ pc[i] \notin {"collect", "fetch", "token"}

(* What a rank inside a call has gathered so far.                          *)
CallStateSound(i) ==
  LET r == Cur(i) IN
  /\ r \in Round
  /\ <<i, r>> \in joined
  /\ pc[i] = "collect" =>
       /\ plan[r].kind # "broadcast"
       /\ buf[i] = {<<i, r>>} \cup {<<j, r>> : j \in {k \in Rank : k < cursor[i]}}
  /\ pc[i] = "fetch" => ~Collects(i, plan[r])
  /\ pc[i] \in {"token", "barrier"} => buf[i] = Inputs(plan[r], r)
  /\ pc[i] = "barrier" =>
       /\ <<i, r>> \in tokened
       /\ \A j \in Rank : j < cursor[i] => <<j, r>> \in tokened

CallSound == \A i \in Rank : InCall(i) => CallStateSound(i)

(* A live rank keeps the token of every round some rank may still be in.   *)
TokensKept ==
  \A i, j \in Rank : \A r \in Round :
    /\ <<i, r>> \in tokened
    /\ rnd[j] <= r + 1
    /\ pc[i] \notin {"closed", "crashed"}
    => Done(r) \in reg[i]

ReturnSound ==
  \A i \in Rank : last[i].status = "ok" =>
    LET r == last[i].round IN
    /\ r \in Round
    /\ last[i].val = Inputs(plan[r], r)
    /\ Rank \X {r} \subseteq tokened

Leaving(j) == pc[j] \in {"bye", "drain", "closed", "crashed"}

ShutdownSound ==
  \A i \in Rank :
    /\ pc[i] = "bye" => \A j \in Rank : j < cursor[i] => Leaving(j)
    /\ pc[i] \in {"drain", "closed"} /\ sd[i] = "ok" => \A j \in Rank : Leaving(j)

(* A rank that has not finished its init has called and kept nothing.      *)
UnusedYet ==
  \A i \in Rank : pc[i] \in {"start", "connect"} =>
    last[i].status = "none" /\ Retained(i) = {}

CollectiveInv ==
  /\ TypeOK
  /\ EntriesSound
  /\ HistorySound
  /\ CallSound
  /\ TokensKept
  /\ ReturnSound
  /\ ShutdownSound
  /\ UnusedYet
  /\ OneRoundRetained

-----------------------------------------------------------------------------
(* MeshCollective implements the abstract contract.                        *)
Contract == INSTANCE CollectiveContract
  WITH begun <- rnd, open <- [i \in Rank |-> InCall(i)]

ImplementsContract == Contract!Spec
=============================================================================
