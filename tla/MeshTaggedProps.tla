--------------------------- MODULE MeshTaggedProps ---------------------------
(***************************************************************************)
(* What the tagged mesh collectives are supposed to guarantee.             *)
(***************************************************************************)
EXTENDS MeshTagged

(* A tagged collective that returns TC_OK leaves exactly the inputs of     *)
(* this use of the id in the caller's buffer, nothing an earlier use left  *)
(* behind, although the names do not tell the uses apart.                  *)
TaggedExact ==
  \A i \in Rank, t \in Tag : tlast[i][t].status = "ok" =>
    LET u == tlast[i][t].round IN tlast[i][t].val = Inputs(tplan[t][u + 1], u)

(* When a tagged collective returns TC_OK every rank has joined the same   *)
(* use of the id and has finished reading the payloads of the others: the  *)
(* tokens of an earlier use do not open the barrier of a later one.        *)
TaggedBarrier ==
  \A i \in Rank, t \in Tag : tlast[i][t].status = "ok" =>
    LET u == tlast[i][t].round IN
    \A j \in Rank : \/ tuse[j][t] > u + 1
                    \/ tuse[j][t] = u + 1 /\ tpc[j][t] \notin {"collect", "fetch"}

(* Rank j still has to poll rank i's token of its tagged call.             *)
AwaitsTagTokenOf(j, i, t) ==
  /\ i # j /\ TagCalling(j, t) /\ tuse[i][t] = tuse[j][t]
  /\ tpc[j][t] = "barrier" => tcursor[j][t] <= i

(* A tagged token stays until every peer has polled it, though its owner   *)
(* returns, calls ordered collectives, which reclaim tokens of their own,  *)
(* releases the id or shuts the group down.                                *)
TaggedTokensOutliveReaders ==
  \A i, j \in Rank, t \in Tag :
    /\ AwaitsTagTokenOf(j, i, t)
    /\ \/ tpc[i][t] = "barrier"
       \/ tlast[i][t].status = "ok" /\ tlast[i][t].round = TagCur(i, t)
    => TagFind(i, t, "done", TagOp(j, t)) # {}
-----------------------------------------------------------------------------
(* The inductive invariant behind the properties above.                    *)

TagContents == SUBSET (Rank \X Nat)
TagLabel == Calling \cup {"idle"}
TagEntries ==
  [kind : TagKinds, op : {"allreduce", "allgather", "broadcast"},
   ordered : {FALSE}, round : Tag, val : TagContents]
TagReturns == [round : Nat, status : {"none", "ok", "error"}, val : TagContents]

(* As much of the shape of the ordered side as the two have in common.     *)
OrderedTypeOK ==
  /\ plan \in [Round -> Ops]
  /\ pc \in [Rank -> Label]
  /\ rnd \in [Rank -> 0 .. MaxRound]
  /\ cursor \in [Rank -> 0 .. NPeers]
  /\ reg = [i \in Rank |-> reg[i]]
  /\ \A i \in Rank : InCall(i) => rnd[i] > 0

TaggedTypeOK ==
  /\ OrderedTypeOK
  /\ tplan \in [Tag -> Seq(Ops)]
  /\ tuse \in [Rank -> [Tag -> Nat]]
  /\ tpc \in [Rank -> [Tag -> TagLabel]]
  /\ tcursor \in [Rank -> [Tag -> 0 .. NPeers]]
  /\ tbuf \in [Rank -> [Tag -> TagContents]]
  /\ treg \in [Rank -> [Tag -> SUBSET TagEntries]]
  /\ tlast \in [Rank -> [Tag -> TagReturns]]
  /\ \A i \in Rank, t \in Tag : tuse[i][t] <= Len(tplan[t])
  /\ \A t \in Tag : Len(tplan[t]) <= MaxUse

(* A rank that is behind in the use of an id is one use behind, and has    *)
(* neither a call nor an entry of it: so whoever finds an entry by the     *)
(* name finds one of its own use.                                          *)
BehindIsFree(t) ==
  \A i, j \in Rank : tuse[j][t] < tuse[i][t] =>
    tuse[i][t] = tuse[j][t] + 1 /\ ~TagCalling(j, t) /\ treg[j][t] = {}

(* Rank j has been in use u of id t, and is past reading payloads in it.   *)
PastReading(j, t, u) ==
  \/ tuse[j][t] > u + 1
  \/ tuse[j][t] = u + 1 /\ tpc[j][t] \in {"barrier", "idle"}

TagEntrySound(i, t, e) ==
  LET u == TagCur(i, t) IN
  /\ tuse[i][t] > 0 /\ e.op = TagOp(i, t).kind
  /\ e.kind = "in" => e.val = {<<i, u>>}
  /\ e.kind = "out" => e.val = Rank \X {u} /\ \A j \in Rank : tuse[j][t] > u
  /\ e.kind = "done" => tpc[i][t] \in {"barrier", "idle"}

(* What a rank in a tagged call has gathered so far.                       *)
TagCallSound(i, t) ==
  LET u == TagCur(i, t)
      op == TagOp(i, t)
      before == {j \in Rank : j < tcursor[i][t]}
  IN
  /\ tuse[i][t] > 0
  /\ pc[i] \in Calling \cup {"idle"}
  /\ tpc[i][t] = "collect" =>
       /\ op.kind # "broadcast"
       /\ tbuf[i][t] = {<<i, u>>} \cup {<<j, u>> : j \in before}
       /\ \A j \in before : tuse[j][t] > u
  /\ tpc[i][t] = "fetch" => ~Collects(i, op)
  /\ tpc[i][t] \in {"token", "barrier"} => tbuf[i][t] = Inputs(op, u)
  /\ tpc[i][t] = "barrier" =>
       /\ TagFind(i, t, "done", op) # {}
       /\ \A j \in before : PastReading(j, t, u)

(* What a return of TC_OK says of all ranks.                               *)
TagReturnSound(i, t) ==
  LET u == tlast[i][t].round IN
  tlast[i][t].status = "ok" =>
    /\ u < tuse[i][t]
    /\ tlast[i][t].val = Inputs(tplan[t][u + 1], u)
    /\ \A j \in Rank : PastReading(j, t, u)

(* A rank that returned TC_OK keeps its token for those still in the call. *)
TagTokenKept(i, t) ==
  /\ tlast[i][t].status = "ok" /\ tuse[i][t] = tlast[i][t].round + 1
  /\ \E j \in Rank : TagCalling(j, t) /\ tuse[j][t] = tuse[i][t]
  => TagFind(i, t, "done", TagOp(i, t)) # {}

TagSound(t) ==
  /\ BehindIsFree(t)
  /\ \A i \in Rank :
       /\ \A e \in treg[i][t] : TagEntrySound(i, t, e)
       /\ TagCalling(i, t) => TagCallSound(i, t)
       /\ TagReturnSound(i, t)
       /\ TagTokenKept(i, t)

TaggedInv == TaggedTypeOK /\ \A t \in Tag : TagSound(t)
-----------------------------------------------------------------------------
(* What the ordered collectives find of their own in the registries: with  *)
(* that for their registry, they are to be the ones of MeshCollective.     *)
OrderedReg == [i \in Rank |-> {e \in reg[i] : e.ordered}]

O == INSTANCE MeshCollective WITH reg <- OrderedReg

(* And nothing the ordered collectives do touches an entry of an id: it    *)
(* comes and goes with calls and releases of the id, or with the server.   *)
TagsSpared ==
  \A i \in Rank, t \in Tag :
    treg'[i][t] # treg[i][t] => TagStep(i, t) \/ CloseServer(i)

-----------------------------------------------------------------------------
(* To its callers an id is a group of ordered collectives of its own, the  *)
(* uses being its rounds: it keeps the same contract, though a use is not  *)
(* known by a number and can be told from others only by who is free.      *)
IdPlan(t) ==
  [u \in Use |-> IF u < Len(tplan[t]) THEN tplan[t][u + 1]
                 ELSE [kind |-> "allreduce", root |-> 0]]  \* never begun
IdBegun(t) == [i \in Rank |-> tuse[i][t]]
IdOpen(t) == [i \in Rank |-> TagCalling(i, t)]
IdJoined(t) == {p \in Rank \X Use : p[2] < tuse[p[1]][t]}
IdLast(t) == [i \in Rank |-> tlast[i][t]]

IdContract(t) == INSTANCE CollectiveContract
  WITH MaxRound <- MaxUse, Ops <- Op, plan <- IdPlan(t), begun <- IdBegun(t),
       open <- IdOpen(t), joined <- IdJoined(t), last <- IdLast(t)

ImplementsIdContract == \A t \in Tag : IdContract(t)!Spec
=============================================================================
