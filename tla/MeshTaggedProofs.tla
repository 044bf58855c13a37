--------------------------- MODULE MeshTaggedProofs ---------------------------
(***************************************************************************)
(* The tagged collectives are safe next to the ordered ones, although the  *)
(* names in their registries do not say which use of an id they belong to. *)
(*                                                                         *)
(* The argument: the rules for reusing an id leave a rank that is behind   *)
(* in its use with no call and no entry (BehindIsFree), so whoever finds   *)
(* an entry by its name finds one of its own use (FindsOwnUse).  From      *)
(* there on a use is a round of the ordered collectives.  The two kinds    *)
(* share the registries, and each finds its own: every step of the two     *)
(* together is, on the ordered entries, one of MeshCollective or leaves    *)
(* them alone (StepOrdered), and what the ordered ones reclaim leaves the  *)
(* entries of the ids alone (OrderedSparesTags).  And each id keeps the    *)
(* contract of the ordered collectives, as if it were a group of its own.  *)
(***************************************************************************)
EXTENDS MeshTaggedProps, MeshCollectiveProofs

USE CollectivesAssumption, MeshAssumption, TaggedAssumption

TagVars == <<vars, tvars>>

(* A table of entries by rank and id changed at one place.                 *)
LEMMA SetByParts ==
  ASSUME NEW i \in Rank, NEW t \in Tag, NEW new, treg'[i][t] = new,
         \A k \in Rank, s \in Tag : k # i \/ s # t => treg'[k][s] = treg[k][s]
  PROVE  treg' = Set(treg, i, t, new)
  <1>1. /\ treg = [k \in Rank |-> treg[k]] /\ treg' = [k \in Rank |-> treg'[k]]
        /\ \A k \in Rank : treg[k] = [s \in Tag |-> treg[k][s]]
        /\ \A k \in Rank : treg'[k] = [s \in Tag |-> treg'[k][s]]
    BY DEF treg
  <1> HIDE DEF treg
  <1>2. treg'[i] = [treg[i] EXCEPT ![t] = new]
    BY <1>1
  <1>3. \A k \in Rank \ {i} : treg'[k] = treg[k]
    BY <1>1
  <1> QED
    BY <1>1, <1>2, <1>3 DEF Set

(* What is registered for an id joins the entries of that id and no other. *)
LEMMA Registered ==
  ASSUME OrderedTypeOK, NEW i \in Rank, NEW t \in Tag, NEW e, OfId(t, e), Register(i, e)
  PROVE  /\ treg' = Set(treg, i, t, treg[i][t] \cup {e})
         /\ OrderedReg' = OrderedReg
         /\ reg' = [k \in Rank |-> reg'[k]]
  <1>1. /\ reg'[i] = reg[i] \cup {e} /\ \A k \in Rank \ {i} : reg'[k] = reg[k]
        /\ reg' = [k \in Rank |-> reg'[k]]
    BY DEF OrderedTypeOK, Register
  <1>2. \A s \in Tag : OfId(s, e) <=> s = t
    BY DEF OfId
  <1>3. /\ treg'[i][t] = treg[i][t] \cup {e}
        /\ \A k \in Rank, s \in Tag : k # i \/ s # t => treg'[k][s] = treg[k][s]
    BY <1>1, <1>2 DEF treg
  <1>4. treg' = Set(treg, i, t, treg[i][t] \cup {e})
    BY <1>3, SetByParts
  <1>5. OrderedReg' = OrderedReg
    BY <1>1 DEF OrderedReg, OfId
  <1> QED
    BY <1>1, <1>4, <1>5

(* What is freed of an id goes from the entries of that id and no other.   *)
LEMMA Freed ==
  ASSUME OrderedTypeOK, NEW i \in Rank, NEW t \in Tag, NEW kinds, TagFree(i, t, kinds)
  PROVE  /\ treg' = Set(treg, i, t, {e \in treg[i][t] : e.kind \notin kinds})
         /\ OrderedReg' = OrderedReg
         /\ reg' = [k \in Rank |-> reg'[k]]
  <1>1. /\ reg'[i] = {e \in reg[i] : ~(OfId(t, e) /\ e.kind \in kinds)}
        /\ \A k \in Rank \ {i} : reg'[k] = reg[k]
        /\ reg' = [k \in Rank |-> reg'[k]]
    BY DEF OrderedTypeOK, TagFree
  <1>2. \A s \in Tag : \A e : OfId(s, e) /\ OfId(t, e) => s = t
    BY DEF OfId
  <1>3. /\ treg'[i][t] = {e \in treg[i][t] : e.kind \notin kinds}
        /\ \A k \in Rank, s \in Tag : k # i \/ s # t => treg'[k][s] = treg[k][s]
    BY <1>1, <1>2 DEF treg
  <1> DEFINE left == {e \in treg[i][t] : e.kind \notin kinds}
  <1>left. treg'[i][t] = left
    BY <1>3
  <1> HIDE DEF left
  <1>whole. treg' = Set(treg, i, t, left)
    BY <1>3, <1>left, SetByParts
  <1>4. treg' = Set(treg, i, t, {e \in treg[i][t] : e.kind \notin kinds})
    BY <1>whole DEF left
  <1>5. OrderedReg' = OrderedReg
    BY <1>1 DEF OrderedReg, OfId
  <1> QED
    BY <1>1, <1>4, <1>5

(* What each step of a tagged call does to the entries of its id.  The     *)
(* input of a new call, if it is to be read, is the only one.              *)
LEMMA TagCallRegistry ==
  ASSUME OrderedTypeOK, NEW i \in Rank, NEW t \in Tag, TagCall(i, t)
  PROVE  LET u == tuse[i][t]
             op == tplan[t][u + 1]
         IN treg' = IF Sends(i, op)
                    THEN Set(treg, i, t, {TagEntry("in", op, t, {<<i, u>>})}) ELSE treg
  <1> DEFINE u == tuse[i][t]
             op == tplan[t][u + 1]
             new == TagEntry("in", op, t, {<<i, u>>})
  <1>1. treg[i][t] = {} /\ IF Sends(i, op) THEN Register(i, new) ELSE reg' = reg
    BY DEF TagCall
  <1>2. OfId(t, new)
    BY DEF OfId, TagEntry
  <1> HIDE DEF u, op, new
  <1>3. CASE Sends(i, op)
    <2>1. treg' = Set(treg, i, t, treg[i][t] \cup {new})
      BY <1>1, <1>2, <1>3, Registered
    <2>2. treg[i][t] \cup {new} = {new}
      BY <1>1
    <2> QED
      BY <1>3, <2>1, <2>2 DEF u, op, new
  <1>4. CASE ~Sends(i, op)
    BY <1>1, <1>4 DEF treg, u, op
  <1> QED
    BY <1>3, <1>4

(* A step that leaves the registries alone leaves the entries alone.       *)
LEMMA SameRegistry == reg' = reg => treg' = treg
  BY DEF treg

(* The result, if this rank is the one to publish it, joins them.          *)
LEMMA TagCollectedRegistry ==
  ASSUME OrderedTypeOK, NEW i \in Rank, NEW t \in Tag, TagCollected(i, t)
  PROVE  LET op == TagOp(i, t)
         IN treg' = IF PublishesResult(i, op)
                    THEN Set(treg, i, t, treg[i][t] \cup {TagEntry("out", op, t, tbuf[i][t])})
                    ELSE treg
  <1>1. CASE PublishesResult(i, TagOp(i, t))
    BY <1>1, Registered DEF TagCollected, OfId, TagEntry
  <1>2. CASE ~PublishesResult(i, TagOp(i, t))
    BY <1>2 DEF TagCollected, treg
  <1> QED
    BY <1>1, <1>2

(* A call that gives up before its token withdraws its input.              *)
LEMMA TagFetchFailRegistry ==
  ASSUME OrderedTypeOK, NEW i \in Rank, NEW t \in Tag, TagFetchFail(i, t)
  PROVE  treg' = Set(treg, i, t, {e \in treg[i][t] : e.kind # "in"})
  <1>1. treg' = Set(treg, i, t, {e \in treg[i][t] : e.kind \notin {"in"}})
    BY Freed DEF TagFetchFail
  <1>2. {e \in treg[i][t] : e.kind \notin {"in"}} = {e \in treg[i][t] : e.kind # "in"}
    OBVIOUS
  <1> QED
    BY <1>1, <1>2

(* The token joins them.                                                   *)
LEMMA TagPublishTokenRegistry ==
  ASSUME OrderedTypeOK, NEW i \in Rank, NEW t \in Tag, TagPublishToken(i, t)
  PROVE  treg' = Set(treg, i, t, treg[i][t] \cup {TagEntry("done", TagOp(i, t), t, {})})
  BY Registered DEF TagPublishToken, OfId, TagEntry

(* The entries of an id are inputs, results and tokens.                    *)
LEMMA TagEntryKinds ==
  ASSUME TaggedTypeOK, NEW i \in Rank, NEW t \in Tag
  PROVE  OrderedTypeOK /\ \A e \in treg[i][t] : e.kind \in TagKinds
  <1>1. OrderedTypeOK /\ treg \in [Rank -> [Tag -> SUBSET TagEntries]]
    BY DEF TaggedTypeOK
  <1>2. treg[i][t] \in SUBSET TagEntries
    BY <1>1
  <1>3. \A e \in TagEntries : e.kind \in TagKinds
    BY DEF TagEntries
  <1> QED
    BY <1>1, <1>2, <1>3

(* A call that succeeds keeps its token.                                   *)
LEMMA TagFinishRegistry ==
  ASSUME TaggedTypeOK, NEW i \in Rank, NEW t \in Tag, TagFinish(i, t)
  PROVE  treg' = Set(treg, i, t, {e \in treg[i][t] : e.kind = "done"})
  <1>1. treg' = Set(treg, i, t, {e \in treg[i][t] : e.kind \notin {"in", "out"}})
    <2>1. TagFree(i, t, {"in", "out"})
      BY DEF TagFinish
    <2> QED
      BY <2>1, Freed, TagEntryKinds
  <1>2. \A e \in treg[i][t] : e.kind \in {"in", "out", "done"}
    BY TagEntryKinds DEF TagKinds
  <1>3. {e \in treg[i][t] : e.kind \notin {"in", "out"}} = {e \in treg[i][t] : e.kind = "done"}
    BY <1>2
  <1> QED
    BY <1>1, <1>3

(* A release leaves nothing.                                               *)
LEMMA TagReleaseRegistry ==
  ASSUME TaggedTypeOK, NEW i \in Rank, NEW t \in Tag, TagRelease(i, t)
  PROVE  treg' = Set(treg, i, t, {})
  <1>1. treg' = Set(treg, i, t, {e \in treg[i][t] : e.kind \notin TagKinds})
    <2>1. TagFree(i, t, TagKinds)
      BY DEF TagRelease
    <2> QED
      BY <2>1, Freed, TagEntryKinds
  <1>2. \A e \in treg[i][t] : e.kind \in TagKinds
    BY TagEntryKinds
  <1>3. {e \in treg[i][t] : e.kind \notin TagKinds} = {}
    BY <1>2
  <1> QED
    BY <1>1, <1>3

(* In short: a step with an id changes the entries of that id, at its rank. *)
LEMMA TagStepRegistry ==
  ASSUME TaggedTypeOK, NEW i \in Rank, NEW t \in Tag, TagStep(i, t)
  PROVE  treg' = treg \/ \E new : treg' = Set(treg, i, t, new)
  <1>1. OrderedTypeOK
    BY DEF TaggedTypeOK
  <1>2. CASE TagCall(i, t) \/ TagCollected(i, t)
    BY <1>1, <1>2, TagCallRegistry, TagCollectedRegistry
  <1>3. CASE TagFetchFail(i, t) \/ TagPublishToken(i, t)
    BY <1>1, <1>3, TagFetchFailRegistry, TagPublishTokenRegistry
  <1>4. CASE TagFinish(i, t) \/ TagRelease(i, t)
    BY <1>4, TagFinishRegistry, TagReleaseRegistry
  <1>5. CASE UNCHANGED reg
    BY <1>5, SameRegistry
  <1> QED
    BY <1>2, <1>3, <1>4, <1>5
       DEF TagStep, TagCollect, TagFetch, TagAwaitToken, TagBarrierFail

(* The ordered side notices nothing of a step of a tagged call.            *)
LEMMA TagStepUnseen ==
  ASSUME OrderedTypeOK, NEW i \in Rank, NEW t \in Tag, TagStep(i, t)
  PROVE  UNCHANGED O!vars /\ pc' = pc /\ OrderedTypeOK'
  <1>1. /\ plan' = plan /\ pc' = pc /\ rnd' = rnd /\ cursor' = cursor /\ buf' = buf
        /\ last' = last /\ sd' = sd /\ joined' = joined /\ tokened' = tokened
    BY DEF TagStep
  <1>2. OrderedReg' = OrderedReg /\ reg' = [k \in Rank |-> reg'[k]]
    <2>1. \A kind, op, v : OfId(t, TagEntry(kind, op, t, v))
      BY DEF OfId, TagEntry
    <2>2. CASE UNCHANGED reg
      BY <2>2 DEF OrderedReg, OrderedTypeOK
    <2>3. CASE \E kind, op, v : Register(i, TagEntry(kind, op, t, v))
      BY <2>1, <2>3, Registered
    <2>4. CASE \E kinds : TagFree(i, t, kinds)
      BY <2>4, Freed
    <2> QED
      BY <2>2, <2>3, <2>4 DEF TagStep, TagCall, TagCollect, TagCollected, TagFetch,
         TagFetchFail, TagPublishToken, TagAwaitToken, TagFinish, TagBarrierFail, TagRelease
  <1>3. OrderedTypeOK'
    BY <1>1, <1>2 DEF OrderedTypeOK, InCall
  <1> QED
    BY <1>1, <1>2, <1>3 DEF O!vars

-----------------------------------------------------------------------------
(* A rank in a call is in one of the rounds, and so is what it may ask for. *)
LEMMA OrderedCall ==
  ASSUME OrderedTypeOK, NEW i \in Rank, InCall(i)
  PROVE  Cur(i) \in Round /\ plan[Cur(i)] \in Ops /\ plan[Cur(i)].root \in Rank
  <1>1. rnd[i] \in 1 .. MaxRound
    BY DEF OrderedTypeOK
  <1>2. Cur(i) \in Round
    BY <1>1 DEF Cur, Round
  <1> QED
    BY <1>2, OpRoot DEF OrderedTypeOK

(* The main thread keeps the shape of its part of the state.               *)
LEMMA OrderedTypeStep ==
  ASSUME OrderedTypeOK, NEW i \in Rank, Ordered(i)
  PROVE  OrderedTypeOK'
  <1>1. plan' = plan
    BY DEF Ordered, Bind, Connect, Ready, Call, Collect, Collected, Fetch, PublishToken,
           AwaitToken, Finish, Shutdown, AwaitBye, CloseClient, CloseServer
  <1>2. pc' = pc \/ \E label \in Label : pc' = [pc EXCEPT ![i] = label]
    BY DEF Ordered, Bind, Connect, Ready, Call, Collect, Collected, Fetch, PublishToken,
           AwaitToken, Finish, Shutdown, AwaitBye, CloseClient, CloseServer,
           Goto, Return, AfterPublish, Label, Calling
  <1>3. \/ rnd' = rnd /\ (InCall(i)' => InCall(i)) /\ pc' = [pc EXCEPT ![i] = pc'[i]]
        \/ /\ rnd[i] \in Nat /\ rnd[i] < MaxRound
           /\ rnd' = [rnd EXCEPT ![i] = rnd[i] + 1] /\ pc' = [pc EXCEPT ![i] = pc'[i]]
    BY DEF Ordered, Bind, Connect, Ready, Call, Collect, Collected, Fetch, PublishToken,
           AwaitToken, Finish, Shutdown, AwaitBye, CloseClient, CloseServer,
           Goto, Return, InCall, Calling, OrderedTypeOK
  <1>4. cursor' = cursor \/ \E p \in 0 .. NPeers : cursor' = [cursor EXCEPT ![i] = p]
    BY LoopBounds
       DEF Ordered, Bind, Connect, Ready, Call, Collect, Collected, Fetch, PublishToken,
           AwaitToken, Finish, Shutdown, AwaitBye, CloseClient, CloseServer, OrderedTypeOK
  <1>5. reg' = reg \/ \E s : reg' = [reg EXCEPT ![i] = s]
    BY DEF Ordered, Bind, Connect, Ready, Call, Collect, Collected, Fetch, PublishToken,
           AwaitToken, Finish, Shutdown, AwaitBye, CloseClient, CloseServer
  <1>6. pc' \in [Rank -> Label] /\ cursor' \in [Rank -> 0 .. NPeers]
    BY <1>2, <1>4 DEF OrderedTypeOK
  <1>7. reg' = [k \in Rank |-> reg'[k]]
    BY <1>5 DEF OrderedTypeOK
  <1>8. /\ rnd' \in [Rank -> 0 .. MaxRound]
        /\ (rnd'[i] = rnd[i] /\ (InCall(i)' => InCall(i))) \/ rnd'[i] > 0
        /\ \A k \in Rank \ {i} : rnd'[k] = rnd[k]
    <2>1. rnd \in [Rank -> 0 .. MaxRound]
      BY DEF OrderedTypeOK
    <2>2. CASE rnd' = rnd /\ (InCall(i)' => InCall(i))
      BY <2>1, <2>2
    <2>3. CASE rnd[i] < MaxRound /\ rnd' = [rnd EXCEPT ![i] = rnd[i] + 1]
      <3>1. rnd[i] + 1 \in 1 .. MaxRound
        BY <2>1, <2>3
      <3> QED
        BY <2>1, <2>3, <3>1
    <2> QED
      BY <1>3, <2>2, <2>3
  <1>9. \A k \in Rank \ {i} : InCall(k)' <=> InCall(k)
    BY <1>2 DEF OrderedTypeOK, InCall
  <1>10. \A k \in Rank : InCall(k)' => rnd'[k] > 0
    BY <1>8, <1>9 DEF OrderedTypeOK
  <1> QED
    BY <1>1, <1>6, <1>7, <1>8, <1>10 DEF OrderedTypeOK

(* What the main thread registers, releases and reclaims are ordered       *)
(* entries: those of the ids stay until the server closes.                 *)
LEMMA OrderedSparesTags ==
  ASSUME OrderedTypeOK, NEW i \in Rank, Ordered(i), ~CloseServer(i)
  PROVE  treg' = treg
  <1>1. reg = [k \in Rank |-> reg[k]]
    BY DEF OrderedTypeOK
  <1>2. ASSUME NEW new, reg' = [reg EXCEPT ![i] = new],
               \A s \in Tag : {e \in new : OfId(s, e)} = {e \in reg[i] : OfId(s, e)}
        PROVE  treg' = treg
    BY <1>1, <1>2 DEF treg
  <1>3. ASSUME NEW e, e.ordered = TRUE, reg' = [reg EXCEPT ![i] = reg[i] \cup {e}]
        PROVE  treg' = treg
    <2>1. \A s \in Tag : {x \in reg[i] \cup {e} : OfId(s, x)} = {x \in reg[i] : OfId(s, x)}
      BY <1>3 DEF OfId
    <2> QED
      BY <1>2, <1>3, <2>1
  <1>4. CASE reg' = reg
    BY <1>4 DEF treg
  <1>5. CASE Finish(i)
    <2> DEFINE r == Cur(i)
               new == ReclaimBefore(Release(Release(reg[i], "in", r), "out", r), r)
    <2>1. reg' = [reg EXCEPT ![i] = new]
      BY <1>5 DEF Finish
    <2>2. \A s \in Tag : {e \in new : OfId(s, e)} = {e \in reg[i] : OfId(s, e)}
      BY DEF OfId, ReclaimBefore, Release
    <2> QED
      BY <1>2, <2>1, <2>2
  <1>6. CASE ~Finish(i) /\ reg' # reg
    <2>1. \E e : e.ordered = TRUE /\ reg' = [reg EXCEPT ![i] = reg[i] \cup {e}]
      <3>1. CASE Call(i)
        <4>1. In(i, rnd[i]).ordered = TRUE
          BY DEF In
        <4>2. \/ reg' = [reg EXCEPT ![i] = reg[i] \cup {In(i, rnd[i])}]
              \/ reg' = [reg EXCEPT ![i] = reg[i]]
          BY <3>1 DEF Call
        <4> QED
          BY <1>1, <1>6, <4>1, <4>2
      <3>2. CASE Collected(i)
        <4>1. Out(Cur(i), buf[i]).ordered = TRUE
          BY DEF Out
        <4>2. \/ reg' = [reg EXCEPT ![i] = reg[i] \cup {Out(Cur(i), buf[i])}]
              \/ reg' = [reg EXCEPT ![i] = reg[i]]
          BY <3>2 DEF Collected
        <4> QED
          BY <1>1, <1>6, <4>1, <4>2
      <3>3. CASE PublishToken(i) \/ Shutdown(i)
        <4>1. Done(Cur(i)).ordered = TRUE /\ Bye.ordered = TRUE
          BY DEF Done, Bye
        <4> QED
          BY <3>3, <4>1 DEF PublishToken, Shutdown
      <3> QED
        BY <1>6, <3>1, <3>2, <3>3 DEF Ordered, Bind, Connect, Ready, Collect, Fetch,
           AwaitToken, AwaitBye, CloseClient
    <2> QED
      BY <1>3, <2>1
  <1> QED
    BY <1>4, <1>5, <1>6

(* With the server the entries of every id go, at this rank alone.         *)
LEMMA ServerClosed ==
  ASSUME OrderedTypeOK, NEW i \in Rank, CloseServer(i), NEW t \in Tag
  PROVE  treg'[i][t] = {} /\ \A k \in Rank \ {i} : treg'[k][t] = treg[k][t]
  <1>1. reg = [k \in Rank |-> reg[k]] /\ reg' = [reg EXCEPT ![i] = {}]
    BY DEF OrderedTypeOK, CloseServer
  <1> QED
    BY <1>1 DEF treg

(* What a poll of an ordered call finds is in the ordered part of the      *)
(* registry, and what is registered, released or reclaimed there is what   *)
(* MeshCollective registers, releases or reclaims.                         *)
LEMMA OrderedPart ==
  ASSUME OrderedTypeOK
  PROVE  /\ \A p \in Rank : \A kind, r : O!Find(p, kind, r) = Find(p, kind, r)
         /\ \A i \in Rank : \A e : e.ordered = TRUE /\ reg' = [reg EXCEPT ![i] = @ \cup {e}]
              => OrderedReg' = [OrderedReg EXCEPT ![i] = @ \cup {e}]
         /\ \A i \in Rank : \A r :
              reg' = [reg EXCEPT ![i] =
                        ReclaimBefore(Release(Release(reg[i], "in", r), "out", r), r)]
              => OrderedReg' = [OrderedReg EXCEPT ![i] =
                   O!ReclaimBefore(O!Release(O!Release(OrderedReg[i], "in", r), "out", r), r)]
         /\ reg' = reg => OrderedReg' = OrderedReg
  <1>1. \A p \in Rank : \A kind, r : O!Find(p, kind, r) = Find(p, kind, r)
    BY DEF O!Find, Find, OrderedReg
  <1>2. ASSUME NEW i \in Rank, NEW e, e.ordered = TRUE,
               reg' = [reg EXCEPT ![i] = @ \cup {e}]
        PROVE  OrderedReg' = [OrderedReg EXCEPT ![i] = @ \cup {e}]
    <2>1. /\ reg'[i] = reg[i] \cup {e} /\ \A k \in Rank \ {i} : reg'[k] = reg[k]
      BY <1>2 DEF OrderedTypeOK
    <2>2. {x \in reg'[i] : x.ordered} = {x \in reg[i] : x.ordered} \cup {e}
      BY <1>2, <2>1
    <2> QED
      BY <2>1, <2>2 DEF OrderedReg
  <1>3. ASSUME NEW i \in Rank, NEW r,
               reg' = [reg EXCEPT ![i] =
                        ReclaimBefore(Release(Release(reg[i], "in", r), "out", r), r)]
        PROVE  OrderedReg' = [OrderedReg EXCEPT ![i] =
                 O!ReclaimBefore(O!Release(O!Release(OrderedReg[i], "in", r), "out", r), r)]
    <2> DEFINE rest == ReclaimBefore(Release(Release(reg[i], "in", r), "out", r), r)
    <2>1. reg'[i] = rest /\ \A k \in Rank \ {i} : reg'[k] = reg[k]
      BY <1>3 DEF OrderedTypeOK
    <2>2. {x \in rest : x.ordered} =
            O!ReclaimBefore(O!Release(O!Release(OrderedReg[i], "in", r), "out", r), r)
      BY DEF OrderedReg, O!ReclaimBefore, O!Release, ReclaimBefore, Release
    <2> QED
      BY <2>1, <2>2 DEF OrderedReg
  <1>4. reg' = reg => OrderedReg' = OrderedReg
    BY DEF OrderedReg
  <1> QED
    BY <1>1, <1>2, <1>3, <1>4

(* The main thread does, on the ordered part, what MeshCollective does.    *)
LEMMA OrderedImitated ==
  ASSUME OrderedTypeOK, NEW i \in Rank, Ordered(i)
  PROVE  O!Progress(i)
  <1>1. /\ \A r : O!In(i, r) = In(i, r) /\ In(i, r).ordered = TRUE
        /\ \A r, v : O!Out(r, v) = Out(r, v) /\ Out(r, v).ordered = TRUE
        /\ \A r : O!Done(r) = Done(r) /\ Done(r).ordered = TRUE
        /\ O!Bye = Bye /\ Bye.ordered = TRUE
    BY DEF O!In, O!Out, O!Done, O!Bye, In, Out, Done, Bye
  <1>2. /\ O!FirstPeer(i) = FirstPeer(i) /\ \A p : O!NextPeer(i, p) = NextPeer(i, p)
        /\ O!Cur(i) = Cur(i) /\ (O!InCall(i) <=> InCall(i))
        /\ \A op : O!AfterPublish(i, op) = AfterPublish(i, op)
        /\ \A op : (O!Sends(i, op) <=> Sends(i, op)) /\ O!SourceKind(op) = SourceKind(op)
        /\ \A op : O!PublishesResult(i, op) <=> PublishesResult(i, op)
        /\ \A p : O!ServerUp(p) <=> ServerUp(p)
        /\ \A j, p : O!ClientOpen(j, p) <=> ClientOpen(j, p)
        /\ \A label : O!Goto(i, label) <=> Goto(i, label)
        /\ \A ret : O!Return(i, ret) <=> Return(i, ret)
        /\ \A r, v : O!Ok(r, v) = Ok(r, v)
        /\ O!Rank = Rank
    BY DEF O!FirstPeer, FirstPeer, O!NextPeer, NextPeer, O!Cur, Cur, O!InCall, InCall,
           O!Calling, Calling, O!AfterPublish, AfterPublish, O!Collects, Collects,
           O!Sends, Sends, O!SourceKind, SourceKind, O!PublishesResult, PublishesResult,
           O!ServerUp, ServerUp, O!ClientOpen, ClientOpen, O!Goto, Goto, O!Return, Return,
           O!Ok, Ok, O!Rank, Rank
  <1>3. reg' = reg => OrderedReg' = OrderedReg
    BY OrderedPart
  <1>4. CASE Bind(i) \/ Connect(i) \/ Ready(i) \/ CloseClient(i)
    BY <1>2, <1>3, <1>4 DEF Bind, Connect, Ready, CloseClient,
       O!Bind, O!Connect, O!Ready, O!CloseClient, O!Progress
  <1>5. CASE Collect(i)
    <2>1. cursor[i] \in Rank
      BY <1>5 DEF Collect, OrderedTypeOK, Rank
    <2>2. O!Find(cursor[i], "in", Cur(i)) = Find(cursor[i], "in", Cur(i))
      BY <2>1, OrderedPart
    <2>3. O!Collect(i)
      BY <1>2, <1>3, <1>5, <2>2 DEF Collect, O!Collect
    <2> QED
      BY <2>3 DEF O!Progress
  <1>6. CASE Fetch(i)
    <2> DEFINE op == plan[Cur(i)]
    <2>1. op.root \in Rank
      BY <1>6, OrderedCall DEF Fetch, InCall, Calling
    <2>2. O!Find(op.root, SourceKind(op), Cur(i)) = Find(op.root, SourceKind(op), Cur(i))
      BY <2>1, OrderedPart
    <2>3. O!Fetch(i)
      BY <1>2, <1>3, <1>6, <2>2 DEF Fetch, O!Fetch
    <2> QED
      BY <2>3 DEF O!Progress
  <1>7. CASE AwaitToken(i)
    <2>1. cursor[i] \in Rank
      BY <1>7 DEF AwaitToken, OrderedTypeOK, Rank
    <2>2. O!Find(cursor[i], "done", Cur(i)) = Find(cursor[i], "done", Cur(i))
      BY <2>1, OrderedPart
    <2>3. O!AwaitToken(i)
      BY <1>2, <1>3, <1>7, <2>2 DEF AwaitToken, O!AwaitToken
    <2> QED
      BY <2>3 DEF O!Progress
  <1>8. CASE AwaitBye(i)
    <2>1. cursor[i] \in Rank
      BY <1>8 DEF AwaitBye, OrderedTypeOK, Rank
    <2>2. O!Find(cursor[i], "bye", 0) = Find(cursor[i], "bye", 0)
      BY <2>1, OrderedPart
    <2>3. O!AwaitBye(i)
      BY <1>2, <1>3, <1>8, <2>2 DEF AwaitBye, O!AwaitBye
    <2> QED
      BY <2>3 DEF O!Progress
  <1>9. CASE Call(i)
    <2> DEFINE r  == rnd[i]
               op == plan[r]
    <2>1. OrderedReg' = [OrderedReg EXCEPT ![i] =
            IF Sends(i, op) THEN @ \cup {In(i, r)} ELSE @]
      <3>1. CASE Sends(i, op)
        <4>1. reg' = [reg EXCEPT ![i] = @ \cup {In(i, r)}]
          BY <1>9, <3>1 DEF Call
        <4> QED
          BY <1>1, <3>1, <4>1, OrderedPart
      <3>2. CASE ~Sends(i, op)
        <4>1. reg' = reg
          BY <1>9, <3>2 DEF Call, OrderedTypeOK
        <4> QED
          BY <1>3, <3>2, <4>1 DEF OrderedReg
      <3> QED
        BY <3>1, <3>2
    <2>2. O!Call(i)
      BY <1>1, <1>2, <1>9, <2>1 DEF Call, O!Call
    <2> QED
      BY <2>2 DEF O!Progress
  <1>10. CASE Collected(i)
    <2> DEFINE r   == Cur(i)
               new == Out(r, buf[i])
    <2>1. OrderedReg' = [OrderedReg EXCEPT ![i] =
            IF PublishesResult(i, plan[r]) THEN @ \cup {new} ELSE @]
      <3>1. CASE PublishesResult(i, plan[r])
        <4>1. reg' = [reg EXCEPT ![i] = @ \cup {new}]
          BY <1>10, <3>1 DEF Collected
        <4> QED
          BY <1>1, <3>1, <4>1, OrderedPart
      <3>2. CASE ~PublishesResult(i, plan[r])
        <4>1. reg' = reg
          BY <1>10, <3>2 DEF Collected, OrderedTypeOK
        <4> QED
          BY <1>3, <3>2, <4>1 DEF OrderedReg
      <3> QED
        BY <3>1, <3>2
    <2>2. O!Collected(i)
      BY <1>1, <1>2, <1>10, <2>1 DEF Collected, O!Collected
    <2> QED
      BY <2>2 DEF O!Progress
  <1>11. CASE PublishToken(i)
    <2>1. OrderedReg' = [OrderedReg EXCEPT ![i] = @ \cup {Done(Cur(i))}]
      BY <1>1, <1>11, OrderedPart DEF PublishToken
    <2>2. O!PublishToken(i)
      BY <1>1, <1>2, <1>11, <2>1 DEF PublishToken, O!PublishToken
    <2> QED
      BY <2>2 DEF O!Progress
  <1>12. CASE Shutdown(i)
    <2>1. OrderedReg' = [OrderedReg EXCEPT ![i] = @ \cup {Bye}]
      BY <1>1, <1>12, OrderedPart DEF Shutdown
    <2>2. O!Shutdown(i)
      BY <1>1, <1>2, <1>12, <2>1 DEF Shutdown, O!Shutdown
    <2> QED
      BY <2>2 DEF O!Progress
  <1>13. CASE Finish(i)
    <2>1. OrderedReg' = [OrderedReg EXCEPT ![i] =
            O!ReclaimBefore(O!Release(O!Release(OrderedReg[i], "in", Cur(i)), "out", Cur(i)),
                            Cur(i))]
      BY <1>13, OrderedPart DEF Finish
    <2>2. O!Finish(i)
      BY <1>2, <1>13, <2>1 DEF Finish, O!Finish
    <2> QED
      BY <2>2 DEF O!Progress
  <1>14. CASE CloseServer(i)
    <2>1. OrderedReg' = [OrderedReg EXCEPT ![i] = {}]
      <3>1. reg'[i] = {} /\ \A k \in Rank \ {i} : reg'[k] = reg[k]
        BY <1>14 DEF CloseServer, OrderedTypeOK
      <3> QED
        BY <3>1 DEF OrderedReg
    <2>2. O!CloseServer(i)
      BY <1>2, <1>14, <2>1 DEF CloseServer, O!CloseServer
    <2> QED
      BY <2>2 DEF O!Progress
  <1> QED
    BY <1>4, <1>5, <1>6, <1>7, <1>8, <1>9, <1>10, <1>11, <1>12, <1>13, <1>14 DEF Ordered

(* A step of the two together is one of MeshCollective, on its part of the *)
(* registry, or leaves that part alone.                                    *)
LEMMA StepOrdered ==
  ASSUME OrderedTypeOK, [TaggedNext]_TagVars
  PROVE  [O!Next]_(O!vars) /\ OrderedTypeOK'
  <1>1. ASSUME NEW i \in Rank, MainStep(i) PROVE O!Next /\ OrderedTypeOK'
    <2>1. O!Progress(i) /\ OrderedTypeOK'
      BY <1>1, OrderedImitated, OrderedTypeStep DEF MainStep
    <2> QED
      BY <2>1 DEF O!Next, O!Rank, Rank
  <1>2. ASSUME NEW i \in Rank, NEW t \in Tag, TagStep(i, t)
        PROVE  UNCHANGED O!vars /\ OrderedTypeOK'
    BY <1>2, TagStepUnseen
  <1>3. CASE UNCHANGED TagVars
    BY <1>3 DEF TagVars, vars, O!vars, OrderedReg, OrderedTypeOK, InCall
  <1> QED
    BY <1>1, <1>2, <1>3 DEF TaggedNext

(* The ordered side starts as MeshCollective does.                         *)
LEMMA InitOrdered == TaggedInit => O!Init /\ OrderedTypeOK
  <1> SUFFICES ASSUME TaggedInit PROVE O!Init /\ OrderedTypeOK
    OBVIOUS
  <1>1. Init
    BY DEF TaggedInit
  <1>2. OrderedReg = [i \in Rank |-> {}]
    BY <1>1 DEF Init, OrderedReg
  <1>3. O!Init
    BY <1>1, <1>2 DEF Init, O!Init, O!Rank, Rank, O!Round, Round, O!NoReturn, NoReturn
  <1>4. \A i \in Rank : ~InCall(i)
    BY <1>1 DEF Init, InCall, Calling
  <1>5. 0 \in 0 .. MaxRound /\ 0 \in 0 .. NPeers /\ "start" \in Label
    BY DEF Label
  <1>6. OrderedTypeOK
    BY <1>1, <1>4, <1>5 DEF Init, OrderedTypeOK
  <1> QED
    BY <1>3, <1>6

(* In every execution the ordered side keeps its shape.                    *)
LEMMA OrderedTyped == TaggedSpec => []OrderedTypeOK
  <1>1. OrderedTypeOK /\ [TaggedNext]_TagVars => OrderedTypeOK'
    BY StepOrdered
  <1> QED
    BY <1>1, InitOrdered, PTL DEF TaggedSpec, TagVars

(* An ordered and a tagged collective in flight together share the         *)
(* registries, and yet the ordered ones find, register, release and        *)
(* reclaim what they would without the tagged: all that is proved of       *)
(* MeshCollective holds of them.                                           *)
THEOREM OrderedUndisturbed == TaggedSpec => O!Spec
  <1>1. OrderedTypeOK /\ [TaggedNext]_TagVars => [O!Next]_(O!vars)
    BY StepOrdered
  <1> QED
    BY <1>1, InitOrdered, OrderedTyped, PTL DEF TaggedSpec, TagVars, O!Spec

-----------------------------------------------------------------------------
(* The operation of a use is one the application may call.                 *)
LEMMA TagOpType ==
  ASSUME TaggedTypeOK, NEW i \in Rank, NEW t \in Tag, tuse[i][t] > 0
  PROVE  /\ TagCur(i, t) \in Nat /\ tuse[i][t] = TagCur(i, t) + 1
         /\ TagOp(i, t) = tplan[t][tuse[i][t]] /\ TagOp(i, t) \in Ops
         /\ TagOp(i, t).root \in Rank
         /\ TagOp(i, t).kind \in {"allreduce", "allgather", "broadcast"}
  <1>1. tuse[i][t] \in 1 .. Len(tplan[t]) /\ tplan[t] \in Seq(Ops)
    BY DEF TaggedTypeOK
  <1>2. tuse[i][t] - 1 + 1 = tuse[i][t]
    BY <1>1
  <1>3. TagOp(i, t) = tplan[t][tuse[i][t]] /\ tplan[t][tuse[i][t]] \in Ops
    BY <1>1, <1>2 DEF TagOp, TagCur
  <1> QED
    BY <1>1, <1>3, OpRoot DEF TagCur

(* What a rank publishes is an entry, and what it returns a return.        *)
LEMMA TagTypes ==
  ASSUME NEW op \in Ops, NEW t \in Tag, NEW u \in Nat, NEW v \in TagContents
  PROVE  /\ \A kind \in TagKinds : TagEntry(kind, op, t, v) \in TagEntries
         /\ Ok(u, v) \in TagReturns /\ Error(u) \in TagReturns
  <1>1. op.kind \in {"allreduce", "allgather", "broadcast"} /\ {} \in TagContents
    BY OpRoot DEF TagContents
  <1> QED
    BY <1>1 DEF TagEntry, Ok, Error, TagEntries, TagReturns

(* A step of rank i with id t leaves everything else alone.                *)
LEMMA TagStepLocal ==
  ASSUME TaggedTypeOK, NEW i \in Rank, NEW t \in Tag, TagStep(i, t)
  PROVE  /\ tplan' = tplan /\ pc' = pc
         /\ \A k \in Rank, s \in Tag : k # i \/ s # t =>
              /\ tuse'[k][s] = tuse[k][s] /\ tpc'[k][s] = tpc[k][s]
              /\ tcursor'[k][s] = tcursor[k][s] /\ tbuf'[k][s] = tbuf[k][s]
              /\ treg'[k][s] = treg[k][s] /\ tlast'[k][s] = tlast[k][s]
  <1>1. tplan' = tplan /\ pc' = pc
    BY DEF TagStep, TagCall, TagCollect, TagCollected, TagFetch, TagFetchFail,
           TagPublishToken, TagAwaitToken, TagFinish, TagBarrierFail, TagRelease
  <1> DEFINE Same(k, s) ==
               /\ tuse'[k][s] = tuse[k][s] /\ tpc'[k][s] = tpc[k][s]
               /\ tcursor'[k][s] = tcursor[k][s] /\ tbuf'[k][s] = tbuf[k][s]
               /\ tlast'[k][s] = tlast[k][s]
  <1>2. SUFFICES ASSUME NEW k \in Rank, NEW s \in Tag, k # i \/ s # t
                 PROVE  Same(k, s)
    <2>1. treg \in [Rank -> [Tag -> SUBSET TagEntries]]
      BY DEF TaggedTypeOK
    <2>2. \A k \in Rank, s \in Tag : k # i \/ s # t => treg'[k][s] = treg[k][s]
      BY <2>1, TagStepRegistry DEF Set
    <2> QED
      BY <1>1, <2>2
  <1>3. CASE TagCall(i, t)
    BY <1>2, <1>3 DEF TagCall, Set, TaggedTypeOK
  <1>4. CASE TagCollect(i, t)
    BY <1>2, <1>4 DEF TagCollect, Set, TaggedTypeOK
  <1>5. CASE TagCollected(i, t)
    BY <1>2, <1>5 DEF TagCollected, Set, TaggedTypeOK
  <1>6. CASE TagFetch(i, t)
    BY <1>2, <1>6 DEF TagFetch, Set, TaggedTypeOK
  <1>7. CASE TagFetchFail(i, t)
    BY <1>2, <1>7 DEF TagFetchFail, TagReturn, Set, TaggedTypeOK
  <1>8. CASE TagPublishToken(i, t)
    BY <1>2, <1>8 DEF TagPublishToken, Set, TaggedTypeOK
  <1>9. CASE TagAwaitToken(i, t)
    BY <1>2, <1>9 DEF TagAwaitToken, Set, TaggedTypeOK
  <1>10. CASE TagFinish(i, t)
    BY <1>2, <1>10 DEF TagFinish, TagReturn, Set, TaggedTypeOK
  <1>11. CASE TagBarrierFail(i, t)
    BY <1>2, <1>11 DEF TagBarrierFail, TagReturn, Set, TaggedTypeOK
  <1>12. CASE TagRelease(i, t)
    BY <1>2, <1>12 DEF TagRelease, Set, TaggedTypeOK
  <1> QED
    BY <1>3, <1>4, <1>5, <1>6, <1>7, <1>8, <1>9, <1>10, <1>11, <1>12 DEF TagStep

(* The entries of an id after a step that changed them.                    *)
LEMMA EntriesAfter ==
  ASSUME TaggedTypeOK, NEW i \in Rank, NEW t \in Tag, NEW new, treg' = Set(treg, i, t, new)
  PROVE  treg'[i][t] = new
  BY DEF TaggedTypeOK, Set

(* A rank in a tagged call is in a use of the id.                          *)
LEMMA InUse ==
  ASSUME TaggedInv, NEW i \in Rank, NEW t \in Tag, TagCalling(i, t)
  PROVE  /\ TaggedTypeOK /\ TagCallSound(i, t)
         /\ TagCur(i, t) \in Nat /\ tuse[i][t] = TagCur(i, t) + 1
         /\ TagOp(i, t) = tplan[t][tuse[i][t]] /\ TagOp(i, t) \in Ops
         /\ TagOp(i, t).root \in Rank
         /\ TagOp(i, t).kind \in {"allreduce", "allgather", "broadcast"}
  <1>1. TaggedTypeOK /\ TagCallSound(i, t)
    BY DEF TaggedInv, TagSound
  <1>2. tuse[i][t] > 0
    BY <1>1 DEF TagCallSound
  <1> QED
    BY <1>1, <1>2, TagOpType

(* An entry found under the name of an id is one of the finder's own use   *)
(* of it: a rank that is behind has no entry, one that is ahead would have *)
(* had to wait for the finder.                                             *)
LEMMA FindsOwnUse ==
  ASSUME TaggedInv, NEW i \in Rank, NEW p \in Rank, NEW t \in Tag, NEW kind,
         TagCalling(i, t), NEW e \in TagFind(p, t, kind, TagOp(i, t))
  PROVE  /\ tuse[p][t] = tuse[i][t]
         /\ TagCur(p, t) = TagCur(i, t) /\ TagOp(p, t) = TagOp(i, t)
         /\ TagEntrySound(p, t, e) /\ e.kind = kind
  <1>1. /\ TaggedTypeOK /\ BehindIsFree(t)
        /\ e \in treg[p][t] /\ e.kind = kind /\ TagEntrySound(p, t, e)
    BY DEF TaggedInv, TagSound, TagFind
  <1>2. ~(tuse[p][t] < tuse[i][t]) /\ ~(tuse[i][t] < tuse[p][t])
    BY <1>1 DEF BehindIsFree
  <1>3. tuse[p][t] \in Nat /\ tuse[i][t] \in Nat
    BY <1>1 DEF TaggedTypeOK
  <1>4. tuse[p][t] = tuse[i][t]
    BY <1>2, <1>3
  <1> QED
    BY <1>1, <1>4 DEF TagCur, TagOp

(* Every tagged step keeps the shape of the state.                         *)
LEMMA TagTypeStep ==
  ASSUME TaggedInv, NEW i \in Rank, NEW t \in Tag, TagStep(i, t)
  PROVE  TaggedTypeOK'
  <1>0. TaggedTypeOK
    BY DEF TaggedInv
  <1>1. CASE TagCall(i, t)
    <2> DEFINE u == tuse[i][t]
               op == tplan[t][u + 1]
    <2>1. u \in Nat /\ op \in Ops /\ u + 1 <= Len(tplan[t]) /\ u + 1 \in Nat
      BY <1>0, <1>1 DEF TaggedTypeOK, TagCall
    <2>2. {<<i, u>>} \in TagContents
      BY <2>1 DEF TagContents
    <2>3. TagEntry("in", op, t, {<<i, u>>}) \in TagEntries
      BY <2>1, <2>2, TagTypes DEF TagKinds
    <2>4. AfterPublish(i, op) \in TagLabel /\ FirstPeer(i) \in 0 .. NPeers
      BY LoopBounds DEF AfterPublish, TagLabel, Calling
    <2>5. /\ tplan' = tplan /\ tlast' = tlast
          /\ tuse' = Set(tuse, i, t, u + 1)
          /\ tbuf' = Set(tbuf, i, t, {<<i, u>>})
          /\ tcursor' = Set(tcursor, i, t, FirstPeer(i))
          /\ tpc' = Set(tpc, i, t, AfterPublish(i, op))
      BY <1>1 DEF TagCall
    <2>reg. treg' = treg \/ treg' = Set(treg, i, t, {TagEntry("in", op, t, {<<i, u>>})})
      BY <1>0, <1>1, TagCallRegistry DEF TaggedTypeOK
    <2>ord. OrderedTypeOK'
      BY <1>0, TagStepUnseen DEF TaggedTypeOK
    <2> HIDE DEF u, op
    <2>6. /\ tuse' \in [Rank -> [Tag -> Nat]]
          /\ tpc' \in [Rank -> [Tag -> TagLabel]]
          /\ tcursor' \in [Rank -> [Tag -> 0 .. NPeers]]
          /\ tbuf' \in [Rank -> [Tag -> TagContents]]
      BY <1>0, <2>1, <2>2, <2>4, <2>5 DEF Set, TaggedTypeOK
    <2>7. treg' \in [Rank -> [Tag -> SUBSET TagEntries]]
      <3>1. treg \in [Rank -> [Tag -> SUBSET TagEntries]]
        BY <1>0 DEF TaggedTypeOK
      <3>2. PICK new \in SUBSET TagEntries : new = {TagEntry("in", op, t, {<<i, u>>})}
        BY <2>3
      <3>3. treg' = treg \/ treg' = Set(treg, i, t, new)
        BY <2>reg, <3>2
      <3>4. CASE treg' = Set(treg, i, t, new)
        BY <3>1, <3>4 DEF Set
      <3> QED
        BY <3>1, <3>3, <3>4
    <2>8. \A k \in Rank, s \in Tag : tuse'[k][s] <= Len(tplan'[s])
      BY <1>0, <2>1, <2>5 DEF Set, TaggedTypeOK
    <2> QED
      BY <2>5, <2>6, <2>7, <2>8, <2>ord, <1>0 DEF TaggedTypeOK
  <1>2. CASE ~TagCall(i, t)
    <2>1. tplan' = tplan /\ tuse' = tuse
      BY <1>2 DEF TagStep, TagCollect, TagCollected, TagFetch, TagFetchFail,
           TagPublishToken, TagAwaitToken, TagFinish, TagBarrierFail, TagRelease
    <2>2. tpc' = tpc \/ \E x \in TagLabel : tpc' = Set(tpc, i, t, x)
      BY <1>2 DEF TagStep, TagCollect, TagCollected, TagFetch, TagFetchFail,
           TagPublishToken, TagAwaitToken, TagFinish, TagBarrierFail, TagRelease,
           TagReturn, TagLabel, Calling
    <2>3. tcursor' = tcursor \/ \E x \in 0 .. NPeers : tcursor' = Set(tcursor, i, t, x)
      <3>1. CASE TagCollect(i, t) \/ TagAwaitToken(i, t)
        BY <1>0, <3>1, LoopBounds DEF TagCollect, TagAwaitToken, TaggedTypeOK
      <3>2. CASE TagPublishToken(i, t)
        BY <3>2, LoopBounds DEF TagPublishToken
      <3> QED
        BY <1>2, <3>1, <3>2 DEF TagStep, TagCollected, TagFetch, TagFetchFail,
           TagFinish, TagBarrierFail, TagRelease
    <2>4. tbuf' = tbuf \/ \E x \in TagContents : tbuf' = Set(tbuf, i, t, x)
      <3>1. CASE TagCollect(i, t)
        <4>1. tcursor[i][t] \in Rank
          BY <1>0, <3>1 DEF TagCollect, TaggedTypeOK, Rank
        <4>2. PICK e \in treg[tcursor[i][t]][t] :
                tbuf' = Set(tbuf, i, t, tbuf[i][t] \cup e.val)
          BY <3>1 DEF TagCollect, TagFind
        <4>3. e \in TagEntries /\ tbuf[i][t] \in TagContents
          BY <1>0, <4>1, <4>2 DEF TaggedTypeOK
        <4>4. e.val \in TagContents
          BY <4>3 DEF TagEntries
        <4>5. tbuf[i][t] \cup e.val \in TagContents
          BY <4>3, <4>4 DEF TagContents
        <4> QED
          BY <4>2, <4>5
      <3>2. CASE TagFetch(i, t)
        <4>1. TagOp(i, t).root \in Rank
          BY <3>2, InUse DEF TagFetch, TagCalling
        <4> QED
          <5>1. PICK e \in treg[TagOp(i, t).root][t] : tbuf' = Set(tbuf, i, t, e.val)
            BY <3>2 DEF TagFetch, TagFind
          <5>2. e \in TagEntries
            BY <1>0, <4>1, <5>1 DEF TaggedTypeOK
          <5>3. e.val \in TagContents
            BY <5>2 DEF TagEntries
          <5> QED
            BY <5>1, <5>3
      <3> QED
        BY <1>2, <3>1, <3>2 DEF TagStep, TagCollected, TagFetchFail,
           TagPublishToken, TagAwaitToken, TagFinish, TagBarrierFail, TagRelease
    <2>5. treg' = treg \/ \E x \in SUBSET TagEntries : treg' = Set(treg, i, t, x)
      <3>1. treg[i][t] \in SUBSET TagEntries /\ OrderedTypeOK
        BY <1>0 DEF TaggedTypeOK
      <3>2. CASE TagCollected(i, t)
        <4> DEFINE new == TagEntry("out", TagOp(i, t), t, tbuf[i][t])
        <4>1. TagOp(i, t) \in Ops /\ TagCur(i, t) \in Nat /\ tbuf[i][t] \in TagContents
          BY <1>0, <3>2, InUse DEF TagCollected, TagCalling, TaggedTypeOK
        <4>2. treg[i][t] \cup {new} \in SUBSET TagEntries
          BY <3>1, <4>1, TagTypes DEF TagKinds
        <4>3. treg' = treg \/ treg' = Set(treg, i, t, treg[i][t] \cup {new})
          BY <3>1, <3>2, TagCollectedRegistry
        <4> QED
          BY <4>2, <4>3
      <3>3. CASE TagPublishToken(i, t)
        <4> DEFINE new == TagEntry("done", TagOp(i, t), t, {})
        <4>1. TagOp(i, t) \in Ops /\ TagCur(i, t) \in Nat /\ {} \in TagContents
          BY <1>0, <3>3, InUse DEF TagPublishToken, TagCalling, TagContents
        <4>2. treg[i][t] \cup {new} \in SUBSET TagEntries
          BY <3>1, <4>1, TagTypes DEF TagKinds
        <4>3. treg' = Set(treg, i, t, treg[i][t] \cup {new})
          BY <3>1, <3>3, TagPublishTokenRegistry
        <4> QED
          BY <4>2, <4>3
      <3>4. CASE TagFetchFail(i, t) \/ TagFinish(i, t) \/ TagRelease(i, t)
        <4>1. \/ treg' = Set(treg, i, t, {e \in treg[i][t] : e.kind # "in"})
              \/ treg' = Set(treg, i, t, {e \in treg[i][t] : e.kind = "done"})
              \/ treg' = Set(treg, i, t, {})
          BY <1>0, <3>1, <3>4, TagFetchFailRegistry, TagFinishRegistry, TagReleaseRegistry
        <4>2. /\ {e \in treg[i][t] : e.kind # "in"} \in SUBSET TagEntries
              /\ {e \in treg[i][t] : e.kind = "done"} \in SUBSET TagEntries
              /\ {} \in SUBSET TagEntries
          BY <3>1
        <4> QED
          BY <4>1, <4>2
      <3>5. CASE UNCHANGED reg
        BY <3>5, SameRegistry
      <3> QED
        BY <1>2, <3>2, <3>3, <3>4, <3>5 DEF TagStep, TagCollect, TagFetch,
           TagAwaitToken, TagBarrierFail
    <2>6. tlast' = tlast \/ \E x \in TagReturns : tlast' = Set(tlast, i, t, x)
      <3>1. CASE TagFetchFail(i, t) \/ TagFinish(i, t) \/ TagBarrierFail(i, t)
        <4>1. TagOp(i, t) \in Ops /\ TagCur(i, t) \in Nat /\ tbuf[i][t] \in TagContents
          BY <1>0, <3>1, InUse DEF TagFetchFail, TagFinish, TagBarrierFail, TagCalling,
             TaggedTypeOK
        <4>2. Ok(TagCur(i, t), tbuf[i][t]) \in TagReturns /\ Error(TagCur(i, t)) \in TagReturns
          BY <4>1, TagTypes
        <4> QED
          BY <3>1, <4>2 DEF TagFetchFail, TagFinish, TagBarrierFail, TagReturn
      <3> QED
        BY <1>2, <3>1 DEF TagStep, TagCollect, TagCollected, TagFetch,
           TagPublishToken, TagAwaitToken, TagRelease
    <2>7. tpc' \in [Rank -> [Tag -> TagLabel]]
      <3>1. tpc \in [Rank -> [Tag -> TagLabel]]
        BY <1>0 DEF TaggedTypeOK
      <3>2. ASSUME NEW x \in TagLabel, tpc' = Set(tpc, i, t, x)
            PROVE  tpc' \in [Rank -> [Tag -> TagLabel]]
        BY <3>1, <3>2 DEF Set
      <3> QED
        BY <2>2, <3>1, <3>2
    <2>8. tcursor' \in [Rank -> [Tag -> 0 .. NPeers]]
      <3>1. tcursor \in [Rank -> [Tag -> 0 .. NPeers]]
        BY <1>0 DEF TaggedTypeOK
      <3>2. ASSUME NEW x \in 0 .. NPeers, tcursor' = Set(tcursor, i, t, x)
            PROVE  tcursor' \in [Rank -> [Tag -> 0 .. NPeers]]
        BY <3>1, <3>2 DEF Set
      <3> QED
        BY <2>3, <3>1, <3>2
    <2>9. tbuf' \in [Rank -> [Tag -> TagContents]]
      <3>1. tbuf \in [Rank -> [Tag -> TagContents]]
        BY <1>0 DEF TaggedTypeOK
      <3>2. ASSUME NEW x \in TagContents, tbuf' = Set(tbuf, i, t, x)
            PROVE  tbuf' \in [Rank -> [Tag -> TagContents]]
        BY <3>1, <3>2 DEF Set
      <3> QED
        BY <2>4, <3>1, <3>2
    <2>10. treg' \in [Rank -> [Tag -> SUBSET TagEntries]]
      <3>1. treg \in [Rank -> [Tag -> SUBSET TagEntries]]
        BY <1>0 DEF TaggedTypeOK
      <3>2. ASSUME NEW x \in SUBSET TagEntries, treg' = Set(treg, i, t, x)
            PROVE  treg' \in [Rank -> [Tag -> SUBSET TagEntries]]
        BY <3>1, <3>2 DEF Set
      <3> QED
        BY <2>5, <3>1, <3>2
    <2>11. tlast' \in [Rank -> [Tag -> TagReturns]]
      <3>1. tlast \in [Rank -> [Tag -> TagReturns]]
        BY <1>0 DEF TaggedTypeOK
      <3>2. ASSUME NEW x \in TagReturns, tlast' = Set(tlast, i, t, x)
            PROVE  tlast' \in [Rank -> [Tag -> TagReturns]]
        BY <3>1, <3>2 DEF Set
      <3> QED
        BY <2>6, <3>1, <3>2
    <2>12. OrderedTypeOK'
      BY <1>0, TagStepUnseen DEF TaggedTypeOK
    <2> QED
      BY <1>0, <2>1, <2>7, <2>8, <2>9, <2>10, <2>11, <2>12 DEF TaggedTypeOK
  <1> QED
    BY <1>1, <1>2

-----------------------------------------------------------------------------
(* A step that leaves an id alone, and lets no rank with a call of it shut *)
(* down, keeps what is known of the id.                                    *)
LEMMA OtherTags ==
  ASSUME NEW t \in Tag, TagSound(t), tplan' = tplan,
         \A k \in Rank : TagCalling(k, t) => pc'[k] \in Calling \cup {"idle"},
         \A k \in Rank :
           /\ tuse'[k][t] = tuse[k][t] /\ tpc'[k][t] = tpc[k][t]
           /\ tcursor'[k][t] = tcursor[k][t] /\ tbuf'[k][t] = tbuf[k][t]
           /\ treg'[k][t] = treg[k][t] /\ tlast'[k][t] = tlast[k][t]
  PROVE  TagSound(t)'
  <1>1. BehindIsFree(t)'
    BY DEF TagSound, BehindIsFree, TagCalling
  <1>2. \A k \in Rank : \A u : PastReading(k, t, u) => PastReading(k, t, u)'
    BY DEF PastReading
  <1>3. ASSUME NEW k \in Rank
        PROVE  /\ TagCur(k, t)' = TagCur(k, t) /\ TagOp(k, t)' = TagOp(k, t)
               /\ TagCalling(k, t)' <=> TagCalling(k, t)
               /\ \A kind, op : TagFind(k, t, kind, op)' = TagFind(k, t, kind, op)
    BY DEF TagCur, TagOp, TagCalling, TagFind
  <1>4. ASSUME NEW k \in Rank, NEW e \in treg'[k][t] PROVE TagEntrySound(k, t, e)'
    BY <1>3, <1>4 DEF TagSound, TagEntrySound
  <1>5. ASSUME NEW k \in Rank, TagCalling(k, t)' PROVE TagCallSound(k, t)'
    <2>1. TagCallSound(k, t) /\ pc'[k] \in Calling \cup {"idle"}
      BY <1>3, <1>5 DEF TagSound
    <2> QED
      BY <1>2, <1>3, <2>1 DEF TagCallSound
  <1>6. ASSUME NEW k \in Rank PROVE TagReturnSound(k, t)'
    BY <1>2 DEF TagSound, TagReturnSound
  <1>7. ASSUME NEW k \in Rank PROVE TagTokenKept(k, t)'
    BY <1>3 DEF TagSound, TagTokenKept
  <1> QED
    BY <1>1, <1>4, <1>5, <1>6, <1>7 DEF TagSound

(* Rank i does something with id t, but begins no use of it.               *)
Moves(i, t) ==
  /\ tplan' = tplan /\ pc' = pc
  /\ \A k \in Rank : tuse'[k][t] = tuse[k][t]
  /\ \A k \in Rank : k # i =>
       /\ tpc'[k][t] = tpc[k][t] /\ tcursor'[k][t] = tcursor[k][t]
       /\ tbuf'[k][t] = tbuf[k][t] /\ treg'[k][t] = treg[k][t]
       /\ tlast'[k][t] = tlast[k][t]
  /\ tpc[i][t] \in {"barrier", "idle"} => tpc'[i][t] \in {"barrier", "idle"}
  /\ ~TagCalling(i, t) => ~TagCalling(i, t)' /\ treg'[i][t] \subseteq treg[i][t]

(* Then what is known of the other ranks stays known.                      *)
LEMMA OtherRanks ==
  ASSUME TaggedInv, NEW i \in Rank, NEW t \in Tag, Moves(i, t)
  PROVE  /\ BehindIsFree(t)'
         /\ \A k \in Rank : \A u : PastReading(k, t, u) => PastReading(k, t, u)'
         /\ \A k \in Rank : TagCur(k, t)' = TagCur(k, t) /\ TagOp(k, t)' = TagOp(k, t)
         /\ \A k \in Rank : k # i =>
              /\ \A e \in treg'[k][t] : TagEntrySound(k, t, e)'
              /\ TagCalling(k, t)' => TagCallSound(k, t)'
              /\ TagReturnSound(k, t)'
              /\ TagTokenKept(k, t)'
  <1>0. TagSound(t)
    BY DEF TaggedInv
  <1>1. BehindIsFree(t)'
    <2> SUFFICES ASSUME NEW k \in Rank, NEW j \in Rank, tuse'[j][t] < tuse'[k][t]
                 PROVE  /\ tuse'[k][t] = tuse'[j][t] + 1
                        /\ ~TagCalling(j, t)' /\ treg'[j][t] = {}
      BY DEF BehindIsFree
    <2>1. tuse[k][t] = tuse[j][t] + 1 /\ ~TagCalling(j, t) /\ treg[j][t] = {}
      BY <1>0 DEF Moves, TagSound, BehindIsFree
    <2> QED
      BY <2>1 DEF Moves, TagCalling
  <1>2. \A k \in Rank : \A u : PastReading(k, t, u) => PastReading(k, t, u)'
    BY DEF PastReading, Moves
  <1>3. ASSUME NEW k \in Rank
        PROVE  /\ TagCur(k, t)' = TagCur(k, t) /\ TagOp(k, t)' = TagOp(k, t)
               /\ TagCalling(k, t)' => TagCalling(k, t)
    BY DEF TagCur, TagOp, TagCalling, Moves
  <1>4. ASSUME NEW k \in Rank, k # i, NEW e \in treg'[k][t] PROVE TagEntrySound(k, t, e)'
    <2>1. e \in treg[k][t] /\ tpc'[k][t] = tpc[k][t]
      BY <1>4 DEF Moves
    <2>2. TagEntrySound(k, t, e)
      BY <1>0, <2>1 DEF TagSound
    <2>3. \A j \in Rank : tuse'[j][t] = tuse[j][t]
      BY DEF Moves
    <2> QED
      BY <1>3, <2>1, <2>2, <2>3 DEF TagEntrySound
  <1>5. ASSUME NEW k \in Rank, k # i, TagCalling(k, t)' PROVE TagCallSound(k, t)'
    <2>1. TagCallSound(k, t)
      BY <1>0, <1>3, <1>5 DEF TagSound
    <2>2. \A kind, op : TagFind(k, t, kind, op)' = TagFind(k, t, kind, op)
      BY <1>5 DEF TagFind, Moves
    <2>3. /\ tpc'[k][t] = tpc[k][t] /\ tcursor'[k][t] = tcursor[k][t]
          /\ tbuf'[k][t] = tbuf[k][t] /\ pc' = pc
          /\ \A j \in Rank : tuse'[j][t] = tuse[j][t]
      BY <1>5 DEF Moves
    <2> QED
      BY <1>2, <1>3, <2>1, <2>2, <2>3 DEF TagCallSound
  <1>6. ASSUME NEW k \in Rank, k # i PROVE TagReturnSound(k, t)'
    BY <1>0, <1>2, <1>6 DEF TagSound, TagReturnSound, Moves
  <1>7. ASSUME NEW k \in Rank, k # i PROVE TagTokenKept(k, t)'
    <2>1. \A kind, op : TagFind(k, t, kind, op)' = TagFind(k, t, kind, op)
      BY <1>7 DEF TagFind, Moves
    <2> QED
      BY <1>0, <1>3, <1>7, <2>1 DEF TagSound, TagTokenKept, Moves
  <1> QED
    BY <1>1, <1>2, <1>3, <1>4, <1>5, <1>6, <1>7

(* And if it neither succeeds nor takes a token back, only its entries and *)
(* its call have to be looked at.                                          *)
LEMMA OwnRank ==
  ASSUME TaggedInv, NEW i \in Rank, NEW t \in Tag, Moves(i, t),
         tlast'[i][t] = tlast[i][t] \/ tlast'[i][t].status # "ok",
         \A e \in treg[i][t] : e.kind = "done" => e \in treg'[i][t],
         \A e \in treg'[i][t] : TagEntrySound(i, t, e)',
         TagCalling(i, t)' => TagCallSound(i, t)'
  PROVE  TagSound(t)'
  <1>0. TagSound(t)
    BY DEF TaggedInv
  <1>1. TagReturnSound(i, t)'
    BY <1>0, OtherRanks DEF TagSound, TagReturnSound, Moves
  <1>2. TagTokenKept(i, t)'
    <2>1. \A op : TagFind(i, t, "done", op) \subseteq TagFind(i, t, "done", op)'
      BY DEF TagFind
    <2>2. \A k \in Rank : TagCalling(k, t)' => TagCalling(k, t)
      BY DEF Moves, TagCalling
    <2> QED
      BY <1>0, <2>1, <2>2, OtherRanks DEF TagSound, TagTokenKept, Moves
  <1> QED
    BY <1>1, <1>2, OtherRanks DEF TagSound

(* What was published stays sound, the mover's own entries included.       *)
LEMMA OldTagEntries ==
  ASSUME TaggedInv, NEW i \in Rank, NEW t \in Tag, Moves(i, t),
         NEW e \in treg[i][t]
  PROVE  TagEntrySound(i, t, e)'
  <1>1. TagEntrySound(i, t, e)
    BY DEF TaggedInv, TagSound
  <1>2. \A j \in Rank : tuse'[j][t] = tuse[j][t]
    BY DEF Moves
  <1>3. tpc[i][t] \in {"barrier", "idle"} => tpc'[i][t] \in {"barrier", "idle"}
    BY DEF Moves
  <1> QED
    BY <1>1, <1>2, <1>3, OtherRanks DEF TagEntrySound

(* Every tagged step but a call moves a rank within its use.               *)
LEMMA StepMoves ==
  ASSUME TaggedInv, NEW i \in Rank, NEW t \in Tag, TagStep(i, t), ~TagCall(i, t)
  PROVE  Moves(i, t)
  <1>0. TaggedTypeOK
    BY DEF TaggedInv
  <1>1. tuse' = tuse
    BY DEF TagStep, TagCollect, TagCollected, TagFetch, TagFetchFail, TagPublishToken,
           TagAwaitToken, TagFinish, TagBarrierFail, TagRelease
  <1>2. \/ TagCalling(i, t) /\ (tpc[i][t] = "barrier" => tpc'[i][t] \in {"barrier", "idle"})
        \/ tpc' = tpc /\ TagRelease(i, t) /\ ~TagCalling(i, t)
    BY <1>0 DEF TagStep, TagCollect, TagCollected, TagFetch, TagFetchFail, TagPublishToken,
           TagAwaitToken, TagFinish, TagBarrierFail, TagRelease, TagReturn, TagCalling,
           Set, TaggedTypeOK
  <1>3. TagRelease(i, t) => treg'[i][t] = {}
    BY <1>0, TagReleaseRegistry, EntriesAfter
  <1> QED
    BY <1>0, <1>1, <1>2, <1>3, TagStepLocal DEF Moves, TagCalling

(* Collecting from a peer takes the input it put in for this use.          *)
LEMMA CollectSound ==
  ASSUME TaggedInv, NEW i \in Rank, NEW t \in Tag, TagCollect(i, t), Moves(i, t)
  PROVE  TagSound(t)'
  <1>1. /\ TagCalling(i, t) /\ TagCalling(i, t)' /\ tpc[i][t] = "collect"
        /\ tpc' = tpc /\ treg' = treg /\ tlast' = tlast /\ pc' = pc
    BY SameRegistry DEF TagCollect, TagCalling, Moves
  <1> DEFINE u == TagCur(i, t)
  <1>2. /\ TaggedTypeOK /\ TagCallSound(i, t) /\ u \in Nat
        /\ tuse[i][t] = u + 1
    BY <1>1, InUse
  <1>3. PICK p \in Rank : p = tcursor[i][t]
    BY <1>2 DEF TagCollect, TaggedTypeOK, Rank
  <1>4. PICK e \in TagFind(p, t, "in", TagOp(i, t)) :
          tbuf' = Set(tbuf, i, t, tbuf[i][t] \cup e.val)
    BY <1>3 DEF TagCollect
  <1>5. /\ tuse[p][t] = u + 1 /\ e.val = {<<p, u>>}
    BY <1>1, <1>2, <1>4, FindsOwnUse DEF TagEntrySound
  <1>6. /\ tcursor'[i][t] = NextPeer(i, p)
        /\ tbuf'[i][t] = tbuf[i][t] \cup {<<p, u>>}
    BY <1>2, <1>3, <1>4, <1>5 DEF TagCollect, Set, TaggedTypeOK
  <1>7. /\ TagCur(i, t)' = u /\ TagOp(i, t)' = TagOp(i, t)
        /\ \A j \in Rank : tuse'[j][t] = tuse[j][t]
    BY OtherRanks DEF Moves
  <1> HIDE DEF u
  <1>8. /\ tbuf[i][t] = {<<i, u>>} \cup {<<j, u>> : j \in {j \in Rank : j < p}}
        /\ \A j \in Rank : j < p => tuse[j][t] > u
        /\ TagOp(i, t).kind # "broadcast"
        /\ pc[i] \in Calling \cup {"idle"}
    BY <1>1, <1>2, <1>3 DEF TagCallSound, u
  <1>9. {<<i, u>>} \cup {<<j, u>> : j \in {j \in Rank : j < NextPeer(i, p)}}
          = tbuf[i][t] \cup {<<p, u>>}
    BY <1>8, LoopStep
  <1>10. \A j \in Rank : j < NextPeer(i, p) => tuse[j][t] > u
    BY <1>2, <1>5, <1>8, LoopStep
  <1>11. TagCallSound(i, t)'
    BY <1>1, <1>2, <1>6, <1>7, <1>8, <1>9, <1>10 DEF TagCallSound
  <1> QED
    BY <1>1, <1>11, OwnRank, OldTagEntries

(* When the loop over the peers has ended, every rank's input is in.       *)
LEMMA CollectedSound ==
  ASSUME TaggedInv, NEW i \in Rank, NEW t \in Tag, TagCollected(i, t), Moves(i, t)
  PROVE  TagSound(t)'
  <1> DEFINE u == TagCur(i, t)
             op == TagOp(i, t)
  <1>1. /\ TagCalling(i, t) /\ tpc[i][t] = "collect"
        /\ tuse' = tuse /\ tlast' = tlast /\ tbuf' = tbuf /\ pc' = pc
    BY DEF TagCollected, TagCalling, Moves
  <1>2. /\ TaggedTypeOK /\ TagCallSound(i, t) /\ u \in Nat /\ tuse[i][t] = u + 1
    BY <1>1, InUse
  <1>3. tpc'[i][t] = "token"
    BY <1>2 DEF TagCollected, Set, TaggedTypeOK
  <1>4. {j \in Rank : j < tcursor[i][t]} = Rank
    BY <1>2 DEF TagCollected, TaggedTypeOK, Rank
  <1>5. /\ op.kind # "broadcast"
        /\ tbuf[i][t] = {<<i, u>>} \cup {<<j, u>> : j \in Rank}
        /\ \A j \in Rank : tuse[j][t] > u
        /\ pc[i] \in Calling \cup {"idle"}
    BY <1>1, <1>2, <1>4 DEF TagCallSound
  <1>6. /\ TagCur(i, t)' = u /\ TagOp(i, t)' = op
    BY OtherRanks
  <1> HIDE DEF u, op
  <1>7. tbuf[i][t] = Rank \X {u} /\ tbuf[i][t] = Inputs(op, u)
    BY <1>5 DEF Inputs
  <1>8. TagCallSound(i, t)'
    BY <1>1, <1>2, <1>3, <1>5, <1>6, <1>7 DEF TagCallSound
  <1>new. \/ treg' = treg
          \/ treg'[i][t] = treg[i][t] \cup {TagEntry("out", op, t, tbuf[i][t])}
    <2>1. \/ treg' = treg
          \/ treg' = Set(treg, i, t, treg[i][t] \cup {TagEntry("out", op, t, tbuf[i][t])})
      BY <1>2, TagCollectedRegistry DEF TaggedTypeOK, op
    <2> QED
      BY <1>2, <2>1, EntriesAfter
  <1>9. \A e \in treg'[i][t] : TagEntrySound(i, t, e)'
    <2> SUFFICES ASSUME NEW e \in treg'[i][t], e \notin treg[i][t]
                 PROVE  TagEntrySound(i, t, e)'
      BY OldTagEntries
    <2>1. e = TagEntry("out", op, t, tbuf[i][t])
      BY <1>new
    <2> QED
      BY <1>1, <1>2, <1>5, <1>6, <1>7, <2>1 DEF TagEntrySound, TagEntry
  <1>10. treg[i][t] \subseteq treg'[i][t]
    BY <1>new
  <1> QED
    BY <1>1, <1>8, <1>9, <1>10, OwnRank

(* What a rank fetches from the source is what the source has for this use. *)
LEMMA FetchSound ==
  ASSUME TaggedInv, NEW i \in Rank, NEW t \in Tag, TagFetch(i, t), Moves(i, t)
  PROVE  TagSound(t)'
  <1> DEFINE u == TagCur(i, t)
             op == TagOp(i, t)
  <1>1. /\ TagCalling(i, t) /\ treg' = treg /\ tuse' = tuse /\ tlast' = tlast /\ pc' = pc
    BY SameRegistry DEF TagFetch, TagCalling, Moves
  <1>2. /\ TaggedTypeOK /\ TagCallSound(i, t) /\ u \in Nat /\ tuse[i][t] = u + 1
        /\ op.root \in Rank
    BY <1>1, InUse
  <1>3. PICK e \in TagFind(op.root, t, SourceKind(op), op) : tbuf' = Set(tbuf, i, t, e.val)
    BY DEF TagFetch
  <1>4. /\ TagEntrySound(op.root, t, e) /\ TagCur(op.root, t) = u
        /\ e.kind = SourceKind(op)
    BY <1>1, <1>2, <1>3, FindsOwnUse
  <1>5. tbuf'[i][t] = e.val /\ tpc'[i][t] = "token"
    BY <1>2, <1>3 DEF TagFetch, Set, TaggedTypeOK
  <1>6. /\ TagCur(i, t)' = u /\ TagOp(i, t)' = op /\ pc[i] \in Calling \cup {"idle"}
    BY <1>2, OtherRanks DEF TagCallSound
  <1> HIDE DEF u, op
  <1>7. e.val = Inputs(op, u)
    BY <1>4 DEF TagEntrySound, SourceKind, Inputs
  <1>8. TagCallSound(i, t)'
    BY <1>1, <1>2, <1>5, <1>6, <1>7 DEF TagCallSound
  <1> QED
    BY <1>1, <1>8, OwnRank, OldTagEntries

(* A call that gives up says so, and takes at most its input back.         *)
LEMMA FailSound ==
  ASSUME TaggedInv, NEW i \in Rank, NEW t \in Tag, Moves(i, t),
         TagFetchFail(i, t) \/ TagBarrierFail(i, t)
  PROVE  TagSound(t)'
  <1>1. TaggedTypeOK
    BY DEF TaggedInv
  <1>2. tpc'[i][t] = "idle" /\ tlast'[i][t] = Error(TagCur(i, t))
    BY <1>1 DEF TagFetchFail, TagBarrierFail, TagReturn, Set, TaggedTypeOK
  <1>3. /\ treg'[i][t] \subseteq treg[i][t]
        /\ \A e \in treg[i][t] : e.kind = "done" => e \in treg'[i][t]
    <2>1. CASE TagFetchFail(i, t)
      <3>1. treg' = Set(treg, i, t, {e \in treg[i][t] : e.kind # "in"})
        BY <1>1, <2>1, TagFetchFailRegistry DEF TaggedTypeOK
      <3>2. treg'[i][t] = {e \in treg[i][t] : e.kind # "in"}
        BY <1>1, <3>1, EntriesAfter
      <3> QED
        BY <3>2
    <2>2. CASE TagBarrierFail(i, t)
      BY <2>2, SameRegistry DEF TagBarrierFail
    <2> QED
      BY <2>1, <2>2
  <1>4. ~TagCalling(i, t)' /\ tlast'[i][t].status # "ok"
    BY <1>2 DEF TagCalling, Error
  <1> QED
    BY <1>3, <1>4, OwnRank, OldTagEntries

(* The token says that the rank has read what it needs.                    *)
LEMMA TokenSound ==
  ASSUME TaggedInv, NEW i \in Rank, NEW t \in Tag, TagPublishToken(i, t), Moves(i, t)
  PROVE  TagSound(t)'
  <1>1. /\ TagCalling(i, t) /\ tpc[i][t] = "token"
        /\ tuse' = tuse /\ tlast' = tlast /\ tbuf' = tbuf /\ pc' = pc
    BY DEF TagPublishToken, TagCalling, Moves
  <1>2. /\ TaggedTypeOK /\ TagCallSound(i, t)
        /\ TagCur(i, t) \in Nat /\ tuse[i][t] = TagCur(i, t) + 1 /\ TagOp(i, t) \in Ops
    BY <1>1, InUse
  <1>3. PICK u \in Nat, op \in Ops : u = TagCur(i, t) /\ op = TagOp(i, t)
    BY <1>2
  <1>token. PICK token : token = TagEntry("done", op, t, {})
    OBVIOUS
  <1>4. /\ tpc'[i][t] = "barrier" /\ tcursor'[i][t] = FirstPeer(i)
        /\ tuse[i][t] = u + 1 /\ tuse'[i][t] = u + 1
    BY <1>1, <1>2, <1>3 DEF TagPublishToken, Set, TaggedTypeOK
  <1>new. treg'[i][t] = treg[i][t] \cup {token}
    <2>1. treg' = Set(treg, i, t, treg[i][t] \cup {token})
      BY <1>2, <1>3, <1>token, TagPublishTokenRegistry DEF TaggedTypeOK
    <2> QED
      BY <1>2, <2>1, EntriesAfter
  <1>5. /\ TagCur(i, t)' = u /\ TagOp(i, t)' = op
    BY <1>3, OtherRanks
  <1>6. tbuf'[i][t] = Inputs(op, u) /\ pc'[i] \in Calling \cup {"idle"}
    BY <1>1, <1>2, <1>3 DEF TagCallSound
  <1>7. \A j \in Rank : j < FirstPeer(i) => PastReading(j, t, u)'
    BY <1>4, LoopStep DEF PastReading
  <1>8. token.kind = "done" /\ token.op = op.kind /\ token \in TagFind(i, t, "done", op)'
    BY <1>token, <1>new DEF TagFind, TagEntry
  <1>9. TagCallSound(i, t)'
    BY <1>4, <1>5, <1>6, <1>7, <1>8 DEF TagCallSound
  <1>10. TagEntrySound(i, t, token)'
    BY <1>4, <1>5, <1>8 DEF TagEntrySound
  <1>11. \A e \in treg'[i][t] : TagEntrySound(i, t, e)'
    BY <1>new, <1>10, OldTagEntries
  <1> QED
    BY <1>1, <1>4, <1>new, <1>9, <1>11, OwnRank

(* Whose token is found under the name has read what it needs in this use. *)
LEMMA AwaitSound ==
  ASSUME TaggedInv, NEW i \in Rank, NEW t \in Tag, TagAwaitToken(i, t), Moves(i, t)
  PROVE  TagSound(t)'
  <1>1. /\ TagCalling(i, t) /\ TagCalling(i, t)' /\ tpc[i][t] = "barrier" /\ tpc' = tpc
        /\ tuse' = tuse /\ treg' = treg /\ tlast' = tlast /\ tbuf' = tbuf /\ pc' = pc
    BY SameRegistry DEF TagAwaitToken, TagCalling, Moves
  <1>2. /\ TaggedTypeOK /\ TagCallSound(i, t)
        /\ TagCur(i, t) \in Nat /\ tuse[i][t] = TagCur(i, t) + 1 /\ TagOp(i, t) \in Ops
    BY <1>1, InUse
  <1>3. PICK u \in Nat, op \in Ops : u = TagCur(i, t) /\ op = TagOp(i, t)
    BY <1>2
  <1>4. PICK p \in Rank : p = tcursor[i][t]
    BY <1>2 DEF TagAwaitToken, TaggedTypeOK, Rank
  <1>5. PICK e \in TagFind(p, t, "done", TagOp(i, t)) : TRUE
    BY <1>4 DEF TagAwaitToken
  <1>6. tuse[p][t] = u + 1 /\ tpc[p][t] \in {"barrier", "idle"}
    BY <1>1, <1>2, <1>3, <1>5, FindsOwnUse DEF TagEntrySound
  <1>7. /\ tcursor'[i][t] = NextPeer(i, p)
        /\ tuse[i][t] = u + 1
    BY <1>2, <1>3, <1>4 DEF TagAwaitToken, Set, TaggedTypeOK
  <1>8. /\ TagCur(i, t)' = u /\ TagOp(i, t)' = op
        /\ \A j \in Rank : PastReading(j, t, u) => PastReading(j, t, u)'
    BY <1>3, OtherRanks
  <1>9. /\ tbuf[i][t] = Inputs(op, u) /\ pc[i] \in Calling \cup {"idle"}
        /\ TagFind(i, t, "done", op) # {}
        /\ \A j \in Rank : j < p => PastReading(j, t, u)
    BY <1>1, <1>2, <1>3, <1>4 DEF TagCallSound
  <1>10. PastReading(p, t, u) /\ PastReading(i, t, u)
    BY <1>1, <1>6, <1>7 DEF PastReading
  <1>11. \A j \in Rank : j < NextPeer(i, p) => PastReading(j, t, u)'
    BY <1>8, <1>9, <1>10, LoopStep
  <1>12. TagFind(i, t, "done", op)' # {} /\ tbuf'[i][t] = Inputs(op, u)
         /\ pc'[i] \in Calling \cup {"idle"} /\ tuse'[i][t] = u + 1
         /\ tpc'[i][t] = "barrier"
    BY <1>1, <1>7, <1>9 DEF TagFind
  <1>13. TagCallSound(i, t)'
    BY <1>7, <1>8, <1>11, <1>12 DEF TagCallSound
  <1> QED
    BY <1>1, <1>13, OwnRank, OldTagEntries

(* Returning TC_OK: the barrier has passed every rank, and the token stays. *)
LEMMA FinishSound ==
  ASSUME TaggedInv, NEW i \in Rank, NEW t \in Tag, TagFinish(i, t), Moves(i, t)
  PROVE  TagSound(t)'
  <1>1. /\ TagCalling(i, t) /\ tpc[i][t] = "barrier" /\ tuse' = tuse /\ tplan' = tplan
    BY DEF TagFinish, TagCalling, Moves
  <1>2. /\ TaggedTypeOK /\ TagCallSound(i, t)
        /\ TagCur(i, t) \in Nat /\ tuse[i][t] = TagCur(i, t) + 1
        /\ TagOp(i, t) = tplan[t][tuse[i][t]] /\ TagOp(i, t) \in Ops
    BY <1>1, InUse
  <1>3. PICK u \in Nat, op \in Ops : u = TagCur(i, t) /\ op = TagOp(i, t)
    BY <1>2
  <1>4. {j \in Rank : j < tcursor[i][t]} = Rank
    BY <1>2 DEF TagFinish, TaggedTypeOK, Rank
  <1>5. /\ tbuf[i][t] = Inputs(op, u)
        /\ TagFind(i, t, "done", op) # {}
        /\ \A j \in Rank : PastReading(j, t, u)
    BY <1>1, <1>2, <1>3, <1>4 DEF TagCallSound
  <1>6. /\ tlast'[i][t] = Ok(u, tbuf[i][t]) /\ tpc'[i][t] = "idle"
        /\ tuse'[i][t] = u + 1 /\ tplan'[t][u + 1] = op
    BY <1>1, <1>2, <1>3 DEF TagFinish, TagReturn, Set, TaggedTypeOK
  <1>new. treg'[i][t] = {e \in treg[i][t] : e.kind = "done"}
    <2>1. treg' = Set(treg, i, t, {e \in treg[i][t] : e.kind = "done"})
      BY <1>2, TagFinishRegistry
    <2> QED
      BY <1>2, <2>1, EntriesAfter
  <1>7. tlast'[i][t].round = u /\ tlast'[i][t].val = Inputs(op, u)
    BY <1>5, <1>6 DEF Ok
  <1>8. TagReturnSound(i, t)'
    BY <1>5, <1>6, <1>7, OtherRanks DEF TagReturnSound
  <1>9. TagTokenKept(i, t)'
    <2>1. TagFind(i, t, "done", op)' # {}
      BY <1>5, <1>new DEF TagFind
    <2>2. TagOp(i, t)' = op
      BY <1>3, OtherRanks
    <2> QED
      BY <2>1, <2>2 DEF TagTokenKept
  <1>10. ~TagCalling(i, t)' /\ \A e \in treg'[i][t] : TagEntrySound(i, t, e)'
    BY <1>6, <1>new, OldTagEntries DEF TagCalling
  <1> QED
    BY <1>8, <1>9, <1>10, OtherRanks DEF TagSound

(* A release comes after every rank has returned: nobody needs the token.  *)
LEMMA ReleaseSound ==
  ASSUME TaggedInv, NEW i \in Rank, NEW t \in Tag, TagRelease(i, t), Moves(i, t)
  PROVE  TagSound(t)'
  <1>1. /\ ~TagCalling(i, t)' /\ treg'[i][t] = {} /\ tlast' = tlast /\ tuse' = tuse
        /\ \A j \in Rank : ~TagCalling(j, t)'
    <2>1. TaggedTypeOK
      BY DEF TaggedInv
    <2>2. treg'[i][t] = {}
      BY <2>1, TagReleaseRegistry, EntriesAfter
    <2> QED
      BY <2>2 DEF TagRelease, TagCalling, AllReturned
  <1>2. TagReturnSound(i, t)'
    BY <1>1, OtherRanks DEF TaggedInv, TagSound, TagReturnSound, Moves
  <1>3. TagTokenKept(i, t)'
    BY <1>1 DEF TagTokenKept
  <1> QED
    BY <1>1, <1>2, <1>3, OtherRanks DEF TagSound

(* A rank begins a use when nobody is in an earlier one: what it publishes *)
(* is the first entry of the new use or joins those of the same use.       *)
LEMMA BeginSound ==
  ASSUME TaggedInv, NEW i \in Rank, NEW t \in Tag, TagStep(i, t), TagCall(i, t)
  PROVE  TagSound(t)'
  <1>1. /\ TaggedTypeOK /\ TagSound(t) /\ tplan' = tplan /\ pc' = pc /\ tlast' = tlast
        /\ pc[i] \in Calling \cup {"idle"}
    BY TagStepLocal DEF TaggedInv, TagCall
  <1>2. PICK u \in Nat, op \in Ops :
          u = tuse[i][t] /\ op = tplan[t][u + 1]
    <2>1. tuse[i][t] \in Nat /\ tplan[t] \in Seq(Ops) /\ tuse[i][t] < Len(tplan[t])
      BY <1>1 DEF TaggedTypeOK, TagCall
    <2>2. tuse[i][t] + 1 \in 1 .. Len(tplan[t])
      BY <2>1
    <2>3. tplan[t][tuse[i][t] + 1] \in Ops
      BY <2>1, <2>2
    <2> QED
      BY <2>1, <2>3
  <1>3. /\ tuse'[i][t] = u + 1 /\ tbuf'[i][t] = {<<i, u>>}
        /\ tcursor'[i][t] = FirstPeer(i) /\ tpc'[i][t] = AfterPublish(i, op)
    BY <1>1, <1>2 DEF TagCall, Set, TaggedTypeOK
  <1>new. treg'[i][t] \in {{}, {TagEntry("in", op, t, {<<i, u>>})}}
    <2>1. treg[i][t] = {}
      BY DEF TagCall
    <2>2. treg' = treg \/ treg' = Set(treg, i, t, {TagEntry("in", op, t, {<<i, u>>})})
      BY <1>1, <1>2, TagCallRegistry DEF TaggedTypeOK
    <2> QED
      BY <1>1, <2>1, <2>2, EntriesAfter
  <1>4. \A j \in Rank : j # i =>
          /\ tuse'[j][t] = tuse[j][t] /\ tpc'[j][t] = tpc[j][t]
          /\ tcursor'[j][t] = tcursor[j][t] /\ tbuf'[j][t] = tbuf[j][t]
          /\ treg'[j][t] = treg[j][t] /\ tlast'[j][t] = tlast[j][t]
    BY <1>1, TagStepLocal
  <1>5. \A j \in Rank : tuse[j][t] \in Nat /\ tuse'[j][t] \in Nat /\ tuse'[j][t] >= tuse[j][t]
    <2>1. \A j \in Rank : tuse[j][t] \in Nat
      BY <1>1 DEF TaggedTypeOK
    <2>2. tuse'[i][t] \in Nat /\ tuse'[i][t] >= tuse[i][t]
      BY <1>2, <1>3
    <2>3. \A j \in Rank : j # i => tuse'[j][t] = tuse[j][t]
      BY <1>4
    <2> QED
      BY <2>1, <2>2, <2>3
  <1>6. ASSUME NEW j \in Rank
        PROVE  \/ tuse[j][t] = u + 1
               \/ tuse[j][t] = u /\ ~TagCalling(j, t) /\ treg[j][t] = {}
    BY <1>1, <1>2, <1>5 DEF TagCall, FreeForUse, TagSound, BehindIsFree
  <1>7. BehindIsFree(t)'
    <2> SUFFICES ASSUME NEW k \in Rank, NEW j \in Rank, tuse'[j][t] < tuse'[k][t]
                 PROVE  /\ tuse'[k][t] = tuse'[j][t] + 1
                        /\ ~TagCalling(j, t)' /\ treg'[j][t] = {}
      BY DEF BehindIsFree
    <2>1. tuse'[k][t] \in {u, u + 1} /\ tuse'[j][t] \in {u, u + 1}
      BY <1>3, <1>4, <1>6
    <2>2. j # i /\ tuse[j][t] = u /\ tuse'[k][t] = u + 1 /\ tuse'[j][t] = u
      BY <1>3, <1>4, <2>1
    <2>3. ~TagCalling(j, t) /\ treg[j][t] = {}
      BY <1>6, <2>2
    <2> QED
      BY <1>4, <2>2, <2>3 DEF TagCalling
  <1>8. ASSUME NEW k \in Rank, NEW v \in Nat, PastReading(k, t, v)
        PROVE  PastReading(k, t, v)'
    BY <1>2, <1>3, <1>4, <1>8 DEF PastReading
  <1>9. ASSUME NEW k \in Rank, k # i
        PROVE  /\ TagCur(k, t)' = TagCur(k, t) /\ TagOp(k, t)' = TagOp(k, t)
               /\ TagCalling(k, t)' <=> TagCalling(k, t)
               /\ \A kind, o : TagFind(k, t, kind, o)' = TagFind(k, t, kind, o)
    BY <1>1, <1>4, <1>9 DEF TagCur, TagOp, TagCalling, TagFind
  <1>10. TagCur(i, t)' = u /\ TagOp(i, t)' = op
    <2>1. u + 1 - 1 = u
      OBVIOUS
    <2>2. TagCur(i, t)' = u
      BY <1>3, <2>1 DEF TagCur
    <2>3. TagOp(i, t)' = tplan'[t][TagCur(i, t)' + 1]
      BY DEF TagOp
    <2> QED
      BY <1>1, <1>2, <2>2, <2>3
  <1>11. ASSUME NEW k \in Rank, NEW e \in treg'[k][t] PROVE TagEntrySound(k, t, e)'
    <2>1. ASSUME NEW a \in treg'[i][t] PROVE TagEntrySound(i, t, a)'
      <3>1. a = TagEntry("in", op, t, {<<i, u>>})
        BY <1>new, <2>1
      <3>2. /\ a.kind = "in" /\ a.op = op.kind /\ a.val = {<<i, u>>}
            /\ tuse'[i][t] > 0
        BY <1>3, <3>1 DEF TagEntry
      <3> QED
        BY <1>10, <3>2 DEF TagEntrySound
    <2>2. CASE k # i
      <3>1. TagEntrySound(k, t, e) /\ tpc'[k][t] = tpc[k][t] /\ tuse'[k][t] = tuse[k][t]
        BY <1>1, <1>4, <1>11, <2>2 DEF TagSound
      <3>2. PICK v \in Nat : v = TagCur(k, t)
        BY <1>5, <3>1 DEF TagCur, TagEntrySound
      <3>3. TagCur(k, t)' = v /\ TagOp(k, t)' = TagOp(k, t)
        BY <1>9, <2>2, <3>2
      <3>4. \A j \in Rank : tuse[j][t] > v => tuse'[j][t] > v
        BY <1>5
      <3> QED
        BY <3>1, <3>2, <3>3, <3>4 DEF TagEntrySound
    <2> QED
      BY <2>1, <2>2
  <1>12. ASSUME NEW k \in Rank, TagCalling(k, t)' PROVE TagCallSound(k, t)'
    <2>1. TagCallSound(i, t)'
      <3>1. AfterPublish(i, op) = "collect" => op.kind # "broadcast"
        BY DEF AfterPublish, Collects
      <3>2. AfterPublish(i, op) = "fetch" => ~Collects(i, op)
        BY DEF AfterPublish
      <3>3. AfterPublish(i, op) = "token" => Inputs(op, u) = {<<i, u>>}
        BY DEF AfterPublish, Inputs
      <3>4. AfterPublish(i, op) # "barrier"
        BY DEF AfterPublish
      <3>5. \A j \in Rank : j < FirstPeer(i) => j = i
        BY LoopStep
      <3>6. {<<i, u>>} = {<<i, u>>} \cup {<<j, u>> : j \in {j \in Rank : j < FirstPeer(i)}}
        BY <3>5
      <3>7. \A j \in Rank : j < FirstPeer(i) => tuse'[j][t] > u
        BY <1>3, <3>5
      <3>8. pc'[i] \in Calling \cup {"idle"} /\ tuse'[i][t] > 0
        BY <1>1, <1>3
      <3> QED
        BY <1>3, <1>10, <3>1, <3>2, <3>3, <3>4, <3>6, <3>7, <3>8 DEF TagCallSound
    <2>2. CASE k # i
      <3>1. TagCallSound(k, t)
        BY <1>1, <1>9, <1>12, <2>2 DEF TagSound
      <3>2. /\ tpc'[k][t] = tpc[k][t] /\ tcursor'[k][t] = tcursor[k][t]
            /\ tbuf'[k][t] = tbuf[k][t] /\ tuse'[k][t] = tuse[k][t] /\ pc' = pc
        BY <1>1, <1>4, <2>2
      <3>3. TagCur(k, t) \in Nat
        BY <1>5, <3>1 DEF TagCur, TagCallSound
      <3>4. \A j \in Rank : tuse[j][t] > TagCur(k, t) => tuse'[j][t] > TagCur(k, t)
        BY <1>5, <3>3
      <3>5. \A j \in Rank : PastReading(j, t, TagCur(k, t)) =>
              \/ tuse'[j][t] > TagCur(k, t) + 1
              \/ tuse'[j][t] = TagCur(k, t) + 1 /\ tpc'[j][t] \in {"barrier", "idle"}
        <4>1. PICK v \in Nat : v = TagCur(k, t)
          BY <3>3
        <4>2. \A j \in Rank : PastReading(j, t, v) => PastReading(j, t, v)'
          BY <1>8
        <4> QED
          BY <4>1, <4>2 DEF PastReading
      <3> QED
        BY <1>9, <2>2, <3>1, <3>2, <3>4, <3>5 DEF TagCallSound, PastReading
    <2> QED
      BY <2>1, <2>2
  <1>13. ASSUME NEW k \in Rank PROVE TagReturnSound(k, t)'
    <2>1. tlast[k][t].round \in Nat
      BY <1>1 DEF TaggedTypeOK, TagReturns
    <2>2. PICK v \in Nat : v = tlast[k][t].round /\ v = tlast'[k][t].round
      BY <1>1, <2>1
    <2> QED
      BY <1>1, <1>5, <1>8, <2>2 DEF TagSound, TagReturnSound
  <1>14. ASSUME NEW k \in Rank PROVE TagTokenKept(k, t)'
    <2>1. TagReturnSound(k, t) /\ TagTokenKept(k, t) /\ tlast[k][t].round \in Nat
      BY <1>1 DEF TagSound, TaggedTypeOK, TagReturns
    <2>2. CASE k = i
      BY <1>1, <1>2, <1>3, <2>1, <2>2 DEF TagTokenKept, TagReturnSound
    <2>3. CASE k # i
      <3> SUFFICES ASSUME tlast[k][t].status = "ok", tuse[k][t] = tlast[k][t].round + 1,
                          NEW j \in Rank, TagCalling(j, t)', tuse'[j][t] = tuse[k][t]
                   PROVE  TagFind(k, t, "done", TagOp(k, t)) # {}
        BY <1>1, <1>4, <1>9, <2>3 DEF TagTokenKept
      <3>1. CASE j = i
        BY <1>2, <1>3, <2>1, <3>1 DEF TagReturnSound, PastReading
      <3>2. CASE j # i
        BY <1>4, <1>9, <2>1, <3>2 DEF TagTokenKept
      <3> QED
        BY <3>1, <3>2
    <2> QED
      BY <2>2, <2>3
  <1> QED
    BY <1>7, <1>11, <1>12, <1>13, <1>14 DEF TagSound

(* Whatever a rank does with an id, what is known of the id stays true.    *)
LEMMA TagStepSound ==
  ASSUME TaggedInv, NEW i \in Rank, NEW t \in Tag, TagStep(i, t)
  PROVE  TagSound(t)'
  <1>1. CASE TagCall(i, t)
    BY <1>1, BeginSound
  <1>2. CASE ~TagCall(i, t)
    <2>1. Moves(i, t)
      BY <1>2, StepMoves
    <2> QED
      BY <1>2, <2>1, CollectSound, CollectedSound, FetchSound, FailSound, TokenSound,
         AwaitSound, FinishSound, ReleaseSound DEF TagStep
  <1> QED
    BY <1>1, <1>2

(* The ordered side leaves the tagged one alone: what it reclaims is       *)
(* ordered, a rank shuts down only when no call is left in it, and closes  *)
(* its server, with the entries of every id, only when no rank has a       *)
(* client open that could look for them.                                   *)
LEMMA MainStepSound ==
  ASSUME TaggedInv, NEW i \in Rank, MainStep(i), NEW t \in Tag
  PROVE  TagSound(t)'
  <1>1. /\ TaggedTypeOK /\ TagSound(t) /\ pc \in [Rank -> Label] /\ OrderedTypeOK
        /\ Ordered(i) /\ UNCHANGED tvars
    BY DEF TaggedInv, TaggedTypeOK, OrderedTypeOK, MainStep
  <1>2. \A k \in Rank : TagCalling(k, t) => pc[k] \in Calling \cup {"idle"}
    BY <1>1 DEF TagSound, TagCallSound
  <1>3. CASE ~CloseServer(i)
    <2>1. treg' = treg
      BY <1>1, <1>3, OrderedSparesTags
    <2>2. TagCalling(i, t) => pc'[i] \in Calling \cup {"idle"}
      BY <1>1, <1>2, <1>3
         DEF Ordered, Bind, Connect, Ready, Call, Collect, Collected, Fetch, PublishToken,
             AwaitToken, Finish, Shutdown, Quiet, AwaitBye, CloseClient, Return, Goto,
             Calling, AfterPublish
    <2>3. \A k \in Rank : k # i => pc'[k] = pc[k]
      BY <1>1, <1>3
         DEF Ordered, Bind, Connect, Ready, Call, Collect, Collected, Fetch, PublishToken,
             AwaitToken, Finish, Shutdown, AwaitBye, CloseClient, Return, Goto
    <2> QED
      BY <1>1, <1>2, <2>1, <2>2, <2>3, OtherTags DEF tvars
  <1>4. CASE CloseServer(i)
    <2>1. \A k \in Rank : ~TagCalling(k, t) /\ ~TagCalling(k, t)'
      BY <1>1, <1>2, <1>4 DEF CloseServer, ClientOpen, Calling, TagCalling, tvars
    <2>2. /\ tplan' = tplan /\ tuse' = tuse /\ tpc' = tpc /\ tlast' = tlast
          /\ treg'[i][t] = {} /\ \A k \in Rank : k # i => treg'[k][t] = treg[k][t]
      BY <1>1, <1>4, ServerClosed DEF tvars
    <2>3. BehindIsFree(t)'
      BY <1>1, <2>1, <2>2 DEF TagSound, BehindIsFree
    <2>4. \A k \in Rank : \A e \in treg'[k][t] : TagEntrySound(k, t, e)'
      <3> SUFFICES ASSUME NEW k \in Rank, NEW e \in treg'[k][t]
                   PROVE  TagEntrySound(k, t, e)'
        OBVIOUS
      <3>1. TagEntrySound(k, t, e)
        BY <1>1, <2>2 DEF TagSound
      <3>2. TagCur(k, t)' = TagCur(k, t) /\ TagOp(k, t)' = TagOp(k, t)
        BY <2>2 DEF TagCur, TagOp
      <3> QED
        BY <2>2, <3>1, <3>2 DEF TagEntrySound
    <2>5. \A k \in Rank : TagReturnSound(k, t)' /\ TagTokenKept(k, t)'
      BY <1>1, <2>1, <2>2 DEF TagSound, TagReturnSound, TagTokenKept, PastReading
    <2> QED
      BY <2>1, <2>3, <2>4, <2>5 DEF TagSound
  <1> QED
    BY <1>3, <1>4

(* The invariant is kept by every step of the tagged and the ordered side. *)
LEMMA TaggedInvStep ==
  ASSUME TaggedInv, [TaggedNext]_TagVars
  PROVE  TaggedInv'
  <1>1. ASSUME NEW i \in Rank, NEW t \in Tag, TagStep(i, t) PROVE TaggedInv'
    <2>1. TaggedTypeOK'
      BY <1>1, TagTypeStep
    <2>2. ASSUME NEW s \in Tag, s # t PROVE TagSound(s)'
      <3>1. /\ TaggedTypeOK /\ TagSound(s)
            /\ \A k \in Rank : TagCalling(k, s) => pc[k] \in Calling \cup {"idle"}
        BY DEF TaggedInv, TagSound, TagCallSound
      <3> QED
        BY <1>1, <2>2, <3>1, TagStepLocal, OtherTags
    <2> QED
      BY <1>1, <2>1, <2>2, TagStepSound DEF TaggedInv
  <1>2. ASSUME NEW i \in Rank, MainStep(i) PROVE TaggedInv'
    <2>1. TaggedTypeOK'
      <3>1. OrderedTypeOK' /\ UNCHANGED tvars
        BY <1>2, OrderedTypeStep DEF TaggedInv, TaggedTypeOK, MainStep
      <3>2. treg' \in [Rank -> [Tag -> SUBSET TagEntries]]
        <4>1. treg \in [Rank -> [Tag -> SUBSET TagEntries]] /\ OrderedTypeOK
          BY DEF TaggedInv, TaggedTypeOK
        <4>2. \A k \in Rank, t \in Tag : treg'[k][t] \in SUBSET TagEntries
          <5>1. CASE CloseServer(i)
            BY <4>1, <5>1, ServerClosed
          <5>2. CASE ~CloseServer(i)
            <6>1. treg' = treg
              BY <1>2, <4>1, <5>2, OrderedSparesTags DEF MainStep
            <6> QED
              BY <4>1, <6>1
          <5> QED
            BY <5>1, <5>2
        <4>3. treg' = [k \in Rank |-> [t \in Tag |-> treg'[k][t]]]
          BY DEF treg
        <4> QED
          BY <4>2, <4>3
      <3> QED
        BY <3>1, <3>2 DEF TaggedInv, TaggedTypeOK, tvars
    <2> QED
      BY <1>2, <2>1, MainStepSound DEF TaggedInv
  <1>3. CASE UNCHANGED TagVars
    <2>1. TaggedTypeOK'
      <3>1. UNCHANGED tvars /\ treg' = treg
        BY <1>3, SameRegistry DEF TagVars, vars
      <3>2. OrderedTypeOK'
        BY <1>3, StepOrdered DEF TaggedInv, TaggedTypeOK
      <3> QED
        BY <3>1, <3>2 DEF TaggedInv, TaggedTypeOK, tvars
    <2>2. ASSUME NEW s \in Tag PROVE TagSound(s)'
      <3>1. /\ TagSound(s)
            /\ \A k \in Rank : TagCalling(k, s) => pc[k] \in Calling \cup {"idle"}
        BY DEF TaggedInv, TagSound, TagCallSound
      <3> QED
        BY <1>3, <3>1, OtherTags, SameRegistry DEF TagVars, tvars, vars
    <2> QED
      BY <2>1, <2>2 DEF TaggedInv
  <1> QED
    BY <1>1, <1>2, <1>3 DEF TaggedNext

(* Nothing has been used yet.                                              *)
LEMMA TaggedInvInit == TaggedInit => TaggedInv
  <1> SUFFICES ASSUME TaggedInit PROVE TaggedInv
    OBVIOUS
  <1>1. PICK p \in Programs : plan = p[1] /\ tplan = p[2]
    BY DEF TaggedInit
  <1>2. tplan \in [Tag -> Seq(Ops)]
    BY <1>1
  <1>3. /\ \A i \in Rank, t \in Tag :
              /\ tuse[i][t] = 0 /\ tpc[i][t] = "idle" /\ treg[i][t] = {}
              /\ tlast[i][t].status = "none"
    BY DEF TaggedInit, Init, NoReturn, treg
  <1>4. TaggedTypeOK
    <2>1. NoReturn \in TagReturns /\ 0 \in 0 .. NPeers /\ {} \in TagContents
      BY DEF NoReturn, TagReturns, TagContents
    <2>2. \A t \in Tag : Len(tplan[t]) \in Nat
      BY <1>2
    <2>3. treg = [i \in Rank |-> [t \in Tag |-> {}]] /\ OrderedTypeOK
      BY InitOrdered DEF TaggedInit, Init, treg
    <2>4. treg \in [Rank -> [Tag -> SUBSET TagEntries]]
      BY <2>3
    <2> QED
      BY <1>2, <2>1, <2>2, <2>3, <2>4 DEF TaggedInit, TaggedTypeOK, TagLabel
  <1>5. ASSUME NEW t \in Tag PROVE TagSound(t)
    BY <1>3 DEF TagSound, BehindIsFree, TagCalling, TagReturnSound, TagTokenKept
  <1> QED
    BY <1>4, <1>5 DEF TaggedInv

-----------------------------------------------------------------------------
(* At every moment the ids are used as the registry's names need it: a     *)
(* rank behind in its use is free, every entry, call and return is sound   *)
(* for its use, and no token goes while a peer may still poll it.          *)
THEOREM TaggedInvariance == TaggedSpec => []TaggedInv
  <1>1. TaggedInv /\ [TaggedNext]_TagVars => TaggedInv'
    BY TaggedInvStep
  <1> QED
    BY <1>1, TaggedInvInit, PTL DEF TaggedSpec, TagVars

(* Nothing the ordered collectives of a group register, release or reclaim *)
(* touches an entry of an id.                                              *)
THEOREM TagsUndisturbed == TaggedSpec => [][TagsSpared]_TagVars
  <1>1. ASSUME TaggedInv, [TaggedNext]_TagVars PROVE TagsSpared
    <2>1. SUFFICES ASSUME NEW i \in Rank, NEW t \in Tag, treg'[i][t] # treg[i][t]
                   PROVE  TagStep(i, t) \/ CloseServer(i)
      BY DEF TagsSpared
    <2>2. TaggedTypeOK /\ OrderedTypeOK
      BY <1>1 DEF TaggedInv, TaggedTypeOK
    <2>3. ASSUME NEW k \in Rank, MainStep(k) PROVE CloseServer(i)
      <3>1. CASE CloseServer(k)
        BY <2>1, <2>2, <3>1, ServerClosed
      <3>2. CASE ~CloseServer(k)
        BY <2>1, <2>2, <2>3, <3>2, OrderedSparesTags DEF MainStep
      <3> QED
        BY <3>1, <3>2
    <2>4. ASSUME NEW k \in Rank, NEW s \in Tag, TagStep(k, s) PROVE TagStep(i, t)
      BY <2>1, <2>2, <2>4, TagStepLocal
    <2>5. ~UNCHANGED TagVars
      BY <2>1, SameRegistry DEF TagVars, vars
    <2> QED
      BY <1>1, <2>3, <2>4, <2>5 DEF TaggedNext
  <1> QED
    BY <1>1, TaggedInvariance, PTL DEF TaggedSpec, TagVars

(* A tagged collective that returns TC_OK leaves exactly the inputs of its *)
(* use of the id in the caller's buffer.                                   *)
THEOREM TaggedResultCorrect == TaggedSpec => []TaggedExact
  <1>1. TaggedInv => TaggedExact
    BY DEF TaggedInv, TagSound, TagReturnSound, TaggedExact
  <1> QED
    BY <1>1, TaggedInvariance, PTL

(* It returns TC_OK only when every rank has joined the same use and is    *)
(* past reading the payloads of the others.                                *)
THEOREM TaggedBarrierCorrect == TaggedSpec => []TaggedBarrier
  <1>1. TaggedInv => TaggedBarrier
    BY DEF TaggedInv, TagSound, TagReturnSound, PastReading, TaggedBarrier
  <1> QED
    BY <1>1, TaggedInvariance, PTL

(* A tagged token stays until every peer still in the use has polled it.   *)
THEOREM TaggedTokensCorrect == TaggedSpec => []TaggedTokensOutliveReaders
  <1>1. ASSUME TaggedInv PROVE TaggedTokensOutliveReaders
    <2> SUFFICES ASSUME NEW i \in Rank, NEW j \in Rank, NEW t \in Tag,
                        AwaitsTagTokenOf(j, i, t),
                        \/ tpc[i][t] = "barrier"
                        \/ tlast[i][t].status = "ok" /\ tlast[i][t].round = TagCur(i, t)
                 PROVE  TagFind(i, t, "done", TagOp(j, t)) # {}
      BY DEF TaggedTokensOutliveReaders
    <2>1. /\ TaggedTypeOK /\ TagCalling(j, t) /\ tuse[i][t] = tuse[j][t]
          /\ TagOp(i, t) = TagOp(j, t) /\ TagCur(i, t) = TagCur(j, t)
      BY <1>1 DEF TaggedInv, AwaitsTagTokenOf, TagOp, TagCur
    <2>2. CASE tpc[i][t] = "barrier"
      BY <1>1, <2>1, <2>2, InUse DEF TagCallSound, TagCalling
    <2>3. CASE tlast[i][t].status = "ok" /\ tlast[i][t].round = TagCur(i, t)
      <3>1. tuse[i][t] = tlast[i][t].round + 1
        BY <1>1, <2>1, <2>3, InUse DEF TagCur
      <3> QED
        BY <1>1, <2>1, <2>3, <3>1 DEF TaggedInv, TagSound, TagTokenKept
    <2> QED
      BY <2>2, <2>3
  <1> QED
    BY <1>1, TaggedInvariance, PTL

-----------------------------------------------------------------------------
(* An id keeps the contract of a group of its own.                         *)

(* The two readings of the vocabulary are the same.                        *)
LEMMA SameWords ==
  ASSUME NEW t \in Tag
  PROVE  /\ IdContract(t)!Rank = Rank /\ IdContract(t)!Round = Use
         /\ IdContract(t)!NoReturn = NoReturn
         /\ \A r, v : IdContract(t)!Ok(r, v) = Ok(r, v) /\ IdContract(t)!Error(r) = Error(r)
         /\ \A op, r : IdContract(t)!Inputs(op, r) = Inputs(op, r)
  BY DEF IdContract!Rank, Rank, IdContract!Round, Use, IdContract!NoReturn, NoReturn,
         IdContract!Ok, Ok, IdContract!Error, Error, IdContract!Inputs, Inputs

(* The operation of a use is the one the contract plans for it.            *)
LEMMA IdPlanned ==
  ASSUME TaggedTypeOK, NEW t \in Tag, NEW u \in Nat, u < Len(tplan[t])
  PROVE  u \in Use /\ u < MaxUse /\ IdPlan(t)[u] = tplan[t][u + 1]
  <1>1. Len(tplan[t]) \in Nat /\ Len(tplan[t]) <= MaxUse
    BY DEF TaggedTypeOK
  <1>2. u \in Use /\ u < MaxUse
    BY <1>1 DEF Use
  <1> QED
    BY <1>2 DEF IdPlan

(* Before its first use an id is in the initial state of its contract.     *)
LEMMA InitIdContract ==
  ASSUME TaggedInit, NEW t \in Tag
  PROVE  IdContract(t)!Init
  <1>1. TaggedTypeOK
    BY TaggedInvInit DEF TaggedInv
  <1>2. \A u \in Use : u < Len(tplan[t]) => tplan[t][u + 1] \in Op
    BY <1>1 DEF TaggedTypeOK, Use
  <1>3. [kind |-> "allreduce", root |-> 0] \in Op
    BY DEF Op
  <1>4. IdPlan(t) \in [Use -> Op]
    BY <1>2, <1>3 DEF IdPlan
  <1>5. /\ \A i \in Rank : tuse[i][t] = 0 /\ tlast[i][t] = NoReturn
        /\ \A i \in Rank : TagCalling(i, t) = FALSE
    BY DEF TaggedInit, TagCalling
  <1>6. /\ IdBegun(t) = [i \in Rank |-> 0] /\ IdLast(t) = [i \in Rank |-> NoReturn]
        /\ IdJoined(t) = {}
    BY <1>5 DEF IdBegun, IdLast, IdJoined, Use
  <1>7. IdOpen(t) = [i \in Rank |-> FALSE]
    BY <1>5, Zenon DEF IdOpen
  <1> QED
    BY <1>4, <1>6, <1>7, SameWords DEF IdContract!Init

(* A step that keeps what the callers of the id see.                       *)
LEMMA IdUnseen ==
  ASSUME NEW t \in Tag, tplan' = tplan,
         \A k \in Rank : /\ tuse'[k][t] = tuse[k][t] /\ tlast'[k][t] = tlast[k][t]
                         /\ TagCalling(k, t)' = TagCalling(k, t)
  PROVE  UNCHANGED IdContract(t)!contractVars
  <1>1. IdOpen(t)' = IdOpen(t)
    BY Zenon DEF IdOpen
  <1>2. /\ IdPlan(t)' = IdPlan(t) /\ IdBegun(t)' = IdBegun(t)
        /\ IdJoined(t)' = IdJoined(t) /\ IdLast(t)' = IdLast(t)
    BY DEF IdPlan, IdBegun, IdJoined, IdLast
  <1> QED
    BY <1>1, <1>2 DEF IdContract!contractVars

(* Where a rank goes decides whether the contract sees it inside a call.   *)
LEMMA IdOpens ==
  ASSUME TaggedTypeOK, NEW i \in Rank, NEW t \in Tag, NEW x, tpc' = Set(tpc, i, t, x)
  PROVE  IdOpen(t)' = [IdOpen(t) EXCEPT ![i] = (x # "idle")]
  <1>1. \A k \in Rank : tpc'[k][t] = IF k = i THEN x ELSE tpc[k][t]
    BY DEF TaggedTypeOK, Set
  <1>2. \A k \in Rank : TagCalling(k, t)' = [IdOpen(t) EXCEPT ![i] = (x # "idle")][k]
    BY <1>1 DEF IdOpen, TagCalling
  <1> QED
    BY <1>2, Zenon DEF IdOpen

(* A rank that returns was inside the call and is no longer.               *)
LEMMA IdCloses ==
  ASSUME TaggedTypeOK, NEW i \in Rank, NEW t \in Tag, TagCalling(i, t),
         tpc' = Set(tpc, i, t, "idle")
  PROVE  IdOpen(t)[i] /\ IdOpen(t)' = [IdOpen(t) EXCEPT ![i] = FALSE]
  <1>1. IdOpen(t)' = [IdOpen(t) EXCEPT ![i] = ("idle" # "idle")]
    BY IdOpens
  <1>2. ("idle" # "idle") = FALSE
    OBVIOUS
  <1>3. IdOpen(t)[i] = TagCalling(i, t)
    BY DEF IdOpen
  <1> QED
    BY <1>1, <1>2, <1>3, Zenon

(* Beginning a use enters a round of the contract.                         *)
LEMMA IdEnters ==
  ASSUME TaggedInv, NEW i \in Rank, NEW t \in Tag, TagCall(i, t)
  PROVE  IdContract(t)!Enter(i)
  <1>1. TaggedTypeOK /\ tuse[i][t] \in Nat /\ tplan' = tplan /\ tlast' = tlast
    BY DEF TaggedInv, TaggedTypeOK, TagCall
  <1>2. tuse[i][t] \in Use /\ tuse[i][t] < MaxUse
    BY <1>1, IdPlanned DEF TagCall
  <1>3. \A k \in Rank : tuse'[k][t] = IF k = i THEN tuse[i][t] + 1 ELSE tuse[k][t]
    BY <1>1 DEF TagCall, TaggedTypeOK, Set
  <1>4. IdBegun(t)' = [IdBegun(t) EXCEPT ![i] = @ + 1]
    BY <1>3 DEF IdBegun
  <1>5. IdJoined(t)' = IdJoined(t) \cup {<<i, IdBegun(t)[i]>>}
    BY <1>1, <1>2, <1>3 DEF IdJoined, IdBegun, Use, TaggedTypeOK
  <1>6. ~IdOpen(t)[i] /\ IdOpen(t)' = [IdOpen(t) EXCEPT ![i] = TRUE]
    <2>1. AfterPublish(i, tplan[t][tuse[i][t] + 1]) # "idle"
      BY DEF AfterPublish
    <2>2. IdOpen(t)[i] = TagCalling(i, t)
      BY DEF IdOpen
    <2>3. PICK x : tpc' = Set(tpc, i, t, x) /\ x # "idle"
      BY <2>1 DEF TagCall
    <2>4. IdOpen(t)' = [IdOpen(t) EXCEPT ![i] = (x # "idle")]
      BY <1>1, <2>3, IdOpens
    <2>5. (x # "idle") = TRUE
      BY <2>3
    <2> QED
      BY <2>2, <2>4, <2>5, Zenon DEF TagCall
  <1>7. IdPlan(t)' = IdPlan(t) /\ IdLast(t)' = IdLast(t)
    BY <1>1 DEF IdPlan, IdLast
  <1> QED
    BY <1>2, <1>4, <1>5, <1>6, <1>7 DEF IdContract!Enter, IdBegun

(* A return of TC_OK is one of the contract: every rank has joined the use *)
(* and the buffer holds its inputs.                                        *)
LEMMA IdReturnsOk ==
  ASSUME TaggedInv, NEW i \in Rank, NEW t \in Tag, TagFinish(i, t)
  PROVE  IdContract(t)!ReturnOk(i)
  <1> DEFINE u == TagCur(i, t)
  <1>1. TagCalling(i, t) /\ tpc[i][t] = "barrier" /\ tuse' = tuse /\ tplan' = tplan
    BY DEF TagFinish, TagCalling
  <1>2. /\ TaggedTypeOK /\ TagCallSound(i, t)
        /\ u \in Nat /\ tuse[i][t] = u + 1 /\ TagOp(i, t) = tplan[t][u + 1]
        /\ u < Len(tplan[t])
    BY <1>1, InUse DEF TaggedTypeOK
  <1>3. u \in Use /\ IdPlan(t)[u] = TagOp(i, t) /\ IdBegun(t)[i] - 1 = u
    BY <1>2, IdPlanned DEF IdBegun
  <1>4. {j \in Rank : j < tcursor[i][t]} = Rank
    BY <1>2 DEF TagFinish, TaggedTypeOK, Rank
  <1>5. tbuf[i][t] = Inputs(TagOp(i, t), u) /\ \A j \in Rank : PastReading(j, t, u)
    BY <1>1, <1>2, <1>4 DEF TagCallSound
  <1>6. Rank \X {u} \subseteq IdJoined(t)
    <2>0. \A j \in Rank : tuse[j][t] \in Nat
      BY <1>2 DEF TaggedTypeOK
    <2> HIDE DEF u
    <2>1. \A j \in Rank : u < tuse[j][t]
      BY <2>0, <1>2, <1>5 DEF PastReading
    <2> QED
      BY <1>3, <2>1 DEF IdJoined
  <1>7. IdLast(t)' = [IdLast(t) EXCEPT ![i] = Ok(u, Inputs(TagOp(i, t), u))]
    BY <1>2, <1>5 DEF IdLast, TagFinish, TagReturn, Set, TaggedTypeOK
  <1>8. IdOpen(t)[i] /\ IdOpen(t)' = [IdOpen(t) EXCEPT ![i] = FALSE]
    BY <1>1, <1>2, IdCloses DEF TagFinish, TagReturn
  <1>9. IdPlan(t)' = IdPlan(t) /\ IdBegun(t)' = IdBegun(t) /\ IdJoined(t)' = IdJoined(t)
    BY <1>1 DEF IdPlan, IdBegun, IdJoined
  <1>10. IdContract(t)!Ok(u, IdContract(t)!Inputs(TagOp(i, t), u))
           = Ok(u, Inputs(TagOp(i, t), u))
    BY SameWords
  <1>11. Rank = IdContract(t)!Rank
    BY SameWords
  <1> HIDE DEF u
  <1> QED
    BY <1>3, <1>6, <1>7, <1>8, <1>9, <1>10, <1>11 DEF IdContract!ReturnOk

(* A poll that runs out returns an error of the use.                       *)
LEMMA IdReturnsError ==
  ASSUME TaggedInv, NEW i \in Rank, NEW t \in Tag, TagFetchFail(i, t) \/ TagBarrierFail(i, t)
  PROVE  IdContract(t)!ReturnError(i)
  <1>1. TagCalling(i, t) /\ tuse' = tuse /\ tplan' = tplan /\ TaggedTypeOK
    BY DEF TagFetchFail, TagBarrierFail, TagCalling, TaggedInv
  <1>2. tlast' = Set(tlast, i, t, Error(TagCur(i, t))) /\ tpc' = Set(tpc, i, t, "idle")
    BY DEF TagFetchFail, TagBarrierFail, TagReturn
  <1>3. IdLast(t)' = [IdLast(t) EXCEPT ![i] = Error(IdBegun(t)[i] - 1)]
    BY <1>1, <1>2 DEF IdLast, IdBegun, TagCur, Set, TaggedTypeOK
  <1>4. IdOpen(t)[i] /\ IdOpen(t)' = [IdOpen(t) EXCEPT ![i] = FALSE]
    BY <1>1, <1>2, IdCloses
  <1>5. IdPlan(t)' = IdPlan(t) /\ IdBegun(t)' = IdBegun(t) /\ IdJoined(t)' = IdJoined(t)
    BY <1>1 DEF IdPlan, IdBegun, IdJoined
  <1> QED
    BY <1>3, <1>4, <1>5, SameWords DEF IdContract!ReturnError

(* Every step is one of the contract of the id, or unseen by its callers.  *)
LEMMA StepIdContract ==
  ASSUME TaggedInv, [TaggedNext]_TagVars, NEW t \in Tag
  PROVE  [IdContract(t)!Next]_(IdContract(t)!contractVars)
  <1>0. TaggedTypeOK
    BY DEF TaggedInv
  <1>1. ASSUME NEW i \in Rank, TagStep(i, t)
        PROVE  [IdContract(t)!Next]_(IdContract(t)!contractVars)
    <2>1. CASE TagCall(i, t) \/ TagFinish(i, t) \/ TagFetchFail(i, t) \/ TagBarrierFail(i, t)
      <3>1. IdContract(t)!Enter(i) \/ IdContract(t)!ReturnOk(i) \/ IdContract(t)!ReturnError(i)
        BY <2>1, IdEnters, IdReturnsOk, IdReturnsError
      <3> QED
        BY <3>1, SameWords DEF IdContract!Next
    <2>2. CASE \/ TagCollect(i, t) \/ TagCollected(i, t) \/ TagFetch(i, t)
               \/ TagPublishToken(i, t) \/ TagAwaitToken(i, t) \/ TagRelease(i, t)
      <3>1. tplan' = tplan /\ tuse' = tuse /\ tlast' = tlast
        BY <2>2 DEF TagCollect, TagCollected, TagFetch, TagPublishToken, TagAwaitToken,
           TagRelease
      <3>2. \A k \in Rank : TagCalling(k, t)' = TagCalling(k, t)
        <4>1. \/ tpc[i][t] # "idle" /\ tpc'[i][t] # "idle"
              \/ tpc'[i][t] = tpc[i][t]
          BY <1>0, <2>2 DEF TagCollect, TagCollected, TagFetch, TagPublishToken,
             TagAwaitToken, TagRelease, Set, TaggedTypeOK
        <4>2. \A k \in Rank : k # i => tpc'[k][t] = tpc[k][t]
          BY <1>0, <1>1, TagStepLocal
        <4> QED
          BY <4>1, <4>2 DEF TagCalling
      <3> QED
        BY <3>1, <3>2, IdUnseen
    <2> QED
      BY <1>1, <2>1, <2>2 DEF TagStep
  <1>2. ASSUME NEW i \in Rank, NEW s \in Tag, TagStep(i, s), s # t
        PROVE  UNCHANGED IdContract(t)!contractVars
    <2>1. /\ tplan' = tplan
          /\ \A k \in Rank : /\ tuse'[k][t] = tuse[k][t] /\ tpc'[k][t] = tpc[k][t]
                             /\ tlast'[k][t] = tlast[k][t]
      BY <1>0, <1>2, TagStepLocal
    <2> QED
      BY <2>1, IdUnseen DEF TagCalling
  <1>3. ASSUME tplan' = tplan, tuse' = tuse, tpc' = tpc, tlast' = tlast
        PROVE  UNCHANGED IdContract(t)!contractVars
    BY <1>3, IdUnseen DEF TagCalling
  <1>4. ASSUME NEW i \in Rank, MainStep(i)
        PROVE  UNCHANGED IdContract(t)!contractVars
    BY <1>3, <1>4 DEF MainStep, tvars
  <1>5. CASE UNCHANGED TagVars
    BY <1>3, <1>5 DEF TagVars, tvars
  <1> QED
    BY <1>1, <1>2, <1>4, <1>5 DEF TaggedNext

(* Tagged collectives keep the contract of the ordered ones, each id for   *)
(* itself: a use succeeds at a rank only when every rank has entered the   *)
(* same use, and with exactly its inputs; uses are returned from once and  *)
(* in order.                                                               *)
THEOREM TaggedRefinement == TaggedSpec => ImplementsIdContract
  <1>1. ASSUME NEW t \in Tag PROVE TaggedSpec => IdContract(t)!Spec
    <2>1. TaggedInit => IdContract(t)!Init
      BY InitIdContract
    <2>2. TaggedInv /\ [TaggedNext]_TagVars
            => [IdContract(t)!Next]_(IdContract(t)!contractVars)
      BY StepIdContract
    <2> QED
      BY <2>1, <2>2, TaggedInvariance, PTL DEF TaggedSpec, TagVars, IdContract!Spec
  <1> QED
    BY <1>1 DEF ImplementsIdContract
===============================================================================
