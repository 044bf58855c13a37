------------------------- MODULE MeshCollectiveProofs -------------------------
(***************************************************************************)
(* CollectiveInv is an inductive invariant of MeshCollective; the safety properties *)
(* and the implementation of CollectiveContract follow from it.            *)
(*                                                                         *)
(* The argument: a rank's inputs stay readable for a peer as long as that  *)
(* peer is in the round, because the rank frees them only after polling    *)
(* that peer's token (BarrierPassed); and a token stays readable as long   *)
(* as some rank is in its round, because reclaim_before(r) runs only once  *)
(* every rank has published a token of round r (TokensStep).               *)
(***************************************************************************)
EXTENDS MeshCollectiveProps, TLAPS

USE CollectivesAssumption, MeshAssumption

(* The loops over the peers stay within the group.                         *)
LEMMA LoopBounds ==
  ASSUME NEW i \in Rank
  PROVE  /\ FirstPeer(i) \in 0 .. NPeers
         /\ \A p \in 0 .. NPeers : p < NPeers => NextPeer(i, p) \in 0 .. NPeers
  BY DEF FirstPeer, NextPeer, Rank

(* What a rank publishes has the type of a registry entry.                 *)
LEMMA EntryTypes ==
  ASSUME NEW i \in Rank
  PROVE  /\ Bye \in Entry
         /\ \A r \in Round : In(i, r) \in Entry /\ Done(r) \in Entry
         /\ \A r \in Round : \A v \in SUBSET (Rank \X Round) : Out(r, v) \in Entry
  BY DEF In, Out, Done, Bye, Entry, Round

(* A registry entry's round is a number and its value a set of inputs.     *)
LEMMA EntryParts ==
  ASSUME NEW e \in Entry
  PROVE  /\ e.kind \in {"in", "out", "done", "bye"}
         /\ e.ordered = TRUE
         /\ e.round \in Nat
         /\ e.val \in SUBSET (Rank \X Round)
  BY DEF Entry

(* What a call returns has the type of a return record.                    *)
LEMMA ReturnTypes ==
  ASSUME NEW r \in Round, NEW v \in SUBSET (Rank \X Round)
  PROVE  Ok(r, v) \in ReturnRecord /\ Error(r) \in ReturnRecord
  BY DEF Ok, Error, ReturnRecord, Round

(* Releasing and reclaiming leave a set of entries.                        *)
LEMMA Registries ==
  ASSUME NEW s \in SUBSET Entry, NEW kind, NEW r
  PROVE  Release(s, kind, r) \in SUBSET Entry /\ ReclaimBefore(s, r) \in SUBSET Entry
  BY DEF Release, ReclaimBefore

(* Every operation names a root in the group, rank 0 unless it broadcasts. *)
LEMMA OpRoot ==
  ASSUME NEW op \in Ops
  PROVE  /\ op.root \in Rank
         /\ op.kind \in {"allreduce", "allgather", "broadcast"}
         /\ op.kind # "broadcast" => op.root = 0
  BY DEF Op, Rank

(* A rank inside a call is in one of the rounds.                           *)
LEMMA InRound ==
  ASSUME CollectiveInv, NEW i \in Rank, InCall(i)
  PROVE  Cur(i) \in Round
  BY DEF CollectiveInv, CallSound, CallStateSound

(* Every action preserves the shape of the state.                          *)
LEMMA TypeStep == CollectiveInv /\ [Next]_vars => TypeOK'
  <1> SUFFICES ASSUME CollectiveInv, [Next]_vars PROVE TypeOK'
    OBVIOUS
  <1>0. TypeOK
    BY DEF CollectiveInv
  <1> USE <1>0 DEF TypeOK
  <1>1. ASSUME NEW i \in Rank, Bind(i) PROVE TypeOK'
    BY <1>1, LoopBounds DEF Bind, Goto, Label, Calling
  <1>2. ASSUME NEW i \in Rank, Connect(i) PROVE TypeOK'
    BY <1>2, LoopBounds DEF Connect, Goto, Label, Calling
  <1>3. ASSUME NEW i \in Rank, Ready(i) PROVE TypeOK'
    BY <1>3, LoopBounds DEF Ready, Goto, Label, Calling
  <1>4. ASSUME NEW i \in Rank, InitFail(i) PROVE TypeOK'
    BY <1>4, LoopBounds DEF InitFail, Goto, Label, Calling
  <1>5. ASSUME NEW i \in Rank, Call(i) PROVE TypeOK'
    <2>1. rnd[i] \in Round /\ rnd[i] + 1 \in 0 .. MaxRound
      BY <1>5 DEF Call, Round
    <2>2. In(i, rnd[i]) \in Entry /\ {<<i, rnd[i]>>} \in SUBSET (Rank \X Round)
      BY <2>1, EntryTypes
    <2>3. AfterPublish(i, plan[rnd[i]]) \in Label
      BY DEF AfterPublish, Label, Calling
    <2>4. reg' \in [Rank -> SUBSET Entry]
      BY <1>5, <2>2 DEF Call
    <2>5. pc' \in [Rank -> Label]
      BY <1>5, <2>3 DEF Call, Goto
    <2> QED
      BY <1>5, <2>1, <2>2, <2>4, <2>5, LoopBounds DEF Call
  <1>6. ASSUME NEW i \in Rank, Reject(i) PROVE TypeOK'
    <2>1. rnd[i] \in Round /\ rnd[i] + 1 \in 0 .. MaxRound
      BY <1>6 DEF Reject, Round
    <2>2. Error(rnd[i]) \in ReturnRecord
      BY <2>1, ReturnTypes
    <2> QED
      BY <1>6, <2>1, <2>2 DEF Reject, Return, Goto, Label
  <1>7. ASSUME NEW i \in Rank, Collect(i) PROVE TypeOK'
    <2>1. cursor[i] \in Rank
      BY <1>7 DEF Collect, Rank
    <2>2. PICK e \in reg[cursor[i]] : buf' = [buf EXCEPT ![i] = @ \cup e.val]
      BY <1>7 DEF Collect, Find
    <2>3. e.val \in SUBSET (Rank \X Round)
      BY <2>1, <2>2, EntryParts
    <2>4. buf' \in [Rank -> SUBSET (Rank \X Round)]
      BY <2>2, <2>3
    <2> QED
      BY <1>7, <2>4, LoopBounds DEF Collect, Goto, Label, Calling
  <1>8. ASSUME NEW i \in Rank, Collected(i) PROVE TypeOK'
    <2>1. Out(Cur(i), buf[i]) \in Entry
      BY <1>8, EntryTypes, InRound DEF Collected, Calling, InCall
    <2> QED
      BY <1>8, <2>1 DEF Collected, Goto, Label, Calling
  <1>9. ASSUME NEW i \in Rank, Fetch(i) PROVE TypeOK'
    <2>1. plan[Cur(i)].root \in Rank
      BY <1>9, InRound, OpRoot DEF Fetch, Calling, InCall
    <2>2. PICK e \in reg[plan[Cur(i)].root] : buf' = [buf EXCEPT ![i] = e.val]
      BY <1>9 DEF Fetch, Find
    <2>3. e.val \in SUBSET (Rank \X Round)
      BY <2>1, <2>2, EntryParts
    <2>4. buf' \in [Rank -> SUBSET (Rank \X Round)]
      BY <2>2, <2>3
    <2> QED
      BY <1>9, <2>4, LoopBounds DEF Fetch, Goto, Label, Calling
  <1>10. ASSUME NEW i \in Rank, FetchFail(i) PROVE TypeOK'
    <2>1. Cur(i) \in Round
      BY <1>10, InRound DEF FetchFail, Calling, InCall
    <2>2. Error(Cur(i)) \in ReturnRecord /\ Ok(Cur(i), buf[i]) \in ReturnRecord
      BY <2>1, ReturnTypes
    <2>3. reg' \in [Rank -> SUBSET Entry]
      BY <1>10, Registries DEF FetchFail
    <2> QED
      BY <1>10, <2>2, <2>3 DEF FetchFail, Return, Goto, Label
  <1>11. ASSUME NEW i \in Rank, PublishToken(i) PROVE TypeOK'
    <2>1. Cur(i) \in Round
      BY <1>11, InRound DEF PublishToken, Calling, InCall
    <2>2. Done(Cur(i)) \in Entry
      BY <2>1, EntryTypes
    <2> QED
      BY <1>11, <2>1, <2>2, LoopBounds DEF PublishToken, Goto, Label, Calling
  <1>12. ASSUME NEW i \in Rank, AwaitToken(i) PROVE TypeOK'
    BY <1>12, LoopBounds DEF AwaitToken, Goto, Label, Calling
  <1>13. ASSUME NEW i \in Rank, Finish(i) PROVE TypeOK'
    <2>1. Cur(i) \in Round
      BY <1>13, InRound DEF Finish, Calling, InCall
    <2>2. Error(Cur(i)) \in ReturnRecord /\ Ok(Cur(i), buf[i]) \in ReturnRecord
      BY <2>1, ReturnTypes
    <2>3. reg' \in [Rank -> SUBSET Entry]
      BY <1>13, Registries DEF Finish
    <2> QED
      BY <1>13, <2>2, <2>3 DEF Finish, Return, Goto, Label
  <1>14. ASSUME NEW i \in Rank, BarrierFail(i) PROVE TypeOK'
    <2>1. Error(Cur(i)) \in ReturnRecord
      BY <1>14, InRound, ReturnTypes DEF BarrierFail, Calling, InCall
    <2> QED
      BY <1>14, <2>1 DEF BarrierFail, Return, Goto, Label
  <1>15. ASSUME NEW i \in Rank, Shutdown(i) PROVE TypeOK'
    BY <1>15, LoopBounds, EntryTypes DEF Shutdown, Goto, Label
  <1>16. ASSUME NEW i \in Rank, AwaitBye(i) PROVE TypeOK'
    BY <1>16, LoopBounds DEF AwaitBye, Goto, Label, Calling
  <1>17. ASSUME NEW i \in Rank, CloseClient(i) PROVE TypeOK'
    BY <1>17, LoopBounds DEF CloseClient, Goto, Label, Calling
  <1>18. ASSUME NEW i \in Rank, ByeFail(i) PROVE TypeOK'
    BY <1>18, LoopBounds DEF ByeFail, Goto, Label, Calling
  <1>19. ASSUME NEW i \in Rank, CloseServer(i) PROVE TypeOK'
    BY <1>19, LoopBounds DEF CloseServer, Goto, Label, Calling
  <1>20. ASSUME NEW i \in Rank, DrainTimeout(i) PROVE TypeOK'
    BY <1>20, LoopBounds DEF DrainTimeout, Goto, Label, Calling
  <1>21. ASSUME NEW i \in Rank, Crash(i) PROVE TypeOK'
    BY <1>21, LoopBounds DEF Crash, Goto, Label, Calling
  <1>22. CASE UNCHANGED vars
    BY <1>22 DEF vars
  <1> QED
    BY <1>1, <1>2, <1>3, <1>4, <1>5, <1>6, <1>7, <1>8, <1>9, <1>10, <1>11, <1>12, <1>13, <1>14, <1>15, <1>16, <1>17, <1>18, <1>19, <1>20, <1>21, <1>22 DEF Next, Progress, GiveUp

(* When the loop over the peers has ended, every rank's input is in.       *)
LEMMA GatheredAll ==
  ASSUME CollectiveInv, NEW i \in Rank, pc[i] = "collect", cursor[i] >= NPeers
  PROVE  buf[i] = Rank \X {Cur(i)} /\ buf[i] = Inputs(plan[Cur(i)], Cur(i))
  <1>1. /\ plan[Cur(i)].kind # "broadcast"
        /\ buf[i] = {<<i, Cur(i)>>}
                       \cup {<<j, Cur(i)>> : j \in {k \in Rank : k < cursor[i]}}
    BY DEF CollectiveInv, CallSound, CallStateSound, InCall, Calling
  <1>2. {k \in Rank : k < cursor[i]} = Rank
    BY DEF CollectiveInv, TypeOK, Rank
  <1>3. buf[i] = Rank \X {Cur(i)}
    BY <1>1, <1>2
  <1> QED
    BY <1>1, <1>3 DEF Inputs

(* What no step undoes: the plan is fixed, history grows, round counters   *)
(* advance, and a rank that is shutting down or gone stays so.             *)
Irreversible ==
  /\ plan' = plan
  /\ joined \subseteq joined'
  /\ tokened \subseteq tokened'
  /\ \A k \in Rank : rnd[k] <= rnd'[k]
  /\ \A k \in Rank : Leaving(k) => Leaving(k)'

(* No step undoes what the history has recorded, takes a round number      *)
(* back, or brings a rank that is leaving back.                            *)
LEMMA Monotone == CollectiveInv /\ [Next]_vars => Irreversible
  <1> SUFFICES ASSUME CollectiveInv, [Next]_vars PROVE Irreversible
    OBVIOUS
  <1>0. TypeOK
    BY DEF CollectiveInv
  <1> USE <1>0 DEF TypeOK, Irreversible, Leaving, Goto, Return
  <1>1. ASSUME NEW i \in Rank, Bind(i) \/ Connect(i) \/ Ready(i) \/ InitFail(i)
        PROVE  Irreversible
    BY <1>1 DEF Bind, Connect, Ready, InitFail
  <1>2. ASSUME NEW i \in Rank, Call(i) \/ Reject(i)
        PROVE  Irreversible
    BY <1>2 DEF Call, Reject
  <1>3. ASSUME NEW i \in Rank,
               Collect(i) \/ Collected(i) \/ Fetch(i) \/ FetchFail(i)
        PROVE  Irreversible
    BY <1>3 DEF Collect, Collected, Fetch, FetchFail
  <1>4. ASSUME NEW i \in Rank,
               PublishToken(i) \/ AwaitToken(i) \/ Finish(i) \/ BarrierFail(i)
        PROVE  Irreversible
    BY <1>4 DEF PublishToken, AwaitToken, Finish, BarrierFail
  <1>5. ASSUME NEW i \in Rank,
               Shutdown(i) \/ AwaitBye(i) \/ CloseClient(i) \/ ByeFail(i)
        PROVE  Irreversible
    BY <1>5 DEF Shutdown, AwaitBye, CloseClient, ByeFail
  <1>6. ASSUME NEW i \in Rank, CloseServer(i) \/ DrainTimeout(i) \/ Crash(i)
        PROVE  Irreversible
    BY <1>6 DEF CloseServer, DrainTimeout, Crash
  <1>7. CASE UNCHANGED vars
    BY <1>7 DEF vars
  <1> QED
    BY <1>1, <1>2, <1>3, <1>4, <1>5, <1>6, <1>7 DEF Next, Progress, GiveUp

(* What is published stays sound while its owner's server is not closed.   *)
LEMMA OldEntries ==
  ASSUME TypeOK, EntriesSound, Irreversible, NEW k \in Rank, NEW e \in reg[k],
         pc[k] \in {"bye", "drain"} => pc'[k] \in {"bye", "drain"}
  PROVE  EntrySound(k, e)'
  BY DEF TypeOK, EntriesSound, EntrySound, Irreversible

(* A step that publishes nothing keeps what is published sound.            *)
LEMMA EntriesShrink ==
  ASSUME TypeOK, EntriesSound, Irreversible,
         \A k \in Rank : reg'[k] \subseteq reg[k],
         \A k \in Rank : pc[k] \in {"bye", "drain"} =>
                           pc'[k] \in {"bye", "drain"} \/ reg'[k] = {}
  PROVE  EntriesSound'
  BY OldEntries DEF EntriesSound

(* A step that adds one entry to the registry of one rank.                 *)
LEMMA EntriesGrow ==
  ASSUME TypeOK, EntriesSound, Irreversible, NEW i \in Rank, NEW new,
         reg' = [reg EXCEPT ![i] = @ \cup {new}],
         EntrySound(i, new)',
         \A k \in Rank : pc[k] \in {"bye", "drain"} => pc'[k] \in {"bye", "drain"}
  PROVE  EntriesSound'
  <1>1. ASSUME NEW k \in Rank, NEW e \in reg'[k]
        PROVE  EntrySound(k, e)'
    <2>1. e \in reg[k] \/ (k = i /\ e = new)
      BY DEF TypeOK
    <2> QED
      BY <2>1, OldEntries
  <1> QED
    BY <1>1 DEF EntriesSound

(* Every action keeps what is published sound.                             *)
LEMMA EntriesStep == CollectiveInv /\ [Next]_vars => EntriesSound'
  <1> SUFFICES ASSUME CollectiveInv, [Next]_vars PROVE EntriesSound'
    OBVIOUS
  <1>0. TypeOK /\ TypeOK' /\ Irreversible /\ EntriesSound
    BY TypeStep, Monotone DEF CollectiveInv
  <1> USE <1>0 DEF TypeOK, Goto, Return
  <1>1. ASSUME NEW i \in Rank, Bind(i) \/ Connect(i) \/ Ready(i) \/ InitFail(i)
        PROVE  EntriesSound'
    BY <1>1, EntriesShrink DEF Bind, Connect, Ready, InitFail
  <1>2. ASSUME NEW i \in Rank, Call(i)
        PROVE  EntriesSound'
    <2>1. \A k \in Rank : pc[k] \in {"bye", "drain"} => pc'[k] = pc[k]
      BY <1>2 DEF Call
    <2>2. CASE Sends(i, plan[rnd[i]])
      <3>1. PICK new : new = In(i, rnd[i])
        OBVIOUS
      <3>2. EntrySound(i, new)'
        BY <1>2, <3>1 DEF Call, In, EntrySound
      <3>3. reg' = [reg EXCEPT ![i] = @ \cup {new}]
        BY <1>2, <2>2, <3>1 DEF Call
      <3> QED
        BY <2>1, <3>2, <3>3, EntriesGrow
    <2>3. CASE ~Sends(i, plan[rnd[i]])
      BY <1>2, <2>1, <2>3, EntriesShrink DEF Call
    <2> QED
      BY <2>2, <2>3
  <1>3. ASSUME NEW i \in Rank, Reject(i)
        PROVE  EntriesSound'
    BY <1>3, EntriesShrink DEF Reject
  <1>4. ASSUME NEW i \in Rank, Collect(i) \/ Fetch(i)
        PROVE  EntriesSound'
    BY <1>4, EntriesShrink DEF Collect, Fetch
  <1>5. ASSUME NEW i \in Rank, Collected(i)
        PROVE  EntriesSound'
    <2>1. PICK r \in Round : r = Cur(i)
      BY <1>5, InRound DEF Collected, InCall, Calling
    <2>2. \A k \in Rank : pc[k] \in {"bye", "drain"} => pc'[k] = pc[k]
      BY <1>5 DEF Collected
    <2>3. CASE PublishesResult(i, plan[r])
      <3>1. buf[i] = Rank \X {r}
        BY <1>5, <2>1, GatheredAll DEF Collected
      <3>2. PICK new : new = Out(r, buf[i])
        OBVIOUS
      <3>3. EntrySound(i, new)'
        <4>1. <<i, r>> \in joined'
          BY <1>5, <2>1 DEF Collected, CollectiveInv, CallSound, CallStateSound, InCall, Calling
        <4> QED
          BY <2>3, <3>1, <3>2, <4>1 DEF EntrySound, Out, PublishesResult, Irreversible
      <3>4. reg' = [reg EXCEPT ![i] = @ \cup {new}]
        BY <1>5, <2>1, <2>3, <3>2 DEF Collected
      <3> QED
        BY <2>2, <3>3, <3>4, EntriesGrow
    <2>4. CASE ~PublishesResult(i, plan[r])
      BY <1>5, <2>1, <2>2, <2>4, EntriesShrink DEF Collected
    <2> QED
      BY <2>3, <2>4
  <1>6. ASSUME NEW i \in Rank, FetchFail(i) \/ AwaitToken(i) \/ Finish(i) \/ BarrierFail(i)
        PROVE  EntriesSound'
    <2>1. \A k \in Rank : reg'[k] \subseteq reg[k]
      BY <1>6 DEF FetchFail, AwaitToken, Finish, BarrierFail, Release, ReclaimBefore
    <2>2. \A k \in Rank : pc[k] \in {"bye", "drain"} => pc'[k] = pc[k]
      BY <1>6 DEF FetchFail, AwaitToken, Finish, BarrierFail
    <2> QED
      BY <2>1, <2>2, EntriesShrink
  <1>7. ASSUME NEW i \in Rank, PublishToken(i)
        PROVE  EntriesSound'
    <2>1. PICK new : new = Done(Cur(i))
      OBVIOUS
    <2>2. EntrySound(i, new)'
      BY <1>7, <2>1 DEF PublishToken, EntrySound, Done
    <2>3. reg' = [reg EXCEPT ![i] = @ \cup {new}]
      BY <1>7, <2>1 DEF PublishToken
    <2>4. \A k \in Rank : pc[k] \in {"bye", "drain"} => pc'[k] = pc[k]
      BY <1>7 DEF PublishToken
    <2> QED
      BY <2>2, <2>3, <2>4, EntriesGrow
  <1>8. ASSUME NEW i \in Rank, Shutdown(i)
        PROVE  EntriesSound'
    <2>1. EntrySound(i, Bye)'
      BY <1>8 DEF Shutdown, EntrySound, Bye
    <2>2. \A k \in Rank : pc[k] \in {"bye", "drain"} => pc'[k] = pc[k]
      BY <1>8 DEF Shutdown
    <2> QED
      BY <1>8, <2>1, <2>2, EntriesGrow DEF Shutdown
  <1>9. ASSUME NEW i \in Rank, AwaitBye(i) \/ CloseClient(i) \/ ByeFail(i)
        PROVE  EntriesSound'
    BY <1>9, EntriesShrink DEF AwaitBye, CloseClient, ByeFail
  <1>10. ASSUME NEW i \in Rank, CloseServer(i) \/ DrainTimeout(i) \/ Crash(i)
         PROVE  EntriesSound'
    BY <1>10, EntriesShrink DEF CloseServer, DrainTimeout, Crash
  <1>11. CASE UNCHANGED vars
    BY <1>11, EntriesShrink DEF vars
  <1> QED
    BY <1>1, <1>2, <1>3, <1>4, <1>5, <1>6, <1>7, <1>8, <1>9, <1>10, <1>11
       DEF Next, Progress, GiveUp

-----------------------------------------------------------------------------
(* Rounds are joined before they are left, whatever action is taken.       *)
LEMMA HistoryStep == CollectiveInv /\ [Next]_vars => HistorySound'
  <1> SUFFICES ASSUME CollectiveInv, [Next]_vars PROVE HistorySound'
    OBVIOUS
  <1>0. TypeOK /\ TypeOK' /\ HistorySound /\ CallSound /\ Irreversible
    BY TypeStep, Monotone DEF CollectiveInv
  <1> USE <1>0
  <1>a. \A k \in Rank : rnd[k] \in Nat /\ rnd'[k] \in Nat
    BY DEF TypeOK
  (* Old pairs: counters only grow, and a rank re-enters a call only with a  *)
  (* new round.                                                              *)
  <1>1. ASSUME joined' = joined, tokened' = tokened,
               \A k \in Rank : rnd'[k] > rnd[k]
                                \/ pc'[k] \notin {"collect", "fetch", "token"}
                                \/ pc[k] \in {"collect", "fetch", "token"}
        PROVE  HistorySound'
    <2>1. ASSUME NEW k \in Rank, NEW r \in Round, <<k, r>> \in joined
          PROVE  r < rnd'[k]
      BY <1>a, <2>1 DEF HistorySound, Irreversible, Round
    <2>2. ASSUME NEW k \in Rank, NEW r \in Round, <<k, r>> \in tokened
          PROVE  /\ <<k, r>> \in joined
                 /\ \/ rnd'[k] > r + 1
                    \/ rnd'[k] = r + 1 /\ pc'[k] \notin {"collect", "fetch", "token"}
      BY <1>1, <1>a, <2>2 DEF HistorySound, Irreversible, Round
    <2> QED
      BY <1>1, <2>1, <2>2 DEF HistorySound
  <1>2. ASSUME NEW i \in Rank, Call(i)
        PROVE  HistorySound'
    <2>1. rnd' = [rnd EXCEPT ![i] = @ + 1] /\ joined' = joined \cup {<<i, rnd[i]>>}
          /\ tokened' = tokened /\ rnd[i] \in Round
      BY <1>2 DEF Call, TypeOK, Round
    <2>2. \A k \in Rank : k # i => pc'[k] = pc[k] /\ rnd'[k] = rnd[k]
      BY <1>2 DEF Call, Goto, TypeOK
    <2>3. rnd'[i] = rnd[i] + 1
      BY <2>1 DEF TypeOK
    <2>4. ASSUME NEW k \in Rank, NEW r \in Round, <<k, r>> \in joined'
          PROVE  r < rnd'[k]
      BY <1>a, <2>1, <2>2, <2>3, <2>4 DEF HistorySound, Round
    <2>5. ASSUME NEW k \in Rank, NEW r \in Round, <<k, r>> \in tokened
          PROVE  /\ <<k, r>> \in joined
                 /\ \/ rnd'[k] > r + 1
                    \/ rnd'[k] = r + 1 /\ pc'[k] \notin {"collect", "fetch", "token"}
      BY <1>a, <2>2, <2>3, <2>5 DEF HistorySound, Round
    <2> QED
      BY <2>1, <2>4, <2>5 DEF HistorySound
  <1>3. ASSUME NEW i \in Rank, PublishToken(i)
        PROVE  HistorySound'
    <2>1. /\ pc' = [pc EXCEPT ![i] = "barrier"] /\ rnd' = rnd /\ joined' = joined
          /\ tokened' = tokened \cup {<<i, rnd[i] - 1>>}
          /\ <<i, rnd[i] - 1>> \in joined /\ pc'[i] = "barrier"
          /\ \A k \in Rank : k # i => pc'[k] = pc[k]
      BY <1>3 DEF TypeOK, PublishToken, Goto, Cur, CallSound, CallStateSound, InCall, Calling
    <2>2. ASSUME NEW k \in Rank, NEW r \in Round, <<k, r>> \in tokened'
          PROVE  /\ <<k, r>> \in joined
                 /\ \/ rnd[k] > r + 1
                    \/ rnd[k] = r + 1 /\ pc'[k] \notin {"collect", "fetch", "token"}
      BY <1>a, <2>1, <2>2 DEF HistorySound, Round
    <2> QED
      BY <2>1, <2>2 DEF HistorySound
  <1>4. ASSUME NEW i \in Rank,
               \/ Bind(i) \/ Connect(i) \/ Ready(i) \/ InitFail(i) \/ Reject(i)
               \/ Collect(i) \/ Collected(i) \/ Fetch(i) \/ FetchFail(i)
        PROVE  HistorySound'
    BY <1>1, <1>4 DEF TypeOK, Bind, Connect, Ready, InitFail, Reject, Collect, Collected,
                      Fetch, FetchFail, Goto, Return
  <1>5. ASSUME NEW i \in Rank,
               \/ AwaitToken(i) \/ Finish(i) \/ BarrierFail(i)
               \/ Shutdown(i) \/ AwaitBye(i) \/ CloseClient(i) \/ ByeFail(i)
               \/ CloseServer(i) \/ DrainTimeout(i) \/ Crash(i)
        PROVE  HistorySound'
    BY <1>1, <1>5 DEF TypeOK, AwaitToken, Finish, BarrierFail, Shutdown, AwaitBye,
                      CloseClient, ByeFail, CloseServer, DrainTimeout, Crash,
                      Goto, Return
  <1>6. CASE UNCHANGED vars
    BY <1>1, <1>6 DEF vars
  <1> QED
    BY <1>2, <1>3, <1>4, <1>5, <1>6 DEF Next, Progress, GiveUp

-----------------------------------------------------------------------------
(* A rank that a step does not move stays sound: the plan is fixed and     *)
(* history only grows.                                                     *)
LEMMA OtherCalls ==
  ASSUME CallSound, Irreversible, NEW k \in Rank, InCall(k)',
         pc'[k] = pc[k], rnd'[k] = rnd[k], cursor'[k] = cursor[k], buf'[k] = buf[k]
  PROVE  CallStateSound(k)'
  BY DEF CallSound, Irreversible, InCall, CallStateSound, Cur

(* So a step of rank i has to be looked at for rank i only.                *)
LEMMA CallSoundAt ==
  ASSUME CallSound, Irreversible, NEW i \in Rank,
         \A k \in Rank : k # i => /\ pc'[k] = pc[k] /\ rnd'[k] = rnd[k]
                                  /\ cursor'[k] = cursor[k] /\ buf'[k] = buf[k],
         InCall(i)' => CallStateSound(i)'
  PROVE  CallSound'
  BY OtherCalls DEF CallSound

(* The next peer of a loop: everything below it is what was below, the     *)
(* peer itself, and perhaps the rank running the loop.                     *)
LEMMA LoopStep ==
  ASSUME NEW i \in Rank, NEW p \in Rank, NEW j \in Rank
  PROVE  /\ j < FirstPeer(i) => j = i
         /\ j < p => j < NextPeer(i, p)
         /\ p < NextPeer(i, p)
         /\ j < NextPeer(i, p) => j < p \/ j = p \/ j = i
  BY DEF FirstPeer, NextPeer, Rank

(* A rank inside a call keeps an exact account of what it has gathered.    *)
LEMMA CallStep == CollectiveInv /\ [Next]_vars => CallSound'
  <1> SUFFICES ASSUME CollectiveInv, [Next]_vars PROVE CallSound'
    OBVIOUS
  <1>0. TypeOK /\ TypeOK' /\ CallSound /\ EntriesSound /\ Irreversible
    BY TypeStep, Monotone DEF CollectiveInv
  <1> USE <1>0
  <1>1. ASSUME NEW i \in Rank, Call(i)
        PROVE  CallSound'
    <2>1. \A k \in Rank : k # i => /\ pc'[k] = pc[k] /\ rnd'[k] = rnd[k]
                                    /\ cursor'[k] = cursor[k] /\ buf'[k] = buf[k]
      BY <1>1 DEF Call, Goto, TypeOK
    <2>2. PICK r \in Round : r = rnd[i]
      BY <1>1 DEF Call, TypeOK, Round
    <2>3. /\ Cur(i)' = r
          /\ buf'[i] = {<<i, r>>}
          /\ cursor'[i] = FirstPeer(i)
          /\ pc'[i] = AfterPublish(i, plan[r])
          /\ <<i, r>> \in joined'
          /\ plan' = plan
      BY <1>1, <2>2 DEF Call, Goto, TypeOK, Cur, Round
    <2>4. {<<j, r>> : j \in {k \in Rank : k < FirstPeer(i)}} \subseteq {<<i, r>>}
      BY LoopStep
    <2>5. pc'[i] = "collect" => plan[r].kind # "broadcast"
      BY <2>3 DEF AfterPublish, Collects
    <2>6. pc'[i] = "fetch" => ~Collects(i, plan[r])
      BY <2>3 DEF AfterPublish
    <2>7. pc'[i] = "token" => buf'[i] = Inputs(plan[r], r)
      BY <2>3 DEF AfterPublish, Inputs
    <2>8. pc'[i] # "barrier"
      BY <2>3 DEF AfterPublish
    <2>9. CallStateSound(i)'
      BY <2>3, <2>4, <2>5, <2>6, <2>7, <2>8 DEF CallStateSound
    <2> QED
      BY <2>1, <2>9, CallSoundAt
  <1>2. ASSUME NEW i \in Rank, Collect(i)
        PROVE  CallSound'
    <2>1. \A k \in Rank : k # i => /\ pc'[k] = pc[k] /\ rnd'[k] = rnd[k]
                                    /\ cursor'[k] = cursor[k] /\ buf'[k] = buf[k]
      BY <1>2 DEF Collect, Goto, TypeOK
    <2>2. PICK r \in Round : r = Cur(i)
      BY <1>2, InRound DEF Collect, InCall, Calling
    <2>3. CallStateSound(i)
      BY <1>2 DEF Collect, CallSound, InCall, Calling
    <2>4. PICK p \in Rank : p = cursor[i]
      BY <1>2 DEF Collect, TypeOK, Rank
    <2>5. buf'[i] = buf[i] \cup {<<p, r>>}
      <3>1. PICK e \in reg[p] : /\ e.kind = "in" /\ e.round = r
                                /\ buf'[i] = buf[i] \cup e.val
        BY <1>2, <2>2, <2>4 DEF Collect, Find, TypeOK
      <3> QED
        BY <3>1 DEF EntriesSound, EntrySound
    <2>6. pc'[i] = "collect" /\ Cur(i)' = r /\ cursor'[i] = NextPeer(i, p)
      BY <1>2, <2>2, <2>4 DEF Collect, TypeOK, Cur
    <2>7. buf[i] = {<<i, r>>} \cup {<<j, r>> : j \in {k \in Rank : k < p}}
      BY <1>2, <2>2, <2>3, <2>4 DEF CallStateSound, Collect
    <2>8. {<<i, r>>} \cup {<<j, r>> : j \in {k \in Rank : k < NextPeer(i, p)}}
            = buf[i] \cup {<<p, r>>}
      BY <2>7, LoopStep
    <2>9. CallStateSound(i)'
      BY <1>2, <2>2, <2>3, <2>5, <2>6, <2>8 DEF CallStateSound, Irreversible, Collect
    <2> QED
      BY <2>1, <2>9, CallSoundAt
  <1>3. ASSUME NEW i \in Rank, Collected(i)
        PROVE  CallSound'
    <2>1. \A k \in Rank : k # i => /\ pc'[k] = pc[k] /\ rnd'[k] = rnd[k]
                                    /\ cursor'[k] = cursor[k] /\ buf'[k] = buf[k]
      BY <1>3 DEF Collected, Goto, TypeOK
    <2>2. PICK r \in Round : r = Cur(i)
      BY <1>3, InRound DEF Collected, InCall, Calling
    <2>3. CallStateSound(i)
      BY <1>3 DEF Collected, CallSound, InCall, Calling
    <2>4. buf'[i] = Inputs(plan[r], r)
      BY <1>3, <2>2, GatheredAll DEF Collected
    <2>5. pc'[i] = "token" /\ Cur(i)' = r
      BY <1>3, <2>2 DEF Collected, Goto, TypeOK, Cur
    <2>6. CallStateSound(i)'
      BY <2>2, <2>3, <2>4, <2>5 DEF CallStateSound, Irreversible
    <2> QED
      BY <2>1, <2>6, CallSoundAt
  <1>4. ASSUME NEW i \in Rank, Fetch(i)
        PROVE  CallSound'
    <2>1. \A k \in Rank : k # i => /\ pc'[k] = pc[k] /\ rnd'[k] = rnd[k]
                                    /\ cursor'[k] = cursor[k] /\ buf'[k] = buf[k]
      BY <1>4 DEF Fetch, Goto, TypeOK
    <2>2. PICK r \in Round : r = Cur(i)
      BY <1>4, InRound DEF Fetch, InCall, Calling
    <2>3. CallStateSound(i)
      BY <1>4 DEF Fetch, CallSound, InCall, Calling
    <2>4. plan[r].root \in Rank
      BY OpRoot DEF TypeOK
    <2>5. buf'[i] = Inputs(plan[r], r)
      <3>1. PICK e \in reg[plan[r].root] :
              /\ e.kind = SourceKind(plan[r]) /\ e.round = r /\ buf'[i] = e.val
        BY <1>4, <2>2, <2>4 DEF Fetch, Find, TypeOK
      <3> QED
        BY <2>4, <3>1 DEF EntriesSound, EntrySound, SourceKind, Inputs
    <2>6. pc'[i] = "token" /\ Cur(i)' = r
      BY <1>4, <2>2 DEF Fetch, Goto, TypeOK, Cur
    <2>7. CallStateSound(i)'
      BY <2>2, <2>3, <2>5, <2>6 DEF CallStateSound, Irreversible
    <2> QED
      BY <2>1, <2>7, CallSoundAt
  <1>5. ASSUME NEW i \in Rank, PublishToken(i)
        PROVE  CallSound'
    <2>1. \A k \in Rank : k # i => /\ pc'[k] = pc[k] /\ rnd'[k] = rnd[k]
                                    /\ cursor'[k] = cursor[k] /\ buf'[k] = buf[k]
      BY <1>5 DEF PublishToken, Goto, TypeOK
    <2>2. PICK r \in Round : r = Cur(i)
      BY <1>5, InRound DEF PublishToken, InCall, Calling
    <2>3. CallStateSound(i)
      BY <1>5 DEF PublishToken, CallSound, InCall, Calling
    <2>4. /\ pc'[i] = "barrier" /\ Cur(i)' = r /\ cursor'[i] = FirstPeer(i)
          /\ buf'[i] = buf[i] /\ <<i, r>> \in tokened'
      BY <1>5, <2>2 DEF PublishToken, Goto, TypeOK, Cur
    <2>5. \A j \in Rank : j < FirstPeer(i) => <<j, r>> \in tokened'
      BY <2>4, LoopStep
    <2>6. CallStateSound(i)'
      BY <1>5, <2>2, <2>3, <2>4, <2>5 DEF CallStateSound, Irreversible, PublishToken
    <2> QED
      BY <2>1, <2>6, CallSoundAt
  <1>6. ASSUME NEW i \in Rank, AwaitToken(i)
        PROVE  CallSound'
    <2>1. \A k \in Rank : k # i => /\ pc'[k] = pc[k] /\ rnd'[k] = rnd[k]
                                    /\ cursor'[k] = cursor[k] /\ buf'[k] = buf[k]
      BY <1>6 DEF AwaitToken, Goto, TypeOK
    <2>2. PICK r \in Round : r = Cur(i)
      BY <1>6, InRound DEF AwaitToken, InCall, Calling
    <2>3. CallStateSound(i)
      BY <1>6 DEF AwaitToken, CallSound, InCall, Calling
    <2>4. PICK p \in Rank : p = cursor[i]
      BY <1>6 DEF AwaitToken, TypeOK, Rank
    <2>5. <<p, r>> \in tokened
      BY <1>6, <2>2, <2>4 DEF AwaitToken, Find, EntriesSound, EntrySound
    <2>6. /\ pc'[i] = "barrier" /\ Cur(i)' = r /\ cursor'[i] = NextPeer(i, p)
          /\ buf'[i] = buf[i] /\ tokened' = tokened
      BY <1>6, <2>2, <2>4 DEF AwaitToken, TypeOK, Cur
    <2>7. \A j \in Rank : j < NextPeer(i, p) => <<j, r>> \in tokened
      BY <1>6, <2>2, <2>3, <2>4, <2>5, LoopStep DEF AwaitToken, CallStateSound
    <2>8. CallStateSound(i)'
      BY <1>6, <2>2, <2>3, <2>6, <2>7 DEF CallStateSound, Irreversible, AwaitToken
    <2> QED
      BY <2>1, <2>8, CallSoundAt
  (* Every other step leaves the rank outside a call, or was never in one.   *)
  <1>7. ASSUME NEW i \in Rank, pc'[i] \notin Calling,
               \A k \in Rank : k # i => /\ pc'[k] = pc[k] /\ rnd'[k] = rnd[k]
                                        /\ cursor'[k] = cursor[k] /\ buf'[k] = buf[k]
        PROVE  CallSound'
    BY <1>7, CallSoundAt DEF InCall
  <1>8. ASSUME NEW i \in Rank,
               \/ Bind(i) \/ Connect(i) \/ Ready(i) \/ InitFail(i) \/ Reject(i)
               \/ FetchFail(i) \/ Finish(i) \/ BarrierFail(i)
        PROVE  CallSound'
    BY <1>7, <1>8 DEF TypeOK, Bind, Connect, Ready, InitFail, Reject, FetchFail,
                      Finish, BarrierFail, Goto, Return, Calling
  <1>9. ASSUME NEW i \in Rank,
               \/ Shutdown(i) \/ AwaitBye(i) \/ CloseClient(i) \/ ByeFail(i)
               \/ CloseServer(i) \/ DrainTimeout(i) \/ Crash(i)
        PROVE  CallSound'
    BY <1>7, <1>9 DEF TypeOK, Shutdown, AwaitBye, CloseClient, ByeFail,
                      CloseServer, DrainTimeout, Crash, Goto, Calling
  <1>10. CASE UNCHANGED vars
    <2>1. \A k \in Rank : InCall(k)' => CallStateSound(k)'
      BY <1>10, OtherCalls DEF vars
    <2> QED
      BY <2>1 DEF CallSound
  <1> QED
    BY <1>1, <1>2, <1>3, <1>4, <1>5, <1>6, <1>8, <1>9, <1>10
       DEF Next, Progress, GiveUp

-----------------------------------------------------------------------------
(* A step that publishes no token and drops none of a live rank.           *)
LEMMA TokensUntouched ==
  ASSUME TypeOK, TypeOK', TokensKept, Irreversible, tokened' = tokened,
         \A k \in Rank : pc'[k] \notin {"closed", "crashed"} =>
           /\ pc[k] \notin {"closed", "crashed"}
           /\ \A r \in Round : Done(r) \in reg[k] => Done(r) \in reg'[k]
  PROVE  TokensKept'
  <1>1. ASSUME NEW i \in Rank, NEW j \in Rank, NEW r \in Round,
               <<i, r>> \in tokened, rnd'[j] <= r + 1,
               pc'[i] \notin {"closed", "crashed"}
        PROVE  Done(r) \in reg'[i]
    <2>1. rnd[j] <= r + 1
      BY <1>1 DEF Irreversible, TypeOK, Round
    <2> QED
      BY <1>1, <2>1 DEF TokensKept
  <1>2. \A r \in Round : Done(r)' = Done(r)
    BY DEF Done
  <1> QED
    BY <1>1, <1>2 DEF TokensKept

(* Passing the barrier of round r: every rank has begun round r, so nobody *)
(* can still want a token of an earlier round.                             *)
LEMMA BarrierPassed ==
  ASSUME CollectiveInv, NEW i \in Rank, pc[i] = "barrier", cursor[i] >= NPeers
  PROVE  /\ Cur(i) \in Round
         /\ \A j \in Rank : <<j, Cur(i)>> \in tokened /\ rnd[j] > Cur(i)
         /\ buf[i] = Inputs(plan[Cur(i)], Cur(i))
  <1>1. CallStateSound(i)
    BY DEF CollectiveInv, CallSound, InCall, Calling
  <1>2. Cur(i) \in Round /\ \A j \in Rank : <<j, Cur(i)>> \in tokened
    BY <1>1, SMTT(30) DEF CallStateSound, CollectiveInv, TypeOK, Rank
  <1>3. \A j \in Rank : rnd[j] > Cur(i)
    BY <1>2 DEF CollectiveInv, HistorySound, TypeOK, Round
  <1> QED
    BY <1>1, <1>2, <1>3 DEF CallStateSound

(* No action frees a token some live rank may still have to poll.          *)
LEMMA TokensStep == CollectiveInv /\ [Next]_vars => TokensKept'
  <1> SUFFICES ASSUME CollectiveInv, [Next]_vars PROVE TokensKept'
    OBVIOUS
  <1>0. TypeOK /\ TypeOK' /\ TokensKept /\ Irreversible
    BY TypeStep, Monotone DEF CollectiveInv
  <1> USE <1>0
  <1>1. ASSUME NEW i \in Rank,
               \/ Bind(i) \/ Connect(i) \/ Ready(i) \/ InitFail(i) \/ Reject(i)
               \/ Collect(i) \/ Fetch(i)
        PROVE  TokensKept'
    <2>1. /\ reg' = reg /\ tokened' = tokened
          /\ \A k \in Rank : pc[k] \in {"closed", "crashed"} => pc'[k] = pc[k]
      BY <1>1 DEF Bind, Connect, Ready, InitFail, Reject, Collect, Fetch, Goto,
                  Return, TypeOK
    <2> QED
      BY <2>1, TokensUntouched
  <1>2. ASSUME NEW i \in Rank, Call(i) \/ Collected(i) \/ FetchFail(i)
        PROVE  TokensKept'
    <2>1. \A k \in Rank : \A r \in Round : Done(r) \in reg[k] => Done(r) \in reg'[k]
      BY <1>2 DEF Call, Collected, FetchFail, Release, Done, TypeOK
    <2>2. /\ tokened' = tokened
          /\ \A k \in Rank : pc[k] \in {"closed", "crashed"} => pc'[k] = pc[k]
      BY <1>2 DEF Call, Collected, FetchFail, Goto, Return, TypeOK
    <2> QED
      BY <2>1, <2>2, TokensUntouched
  <1>3. ASSUME NEW i \in Rank, PublishToken(i)
        PROVE  TokensKept'
    <2>1. PICK c \in Round : c = Cur(i)
      BY <1>3, InRound DEF PublishToken, InCall, Calling
    <2>2. /\ reg' = [reg EXCEPT ![i] = @ \cup {Done(c)}]
          /\ tokened' = tokened \cup {<<i, c>>}
          /\ rnd' = rnd
          /\ \A k \in Rank : pc[k] \in {"closed", "crashed"} => pc'[k] = pc[k]
      BY <1>3, <2>1 DEF PublishToken, Goto, TypeOK
    <2>3. ASSUME NEW k \in Rank, NEW j \in Rank, NEW r \in Round,
                 <<k, r>> \in tokened', rnd[j] <= r + 1,
                 pc'[k] \notin {"closed", "crashed"}
          PROVE  Done(r) \in reg'[k]
      <3>1. CASE <<k, r>> \in tokened
        BY <2>2, <2>3, <3>1 DEF TokensKept, TypeOK
      <3>2. CASE k = i /\ r = c
        BY <2>2, <3>2 DEF TypeOK
      <3> QED
        BY <2>2, <2>3, <3>1, <3>2
    <2>4. \A r \in Round : Done(r)' = Done(r)
      BY DEF Done
    <2> QED
      BY <2>2, <2>3, <2>4 DEF TokensKept
  <1>4. ASSUME NEW i \in Rank, AwaitToken(i) \/ BarrierFail(i)
        PROVE  TokensKept'
    <2>1. /\ reg' = reg /\ tokened' = tokened
          /\ \A k \in Rank : pc[k] \in {"closed", "crashed"} => pc'[k] = pc[k]
      BY <1>4 DEF AwaitToken, BarrierFail, Goto, Return, TypeOK
    <2> QED
      BY <2>1, TokensUntouched
  <1>5. ASSUME NEW i \in Rank, Finish(i)
        PROVE  TokensKept'
    <2>1. /\ Cur(i) \in Round /\ \A j \in Rank : rnd[j] > Cur(i)
          /\ tokened' = tokened /\ rnd' = rnd /\ pc[i] = "barrier"
          /\ \A k \in Rank : pc[k] \in {"closed", "crashed"} => pc'[k] = pc[k]
          /\ \A k \in Rank : k # i => reg'[k] = reg[k]
      BY <1>5, BarrierPassed DEF Finish, Goto, Return, TypeOK
    <2>2. \A r \in Round : r >= Cur(i) /\ Done(r) \in reg[i] => Done(r) \in reg'[i]
      BY <1>5 DEF Finish, Release, ReclaimBefore, Done, TypeOK
    <2>3. ASSUME NEW k \in Rank, NEW j \in Rank, NEW r \in Round,
                 <<k, r>> \in tokened, rnd[j] <= r + 1,
                 pc'[k] \notin {"closed", "crashed"}
          PROVE  Done(r) \in reg'[k]
      <3>1. Done(r) \in reg[k]
        BY <2>1, <2>3 DEF TokensKept
      <3>2. r >= Cur(i)
        BY <2>1, <2>3, SMTT(30) DEF TypeOK, Round
      <3> QED
        BY <2>1, <2>2, <3>1, <3>2
    <2>4. \A r \in Round : Done(r)' = Done(r)
      BY DEF Done
    <2> QED
      BY <2>1, <2>3, <2>4 DEF TokensKept
  <1>6. ASSUME NEW i \in Rank,
               Shutdown(i) \/ AwaitBye(i) \/ CloseClient(i) \/ ByeFail(i)
        PROVE  TokensKept'
    <2>1. \A k \in Rank : reg[k] \subseteq reg'[k]
      BY <1>6 DEF Shutdown, AwaitBye, CloseClient, ByeFail, TypeOK
    <2>2. /\ tokened' = tokened
          /\ \A k \in Rank : pc[k] \in {"closed", "crashed"} => pc'[k] = pc[k]
      BY <1>6 DEF Shutdown, AwaitBye, CloseClient, ByeFail, Goto, TypeOK
    <2> QED
      BY <2>1, <2>2, TokensUntouched
  <1>7. ASSUME NEW i \in Rank, CloseServer(i) \/ DrainTimeout(i) \/ Crash(i)
        PROVE  TokensKept'
    <2>1. /\ tokened' = tokened
          /\ pc'[i] \in {"closed", "crashed"}
          /\ \A k \in Rank : k # i => reg'[k] = reg[k] /\ pc'[k] = pc[k]
      BY <1>7 DEF CloseServer, DrainTimeout, Crash, Goto, TypeOK
    <2> QED
      BY <2>1, TokensUntouched
  <1>8. CASE UNCHANGED vars
    BY <1>8, TokensUntouched DEF vars
  <1> QED
    BY <1>1, <1>2, <1>3, <1>4, <1>5, <1>6, <1>7, <1>8 DEF Next, Progress, GiveUp

-----------------------------------------------------------------------------
(* A call returns TC_OK only behind the tokens of every rank.              *)
LEMMA ReturnStep == CollectiveInv /\ [Next]_vars => ReturnSound'
  <1> SUFFICES ASSUME CollectiveInv, [Next]_vars PROVE ReturnSound'
    OBVIOUS
  <1>0. TypeOK /\ TypeOK' /\ ReturnSound /\ Irreversible
    BY TypeStep, Monotone DEF CollectiveInv
  <1> USE <1>0
  <1>1. ASSUME \A k \in Rank : last'[k] = last[k] \/ last'[k].status = "error"
        PROVE  ReturnSound'
    BY <1>1 DEF ReturnSound, Irreversible
  <1>2. ASSUME NEW i \in Rank, Finish(i)
        PROVE  ReturnSound'
    <2>1. PICK r \in Round : /\ r = Cur(i)
                             /\ buf[i] = Inputs(plan[r], r)
                             /\ \A j \in Rank : <<j, r>> \in tokened
      BY <1>2, BarrierPassed DEF Finish
    <2>2. /\ last' = [last EXCEPT ![i] = Ok(r, Inputs(plan[r], r))]
          /\ plan' = plan /\ tokened' = tokened
      BY <1>2, <2>1 DEF Finish, Return
    <2>3. \A k \in Rank : k # i => last'[k] = last[k]
      BY <2>2 DEF TypeOK
    <2>4. last'[i] = Ok(r, Inputs(plan[r], r))
      BY <2>2 DEF TypeOK
    <2> QED
      BY <2>1, <2>2, <2>3, <2>4 DEF ReturnSound, Ok
  <1>3. ASSUME NEW i \in Rank, Reject(i) \/ FetchFail(i) \/ BarrierFail(i)
        PROVE  ReturnSound'
    BY <1>1, <1>3 DEF Reject, FetchFail, BarrierFail, Return, Error, TypeOK
  <1>4. ASSUME last' = last PROVE ReturnSound'
    BY <1>1, <1>4
  <1>5. ASSUME NEW i \in Rank,
               \/ Bind(i) \/ Connect(i) \/ Ready(i) \/ InitFail(i) \/ Call(i)
               \/ Collect(i) \/ Collected(i) \/ Fetch(i)
               \/ PublishToken(i) \/ AwaitToken(i)
               \/ Shutdown(i) \/ AwaitBye(i) \/ CloseClient(i) \/ ByeFail(i)
               \/ CloseServer(i) \/ DrainTimeout(i) \/ Crash(i)
        PROVE  last' = last
    BY <1>5 DEF Bind, Connect, Ready, InitFail, Call, Collect, Collected, Fetch,
                PublishToken, AwaitToken, Shutdown, AwaitBye, CloseClient, ByeFail,
                CloseServer, DrainTimeout, Crash
  <1>6. CASE UNCHANGED vars
    BY <1>4, <1>6 DEF vars
  <1> QED
    BY <1>2, <1>3, <1>4, <1>5, <1>6 DEF Next, Progress, GiveUp

-----------------------------------------------------------------------------
(* A rank passes the shutdown handshake only behind leaving peers.         *)
LEMMA ShutdownStep == CollectiveInv /\ [Next]_vars => ShutdownSound'
  <1> SUFFICES ASSUME CollectiveInv, [Next]_vars PROVE ShutdownSound'
    OBVIOUS
  <1>0. TypeOK /\ ShutdownSound /\ EntriesSound /\ Irreversible
    BY Monotone DEF CollectiveInv
  <1> USE <1>0
  (* A rank whose shutdown makes no progress in the step: its peers do not   *)
  (* come back.                                                              *)
  <1>1. ASSUME NEW k \in Rank,
               pc'[k] = "bye" => pc[k] = "bye" /\ cursor'[k] = cursor[k],
               pc'[k] \in {"drain", "closed"} /\ sd'[k] = "ok" =>
                 pc[k] \in {"drain", "closed"} /\ sd[k] = "ok"
        PROVE  /\ pc'[k] = "bye" => \A j \in Rank : j < cursor'[k] => Leaving(j)'
               /\ pc'[k] \in {"drain", "closed"} /\ sd'[k] = "ok" =>
                    \A j \in Rank : Leaving(j)'
    BY <1>1 DEF ShutdownSound, Irreversible
  <1>2. ASSUME NEW i \in Rank, Shutdown(i)
        PROVE  ShutdownSound'
    <2>1. /\ pc'[i] = "bye" /\ cursor'[i] = FirstPeer(i)
          /\ \A k \in Rank : k # i => /\ pc'[k] = pc[k] /\ cursor'[k] = cursor[k]
                                       /\ sd'[k] = sd[k]
      BY <1>2 DEF Shutdown, Goto, TypeOK
    <2>2. \A j \in Rank : j < cursor'[i] => Leaving(j)'
      BY <2>1, LoopStep DEF Leaving
    <2> QED
      BY <1>1, <2>1, <2>2 DEF ShutdownSound
  <1>3. ASSUME NEW i \in Rank, AwaitBye(i)
        PROVE  ShutdownSound'
    <2>1. PICK p \in Rank : p = cursor[i]
      BY <1>3 DEF AwaitBye, TypeOK, Rank
    <2>2. /\ pc' = pc /\ sd' = sd /\ pc[i] = "bye" /\ cursor'[i] = NextPeer(i, p)
          /\ \A k \in Rank : k # i => cursor'[k] = cursor[k]
      BY <1>3, <2>1 DEF AwaitBye, TypeOK
    <2>3. Leaving(p) /\ Leaving(i)
      BY <1>3, <2>1 DEF AwaitBye, Find, EntriesSound, EntrySound, Leaving
    <2>4. \A j \in Rank : j < cursor'[i] => Leaving(j)'
      BY <2>1, <2>2, <2>3, LoopStep DEF ShutdownSound, Irreversible
    <2> QED
      BY <1>1, <2>2, <2>4 DEF ShutdownSound
  <1>4. ASSUME NEW i \in Rank, CloseClient(i)
        PROVE  ShutdownSound'
    <2>1. \A j \in Rank : Leaving(j)'
      BY <1>4 DEF CloseClient, ShutdownSound, Irreversible, TypeOK, Rank
    <2> QED
      BY <2>1 DEF ShutdownSound
  <1>5. ASSUME NEW i \in Rank,
               \/ Bind(i) \/ Connect(i) \/ Ready(i) \/ InitFail(i) \/ Call(i) \/ Reject(i)
               \/ Collect(i) \/ Collected(i) \/ Fetch(i) \/ FetchFail(i)
               \/ PublishToken(i) \/ AwaitToken(i) \/ Finish(i) \/ BarrierFail(i)
        PROVE  ShutdownSound'
    <2>1. \A k \in Rank :
            /\ pc'[k] = "bye" => pc[k] = "bye" /\ cursor'[k] = cursor[k]
            /\ pc'[k] \in {"drain", "closed"} /\ sd'[k] = "ok" =>
                 pc[k] \in {"drain", "closed"} /\ sd[k] = "ok"
      BY <1>5 DEF Bind, Connect, Ready, InitFail, Call, Reject, Collect, Collected,
                  Fetch, FetchFail, PublishToken, AwaitToken, Finish, BarrierFail,
                  Goto, Return, TypeOK, AfterPublish
    <2> QED
      BY <1>1, <2>1 DEF ShutdownSound
  <1>6. ASSUME NEW i \in Rank,
               ByeFail(i) \/ CloseServer(i) \/ DrainTimeout(i) \/ Crash(i)
        PROVE  ShutdownSound'
    <2>1. \A k \in Rank :
            /\ pc'[k] = "bye" => pc[k] = "bye" /\ cursor'[k] = cursor[k]
            /\ pc'[k] \in {"drain", "closed"} /\ sd'[k] = "ok" =>
                 pc[k] \in {"drain", "closed"} /\ sd[k] = "ok"
      BY <1>6 DEF ByeFail, CloseServer, DrainTimeout, Crash, Goto, TypeOK
    <2> QED
      BY <1>1, <2>1 DEF ShutdownSound
  <1>7. CASE UNCHANGED vars
    BY <1>1, <1>7 DEF vars, ShutdownSound
  <1> QED
    BY <1>2, <1>3, <1>4, <1>5, <1>6, <1>7 DEF Next, Progress, GiveUp

-----------------------------------------------------------------------------
(* A call that succeeds leaves one token: everything else its rank had     *)
(* published is a payload of the same round, or of an earlier one.         *)
LEMMA FinishReclaims ==
  ASSUME CollectiveInv, NEW i \in Rank, Finish(i)
  PROVE  /\ last'[i] = Ok(Cur(i), buf[i])
         /\ Retained(i)' = {Done(Cur(i))}
  <1>1. PICK r \in Round : r = Cur(i)
    BY InRound DEF Finish, InCall, Calling
  <1>2. /\ rnd[i] = r + 1 /\ r \in Nat /\ r <= r
        /\ Done(r) \in reg[i]
    <2>1. <<i, r>> \in tokened
      BY <1>1 DEF Finish, CollectiveInv, CallSound, CallStateSound, InCall, Calling
    <2>2. rnd[i] \in Nat /\ rnd[i] - 1 = r /\ r \in Nat
      BY <1>1 DEF CollectiveInv, TypeOK, Cur, Round
    <2> QED
      BY <2>1, <2>2 DEF Finish, CollectiveInv, TokensKept
  <1>3. /\ last'[i] = Ok(r, buf[i])
        /\ reg'[i] = ReclaimBefore(Release(Release(reg[i], "in", r), "out", r), r)
    BY <1>1 DEF Finish, Return, CollectiveInv, TypeOK
  <1>4. Done(r) \in Retained(i)'
    BY <1>2, <1>3 DEF Retained, ReclaimBefore, Release, Done
  <1>5. ASSUME NEW e \in Retained(i)' PROVE e = Done(r)
    <2>0. e \in reg[i] /\ e \in Entry /\ e.ordered = TRUE
      BY <1>3, EntryParts DEF Retained, ReclaimBefore, Release, CollectiveInv, TypeOK
    <2>1. /\ e \in reg[i] /\ e \in Entry /\ e.kind # "bye" /\ e.round >= r
          /\ ~(e.kind = "in" /\ e.round = r) /\ ~(e.kind = "out" /\ e.round = r)
      BY <1>3, <2>0 DEF Retained, ReclaimBefore, Release
    <2>2. e.kind \in {"in", "out", "done"} /\ e.round \in Nat
      BY <2>1, EntryParts
    <2>3. <<i, e.round>> \in joined
      BY <2>1, <2>2 DEF CollectiveInv, EntriesSound, EntrySound, HistorySound, TypeOK
    <2>4. e.round < rnd[i]
      BY <2>3 DEF CollectiveInv, HistorySound, TypeOK
    <2>5. e.round = r
      BY <1>2, <2>1, <2>2, <2>4
    <2>6. e.kind = "done"
      BY <2>1, <2>2, <2>5
    <2>7. e.val = {}
      BY <2>1, <2>6 DEF CollectiveInv, EntriesSound, EntrySound
    <2>8. e = [kind |-> "done", ordered |-> TRUE, round |-> r, val |-> {}]
      BY <2>1, <2>5, <2>6, <2>7 DEF Entry
    <2> QED
      BY <2>8 DEF Done
  <1> QED
    BY <1>1, <1>3, <1>4, <1>5

(* What a rank has retained by the end of a call stays so until the next.  *)
LEMMA RetainStep == CollectiveInv /\ [Next]_vars => UnusedYet' /\ OneRoundRetained'
  <1> SUFFICES ASSUME CollectiveInv, [Next]_vars PROVE UnusedYet' /\ OneRoundRetained'
    OBVIOUS
  <1>0. TypeOK /\ UnusedYet /\ OneRoundRetained
    BY DEF CollectiveInv
  <1> USE <1>0
  <1> DEFINE Kept(k) == /\ pc'[k] \in {"start", "connect"} =>
                             last'[k].status = "none" /\ Retained(k)' = {}
                        /\ pc'[k] = "idle" =>
                             /\ last'[k].status = "none" => Retained(k)' = {}
                             /\ last'[k].status = "ok" =>
                                  Retained(k)' = {Done(last'[k].round)}
  (* A rank whose registry and last return stay, or that is not idle.      *)
  <1>1. ASSUME NEW k \in Rank,
               \/ pc'[k] \notin {"idle", "start", "connect"}
               \/ pc'[k] = "idle" /\ last'[k].status = "error"
               \/ /\ reg'[k] = reg[k] /\ last'[k] = last[k]
                  /\ \/ pc'[k] = pc[k]
                     \/ pc[k] \in {"start", "connect"} /\ pc'[k] \in {"connect", "idle"}
        PROVE  Kept(k)
    BY <1>1 DEF UnusedYet, OneRoundRetained, Retained
  <1>2. (\A k \in Rank : Kept(k)) => UnusedYet' /\ OneRoundRetained'
    BY DEF UnusedYet, OneRoundRetained
  <1>3. ASSUME NEW i \in Rank, Finish(i)
        PROVE  \A k \in Rank : Kept(k)
    <2>1. \A k \in Rank : k # i => reg'[k] = reg[k] /\ last'[k] = last[k] /\ pc'[k] = pc[k]
      BY <1>3 DEF Finish, Return, Goto, TypeOK
    <2>2. pc'[i] = "idle"
      BY <1>3 DEF Finish, Return, Goto, TypeOK
    <2>3. last'[i] = Ok(Cur(i), buf[i]) /\ Retained(i)' = {Done(Cur(i))}
      BY <1>3, FinishReclaims
    <2>4. last'[i].status = "ok" /\ last'[i].round = Cur(i)
      BY <2>3 DEF Ok
    <2>5. Kept(i)
      BY <2>2, <2>3, <2>4
    <2> QED
      BY <1>1, <2>1, <2>5
  <1>4. ASSUME NEW i \in Rank,
               \/ Bind(i) \/ Connect(i) \/ Ready(i) \/ InitFail(i) \/ Call(i) \/ Reject(i)
               \/ Collect(i) \/ Collected(i) \/ Fetch(i) \/ FetchFail(i)
        PROVE  \A k \in Rank : Kept(k)
    <2>1. \A k \in Rank :
               \/ pc'[k] \notin {"idle", "start", "connect"}
               \/ pc'[k] = "idle" /\ last'[k].status = "error"
               \/ /\ reg'[k] = reg[k] /\ last'[k] = last[k]
                  /\ \/ pc'[k] = pc[k]
                     \/ pc[k] \in {"start", "connect"} /\ pc'[k] \in {"connect", "idle"}
      BY <1>4 DEF Bind, Connect, Ready, InitFail, Call, Reject, Collect, Collected,
                  Fetch, FetchFail, Goto, Return, TypeOK, AfterPublish, Error
    <2> QED
      BY <1>1, <2>1
  <1>5. ASSUME NEW i \in Rank,
               \/ PublishToken(i) \/ AwaitToken(i) \/ BarrierFail(i)
               \/ Shutdown(i) \/ AwaitBye(i) \/ CloseClient(i) \/ ByeFail(i)
               \/ CloseServer(i) \/ DrainTimeout(i) \/ Crash(i)
        PROVE  \A k \in Rank : Kept(k)
    <2>1. \A k \in Rank :
               \/ pc'[k] \notin {"idle", "start", "connect"}
               \/ pc'[k] = "idle" /\ last'[k].status = "error"
               \/ reg'[k] = reg[k] /\ last'[k] = last[k] /\ pc'[k] = pc[k]
      BY <1>5 DEF PublishToken, AwaitToken, BarrierFail, Shutdown, AwaitBye, CloseClient,
                  ByeFail, CloseServer, DrainTimeout, Crash, Goto, Return, TypeOK, Error
    <2> QED
      BY <1>1, <2>1
  <1>6. CASE UNCHANGED vars
    BY <1>1, <1>2, <1>6 DEF vars
  <1> HIDE DEF Kept
  <1> QED
    BY <1>2, <1>3, <1>4, <1>5, <1>6 DEF Next, Progress, GiveUp

-----------------------------------------------------------------------------
(* A group that has not been initialised satisfies the invariant.          *)
LEMMA InitCollectiveInv == Init => CollectiveInv
  <1> SUFFICES ASSUME Init PROVE CollectiveInv
    OBVIOUS
  <1>1. TypeOK
    BY DEF Init, TypeOK, Label, ReturnRecord, NoReturn, Rank
  <1>2. \A i \in Rank : reg[i] = {} /\ pc[i] = "start" /\ last[i].status = "none"
    BY DEF Init, NoReturn
  <1>3. joined = {} /\ tokened = {}
    BY DEF Init
  <1>4. EntriesSound /\ HistorySound /\ TokensKept
    BY <1>2, <1>3 DEF EntriesSound, HistorySound, TokensKept
  <1>6. UnusedYet /\ OneRoundRetained
    BY <1>2 DEF UnusedYet, OneRoundRetained, Retained
  <1>5. CallSound /\ ReturnSound /\ ShutdownSound
    BY <1>2 DEF CallSound, InCall, Calling, ReturnSound, ShutdownSound
  <1> QED
    BY <1>1, <1>4, <1>5, <1>6 DEF CollectiveInv

(* The inductive invariant holds in every reachable state.                 *)
THEOREM Invariance == Spec => []CollectiveInv
  <1>1. CollectiveInv /\ [Next]_vars => CollectiveInv'
    BY TypeStep, EntriesStep, HistoryStep, CallStep, TokensStep, ReturnStep,
       ShutdownStep, RetainStep DEF CollectiveInv
  <1> QED
    BY <1>1, InitCollectiveInv, PTL DEF Spec

(* mesh_collective.cpp keeps its state in range.                           *)
THEOREM TypeCorrect == Spec => []TypeOK
  <1>1. CollectiveInv => TypeOK
    BY DEF CollectiveInv
  <1> QED
    BY <1>1, Invariance, PTL

(* A collective that returns TC_OK returns exactly its round's inputs.     *)
THEOREM ResultCorrect == Spec => []ResultExact
  <1>1. CollectiveInv => ResultExact
    BY DEF CollectiveInv, ReturnSound, ResultExact
  <1> QED
    BY <1>1, Invariance, PTL

(* A rank returns TC_OK only after every rank joined the collective and    *)
(* read what it needed of the others.                                      *)
THEOREM BarrierCorrect == Spec => []CompletionBarrier
  <1>1. ASSUME CollectiveInv PROVE CompletionBarrier
    <2> SUFFICES ASSUME NEW i \in Rank, last[i].status = "ok", NEW j \in Rank
                 PROVE  /\ <<j, last[i].round>> \in joined
                        /\ Supplied(j, last[i].round)
      BY DEF CompletionBarrier
    <2>1. PICK r \in Round : r = last[i].round /\ <<j, r>> \in tokened
      BY <1>1 DEF CollectiveInv, ReturnSound
    <2> QED
      BY <1>1, <2>1 DEF CollectiveInv, HistorySound, Supplied
  <1> QED
    BY <1>1, Invariance, PTL

(* Neither reclaiming nor shutdown frees a token before its last reader.   *)
THEOREM TokensCorrect == Spec => []TokensOutliveReaders
  <1>1. ASSUME CollectiveInv PROVE TokensOutliveReaders
    <2> SUFFICES ASSUME NEW i \in Rank, NEW j \in Rank, NEW r \in Round,
                        <<i, r>> \in tokened, AwaitsTokenOf(j, i, r),
                        pc[i] # "crashed", ~(pc[i] = "closed" /\ sd[i] = "error")
                 PROVE  Find(i, "done", r) # {}
      BY DEF TokensOutliveReaders
    <2>1. CASE pc[i] = "closed"
      <3>1. Leaving(j)
        BY <1>1, <2>1 DEF CollectiveInv, ShutdownSound, TypeOK
      <3> QED
        BY <3>1 DEF AwaitsTokenOf, Leaving
    <2>2. CASE pc[i] # "closed"
      <3>1. Done(r) \in reg[i]
        BY <1>1, <2>2 DEF CollectiveInv, TokensKept, AwaitsTokenOf, TypeOK, Round
      <3> QED
        BY <3>1 DEF Find, Done
    <2> QED
      BY <2>1, <2>2
  <1> QED
    BY <1>1, Invariance, PTL

(* A shutdown that reports TC_OK found every peer shutting down.           *)
THEOREM ShutdownCorrect == Spec => []ShutdownRendezvous
  <1>1. CollectiveInv => ShutdownRendezvous
    BY DEF CollectiveInv, ShutdownSound, ShutdownRendezvous, Leaving
  <1> QED
    BY <1>1, Invariance, PTL

(* A call that succeeds leaves one token and nothing else at its rank,     *)
(* whatever earlier calls that failed had left.                            *)
THEOREM RetentionCorrect == Spec => []OneRoundRetained
  <1>1. CollectiveInv => OneRoundRetained
    BY DEF CollectiveInv
  <1> QED
    BY <1>1, Invariance, PTL

-----------------------------------------------------------------------------
(* The open calls of the contract, before and after a step of rank i.      *)
Open == [k \in Rank |-> InCall(k)]

(* The open calls after a step are those of the states after it.           *)
LEMMA OpenStep ==
  ASSUME TypeOK, NEW i \in Rank, NEW label, pc' = [pc EXCEPT ![i] = label]
  PROVE  Open' = [Open EXCEPT ![i] = (label \in Calling)]
  <1>1. \A k \in Rank : pc'[k] = IF k = i THEN label ELSE pc[k]
    BY DEF TypeOK
  <1>2. \A k \in Rank : InCall(k)' = IF k = i THEN label \in Calling ELSE InCall(k)
    BY <1>1 DEF InCall
  <1>3. Open' = [k \in Rank |-> IF k = i THEN label \in Calling ELSE InCall(k)]
    BY <1>2, ZenonT(30) DEF Open
  <1> QED
    BY <1>3, ZenonT(30) DEF Open

(* A step that takes rank i out of its call closes that call only.         *)
LEMMA OpenClosed ==
  ASSUME TypeOK, NEW i \in Rank, pc[i] \in Calling,
         \/ pc' = [pc EXCEPT ![i] = "idle"]
         \/ pc' = [pc EXCEPT ![i] = "crashed"]
  PROVE  Open' = [Open EXCEPT ![i] = FALSE] /\ Open[i]
  <1>1. Open[i] = InCall(i) /\ InCall(i)
    BY DEF Open, InCall
  <1>2. ("idle" \in Calling) = FALSE /\ ("crashed" \in Calling) = FALSE
    BY DEF Calling
  <1>3. CASE pc' = [pc EXCEPT ![i] = "idle"]
    <2>1. Open' = [Open EXCEPT ![i] = ("idle" \in Calling)]
      BY <1>3, OpenStep, Zenon
    <2> QED
      BY <2>1, <1>1, <1>2, Zenon
  <1>4. CASE pc' = [pc EXCEPT ![i] = "crashed"]
    <2>1. Open' = [Open EXCEPT ![i] = ("crashed" \in Calling)]
      BY <1>4, OpenStep, Zenon
    <2> QED
      BY <2>1, <1>1, <1>2, Zenon
  <1> QED
    BY <1>3, <1>4

(* An initial state of the collectives is one of the contract.             *)
LEMMA InitContract == Init => Contract!Init
  <1> SUFFICES ASSUME Init PROVE Contract!Init
    OBVIOUS
  <1>1. \A i \in Rank : InCall(i) = FALSE
    BY DEF Init, InCall, Calling
  <1>2. [i \in Rank |-> InCall(i)] = [i \in Rank |-> FALSE]
    BY <1>1, Zenon
  <1> QED
    BY <1>2 DEF Init, Contract!Init, Rank, Contract!Rank, Round,
                Contract!Round, NoReturn, Contract!NoReturn

(* Every step of a rank is a step of the contract or leaves it alone.      *)
LEMMA StepContract == CollectiveInv /\ [Next]_vars => [Contract!Next]_(Contract!contractVars)
  <1> SUFFICES ASSUME CollectiveInv, [Next]_vars
               PROVE  [Contract!Next]_(Contract!contractVars)
    OBVIOUS
  <1>0. TypeOK
    BY DEF CollectiveInv
  <1> USE <1>0
  <1>b. /\ Contract!Rank = Rank
        /\ \A r, v : Contract!Ok(r, v) = Ok(r, v) /\ Contract!Error(r) = Error(r)
        /\ \A op, r : Contract!Inputs(op, r) = Inputs(op, r)
    BY DEF Contract!Rank, Rank, Contract!Ok, Ok, Contract!Error, Error,
           Contract!Inputs, Inputs
  <1>a. ASSUME NEW i \in Rank,
               \/ Contract!Enter(i) \/ Contract!ReturnOk(i) \/ Contract!ReturnError(i)
               \/ Contract!Reject(i) \/ Contract!Abandon(i)
        PROVE  Contract!Next
    BY <1>a, <1>b DEF Contract!Next
  <1>1. ASSUME NEW i \in Rank, Call(i)
        PROVE  Contract!Enter(i)
    <2>1. Open' = [Open EXCEPT ![i] = TRUE]
      BY <1>1 DEF Open, Call, Goto, TypeOK, InCall, Calling, AfterPublish
    <2> QED
      BY <1>b, <1>1, <2>1 DEF Call, Contract!Enter, InCall, Calling, Open
  <1>2. ASSUME NEW i \in Rank, Reject(i)
        PROVE  Contract!Reject(i)
    <2>1. Open' = Open /\ ~Open[i]
      BY <1>2 DEF Open, Reject, Return, Goto, TypeOK, InCall, Calling
    <2> QED
      BY <1>b, <1>2, <2>1 DEF Reject, Return, Contract!Reject, Open
  <1>3. ASSUME NEW i \in Rank, FetchFail(i) \/ BarrierFail(i)
        PROVE  Contract!ReturnError(i)
    <2>1. pc' = [pc EXCEPT ![i] = "idle"] /\ pc[i] \in Calling
      BY <1>3 DEF FetchFail, BarrierFail, Return, Goto, Calling
    <2>2. Open' = [Open EXCEPT ![i] = FALSE] /\ Open[i]
      BY <2>1, OpenClosed
    <2> QED
      BY <1>b, <1>3, <2>2 DEF FetchFail, BarrierFail, Return, Contract!ReturnError, Open, Cur
  <1>4. ASSUME NEW i \in Rank, Finish(i)
        PROVE  Contract!ReturnOk(i)
    <2>1. pc' = [pc EXCEPT ![i] = "idle"] /\ pc[i] \in Calling
      BY <1>4 DEF Finish, Return, Goto, Calling
    <2>2. Open' = [Open EXCEPT ![i] = FALSE] /\ Open[i]
      BY <2>1, OpenClosed
    <2>3. buf[i] = Inputs(plan[Cur(i)], Cur(i)) /\ Rank \X {Cur(i)} \subseteq joined
      BY <1>4, BarrierPassed DEF Finish, CollectiveInv, HistorySound
    <2> QED
      BY <1>b, <1>4, <2>2, <2>3 DEF Finish, Return, Contract!ReturnOk, Open, Cur
  <1>5. ASSUME NEW i \in Rank, Crash(i), InCall(i)
        PROVE  Contract!Abandon(i)
    <2>1. pc' = [pc EXCEPT ![i] = "crashed"] /\ pc[i] \in Calling
      BY <1>5 DEF Crash, Goto, InCall
    <2>2. Open' = [Open EXCEPT ![i] = FALSE] /\ Open[i]
      BY <2>1, OpenClosed
    <2> QED
      BY <1>b, <1>5, <2>2 DEF Crash, Contract!Abandon, Open
  <1>6. ASSUME UNCHANGED <<plan, rnd, joined, last>>, Open' = Open
        PROVE  UNCHANGED Contract!contractVars
    BY <1>6 DEF Contract!contractVars, Open
  <1>7. ASSUME NEW i \in Rank,
               \/ Bind(i) \/ Connect(i) \/ Ready(i) \/ InitFail(i)
               \/ Collect(i) \/ Collected(i) \/ Fetch(i)
               \/ PublishToken(i) \/ AwaitToken(i)
        PROVE  UNCHANGED Contract!contractVars
    BY <1>6, <1>7 DEF Bind, Connect, Ready, InitFail, Collect, Collected, Fetch,
                      PublishToken, AwaitToken, Goto, TypeOK, Open, InCall, Calling
  <1>8. ASSUME NEW i \in Rank,
               \/ Shutdown(i) \/ AwaitBye(i) \/ CloseClient(i) \/ ByeFail(i)
               \/ CloseServer(i) \/ DrainTimeout(i) \/ (Crash(i) /\ ~InCall(i))
        PROVE  UNCHANGED Contract!contractVars
    BY <1>6, <1>8 DEF Shutdown, AwaitBye, CloseClient, ByeFail, CloseServer,
                      DrainTimeout, Crash, Goto, TypeOK, Open, InCall, Calling
  <1>9. CASE UNCHANGED vars
    BY <1>6, <1>9 DEF vars, Open, InCall
  <1>10. ASSUME NEW i \in Rank,
                Progress(i) \/ GiveUp(i) \/ InitFail(i) \/ Reject(i) \/ Crash(i)
         PROVE  Contract!Next \/ UNCHANGED Contract!contractVars
    <2>1. CASE \/ Call(i) \/ Reject(i) \/ FetchFail(i) \/ BarrierFail(i) \/ Finish(i)
               \/ (Crash(i) /\ InCall(i))
      BY <2>1, <1>a, <1>1, <1>2, <1>3, <1>4, <1>5
    <2>2. CASE \/ Bind(i) \/ Connect(i) \/ Ready(i) \/ InitFail(i)
               \/ Collect(i) \/ Collected(i) \/ Fetch(i)
               \/ PublishToken(i) \/ AwaitToken(i)
      BY <2>2, <1>7
    <2>3. CASE \/ Shutdown(i) \/ AwaitBye(i) \/ CloseClient(i) \/ ByeFail(i)
               \/ CloseServer(i) \/ DrainTimeout(i) \/ (Crash(i) /\ ~InCall(i))
      BY <2>3, <1>8
    <2>4. CASE Progress(i)
      <3>1. \/ Bind(i) \/ Connect(i) \/ Ready(i)
            \/ Call(i) \/ Collect(i) \/ Collected(i) \/ Fetch(i)
            \/ PublishToken(i) \/ AwaitToken(i) \/ Finish(i)
            \/ Shutdown(i) \/ AwaitBye(i) \/ CloseClient(i) \/ CloseServer(i)
        BY <2>4 DEF Progress
      <3> QED
        BY <3>1, <2>1, <2>2, <2>3, Zenon
    <2>5. CASE GiveUp(i)
      <3>1. FetchFail(i) \/ BarrierFail(i) \/ ByeFail(i) \/ DrainTimeout(i)
        BY <2>5 DEF GiveUp
      <3> QED
        BY <3>1, <2>1, <2>3, Zenon
    <2>6. CASE InitFail(i) \/ Reject(i) \/ Crash(i)
      BY <2>1, <2>2, <2>3, <2>6, Zenon
    <2> QED
      BY <1>10, <2>4, <2>5, <2>6, Zenon
  <1>11. CASE Next
    BY <1>10, <1>11 DEF Next
  <1> QED
    BY <1>9, <1>11

(* The collectives implement the abstract contract.                        *)
THEOREM Refinement == Spec => ImplementsContract
  <1> QED
    BY InitContract, StepContract, Invariance, PTL
       DEF Spec, ImplementsContract, Contract!Spec
===============================================================================
