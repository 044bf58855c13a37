------------------------------ MODULE MeshTagged ------------------------------
(***************************************************************************)
(* The tagged collectives of lib/distributed/mesh_collective.cpp, next to  *)
(* the ordered ones of the same group.                                     *)
(*                                                                         *)
(* A tagged call runs in a thread of its own, takes its name from an id    *)
(* the caller chose instead of from the round counter, and goes through    *)
(* the same rounds.  An id serves one collective at a time.  The code      *)
(* refuses it where it is active or where an entry of it is left; that it  *)
(* is free at the other ranks as well is up to the callers, who release it *)
(* once all of them have returned, and use it again once all have released *)
(* it (include/tensorcore/mesh_collective.h:83-86).                        *)
(*                                                                         *)
(* Both kinds of calls share the registry of the rank's server: a tagged   *)
(* entry has its id where an ordered one has its round, and what reclaims  *)
(* or releases entries tells them apart by the flag "ordered".  The names  *)
(* carry the id but not the use of it, so an entry of one use answers a    *)
(* poll of another.  The polls of tagged calls may time out; the faults of *)
(* ordered calls are the subject of MeshCollective alone.                  *)
(***************************************************************************)
EXTENDS MeshCollectiveProps, Sequences

CONSTANTS Tag,        \* the collective ids, numbers as the rounds are
          MaxUse,     \* bound: how often an id is used
          Programs,   \* the <<plan, tplan>> the applications may follow
          TagTimeouts \* the <<rank, use>> whose tagged polls may time out

Use == 0 .. MaxUse - 1

ASSUME TagAssumption == Tag \subseteq Nat

(* tplan[t]: the operations for which the application uses id t.           *)
ASSUME TaggedAssumption ==
  /\ MaxUse \in Nat
  /\ TagTimeouts \subseteq Rank \X Use
  /\ \A p \in Programs :
       /\ p[1] \in [Round -> Ops] /\ p[2] \in [Tag -> Seq(Ops)]
       /\ \A t \in Tag : Len(p[2][t]) <= MaxUse

VARIABLES
  tplan,
  tuse,    \* tuse[i][t]: how many uses of id t rank i has begun
  tpc,     \* where the thread in the tagged call is ("idle": not in active_tagged)
  tcursor, \* its loop variable over peers
  tbuf,    \* its caller's buffer
  tlast    \* what the last tagged call returned

tvars == <<tplan, tuse, tpc, tcursor, tbuf, tlast>>

(* Names are _mesh/<op>/<id>/<rank>, with prefixes of their own for tagged *)
(* operations and for their tokens; val also says which use it is.         *)
TagEntry(kind, op, t, val) ==
  [kind |-> kind, op |-> op.kind, ordered |-> FALSE, round |-> t, val |-> val]

(* What begin_tagged looks for and release_tagged collects in the cache.   *)
OfId(t, e) == ~e.ordered /\ e.round = t
treg == [i \in Rank |-> [t \in Tag |-> {e \in reg[i] : OfId(t, e)}]]

TagFind(p, t, kind, op) == {e \in treg[p][t] : e.kind = kind /\ e.op = op.kind}

Register(i, e) == reg' = [reg EXCEPT ![i] = @ \cup {e}]
TagFree(i, t, kinds) ==
  reg' = [reg EXCEPT ![i] = {e \in @ : ~(OfId(t, e) /\ e.kind \in kinds)}]
TagKinds == {"in", "out", "done"}

TagCur(i, t) == tuse[i][t] - 1
TagOp(i, t) == tplan[t][TagCur(i, t) + 1]
TagCalling(i, t) == tpc[i][t] # "idle"

Set(f, i, t, x) == [f EXCEPT ![i][t] = x]
TagReturn(i, t, ret) == tlast' = Set(tlast, i, t, ret) /\ tpc' = Set(tpc, i, t, "idle")

TaggedInit ==
  /\ Init
  /\ \E p \in Programs : plan = p[1] /\ tplan = p[2]
  /\ tuse = [i \in Rank |-> [t \in Tag |-> 0]]
  /\ tpc = [i \in Rank |-> [t \in Tag |-> "idle"]]
  /\ tcursor = [i \in Rank |-> [t \in Tag |-> 0]]
  /\ tbuf = [i \in Rank |-> [t \in Tag |-> {}]]
  /\ tlast = [i \in Rank |-> [t \in Tag |-> NoReturn]]

-----------------------------------------------------------------------------
(* What the callers see to between them.                                   *)

(* Mutant: a rank uses an id again as soon as it has released it itself.   *)
FreeHere(t, u) == TRUE

(* Every rank has released what it had of id t before its use u.           *)
FreeForUse(t, u) ==
  \A j \in Rank : \/ tuse[j][t] > u
                  \/ tuse[j][t] = u /\ ~TagCalling(j, t) /\ treg[j][t] = {}

(* Every rank has returned from the use of id t that i has begun last.     *)
AllReturned(i, t) ==
  \A j \in Rank : tuse[j][t] = tuse[i][t] /\ ~TagCalling(j, t)

-----------------------------------------------------------------------------
(* begin_tagged, and the input is published.                               *)
TagCall(i, t) ==
  LET u == tuse[i][t]
      op == tplan[t][u + 1]
  IN
  /\ pc[i] \in Calling \cup {"idle"}
  /\ ~TagCalling(i, t) /\ treg[i][t] = {}
  /\ u < Len(tplan[t])
  /\ FreeForUse(t, u)
  /\ tuse' = Set(tuse, i, t, u + 1)
  /\ tbuf' = Set(tbuf, i, t, {<<i, u>>})
  /\ IF Sends(i, op) THEN Register(i, TagEntry("in", op, t, {<<i, u>>})) ELSE UNCHANGED reg
  /\ tcursor' = Set(tcursor, i, t, FirstPeer(i))
  /\ tpc' = Set(tpc, i, t, AfterPublish(i, op))
  /\ UNCHANGED <<tplan, tlast>>

TagCollect(i, t) ==
  LET p == tcursor[i][t] IN
  /\ tpc[i][t] = "collect"
  /\ p < NPeers
  /\ \E e \in TagFind(p, t, "in", TagOp(i, t)) :
       tbuf' = Set(tbuf, i, t, tbuf[i][t] \cup e.val)
  /\ tcursor' = Set(tcursor, i, t, NextPeer(i, p))
  /\ UNCHANGED <<tplan, tuse, tpc, reg, tlast>>

TagCollected(i, t) ==
  /\ tpc[i][t] = "collect"
  /\ tcursor[i][t] >= NPeers
  /\ IF PublishesResult(i, TagOp(i, t))
     THEN Register(i, TagEntry("out", TagOp(i, t), t, tbuf[i][t]))
     ELSE UNCHANGED reg
  /\ tpc' = Set(tpc, i, t, "token")
  /\ UNCHANGED <<tplan, tuse, tcursor, tbuf, tlast>>

TagFetch(i, t) ==
  LET op == TagOp(i, t) IN
  /\ tpc[i][t] = "fetch"
  /\ \E e \in TagFind(op.root, t, SourceKind(op), op) :
       tbuf' = Set(tbuf, i, t, e.val)
  /\ tpc' = Set(tpc, i, t, "token")
  /\ UNCHANGED <<tplan, tuse, tcursor, reg, tlast>>

(* retry_fetch gives up after 41 attempts: where TagTimeouts lets it, and   *)
(* where what it polls for may never come, a rank having given up before.  *)
TimesOut(i, t) ==
  \/ <<i, TagCur(i, t)>> \in TagTimeouts
  \/ \E j \in Rank : tlast[j][t] = Error(TagCur(i, t))

TagFetchFail(i, t) ==
  /\ TimesOut(i, t)
  /\ \/ tpc[i][t] = "fetch"
     \/ tpc[i][t] = "collect" /\ tcursor[i][t] < NPeers
  /\ TagFree(i, t, {"in"})
  /\ TagReturn(i, t, Error(TagCur(i, t)))
  /\ UNCHANGED <<tplan, tuse, tcursor, tbuf>>

(* Mutant: the token is published before the source has been read.         *)
TagPublishTokenEarly(i, t) ==
  /\ tpc[i][t] \in {"fetch", "token"}
  /\ Register(i, TagEntry("done", TagOp(i, t), t, {}))
  /\ tcursor' = Set(tcursor, i, t, FirstPeer(i))
  /\ tpc' = Set(tpc, i, t, "barrier")
  /\ UNCHANGED <<tplan, tuse, tbuf, tlast>>

TagPublishToken(i, t) ==
  /\ tpc[i][t] = "token"
  /\ Register(i, TagEntry("done", TagOp(i, t), t, {}))
  /\ tcursor' = Set(tcursor, i, t, FirstPeer(i))
  /\ tpc' = Set(tpc, i, t, "barrier")
  /\ UNCHANGED <<tplan, tuse, tbuf, tlast>>

TagAwaitToken(i, t) ==
  LET p == tcursor[i][t] IN
  /\ tpc[i][t] = "barrier"
  /\ p < NPeers
  /\ TagFind(p, t, "done", TagOp(i, t)) # {}
  /\ tcursor' = Set(tcursor, i, t, NextPeer(i, p))
  /\ UNCHANGED <<tplan, tuse, tpc, tbuf, reg, tlast>>

(* The payloads go, the token stays: nothing reclaims it but a release.    *)
TagFinish(i, t) ==
  /\ tpc[i][t] = "barrier"
  /\ tcursor[i][t] >= NPeers
  /\ TagFree(i, t, {"in", "out"})
  /\ TagReturn(i, t, Ok(TagCur(i, t), tbuf[i][t]))
  /\ UNCHANGED <<tplan, tuse, tcursor, tbuf>>

(* Mutant: the status of the barrier is dropped.                           *)
TagBarrierFailIgnored(i, t) ==
  /\ TimesOut(i, t)
  /\ tpc[i][t] = "barrier"
  /\ tcursor[i][t] < NPeers
  /\ TagReturn(i, t, Ok(TagCur(i, t), tbuf[i][t]))
  /\ UNCHANGED <<tplan, tuse, tcursor, tbuf, reg>>

TagBarrierFail(i, t) ==
  /\ TimesOut(i, t)
  /\ tpc[i][t] = "barrier"
  /\ tcursor[i][t] < NPeers
  /\ TagReturn(i, t, Error(TagCur(i, t)))
  /\ UNCHANGED <<tplan, tuse, tcursor, tbuf, reg>>

(* tc_mesh_collective_release_tag.  The look at active_tagged and the      *)
(* collection of the entries are two steps of the code; between them only  *)
(* a second use of the same id could come, which the callers exclude.      *)
TagRelease(i, t) ==
  /\ pc[i] \in Calling \cup {"idle"}
  /\ ~TagCalling(i, t) /\ treg[i][t] # {}
  /\ AllReturned(i, t)
  /\ TagFree(i, t, TagKinds)
  /\ UNCHANGED <<tplan, tuse, tpc, tcursor, tbuf, tlast>>

-----------------------------------------------------------------------------
(* The application shuts the group down when its program is done and no    *)
(* call is left in a thread of the rank.                                   *)
Quiet(i) == \A t \in Tag : ~TagCalling(i, t) /\ tuse[i][t] = Len(tplan[t])

(* Everything the rank's main thread does; with the server all entries go, *)
(* the tagged ones too.                                                    *)
Ordered(i) ==
  \/ Bind(i) \/ Connect(i) \/ Ready(i)
  \/ Call(i) \/ Collect(i) \/ Collected(i) \/ Fetch(i)
  \/ PublishToken(i) \/ AwaitToken(i) \/ Finish(i)
  \/ Quiet(i) /\ Shutdown(i)
  \/ AwaitBye(i) \/ CloseClient(i) \/ CloseServer(i)

MainStep(i) == Ordered(i) /\ UNCHANGED tvars

TagStep(i, t) ==
  /\ \/ TagCall(i, t) \/ TagCollect(i, t) \/ TagCollected(i, t) \/ TagFetch(i, t)
     \/ TagFetchFail(i, t) \/ TagPublishToken(i, t) \/ TagAwaitToken(i, t)
     \/ TagFinish(i, t) \/ TagBarrierFail(i, t) \/ TagRelease(i, t)
  /\ UNCHANGED <<plan, pc, rnd, cursor, buf, last, sd, joined, tokened>>

TaggedNext == \E i \in Rank : MainStep(i) \/ \E t \in Tag : TagStep(i, t)

TaggedSpec == TaggedInit /\ [][TaggedNext]_<<vars, tvars>>

(* Every thread is scheduled, and the applications go through their        *)
(* program.  No thread can keep another one waiting by going on forever,   *)
(* so it is enough to say that not all of them stop.                       *)
FairTaggedSpec == TaggedSpec /\ WF_<<vars, tvars>>(TaggedNext)
=============================================================================
