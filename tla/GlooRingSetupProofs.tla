------------------------- MODULE GlooRingSetupProofs -------------------------
(***************************************************************************)
(* Proofs about the ring topology exchange, for every number of ranks from *)
(* three on, whoever opts in, whatever fails and whoever dies.             *)
(*                                                                         *)
(* All four results follow from one inductive invariant, RingInv.  It says    *)
(* how far rank 0 is with each peer (Unheard .. Answered) and what then    *)
(* can be in the two streams and where the peer can be.  A dead peer says  *)
(* nothing about its stream from rank 0 any more: rank 0 goes on writing   *)
(* into it.  AnswersAgree adds what holds only while nobody has died,      *)
(* VotesSound what the outcome stands for.                                 *)
(*                                                                         *)
(* That every step keeps the invariant of a peer is shown in three parts:  *)
(* the peer's own step, a step of rank 0, a step of another peer.          *)
(***************************************************************************)
EXTENDS GlooRingSetupProps, SequenceTheorems, TLAPS

USE SetupAssumption

(* What reading from and writing to a stream of one or two messages gives. *)
LEMMA Streams ==
  ASSUME NEW m \in Message, NEW n \in Message
  PROVE  /\ Append(<<>>, m) = <<m>> /\ Append(<<m>>, n) = <<m, n>>
         /\ Head(<<m>>) = m /\ Tail(<<m>>) = <<>>
         /\ Head(<<m, n>>) = m /\ Tail(<<m, n>>) = <<n>>
         /\ <<m>> # <<>> /\ <<m, n>> # <<>> /\ <<m>> # <<m, n>>
  <1>1. <<m>> \in Seq(Message) /\ <<m, n>> \in Seq(Message) /\ Append(<<m>>, n) \in Seq(Message)
    OBVIOUS
  <1>2. Len(<<m>>) = 1 /\ Len(<<m, n>>) = 2 /\ Len(Append(<<m>>, n)) = 2
    BY AppendProperties
  <1>3. Append(<<m>>, n)[1] = m /\ Append(<<m>>, n)[2] = n
    BY AppendProperties
  <1>4. \A i \in 1 .. 2 : Append(<<m>>, n)[i] = <<m, n>>[i]
    BY <1>3
  <1>5. Append(<<m>>, n) = <<m, n>>
    BY <1>1, <1>2, <1>4, SeqEqual
  <1> QED
    BY <1>5

(* What is written to an empty stream is all there is in it.               *)
LEMMA FirstMessage ==
  ASSUME NEW s, s = <<>>, NEW m \in Message
  PROVE  Append(s, m) = <<m>>
  OBVIOUS

(* Messages are told apart by their kind and their word.                   *)
LEMMA Said ==
  ASSUME NEW k \in Kind, NEW ok \in BOOLEAN
  PROVE  /\ Say(k, ok) \in Message
         /\ Say(k, ok).kind = k /\ Say(k, ok).ok = ok
         /\ \A l \in Kind, o \in BOOLEAN : Say(k, ok) = Say(l, o) => k = l /\ ok = o
  BY DEF Say, Message

(* Rank 0 and its peers.                                                   *)
LEMMA Ranks ==
  /\ 0 \in Rank /\ 1 \in Peer /\ Peer \subseteq Rank /\ 0 \notin Peer
  /\ \A r \in Peer : r \in Nat /\ r >= 1 /\ r < NRanks
  /\ \A i \in Rank : i # 0 => i \in Peer
  /\ \A i \in Rank : Successor(i) \in Rank
  BY DEF Rank, Peer, Successor

(* Writing to the stream of one peer.                                      *)
LEMMA WriteType ==
  ASSUME NEW s \in [Peer -> Seq(Message)], NEW r \in Peer, NEW m \in Message
  PROVE  /\ Write(s, r, m) \in [Peer -> Seq(Message)]
         /\ Write(s, r, m)[r] = Append(s[r], m)
         /\ \A q \in Peer \ {r} : Write(s, r, m)[q] = s[q]
  <1>1. Append(s[r], m) \in Seq(Message)
    BY AppendProperties
  <1> QED
    BY <1>1, Zenon DEF Write

(* Reading from the stream of one peer.                                    *)
LEMMA ConsumeType ==
  ASSUME NEW s \in [Peer -> Seq(Message)], NEW r \in Peer, s[r] # <<>>
  PROVE  /\ Consume(s, r) \in [Peer -> Seq(Message)]
         /\ Consume(s, r)[r] = Tail(s[r])
         /\ Head(s[r]) \in Message /\ Head(s[r]).ok \in BOOLEAN
         /\ \A q \in Peer \ {r} : Consume(s, r)[q] = s[q]
  <1>1. Tail(s[r]) \in Seq(Message) /\ Head(s[r]) \in Message
    BY HeadTailProperties
  <1>2. Head(s[r]).ok \in BOOLEAN
    BY <1>1 DEF Message
  <1> QED
    BY <1>1, <1>2, Zenon DEF Consume

(* One iteration of a loop of rank 0: the next peer, or the next phase and *)
(* the first peer again.                                                   *)
LEMMA AdvanceType ==
  ASSUME TypeOK, NEW label \in Label, Advance(label)
  PROVE  /\ at' \in Peer /\ pc' \in [Rank -> Label]
         /\ \A i \in Peer : pc'[i] = pc[i]
         /\ \/ at + 1 < NRanks /\ at' = at + 1 /\ pc' = pc
            \/ at + 1 = NRanks /\ at' = 1 /\ pc'[0] = label
  <1>1. CASE at + 1 < NRanks
    <2>1. at' = at + 1 /\ pc' = pc
      BY <1>1 DEF Advance
    <2>2. at + 1 \in Peer
      BY <1>1 DEF TypeOK, Peer, Rank
    <2> QED
      BY <1>1, <2>1, <2>2 DEF TypeOK
  <1>2. CASE ~(at + 1 < NRanks)
    <2>1. at' = 1 /\ pc' = [pc EXCEPT ![0] = label]
      BY <1>2 DEF Advance, Goto
    <2>2. at + 1 = NRanks
      BY <1>2 DEF TypeOK, Peer, Rank
    <2>3. /\ pc' \in [Rank -> Label] /\ pc'[0] = label
          /\ \A i \in Peer : pc'[i] = pc[i]
      BY <2>1, Ranks DEF TypeOK
    <2> QED
      BY <2>1, <2>2, <2>3, Ranks
  <1> QED
    BY <1>1, <1>2

(* A rank goes on to another phase.                                        *)
LEMMA GotoType ==
  ASSUME TypeOK, NEW i \in Rank, NEW label \in Label, Goto(i, label)
  PROVE  /\ pc' \in [Rank -> Label] /\ pc'[i] = label
         /\ \A j \in Rank \ {i} : pc'[j] = pc[j]
  BY DEF TypeOK, Goto

(* A rank closes its listener.                                             *)
LEMMA CloseType ==
  ASSUME TypeOK, NEW i \in Rank, CloseListener(i)
  PROVE  listening' \in [Rank -> BOOLEAN]
  BY DEF TypeOK, CloseListener

(* A rank returns, or dies.                                                *)
LEMMA ReturnType ==
  ASSUME TypeOK, NEW i \in Rank, NEW label \in Label, Return(i, label)
  PROVE  /\ pc' \in [Rank -> Label] /\ pc'[i] = label
         /\ \A j \in Rank \ {i} : pc'[j] = pc[j]
         /\ listening' \in [Rank -> BOOLEAN]
  BY GotoType, CloseType DEF Return

(* The phases and the kinds of messages.                                   *)
LEMMA Labels ==
  /\ \A k \in {"start", "report", "topology", "table", "link", "accept", "vote",
               "result", "collect", "tell", "votes", "crashed", "ring", "broker"} : k \in Label
  /\ \A k \in {"info", "topology", "table", "vote", "result"} : k \in Kind
  BY DEF Label, Returned, Kind

(* Every step preserves the shape of the state.                            *)
LEMMA TypeStep ==
  ASSUME TypeOK, Next
  PROVE  TypeOK'
  <1> USE Ranks, Labels
  <1> PICK i \in Rank : Step(i) \/ Crash(i)
    BY DEF Next
  <1> USE DEF TypeOK
  <1>1. CASE OptOut(i)
    BY <1>1, ReturnType DEF OptOut
  <1>2. CASE Listen(i)
    <2>1. listening' \in [Rank -> BOOLEAN] /\ topology' \in BOOLEAN
      BY <1>2 DEF Listen
    <2> QED
      BY <1>2, <2>1, GotoType DEF Listen
  <1>3. CASE Connect(i)
    <2>0. PICK ok \in BOOLEAN :
            /\ direct' = [direct EXCEPT ![i] = ok]
            /\ linked' = IF ok THEN linked \cup {<<i, Successor(i)>>} ELSE linked
      BY <1>3 DEF Connect
    <2>1. direct' \in [Rank -> BOOLEAN] /\ linked' \subseteq Rank \X Rank
      BY <2>0
    <2> QED
      BY <1>3, <2>1, GotoType DEF Connect
  <1>4. CASE Accept(i)
    <2>1. direct' \in [Rank -> BOOLEAN] /\ group' \in BOOLEAN
      BY <1>4 DEF Accept
    <2> QED
      BY <1>4, <2>1, GotoType DEF Accept
  <1>5. CASE FallBack(i)
    BY <1>5, ReturnType DEF FallBack
  <1>6. CASE Crash(i)
    BY <1>6, ReturnType DEF Crash
  <1>7. CASE i = 0 /\ BrokerStep
    <2>1. CASE Collect
      BY <2>1, AdvanceType, ConsumeType DEF Collect
    <2>2. CASE Tell
      <3>1. Say("topology", topology) \in Message
        BY Said
      <3> QED
        BY <2>2, <3>1, AdvanceType, WriteType, CloseType DEF Tell
    <2>3. CASE SendTable
      <3>1. Say("table", TRUE) \in Message
        BY Said
      <3> QED
        BY <2>3, <3>1, AdvanceType, WriteType DEF SendTable
    <2>4. CASE CountVote
      BY <2>4, AdvanceType, ConsumeType DEF CountVote
    <2>5. CASE VoteLost
      BY <2>5, AdvanceType DEF VoteLost
    <2>6. CASE SendResult
      <3>1. Say("result", group) \in Message
        BY Said
      <3> QED
        BY <2>6, <3>1, AdvanceType, WriteType, CloseType DEF SendResult
    <2>7. CASE ResultLost
      BY <2>7, AdvanceType, CloseType DEF ResultLost
    <2> QED
      BY <1>7, <2>1, <2>2, <2>3, <2>4, <2>5, <2>6, <2>7 DEF BrokerStep
  <1>8. CASE i # 0 /\ PeerStep(i)
    <2>0. i \in Peer
      BY <1>8
    <2>1. CASE Report(i)
      <3>1. Say("info", listening[i]) \in Message
        BY Said
      <3> QED
        BY <2>0, <2>1, <3>1, GotoType, WriteType DEF Report
    <2>2. CASE HearTopology(i)
      BY <2>0, <2>2, GotoType, ReturnType, ConsumeType DEF HearTopology
    <2>3. CASE HearTable(i)
      BY <2>0, <2>3, GotoType, ConsumeType DEF HearTable
    <2>4. CASE Vote(i)
      <3>1. Say("vote", direct[i]) \in Message
        BY Said
      <3> QED
        BY <2>0, <2>4, <3>1, GotoType, WriteType DEF Vote
    <2>5. CASE HearResult(i)
      BY <2>0, <2>5, ReturnType, ConsumeType DEF HearResult
    <2>6. CASE NoResult(i)
      BY <2>0, <2>6, ReturnType DEF NoResult
    <2> QED
      BY <1>8, <2>1, <2>2, <2>3, <2>4, <2>5, <2>6 DEF PeerStep
  <1> QED
    BY <1>1, <1>2, <1>3, <1>4, <1>5, <1>6, <1>7, <1>8 DEF Step

-----------------------------------------------------------------------------
(* The phase a rank comes to.                                              *)
LEMMA NextPhase ==
  ASSUME TypeOK, NEW i \in Rank
  PROVE  /\ OptOut(i) \/ FallBack(i) \/ NoResult(i) => pc'[i] = "broker"
         /\ Crash(i) => pc'[i] = "crashed"
         /\ Listen(i) => pc'[i] = IF i = 0 THEN "collect" ELSE "report"
         /\ Connect(i) => pc'[i] = "accept"
         /\ Accept(i) => pc'[i] = IF i = 0 THEN "votes" ELSE "vote"
         /\ Report(i) => pc'[i] = "topology"
         /\ HearTopology(i) => pc'[i] \in {"table", "broker"}
         /\ HearTable(i) => pc'[i] = "link"
         /\ Vote(i) => pc'[i] = "result"
         /\ HearResult(i) => pc'[i] \in {"ring", "broker"}
  <1>1. \A label : Goto(i, label) \/ Return(i, label) => pc'[i] = label
    BY DEF TypeOK, Goto, Return
  <1>2. /\ OptOut(i) \/ FallBack(i) \/ NoResult(i) => pc'[i] = "broker"
        /\ Crash(i) => pc'[i] = "crashed"
    BY <1>1 DEF OptOut, FallBack, NoResult, Crash
  <1>3. /\ Listen(i) => pc'[i] = IF i = 0 THEN "collect" ELSE "report"
        /\ Connect(i) => pc'[i] = "accept"
        /\ Accept(i) => pc'[i] = IF i = 0 THEN "votes" ELSE "vote"
    BY <1>1 DEF Listen, Connect, Accept
  <1>4. /\ Report(i) => pc'[i] = "topology"
        /\ HearTable(i) => pc'[i] = "link"
        /\ Vote(i) => pc'[i] = "result"
    BY <1>1 DEF Report, HearTable, Vote
  <1>5. HearTopology(i) => pc'[i] \in {"table", "broker"}
    BY <1>1 DEF HearTopology
  <1>6. HearResult(i) => pc'[i] \in {"ring", "broker"}
    BY <1>1 DEF HearResult
  <1> QED
    BY <1>2, <1>3, <1>4, <1>5, <1>6

(* A step of one rank leaves the phase of the others alone, and only rank  *)
(* 0 touches its loop, the topology and the outcome.                       *)
LEMMA Moves ==
  ASSUME TypeOK, NEW i \in Rank, Step(i) \/ Crash(i)
  PROVE  /\ \A j \in Rank : j # i => pc'[j] = pc[j]
         /\ i = 0 => pc'[0] = pc[0] \/ pc'[0] \notin {"report", "topology", "vote"}
         /\ i # 0 => pc'[i] \notin {"collect", "tell", "votes"}
         /\ i # 0 => at' = at /\ topology' = topology /\ group' = group
  <1> USE Ranks, Labels
  <1>0. \A label : Goto(i, label) \/ Return(i, label) => \A j \in Rank : j # i => pc'[j] = pc[j]
    BY DEF TypeOK, Goto, Return
  <1>1. CASE OptOut(i) \/ FallBack(i) \/ Crash(i)
    <2>1. \A j \in Rank : j # i => pc'[j] = pc[j]
      BY <1>0, <1>1 DEF OptOut, FallBack, Crash
    <2>2. at' = at /\ topology' = topology /\ group' = group
      BY <1>1 DEF OptOut, FallBack, Crash
    <2> QED
      BY <1>1, <2>1, <2>2, NextPhase
  <1>2. CASE Listen(i) \/ Connect(i) \/ Accept(i)
    <2>1. \A j \in Rank : j # i => pc'[j] = pc[j]
      BY <1>0, <1>2 DEF Listen, Connect, Accept
    <2>2. i # 0 => at' = at /\ topology' = topology /\ group' = group
      BY <1>2 DEF Listen, Connect, Accept
    <2> QED
      BY <1>2, <2>1, <2>2, NextPhase
  <1>3. CASE i = 0 /\ BrokerStep
    <2>1. \E label \in {"tell", "table", "broker", "link", "result", "ring"} : Advance(label)
      BY <1>3 DEF BrokerStep, Collect, Tell, SendTable, CountVote, VoteLost, SendResult, ResultLost
    <2> QED
      BY <1>3, <2>1, AdvanceType
  <1>4. CASE i # 0 /\ PeerStep(i)
    <2>1. \A j \in Rank : j # i => pc'[j] = pc[j]
      BY <1>0, <1>4 DEF PeerStep, Report, HearTopology, HearTable, Vote, HearResult, NoResult
    <2>2. at' = at /\ topology' = topology /\ group' = group
      BY <1>4 DEF PeerStep, Report, HearTopology, HearTable, Vote, HearResult, NoResult
    <2> QED
      BY <1>4, <2>1, <2>2, NextPhase DEF PeerStep
  <1> QED
    BY <1>1, <1>2, <1>3, <1>4 DEF Step

(* Only rank 0 collects, tells and counts; only its peers report and vote. *)
LEMMA RolesStep ==
  ASSUME TypeOK, RolesOK, Next
  PROVE  RolesOK'
  <1>1. PICK i \in Rank : Step(i) \/ Crash(i)
    BY DEF Next
  <1> QED
    BY <1>1, Moves, Ranks DEF RolesOK

-----------------------------------------------------------------------------
(* A step that changes nothing at a peer and does not bring rank 0 further *)
(* with it preserves what holds of the peer.                               *)
LEMMA SamePhase ==
  ASSUME NEW r \in Peer, PeerSound(r), pc'[r] = pc[r], up'[r] = up[r], down'[r] = down[r],
         direct'[r] = direct[r], Told(r)' => topology' = topology,
         Unheard(r)' => Unheard(r), Untold(r)' => Untold(r), Told(r)' => Told(r),
         Uncounted(r)' => Uncounted(r), Counted(r)' => Counted(r), Answered(r)' => Answered(r)
  PROVE  PeerSound(r)'
  <1>1. DownSound(r)'
    BY DEF PeerSound, DownSound
  <1>2. UpSound(r)'
    <2>1. UpSound(r)
      BY DEF PeerSound
    <2> QED
      BY <2>1, Zenon DEF UpSound
  <1>3. ASSUME pc[r] # "crashed"
        PROVE  PeerInStep(r)'
    <2>1. PeerInStep(r)
      BY <1>3 DEF PeerSound
    <2>2. Told(r)' => \/ pc'[r] = "topology" /\ down'[r] = <<Say("topology", topology')>>
                      \/ pc'[r] = (IF topology' THEN "table" ELSE "broker") /\ down'[r] = <<>>
      <3> SUFFICES ASSUME Told(r)'
                   PROVE  \/ pc'[r] = "topology" /\ down'[r] = <<Say("topology", topology')>>
                          \/ pc'[r] = (IF topology' THEN "table" ELSE "broker") /\ down'[r] = <<>>
        OBVIOUS
      <3>1. topology' = topology /\ Told(r)
        OBVIOUS
      <3> QED
        BY <2>1, <3>1 DEF PeerInStep
    <2> QED
      BY <2>1, <2>2 DEF PeerInStep
  <1> QED
    BY <1>1, <1>2, <1>3 DEF PeerSound

(* The same, of a step that leaves rank 0 where it is.                     *)
LEMMA PeerFrame ==
  ASSUME NEW r \in Peer, PeerSound(r), at' = at, pc'[0] = pc[0], pc'[r] = pc[r],
         up'[r] = up[r], down'[r] = down[r], direct'[r] = direct[r], topology' = topology
  PROVE  PeerSound(r)'
  <1>1. /\ Unheard(r)' = Unheard(r) /\ Untold(r)' = Untold(r) /\ Told(r)' = Told(r)
        /\ Uncounted(r)' = Uncounted(r) /\ Counted(r)' = Counted(r)
        /\ Answered(r)' = Answered(r)
    BY DEF Unheard, Untold, Told, Uncounted, Counted, Answered
  <1> QED
    BY <1>1 DEF PeerSound, DownSound, UpSound, PeerInStep

(* A step of a peer keeps it in step with rank 0.                          *)
LEMMA PeerOwnStep ==
  ASSUME TypeOK, RolesOK, NEW r \in Peer, PeerSound(r), Step(r) \/ Crash(r)
  PROVE  PeerSound(r)'
  <1> USE Ranks, Labels
  <1>0. r \in Rank /\ r # 0
    OBVIOUS
  <1>1. at' = at /\ topology' = topology /\ pc'[0] = pc[0]
    BY <1>0, Moves
  <1>2. /\ Unheard(r)' = Unheard(r) /\ Untold(r)' = Untold(r) /\ Told(r)' = Told(r)
        /\ Uncounted(r)' = Uncounted(r) /\ Counted(r)' = Counted(r)
        /\ Answered(r)' = Answered(r)
    BY <1>1 DEF Unheard, Untold, Told, Uncounted, Counted, Answered
  <1> HIDE DEF Unheard, Untold, Told, Uncounted, Counted, Answered
  <1>3. CASE OptOut(r)
    <2>1. pc'[r] = "broker" /\ up' = up /\ down' = down /\ direct' = direct
      BY <1>3, ReturnType DEF OptOut
    <2>2. pc[r] = "start"
      BY <1>3 DEF OptOut
    <2>3. /\ ~Untold(r) /\ ~Told(r) /\ ~Uncounted(r) /\ ~Counted(r) /\ ~Answered(r)
      BY <2>2 DEF PeerSound, PeerInStep, Returned
    <2>4. up[r] = <<>> /\ down[r] = <<>>
      BY <2>2 DEF PeerSound, DownSound, UpSound
    <2>5. DownSound(r)' /\ UpSound(r)'
      BY <1>2, <2>1, <2>3, <2>4 DEF DownSound, UpSound
    <2> QED
      BY <1>2, <2>1, <2>3, <2>4, <2>5 DEF PeerSound, PeerInStep
  <1>4. CASE Listen(r)
    <2>1. pc'[r] = "report" /\ up' = up /\ down' = down /\ direct' = direct /\ pc[r] = "start"
      BY <1>4, GotoType DEF Listen
    <2>2. ~Untold(r) /\ ~Told(r) /\ ~Uncounted(r) /\ ~Counted(r) /\ ~Answered(r)
      BY <2>1 DEF PeerSound, PeerInStep, Returned
    <2>3. up[r] = <<>> /\ down[r] = <<>>
      BY <2>1 DEF PeerSound, DownSound, UpSound
    <2>4. DownSound(r)' /\ UpSound(r)'
      BY <1>2, <2>1, <2>2, <2>3 DEF DownSound, UpSound
    <2> QED
      BY <1>2, <2>1, <2>2, <2>3, <2>4 DEF PeerSound, PeerInStep
  <1>5. CASE Connect(r) \/ Accept(r)
    <2>1. /\ pc[r] \in {"link", "accept"} /\ pc'[r] \in {"accept", "vote"}
          /\ up' = up /\ down' = down
      BY <1>0, <1>5, GotoType DEF Connect, Accept
    <2>2. ~Unheard(r) /\ ~Untold(r) /\ ~Told(r) /\ ~Counted(r) /\ ~Answered(r)
      BY <2>1 DEF PeerSound, PeerInStep, Returned
    <2>3. down[r] = <<>> /\ (Uncounted(r) => up[r] = <<>>)
      BY <2>1 DEF PeerSound, DownSound, UpSound
    <2>4. DownSound(r)' /\ UpSound(r)'
      BY <1>2, <2>1, <2>2, <2>3 DEF DownSound, UpSound
    <2> QED
      BY <1>2, <2>1, <2>2, <2>3, <2>4 DEF PeerSound, PeerInStep
  <1>6. CASE FallBack(r) \/ NoResult(r)
    <2>1. pc[0] = "crashed" /\ pc'[r] = "broker" /\ up' = up /\ down' = down
      BY <1>0, <1>6, ReturnType DEF FallBack, NoResult, Broken
    <2>2. /\ ~Unheard(r) /\ ~Untold(r) /\ ~Told(r) /\ ~Uncounted(r) /\ ~Counted(r)
          /\ ~Answered(r)
      BY <2>1 DEF Unheard, Untold, Told, Uncounted, Counted, Answered
    <2> QED
      BY <1>2, <2>1, <2>2 DEF PeerSound, DownSound, UpSound, PeerInStep
  <1>7. CASE Crash(r)
    <2>1. pc'[r] = "crashed" /\ up' = up /\ down' = down /\ direct' = direct
      BY <1>7, ReturnType DEF Crash
    <2> QED
      BY <1>2, <2>1 DEF PeerSound, DownSound, UpSound
  <1>8. CASE Report(r)
    <2>1. pc[r] = "report" /\ pc'[r] = "topology" /\ down' = down
      BY <1>8, GotoType DEF Report
    <2>2. ~Untold(r) /\ ~Told(r) /\ ~Uncounted(r) /\ ~Counted(r) /\ ~Answered(r)
      BY <2>1 DEF PeerSound, PeerInStep, Returned
    <2>3. up[r] = <<>> /\ down[r] = <<>>
      BY <2>1 DEF PeerSound, DownSound, UpSound
    <2>4. listening[r] \in BOOLEAN /\ Say("info", listening[r]) \in Message
      BY Said DEF TypeOK
    <2>5. up'[r] = <<Say("info", listening[r])>>
      <3>1. up'[r] = Append(up[r], Say("info", listening[r]))
        BY <1>8, Zenon DEF Report, Write, TypeOK
      <3> QED
        BY <2>3, <2>4, <3>1, FirstMessage
    <2>6. DownSound(r)' /\ UpSound(r)'
      BY <1>2, <2>1, <2>2, <2>3, <2>4, <2>5 DEF DownSound, UpSound
    <2> QED
      BY <1>2, <2>1, <2>2, <2>3, <2>6 DEF PeerSound, PeerInStep
  <1>9. CASE HearTopology(r)
    <2>1. pc[r] = "topology" /\ down[r] # <<>> /\ up' = up /\ direct' = direct
      BY <1>9 DEF HearTopology
    <2>2. ~Unheard(r) /\ ~Untold(r) /\ ~Counted(r) /\ ~Answered(r)
      BY <2>1 DEF PeerSound, PeerInStep, Returned
    <2>3. Told(r) \/ Uncounted(r) => up[r] = <<>>
      BY <2>1 DEF PeerSound, UpSound
    <2>4. down'[r] = Tail(down[r])
      BY <1>9, <2>1, ConsumeType DEF HearTopology, TypeOK
    <2>5. ASSUME NEW ok \in BOOLEAN, down[r] = <<Say("topology", ok)>>
          PROVE  PeerSound(r)'
      <3>1. Say("topology", ok) \in Message /\ Say("topology", ok).ok = ok
        BY Said
      <3>2. Head(down[r]) = Say("topology", ok) /\ down'[r] = <<>>
        BY <2>4, <2>5, <3>1, Streams
      <3>3. pc'[r] = IF ok THEN "table" ELSE "broker"
        BY <1>9, <3>1, <3>2, GotoType, ReturnType DEF HearTopology
      <3>4. ~Uncounted(r)
        <4>1. Say("topology", TRUE) \in Message /\ Say("table", TRUE) \in Message
          BY Said
        <4>2. down[r] # <<Say("topology", TRUE), Say("table", TRUE)>>
          BY <2>5, <3>1, <4>1
        <4> QED
          BY <2>1, <4>2 DEF PeerSound, PeerInStep
      <3>5. Told(r) => ok = topology
        BY <2>1, <2>5, <3>1, Said DEF PeerSound, PeerInStep, TypeOK
      <3>6. DownSound(r)' /\ UpSound(r)'
        BY <1>2, <2>1, <2>2, <2>3, <3>2, <3>3, <3>4 DEF DownSound, UpSound
      <3>7. PeerInStep(r)'
        BY <1>1, <1>2, <2>2, <3>2, <3>3, <3>4, <3>5 DEF PeerInStep
      <3> QED
        BY <3>6, <3>7 DEF PeerSound
    <2>6. CASE down[r] = <<Say("topology", TRUE), Say("table", TRUE)>>
      <3>1. /\ Say("topology", TRUE) \in Message /\ Say("topology", TRUE).ok = TRUE
            /\ Say("table", TRUE) \in Message
        BY Said
      <3>2. Head(down[r]) = Say("topology", TRUE) /\ down'[r] = <<Say("table", TRUE)>>
        <4>1. /\ Head(<<Say("topology", TRUE), Say("table", TRUE)>>) = Say("topology", TRUE)
              /\ Tail(<<Say("topology", TRUE), Say("table", TRUE)>>) = <<Say("table", TRUE)>>
          BY <3>1, Streams
        <4> QED
          BY <2>4, <2>6, <4>1, Zenon
      <3>3. pc'[r] = "table"
        BY <1>9, <3>1, <3>2, GotoType DEF HearTopology
      <3>4. ~Told(r)
        <4>1. topology \in BOOLEAN /\ Say("topology", topology) \in Message
          BY Said DEF TypeOK
        <4>2. down[r] # <<Say("topology", topology)>>
          BY <2>6, <3>1, <4>1
        <4> QED
          BY <2>1, <4>2 DEF PeerSound, PeerInStep
      <3>5. DownSound(r)' /\ UpSound(r)'
        BY <1>2, <2>1, <2>2, <2>3, <3>2, <3>3, <3>4 DEF DownSound, UpSound
      <3>6. PeerInStep(r)'
        BY <1>2, <2>2, <3>2, <3>3, <3>4 DEF PeerInStep
      <3> QED
        BY <3>5, <3>6 DEF PeerSound
    <2> QED
      BY <2>1, <2>5, <2>6 DEF PeerSound, DownSound
  <1>10. CASE HearTable(r)
    <2>1. pc[r] = "table" /\ pc'[r] = "link" /\ down[r] # <<>> /\ up' = up /\ direct' = direct
      BY <1>10, GotoType DEF HearTable
    <2>2. ~Unheard(r) /\ ~Untold(r) /\ ~Told(r) /\ ~Counted(r) /\ ~Answered(r)
      BY <2>1 DEF PeerSound, PeerInStep, Returned
    <2>3. Uncounted(r) => up[r] = <<>>
      BY <2>1 DEF PeerSound, UpSound
    <2>4. down'[r] = <<>>
      <3>1. down[r] = <<Say("table", TRUE)>> /\ Say("table", TRUE) \in Message
        BY <2>1, Said DEF PeerSound, DownSound
      <3>2. down'[r] = Tail(down[r])
        BY <1>10, <2>1, ConsumeType DEF HearTable, TypeOK
      <3> QED
        BY <3>1, <3>2, Streams
    <2>5. DownSound(r)' /\ UpSound(r)'
      BY <1>2, <2>1, <2>2, <2>3, <2>4 DEF DownSound, UpSound
    <2> QED
      BY <1>2, <2>1, <2>2, <2>4, <2>5 DEF PeerSound, PeerInStep
  <1>11. CASE Vote(r)
    <2>1. /\ pc[r] = "vote" /\ pc'[r] = "result"
          /\ down' = down /\ direct' = direct
      BY <1>11, GotoType DEF Vote
    <2>2. ~Unheard(r) /\ ~Untold(r) /\ ~Told(r) /\ ~Counted(r) /\ ~Answered(r)
      BY <2>1 DEF PeerSound, PeerInStep, Returned
    <2>3. down[r] = <<>> /\ (Uncounted(r) => up[r] = <<>>)
      BY <2>1 DEF PeerSound, DownSound, UpSound
    <2>4. Uncounted(r) => up'[r] = <<Say("vote", direct[r])>>
      <3>1. direct[r] \in BOOLEAN /\ Say("vote", direct[r]) \in Message
        BY Said DEF TypeOK
      <3>2. up'[r] = Append(up[r], Say("vote", direct[r]))
        BY <1>11, Zenon DEF Vote, Write, TypeOK
      <3> QED
        BY <2>3, <3>1, <3>2, FirstMessage
    <2>5. DownSound(r)' /\ UpSound(r)'
      BY <1>2, <2>1, <2>2, <2>3, <2>4 DEF DownSound, UpSound
    <2> QED
      BY <1>2, <2>1, <2>2, <2>3, <2>5 DEF PeerSound, PeerInStep
  <1>12. CASE HearResult(r)
    <2>1. pc[r] = "result" /\ down[r] # <<>> /\ up' = up /\ direct' = direct
      BY <1>12 DEF HearResult
    <2>2. ~Unheard(r) /\ ~Untold(r) /\ ~Told(r) /\ ~Uncounted(r) /\ ~Counted(r)
      BY <2>1 DEF PeerSound, PeerInStep
    <2>3. Answered(r) => up[r] = <<>>
      BY <2>1 DEF PeerSound, UpSound
    <2>4. PICK ok \in BOOLEAN : down[r] = <<Say("result", ok)>>
      BY <2>1 DEF PeerSound, DownSound
    <2>5. Say("result", ok) \in Message
      BY Said
    <2>6. down'[r] = <<>>
      <3>1. down'[r] = Tail(down[r])
        BY <1>12, <2>1, ConsumeType DEF HearResult, TypeOK
      <3> QED
        BY <2>4, <2>5, <3>1, Streams
    <2>7. pc'[r] \in {"ring", "broker"}
      BY <1>12 DEF HearResult, Return, Goto, TypeOK
    <2>8. DownSound(r)' /\ UpSound(r)'
      BY <1>2, <2>1, <2>2, <2>3, <2>6, <2>7 DEF DownSound, UpSound
    <2> QED
      BY <1>2, <2>2, <2>6, <2>7, <2>8 DEF PeerSound, PeerInStep, Returned
  <1> QED
    BY <1>0, <1>3, <1>4, <1>5, <1>6, <1>7, <1>8, <1>9, <1>10, <1>11, <1>12 DEF Step, PeerStep

(* A step of rank 0 keeps it in step with every peer.                      *)
LEMMA RankZeroStep ==
  ASSUME TypeOK, TypeOK', RolesOK, BrokerSound, NEW r \in Peer, PeerSound(r), Step(0) \/ Crash(0)
  PROVE  PeerSound(r)'
  <1> USE Ranks, Labels
  <1>0. r # 0 /\ pc'[r] = pc[r]
    BY Moves
  <1>a. r \in Nat /\ at \in Nat /\ 1 <= r /\ r < NRanks /\ 1 <= at /\ NRanks \in Nat
    BY DEF TypeOK
  <1>1. CASE OptOut(0) \/ FallBack(0) \/ Crash(0)
    <2>1. /\ pc'[0] \in {"broker", "crashed"}
          /\ UNCHANGED <<up, down, topology, direct>>
      BY <1>1, ReturnType DEF OptOut, FallBack, Crash
    <2>2. /\ ~Unheard(r)' /\ ~Untold(r)' /\ ~Told(r)' /\ ~Uncounted(r)' /\ ~Counted(r)'
          /\ ~Answered(r)'
      BY <2>1 DEF Unheard, Untold, Told, Uncounted, Counted, Answered
    <2> QED
      BY <1>0, <2>1, <2>2, SamePhase
  <1>2. CASE Listen(0) \/ Connect(0) \/ Accept(0)
    <2>1. /\ \/ pc[0] = "start" /\ pc'[0] = "collect"
             \/ pc[0] = "link" /\ pc'[0] = "accept"
             \/ pc[0] = "accept" /\ pc'[0] = "votes"
          /\ UNCHANGED <<at, up, down>>
      BY <1>2, GotoType DEF Listen, Connect, Accept
    <2>2. direct'[r] = direct[r]
      BY <1>0, <1>2 DEF Listen, Connect, Accept, TypeOK
    <2>3. /\ Unheard(r)' => Unheard(r) /\ ~Untold(r)' /\ ~Told(r)'
          /\ Uncounted(r)' => Uncounted(r)
          /\ ~Untold(r)' /\ ~Told(r)' /\ ~Counted(r)' /\ ~Answered(r)'
      BY <2>1 DEF BrokerSound, Unheard, Untold, Told, Uncounted, Counted, Answered
    <2> QED
      BY <1>0, <2>1, <2>2, <2>3, SamePhase
  <1>3. CASE Collect
    <2>0. pc[0] = "collect" /\ up[at] # <<>> /\ UNCHANGED <<down, direct>> /\ Advance("tell")
      BY <1>3 DEF Collect
    <2>1. /\ up'[at] = Tail(up[at])
          /\ r # at => up'[r] = up[r]
      BY <1>3, Zenon DEF Collect, Consume, TypeOK
    <2>2. /\ ~Told(r)' /\ ~Uncounted(r)' /\ ~Counted(r)' /\ ~Answered(r)'
          /\ r # at => (Unheard(r)' => Unheard(r)) /\ (Untold(r)' => Untold(r))
          /\ r = at => Unheard(r) /\ ~Unheard(r)'
      <3>1. \/ at + 1 < NRanks /\ at' = at + 1 /\ pc'[0] = "collect"
            \/ at + 1 = NRanks /\ at' = 1 /\ pc'[0] = "tell"
        BY <2>0, AdvanceType
      <3> QED
        BY <1>a, <2>0, <3>1 DEF Unheard, Untold, Told, Uncounted, Counted, Answered
    <2>3. CASE r # at
      BY <1>0, <2>0, <2>1, <2>2, <2>3, SamePhase
    <2>4. CASE r = at
      <3>1. PICK ok \in BOOLEAN : up[r] = <<Say("info", ok)>>
        BY <2>0, <2>2, <2>4 DEF PeerSound, UpSound
      <3>2. up'[r] = <<>>
        <4>1. Say("info", ok) \in Message
          BY Said
        <4> QED
          BY <2>1, <2>4, <3>1, <4>1, Streams
      <3>3. pc[r] # "crashed" => pc[r] = "topology" /\ down[r] = <<>>
        BY <2>0, <2>2, <2>4 DEF PeerSound, PeerInStep, UpSound
      <3>4. DownSound(r)'
        BY <1>0, <2>0 DEF PeerSound, DownSound
      <3>5. UpSound(r)'
        BY <2>2, <2>4, <3>2 DEF UpSound
      <3>6. pc'[r] # "crashed" => PeerInStep(r)'
        BY <1>0, <2>0, <2>2, <2>4, <3>3 DEF PeerInStep
      <3> QED
        BY <3>4, <3>5, <3>6 DEF PeerSound
    <2> QED
      BY <2>3, <2>4
  <1>4. CASE Tell
    <2>0. /\ pc[0] = "tell" /\ UNCHANGED <<up, topology, direct>>
          /\ Advance(IF topology THEN "table" ELSE "broker")
      BY <1>4 DEF Tell
    <2>1. Say("topology", topology) \in Message /\ topology \in BOOLEAN
      BY Said DEF TypeOK
    <2>2. /\ down'[at] = Append(down[at], Say("topology", topology))
          /\ r # at => down'[r] = down[r]
      BY <1>4, Zenon DEF Tell, Write, TypeOK
    <2>3. /\ \/ at + 1 < NRanks /\ at' = at + 1 /\ pc'[0] = "tell"
             \/ at + 1 = NRanks /\ at' = 1 /\ pc'[0] = IF topology THEN "table" ELSE "broker"
      BY <2>0, AdvanceType
    <2>4. /\ ~Unheard(r)' /\ ~Uncounted(r)' /\ ~Counted(r)' /\ ~Answered(r)'
          /\ r # at => (Untold(r)' => Untold(r)) /\ (Told(r)' => Told(r))
          /\ r = at => Untold(r) /\ ~Untold(r)'
      BY <1>a, <2>0, <2>3 DEF Unheard, Untold, Told, Uncounted, Counted, Answered
    <2>5. CASE r # at
      BY <1>0, <2>0, <2>2, <2>4, <2>5, SamePhase
    <2>6. CASE r = at
      <3>1. pc[r] # "crashed" => pc[r] = "topology" /\ down[r] = <<>>
        BY <2>4, <2>6 DEF PeerSound, PeerInStep
      <3>2. pc[r] # "crashed" => down'[r] = <<Say("topology", topology)>>
        BY <2>1, <2>2, <2>6, <3>1, FirstMessage
      <3>3. DownSound(r)'
        BY <1>0, <2>1, <3>1, <3>2 DEF DownSound
      <3>4. UpSound(r)'
        BY <1>0, <2>0, <2>4, <2>6 DEF PeerSound, UpSound
      <3>5. pc'[r] # "crashed" => PeerInStep(r)'
        BY <1>0, <2>0, <2>4, <2>6, <3>1, <3>2 DEF PeerInStep
      <3> QED
        BY <3>3, <3>4, <3>5 DEF PeerSound
    <2> QED
      BY <2>5, <2>6
  <1>5. CASE SendTable
    <2>0. pc[0] = "table" /\ UNCHANGED <<up, topology, direct>> /\ Advance("link") /\ topology
      BY <1>5 DEF SendTable, BrokerSound
    <2>1. /\ down'[at] = Append(down[at], Say("table", TRUE))
          /\ r # at => down'[r] = down[r]
      BY <1>5, Zenon DEF SendTable, Write, TypeOK
    <2>2. \/ at + 1 < NRanks /\ at' = at + 1 /\ pc'[0] = "table"
          \/ at + 1 = NRanks /\ at' = 1 /\ pc'[0] = "link"
      BY <2>0, AdvanceType
    <2>3. /\ ~Unheard(r)' /\ ~Untold(r)' /\ ~Counted(r)' /\ ~Answered(r)'
          /\ r # at => (Told(r)' => Told(r)) /\ (Uncounted(r)' => Uncounted(r))
          /\ r = at => Told(r) /\ ~Told(r)'
      BY <1>a, <2>0, <2>2 DEF Unheard, Untold, Told, Uncounted, Counted, Answered
    <2>4. CASE r # at
      BY <1>0, <2>0, <2>1, <2>3, <2>4, SamePhase
    <2>5. CASE r = at
      <3>0. up[r] = <<>>
        BY <2>3, <2>5 DEF PeerSound, UpSound
      <3>1. Say("table", TRUE) \in Message /\ Say("topology", TRUE) \in Message
        BY Said
      <3>2. pc[r] # "crashed" =>
              \/ pc[r] = "topology" /\ down'[r] = <<Say("topology", TRUE), Say("table", TRUE)>>
              \/ pc[r] = "table" /\ down'[r] = <<Say("table", TRUE)>>
        <4>1. CASE pc[r] = "topology" /\ down[r] = <<Say("topology", TRUE)>>
          BY <2>1, <2>5, <3>1, <4>1, Streams
        <4>2. CASE pc[r] = "table" /\ down[r] = <<>>
          BY <2>1, <2>5, <3>1, <4>2, FirstMessage
        <4> QED
          <5>1. topology = TRUE
            BY <2>0 DEF TypeOK
          <5> QED
            BY <2>3, <2>5, <4>1, <4>2, <5>1 DEF PeerSound, PeerInStep
      <3>3. DownSound(r)'
        BY <1>0, <3>2 DEF DownSound
      <3>4. UpSound(r)'
        BY <1>0, <2>0, <2>3, <2>5, <3>0 DEF UpSound
      <3>5. pc'[r] # "crashed" => PeerInStep(r)'
        BY <1>0, <2>3, <2>5, <3>2 DEF PeerInStep
      <3> QED
        BY <3>3, <3>4, <3>5 DEF PeerSound
    <2> QED
      BY <2>4, <2>5
  <1>6. CASE CountVote \/ VoteLost
    <2>0. pc[0] = "votes" /\ UNCHANGED <<down, topology, direct>> /\ Advance("result")
      BY <1>6 DEF CountVote, VoteLost
    <2>1. r # at => up'[r] = up[r]
      <3>1. CASE CountVote
        BY <3>1, Zenon DEF CountVote, Consume, TypeOK
      <3>2. CASE VoteLost
        BY <3>2 DEF VoteLost
      <3> QED
        BY <1>6, <3>1, <3>2
    <2>2. \/ at + 1 < NRanks /\ at' = at + 1 /\ pc'[0] = "votes"
          \/ at + 1 = NRanks /\ at' = 1 /\ pc'[0] = "result"
      BY <2>0, AdvanceType
    <2>3. /\ ~Unheard(r)' /\ ~Untold(r)' /\ ~Told(r)' /\ ~Answered(r)'
          /\ r # at => (Uncounted(r)' => Uncounted(r)) /\ (Counted(r)' => Counted(r))
          /\ r = at => Uncounted(r) /\ ~Uncounted(r)'
      BY <1>a, <2>0, <2>2 DEF Unheard, Untold, Told, Uncounted, Counted, Answered
    <2>4. CASE r # at
      BY <1>0, <2>0, <2>1, <2>3, <2>4, SamePhase
    <2>5. CASE r = at
      <3>1. \/ up'[r] = <<>> /\ pc[r] \in {"result", "crashed"}
            \/ pc[r] = "crashed"
        <4>1. CASE CountVote
          <5>1. up[r] # <<>> /\ up'[r] = Tail(up[r])
            BY <2>5, <4>1, Zenon DEF CountVote, Consume, TypeOK
          <5>2. up[r] = <<Say("vote", direct[r])>> /\ pc[r] \in {"result", "crashed"}
            BY <2>3, <2>5, <5>1 DEF PeerSound, UpSound
          <5>3. direct[r] \in BOOLEAN /\ Say("vote", direct[r]) \in Message
            BY Said DEF TypeOK
          <5> QED
            BY <5>1, <5>2, <5>3, Streams
        <4>2. CASE VoteLost
          BY <2>0, <2>5, <4>2 DEF VoteLost, Broken
        <4> QED
          BY <1>6, <4>1, <4>2
      <3>2. pc[r] # "crashed" => pc[r] = "result" /\ down[r] = <<>>
        BY <2>3, <2>5, <3>1 DEF PeerSound, PeerInStep
      <3>3. DownSound(r)'
        BY <1>0, <2>0 DEF PeerSound, DownSound
      <3>4. UpSound(r)'
        BY <1>0, <2>3, <2>5, <3>1 DEF UpSound
      <3>5. pc'[r] # "crashed" => PeerInStep(r)'
        BY <1>0, <2>0, <2>3, <2>5, <3>2 DEF PeerInStep
      <3> QED
        BY <3>3, <3>4, <3>5 DEF PeerSound
    <2> QED
      BY <2>4, <2>5
  <1>7. CASE SendResult \/ ResultLost
    <2>0. /\ pc[0] = "result" /\ UNCHANGED <<up, topology, direct>>
          /\ \E label \in {"ring", "broker"} : Advance(label)
      BY <1>7 DEF SendResult, ResultLost
    <2>1. r # at => down'[r] = down[r]
      <3>1. CASE SendResult
        BY <3>1, Zenon DEF SendResult, Write, TypeOK
      <3>2. CASE ResultLost
        BY <3>2 DEF ResultLost
      <3> QED
        BY <1>7, <3>1, <3>2
    <2>2. \/ at + 1 < NRanks /\ at' = at + 1 /\ pc'[0] = "result"
          \/ at + 1 = NRanks /\ at' = 1 /\ pc'[0] \in {"ring", "broker"}
      BY <2>0, AdvanceType
    <2>3. /\ ~Unheard(r)' /\ ~Untold(r)' /\ ~Told(r)' /\ ~Uncounted(r)'
          /\ r # at => (Counted(r)' => Counted(r)) /\ (Answered(r)' => Answered(r))
          /\ r = at => Counted(r) /\ ~Counted(r)'
      BY <1>a, <2>0, <2>2 DEF Unheard, Untold, Told, Uncounted, Counted, Answered
    <2>4. CASE r # at
      BY <1>0, <2>0, <2>1, <2>3, <2>4, SamePhase
    <2>5. CASE r = at
      <3>0. up[r] = <<>> \/ pc[r] = "crashed"
        BY <2>3, <2>5 DEF PeerSound, UpSound
      <3>1. \/ pc[r] = "crashed"
            \/ pc[r] = "result" /\ \E ok \in BOOLEAN : down'[r] = <<Say("result", ok)>>
        <4>1. CASE SendResult
          <5>1. down'[r] = Append(down[r], Say("result", group))
            BY <2>5, <4>1, Zenon DEF SendResult, Write, TypeOK
          <5>2. pc[r] # "crashed" => pc[r] = "result" /\ down[r] = <<>>
            BY <2>3, <2>5 DEF PeerSound, PeerInStep
          <5>3. group \in BOOLEAN /\ Say("result", group) \in Message
            BY Said DEF TypeOK
          <5>4. down[r] = <<>> => down'[r] = <<Say("result", group)>>
            BY <5>1, <5>3, FirstMessage
          <5> QED
            BY <5>2, <5>3, <5>4
        <4>2. CASE ResultLost
          <5>1. pc[0] = "result" /\ Broken(r)
            BY <2>5, <4>2 DEF ResultLost
          <5> QED
            BY <5>1 DEF Broken
        <4> QED
          BY <1>7, <4>1, <4>2
      <3>2. DownSound(r)'
        BY <1>0, <3>1 DEF DownSound
      <3>3. UpSound(r)'
        BY <1>0, <2>0, <2>3, <2>5, <3>0, <3>1 DEF UpSound
      <3>4. pc'[r] # "crashed" => PeerInStep(r)'
        BY <1>0, <2>3, <2>5, <3>1 DEF PeerInStep
      <3> QED
        BY <3>2, <3>3, <3>4 DEF PeerSound
    <2> QED
      BY <2>4, <2>5
  <1> QED
    BY <1>1, <1>2, <1>3, <1>4, <1>5, <1>6, <1>7 DEF Step, BrokerStep

(* The table is sent only if there is a topology, and every loop of rank 0 *)
(* starts with the first peer.                                             *)
LEMMA BrokerSoundStep ==
  ASSUME TypeOK, BrokerSound, Next
  PROVE  BrokerSound'
  <1> USE Ranks, Labels
  <1>1. PICK i \in Rank : Step(i) \/ Crash(i)
    BY DEF Next
  <1>2. CASE i # 0
    <2>1. pc'[0] = pc[0] /\ at' = at /\ topology' = topology /\ group' = group
      BY <1>1, <1>2, Moves
    <2> QED
      BY <2>1 DEF BrokerSound
  <1>3. CASE i = 0
    <2>1. CASE OptOut(0) \/ FallBack(0) \/ Crash(0)
      BY <2>1, ReturnType DEF OptOut, FallBack, Crash, BrokerSound
    <2>2. CASE Listen(0) \/ Connect(0) \/ Accept(0)
      BY <2>2, GotoType DEF Listen, Connect, Accept, BrokerSound
    <2>3. CASE BrokerStep
      BY <2>3, AdvanceType
      DEF BrokerStep, Collect, Tell, SendTable, CountVote, VoteLost, SendResult, ResultLost,
          BrokerSound
    <2> QED
      BY <1>1, <1>3, <2>1, <2>2, <2>3 DEF Step
  <1> QED
    BY <1>2, <1>3

-----------------------------------------------------------------------------
(* A step of a peer does nothing to the others.                            *)
LEMMA Elsewhere ==
  ASSUME TypeOK, NEW i \in Peer, NEW r \in Peer, r # i, Step(i) \/ Crash(i)
  PROVE  up'[r] = up[r] /\ down'[r] = down[r] /\ direct'[r] = direct[r]
  <1> USE Ranks
  <1>0. i # 0
    OBVIOUS
  <1>1. CASE OptOut(i) \/ FallBack(i) \/ Crash(i) \/ Listen(i)
    BY <1>1 DEF OptOut, FallBack, Crash, Listen
  <1>2. CASE Connect(i) \/ Accept(i)
    <2>1. up' = up /\ down' = down
      BY <1>2 DEF Connect, Accept
    <2>2. direct'[r] = direct[r]
      BY <1>2 DEF Connect, Accept, TypeOK
    <2> QED
      BY <2>1, <2>2
  <1>3. CASE Report(i) \/ Vote(i)
    <2>1. down' = down /\ direct' = direct
      BY <1>3 DEF Report, Vote
    <2>2. up'[r] = up[r]
      BY <1>3, Zenon DEF Report, Vote, Write, TypeOK
    <2> QED
      BY <2>1, <2>2
  <1>4. CASE HearTopology(i) \/ HearTable(i) \/ HearResult(i)
    <2>1. up' = up /\ direct' = direct
      BY <1>4 DEF HearTopology, HearTable, HearResult
    <2>2. down'[r] = down[r]
      BY <1>4, Zenon DEF HearTopology, HearTable, HearResult, Consume, TypeOK
    <2> QED
      BY <2>1, <2>2
  <1>5. CASE NoResult(i)
    BY <1>5 DEF NoResult
  <1> QED
    BY <1>0, <1>1, <1>2, <1>3, <1>4, <1>5 DEF Step, PeerStep

(* Every step keeps rank 0 and all peers in step.                          *)
LEMMA PeersSoundStep ==
  ASSUME TypeOK, TypeOK', RolesOK, BrokerSound, \A r \in Peer : PeerSound(r), Next
  PROVE  \A r \in Peer : PeerSound(r)'
  <1> USE Ranks
  <1> TAKE r \in Peer
  <1>1. PICK i \in Rank : Step(i) \/ Crash(i)
    BY DEF Next
  <1>2. CASE i = r
    BY <1>1, <1>2, PeerOwnStep
  <1>3. CASE i = 0
    BY <1>1, <1>3, RankZeroStep
  <1>4. CASE i # r /\ i # 0
    <2>1. i \in Peer
      BY <1>4
    <2>2. at' = at /\ topology' = topology /\ pc'[0] = pc[0] /\ pc'[r] = pc[r]
      BY <1>1, <1>4, Moves
    <2> QED
      BY <1>1, <1>4, <2>1, <2>2, Elsewhere, PeerFrame
  <1> QED
    BY <1>2, <1>3, <1>4

-----------------------------------------------------------------------------
(* Nobody comes back to life, and while nobody is dead no connection is    *)
(* lost.                                                                   *)
LEMMA StillAlive ==
  ASSUME TypeOK, NEW i \in Rank, Step(i) \/ Crash(i), AllAlive'
  PROVE  /\ AllAlive /\ ~Crash(i)
         /\ ~FallBack(i) /\ ~VoteLost /\ ~ResultLost /\ (i # 0 => ~NoResult(i))
  <1> USE Ranks, Labels
  <1>1. ~Crash(i)
    <2>1. Crash(i) => pc'[i] = "crashed"
      BY ReturnType DEF Crash
    <2> QED
      BY <2>1 DEF AllAlive
  <1>2. pc[i] # "crashed"
    <2>1. CASE i = 0
      BY <1>1, <2>1 DEF Step, OptOut, Listen, Connect, Accept, FallBack, BrokerStep, Collect,
                        Tell, SendTable, CountVote, VoteLost, SendResult, ResultLost
    <2>2. CASE i # 0
      BY <1>1, <2>2 DEF Step, OptOut, Listen, Connect, Accept, FallBack, PeerStep, Report,
                        HearTopology, HearTable, Vote, HearResult, NoResult
    <2> QED
      BY <2>1, <2>2
  <1>3. AllAlive
    BY <1>2, Moves DEF AllAlive
  <1>4. \A r \in Rank : ~Broken(r)
    BY <1>3 DEF AllAlive, Broken
  <1> QED
    BY <1>1, <1>3, <1>4 DEF TypeOK, FallBack, VoteLost, ResultLost, NoResult

(* A step that leaves rank 0 and a peer alone preserves what the peer      *)
(* knows.                                                                  *)
LEMMA AgreedFrame ==
  ASSUME NEW r \in Peer, Agreed(r), at' = at, pc'[0] = pc[0], pc'[r] = pc[r],
         up'[r] = up[r], down'[r] = down[r], group' = group
  PROVE  Agreed(r)'
  <1>1. Answered(r)' = Answered(r)
    BY DEF Answered
  <1> QED
    BY <1>1 DEF Agreed

(* While nobody has died, a peer does what rank 0 has told it.             *)
LEMMA AgreedOwnStep ==
  ASSUME TypeOK, NEW r \in Peer, PeerSound(r), Agreed(r), Step(r), AllAlive'
  PROVE  Agreed(r)'
  <1> USE Ranks, Labels
  <1>0. r \in Rank /\ r # 0
    OBVIOUS
  <1>1. at' = at /\ pc'[0] = pc[0] /\ group' = group
    BY <1>0, Moves
  <1>2. Answered(r)' = Answered(r)
    BY <1>1 DEF Answered
  <1>3. ~FallBack(r) /\ ~NoResult(r) /\ pc[r] # "crashed"
    BY <1>0, StillAlive DEF AllAlive
  <1>4. DownSound(r) /\ UpSound(r) /\ PeerInStep(r)
    BY <1>3 DEF PeerSound
  <1>5. CASE OptOut(r) \/ Listen(r) \/ Report(r)
    <2>1. /\ pc[r] \in {"start", "report"} /\ pc'[r] \in {"report", "topology", "broker"}
          /\ down' = down /\ (pc'[r] = "broker" => up' = up)
      BY <1>0, <1>5, ReturnType, GotoType DEF OptOut, Listen, Report
    <2>2. ~Answered(r) /\ down[r] = <<>> /\ up[r] = <<>>
      BY <1>4, <2>1 DEF PeerInStep, DownSound, UpSound, Returned
    <2> QED
      BY <1>2, <2>1, <2>2 DEF Agreed
  <1>6. CASE Connect(r) \/ Accept(r) \/ HearTable(r) \/ Vote(r)
    <2>1. pc[r] \in {"link", "accept", "table", "vote"}
      BY <1>6 DEF Connect, Accept, HearTable, Vote
    <2>2. ~Answered(r) /\ pc[0] # "broker"
      BY <1>4, <2>1 DEF PeerInStep, Agreed, Returned
    <2> QED
      BY <1>1, <1>2, <2>2 DEF Agreed
  <1>7. CASE HearTopology(r)
    <2>1. pc[r] = "topology" /\ down[r] # <<>> /\ up' = up
      BY <1>7 DEF HearTopology
    <2>2. ~Answered(r)
      BY <1>4, <2>1 DEF PeerInStep, Returned
    <2>3. ASSUME pc[0] = "broker"
          PROVE  pc'[r] = "broker" /\ down'[r] = <<>> /\ up'[r] = <<>>
      <3>1. down[r] = <<Say("topology", FALSE)>> /\ up[r] = <<>>
        BY <2>1, <2>3 DEF Agreed
      <3>2. Say("topology", FALSE) \in Message /\ Say("topology", FALSE).ok = FALSE
        BY Said
      <3>3. down'[r] = Tail(down[r])
        BY <1>7, <2>1, ConsumeType DEF HearTopology, TypeOK
      <3>4. Head(down[r]) = Say("topology", FALSE) /\ down'[r] = <<>>
        BY <3>1, <3>2, <3>3, Streams
      <3>5. Return(r, "broker")
        BY <1>7, <3>2, <3>4 DEF HearTopology
      <3> QED
        BY <2>1, <3>1, <3>4, <3>5, ReturnType
    <2> QED
      BY <1>1, <1>2, <2>2, <2>3 DEF Agreed
  <1>8. CASE HearResult(r)
    <2>1. /\ pc[r] = "result" /\ down[r] # <<>> /\ up' = up
          /\ Return(r, IF Head(down[r]).ok THEN "ring" ELSE "broker")
      BY <1>8 DEF HearResult
    <2>2. down'[r] = Tail(down[r])
      BY <1>8, <2>1, ConsumeType DEF HearResult, TypeOK
    <2>3. ASSUME NEW ok \in BOOLEAN, down[r] = <<Say("result", ok)>>
          PROVE  pc'[r] = (IF ok THEN "ring" ELSE "broker") /\ down'[r] = <<>>
      <3>1. Say("result", ok) \in Message /\ Say("result", ok).ok = ok
        BY Said
      <3>2. Head(down[r]) = Say("result", ok) /\ down'[r] = <<>>
        BY <2>2, <2>3, <3>1, Streams
      <3> QED
        BY <2>1, <3>1, <3>2, ReturnType
    <2>4. Answered(r) => pc'[r] = (IF group THEN "ring" ELSE "broker") /\ down'[r] = <<>>
      <3>1. Answered(r) => down[r] = <<Say("result", group)>>
        BY <2>1 DEF Agreed
      <3> QED
        BY <2>3, <3>1 DEF TypeOK
    <2>5. pc[0] = "broker" => pc'[r] = "broker" /\ down'[r] = <<>> /\ up'[r] = <<>>
      <3>1. pc[0] = "broker" => down[r] = <<Say("result", FALSE)>> /\ up[r] = <<>>
        BY <2>1 DEF Agreed
      <3> QED
        BY <2>1, <2>3, <3>1
    <2> QED
      BY <1>1, <1>2, <2>4, <2>5 DEF Agreed
  <1> QED
    BY <1>0, <1>3, <1>5, <1>6, <1>7, <1>8 DEF Step, PeerStep

(* While nobody has died, rank 0 tells everybody the same.                 *)
LEMMA AgreedRankZeroStep ==
  ASSUME TypeOK, NEW r \in Peer, PeerSound(r), Agreed(r), Step(0), AllAlive'
  PROVE  Agreed(r)'
  <1> USE Ranks, Labels
  <1>0. r # 0 /\ pc'[r] = pc[r] /\ 0 \in Rank
    BY Moves
  <1>a. r \in Nat /\ at \in Nat /\ 1 <= r /\ r < NRanks /\ 1 <= at /\ NRanks \in Nat
    BY DEF TypeOK
  <1>b. pc[r] # "crashed" /\ ~FallBack(0) /\ ~VoteLost /\ ~ResultLost
    BY <1>0, StillAlive DEF AllAlive
  <1>c. DownSound(r) /\ UpSound(r) /\ PeerInStep(r)
    BY <1>b DEF PeerSound
  <1>1. CASE OptOut(0)
    <2>1. pc[0] = "start" /\ pc'[0] = "broker" /\ up' = up /\ down' = down
      BY <1>1, ReturnType DEF OptOut
    <2>2. Unheard(r) /\ ~Answered(r)'
      BY <2>1 DEF Unheard, Answered
    <2> QED
      BY <1>0, <1>c, <2>1, <2>2 DEF PeerInStep, Agreed
  <1>2. CASE Listen(0) \/ Connect(0) \/ Accept(0)
    <2>1. pc'[0] \in {"collect", "accept", "votes"}
      BY <1>2, GotoType DEF Listen, Connect, Accept
    <2> QED
      BY <2>1 DEF Answered, Agreed
  <1>3. CASE Collect \/ SendTable
    <2>1. pc'[0] \in {"collect", "tell", "table", "link"}
      BY <1>3, AdvanceType DEF Collect, SendTable
    <2> QED
      BY <2>1 DEF Answered, Agreed
  <1>4. CASE Tell
    <2>0. /\ pc[0] = "tell" /\ up' = up
          /\ Advance(IF topology THEN "table" ELSE "broker")
      BY <1>4 DEF Tell
    <2>1. \/ at + 1 < NRanks /\ at' = at + 1 /\ pc'[0] = "tell"
          \/ at + 1 = NRanks /\ at' = 1 /\ pc'[0] = IF topology THEN "table" ELSE "broker"
      BY <2>0, AdvanceType
    <2>2. ~Answered(r)'
      BY <2>1 DEF Answered
    <2>3. ASSUME pc'[0] = "broker"
          PROVE  /\ up'[r] = <<>>
                 /\ \/ pc[r] \in {"topology", "broker"} /\ down'[r] = <<>>
                    \/ pc[r] = "topology" /\ down'[r] = <<Say("topology", FALSE)>>
      <3>1. topology = FALSE /\ at + 1 = NRanks
        BY <2>1, <2>3 DEF TypeOK
      <3>2. /\ down'[at] = Append(down[at], Say("topology", topology))
            /\ r # at => down'[r] = down[r]
        BY <1>4, Zenon DEF Tell, Write, TypeOK
      <3>3. Say("topology", FALSE) \in Message
        BY Said
      <3>4. CASE r = at
        <4>1. Untold(r)
          BY <1>a, <2>0, <3>4 DEF Untold
        <4>2. pc[r] = "topology" /\ down[r] = <<>> /\ up[r] = <<>>
          BY <1>c, <4>1 DEF PeerInStep, UpSound
        <4>3. down'[r] = <<Say("topology", FALSE)>>
          BY <3>1, <3>2, <3>3, <3>4, <4>2, FirstMessage
        <4> QED
          BY <2>0, <4>2, <4>3
      <3>5. CASE r # at
        <4>1. Told(r)
          BY <1>a, <2>0, <3>1, <3>5 DEF Told
        <4>2. /\ up[r] = <<>>
              /\ \/ pc[r] = "topology" /\ down[r] = <<Say("topology", FALSE)>>
                 \/ pc[r] = "broker" /\ down[r] = <<>>
          BY <1>c, <3>1, <4>1 DEF PeerInStep, UpSound
        <4> QED
          BY <2>0, <3>2, <3>5, <4>2
      <3> QED
        BY <3>4, <3>5
    <2> QED
      BY <1>0, <2>2, <2>3 DEF Agreed
  <1>5. CASE CountVote
    <2>1. \/ pc'[0] = "votes"
          \/ at' = 1 /\ pc'[0] = "result"
      BY <1>5, AdvanceType DEF CountVote
    <2>2. ~Answered(r)'
      BY <1>a, <2>1 DEF Answered
    <2> QED
      BY <2>1, <2>2 DEF Agreed
  <1>6. CASE SendResult
    <2>0. /\ pc[0] = "result" /\ up' = up /\ group' = group
          /\ Advance(IF group THEN "ring" ELSE "broker")
      BY <1>6 DEF SendResult
    <2>1. \/ at + 1 < NRanks /\ at' = at + 1 /\ pc'[0] = "result"
          \/ at + 1 = NRanks /\ at' = 1 /\ pc'[0] = IF group THEN "ring" ELSE "broker"
      BY <2>0, AdvanceType
    <2>2. /\ down'[at] = Append(down[at], Say("result", group))
          /\ r # at => down'[r] = down[r]
      BY <1>6, Zenon DEF SendResult, Write, TypeOK
    <2>3. group \in BOOLEAN /\ Say("result", group) \in Message
      BY Said DEF TypeOK
    <2>4. CASE r = at
      <3>1. Counted(r)
        BY <1>a, <2>0, <2>4 DEF Counted
      <3>2. pc[r] = "result" /\ down[r] = <<>> /\ up[r] = <<>>
        BY <1>b, <1>c, <3>1 DEF PeerInStep, UpSound
      <3>3. down'[r] = <<Say("result", group)>>
        BY <2>2, <2>3, <2>4, <3>2, FirstMessage
      <3>4. pc'[0] = "broker" => group = FALSE
        BY <2>1, <2>3
      <3> QED
        BY <1>0, <2>0, <3>2, <3>3, <3>4 DEF Agreed
    <2>5. CASE r # at
      <3>1. Answered(r)' \/ pc'[0] = "broker" => Answered(r)
        BY <1>a, <2>0, <2>1, <2>5 DEF Answered
      <3>2. Answered(r) =>
              /\ up[r] = <<>>
              /\ \/ pc[r] = "result" /\ down[r] = <<Say("result", group)>>
                 \/ pc[r] = (IF group THEN "ring" ELSE "broker") /\ down[r] = <<>>
        BY <1>b, <1>c DEF Agreed, UpSound
      <3>3. pc'[0] = "broker" => group = FALSE
        BY <2>1, <2>3
      <3>4. UNCHANGED <<down[r], up[r], pc[r], group>>
        BY <1>0, <2>0, <2>2, <2>5
      <3> QED
        BY <3>1, <3>2, <3>3, <3>4 DEF Agreed
    <2> QED
      BY <2>4, <2>5
  <1> QED
    BY <1>b, <1>1, <1>2, <1>3, <1>4, <1>5, <1>6 DEF Step, BrokerStep

(* Every step preserves the agreement of the answers.                      *)
LEMMA AnswersStep ==
  ASSUME TypeOK, \A r \in Peer : PeerSound(r), AnswersAgree, Next
  PROVE  AnswersAgree'
  <1> USE Ranks
  <1>1. PICK i \in Rank : Step(i) \/ Crash(i)
    BY DEF Next
  <1> SUFFICES ASSUME AllAlive', NEW r \in Peer
               PROVE  Agreed(r)'
    BY DEF AnswersAgree
  <1>2. Step(i) /\ Agreed(r)
    BY <1>1, StillAlive DEF AnswersAgree
  <1>3. CASE i = r
    BY <1>2, <1>3, AgreedOwnStep
  <1>4. CASE i = 0
    BY <1>2, <1>4, AgreedRankZeroStep
  <1>5. CASE i # r /\ i # 0
    <2>1. i \in Peer
      BY <1>5
    <2>2. at' = at /\ pc'[0] = pc[0] /\ pc'[r] = pc[r] /\ group' = group
      BY <1>2, <1>5, Moves
    <2> QED
      BY <1>2, <1>5, <2>1, <2>2, Elsewhere, AgreedFrame
  <1> QED
    BY <1>3, <1>4, <1>5

-----------------------------------------------------------------------------
(* A rank's word is final: once it has vouched for its edges, its          *)
(* direct_ok does not change and it does not set them up again.            *)
LEMMA VouchedStays ==
  ASSUME TypeOK, RolesOK, Next, NEW j \in Rank, Vouched(j)
  PROVE  Vouched(j)'
  <1> USE Ranks, Labels
  <1>1. PICK i \in Rank : Step(i) \/ Crash(i)
    BY DEF Next
  <1>0. direct[j] /\ pc[j] \notin Unlinked
    BY DEF Vouched
  <1>2. direct'[j] = direct[j]
    <2>1. CASE Connect(i) \/ Accept(i)
      <3>1. i # j
        BY <1>0, <2>1 DEF Connect, Accept, Unlinked
      <3> QED
        BY <2>1, <3>1 DEF Connect, Accept, TypeOK
    <2>2. CASE OptOut(i) \/ Listen(i) \/ FallBack(i) \/ Crash(i)
      BY <2>2 DEF OptOut, Listen, FallBack, Crash
    <2>3. CASE BrokerStep
      BY <2>3 DEF BrokerStep, Collect, Tell, SendTable, CountVote, VoteLost, SendResult, ResultLost
    <2>4. CASE PeerStep(i)
      BY <2>4 DEF PeerStep, Report, HearTopology, HearTable, Vote, HearResult, NoResult
    <2> QED
      BY <1>1, <2>1, <2>2, <2>3, <2>4 DEF Step
  <1>3. pc'[j] \notin Unlinked
    <2>1. CASE i # j
      BY <1>0, <1>1, <2>1, Moves
    <2>2. CASE i = j /\ j = 0
      <3>1. CASE OptOut(0) \/ Listen(0) \/ FallBack(0) \/ Connect(0) \/ Accept(0)
        BY <1>0, <2>2, <3>1 DEF OptOut, Listen, FallBack, Connect, Accept, Unlinked, RolesOK
      <3>2. CASE Crash(0)
        BY <2>2, <3>2, ReturnType DEF Crash, Unlinked
      <3>3. CASE Collect \/ Tell \/ SendTable
        BY <1>0, <2>2, <3>3 DEF Collect, Tell, SendTable, Unlinked
      <3>4. CASE CountVote \/ VoteLost
        BY <1>0, <2>2, <3>4, AdvanceType DEF CountVote, VoteLost, Unlinked
      <3>5. CASE SendResult \/ ResultLost
        BY <1>0, <2>2, <3>5, AdvanceType DEF SendResult, ResultLost, Unlinked
      <3> QED
        BY <1>1, <2>2, <3>1, <3>2, <3>3, <3>4, <3>5 DEF Step, BrokerStep
    <2>3. CASE i = j /\ j # 0
      <3>1. CASE OptOut(j) \/ Listen(j) \/ FallBack(j) \/ Connect(j) \/ Accept(j)
        BY <1>0, <2>3, <3>1 DEF OptOut, Listen, FallBack, Connect, Accept, Unlinked, RolesOK
      <3>2. CASE Crash(j)
        BY <3>2, ReturnType DEF Crash, Unlinked
      <3>3. CASE Report(j) \/ HearTopology(j) \/ HearTable(j)
        BY <1>0, <3>3 DEF Report, HearTopology, HearTable, Unlinked
      <3>4. CASE Vote(j)
        BY <3>4, GotoType DEF Vote, Unlinked
      <3>5. CASE HearResult(j) \/ NoResult(j)
        BY <3>5, ReturnType DEF HearResult, NoResult, Unlinked
      <3> QED
        BY <1>1, <2>3, <3>1, <3>2, <3>3, <3>4, <3>5 DEF Step, PeerStep
    <2> QED
      BY <2>1, <2>2, <2>3
  <1> QED
    BY <1>0, <1>2, <1>3 DEF Vouched

(* A ring that all have vouched for stays vouched for.                     *)
LEMMA WholeStays ==
  ASSUME TypeOK, RolesOK, Next, Whole
  PROVE  Whole'
  BY VouchedStays DEF Whole

(* A rank vouches only for a connection it has.                            *)
LEMMA EdgesStep ==
  ASSUME TypeOK, VotesSound, Next
  PROVE  \A j \in Rank : direct'[j] => <<j, Successor(j)>> \in linked'
  <1> USE Ranks
  <1>1. PICK i \in Rank : Step(i) \/ Crash(i)
    BY DEF Next
  <1>0. \A j \in Rank : direct[j] => <<j, Successor(j)>> \in linked
    BY DEF VotesSound
  <1>2. CASE Connect(i)
    <2>0. PICK ok \in BOOLEAN :
            /\ direct' = [direct EXCEPT ![i] = ok]
            /\ linked' = IF ok THEN linked \cup {<<i, Successor(i)>>} ELSE linked
      BY <1>2 DEF Connect
    <2> QED
      BY <1>0, <2>0 DEF TypeOK
  <1>3. CASE Accept(i)
    BY <1>0, <1>3 DEF Accept, TypeOK
  <1>4. CASE OptOut(i) \/ Listen(i) \/ FallBack(i) \/ Crash(i)
    BY <1>0, <1>4 DEF OptOut, Listen, FallBack, Crash
  <1>5. CASE BrokerStep
    BY <1>0, <1>5 DEF BrokerStep, Collect, Tell, SendTable, CountVote, VoteLost, SendResult, ResultLost
  <1>6. CASE PeerStep(i)
    BY <1>0, <1>6 DEF PeerStep, Report, HearTopology, HearTable, Vote, HearResult, NoResult
  <1> QED
    BY <1>1, <1>2, <1>3, <1>4, <1>5, <1>6 DEF Step

(* What rank 0 counts is what the rank stands by.                          *)
LEMMA CountedVouches ==
  ASSUME TypeOK, PeerSound(at), CountVote, group'
  PROVE  group /\ Vouched(at)
  <1> USE Ranks
  <1>0. /\ pc[0] = "votes" /\ up[at] # <<>> /\ group /\ Head(up[at]).ok
        /\ at \in Peer /\ at \in Nat
    BY DEF CountVote, TypeOK
  <1>1. Uncounted(at)
    BY <1>0 DEF Uncounted
  <1>2. up[at] = <<Say("vote", direct[at])>> /\ pc[at] \in {"result", "crashed"}
    BY <1>0, <1>1 DEF PeerSound, UpSound
  <1>3. /\ Say("vote", direct[at]) \in Message /\ Say("vote", direct[at]).ok = direct[at]
    BY <1>0, Labels, Said DEF TypeOK
  <1>4. Head(up[at]) = Say("vote", direct[at])
    BY <1>2, <1>3, Streams
  <1> QED
    BY <1>0, <1>2, <1>3, <1>4 DEF Vouched, Unlinked

(* Every step preserves what the outcome stands for.                       *)
LEMMA VotesStep ==
  ASSUME TypeOK, TypeOK', RolesOK, BrokerSound, \A r \in Peer : PeerSound(r), VotesSound, Next
  PROVE  VotesSound'
  <1> USE Ranks, Labels
  <1>1. PICK i \in Rank : Step(i) \/ Crash(i)
    BY DEF Next
  <1>a. at \in Nat /\ 1 <= at /\ NRanks \in Nat /\ at \in Peer /\ PeerSound(at)
    BY DEF TypeOK
  <1>b. /\ pc[0] = "votes" /\ group => Vouched(0) /\ \A r \in Peer : r < at => Vouched(r)
        /\ pc[0] = "result" /\ group => Whole
        /\ \A j \in Rank : pc[j] = "ring" => Whole
        /\ \A r \in Peer : pc[r] = "result" /\ down[r] = <<Say("result", TRUE)>> => Whole
    BY DEF VotesSound
  <1>c. /\ Whole => Whole'
        /\ \A j \in Rank : Vouched(j) => Vouched(j)'
    BY WholeStays, VouchedStays
  <1>2. ASSUME pc'[0] = "votes" /\ group'
        PROVE  Vouched(0)' /\ \A r \in Peer : r < at' => Vouched(r)'
    <2>1. CASE i # 0
      BY <1>1, <1>2, <1>b, <1>c, <2>1, Moves
    <2>2. CASE i = 0 /\ (OptOut(0) \/ Listen(0) \/ FallBack(0) \/ Connect(0) \/ Crash(0))
      BY <1>2, <2>2, NextPhase
    <2>3. CASE i = 0 /\ Accept(0)
      <3>1. at' = 1
        BY <2>3 DEF Accept, BrokerSound
      <3>2. direct'[0]
        BY <1>2, <2>3 DEF Accept
      <3> QED
        BY <1>2, <3>1, <3>2 DEF Vouched, Unlinked
    <2>4. CASE Collect \/ Tell \/ SendTable \/ SendResult \/ ResultLost
      BY <1>2, <2>4, AdvanceType DEF Collect, Tell, SendTable, SendResult, ResultLost
    <2>5. CASE VoteLost
      BY <1>2, <2>5 DEF VoteLost
    <2>6. CASE CountVote
      <3>1. pc[0] = "votes" /\ Advance("result")
        BY <2>6 DEF CountVote
      <3>2. at' = at + 1
        BY <1>2, <3>1, AdvanceType
      <3>3. group /\ Vouched(at)
        BY <1>2, <1>a, <2>6, CountedVouches
      <3>4. \A r \in Peer : r < at + 1 => r < at \/ r = at
        BY <1>a
      <3> QED
        BY <1>b, <1>c, <3>1, <3>2, <3>3, <3>4
    <2> QED
      BY <1>1, <2>1, <2>2, <2>3, <2>4, <2>5, <2>6 DEF Step, BrokerStep
  <1>3. ASSUME pc'[0] = "result" /\ group'
        PROVE  Whole'
    <2>1. CASE i # 0
      BY <1>1, <1>3, <1>b, <1>c, <2>1, Moves
    <2>2. CASE i = 0 /\ (OptOut(0) \/ Listen(0) \/ FallBack(0) \/ Connect(0) \/ Accept(0) \/ Crash(0))
      BY <1>3, <2>2, NextPhase
    <2>3. CASE Collect \/ Tell \/ SendTable
      BY <1>3, <2>3, AdvanceType DEF Collect, Tell, SendTable
    <2>4. CASE VoteLost \/ ResultLost
      BY <1>3, <2>4 DEF VoteLost, ResultLost
    <2>5. CASE SendResult
      BY <1>3, <1>b, <1>c, <2>5 DEF SendResult
    <2>6. CASE CountVote
      <3>1. pc[0] = "votes" /\ Advance("result")
        BY <2>6 DEF CountVote
      <3>2. at + 1 = NRanks
        BY <1>3, <3>1, AdvanceType
      <3>3. group /\ Vouched(at)
        BY <1>3, <1>a, <2>6, CountedVouches
      <3>4. \A r \in Rank : r = 0 \/ (r \in Peer /\ r < at) \/ r = at
        BY <1>a, <3>2
      <3>5. Whole
        BY <1>b, <3>1, <3>3, <3>4 DEF Whole
      <3> QED
        BY <1>c, <3>5
    <2> QED
      BY <1>1, <2>1, <2>2, <2>3, <2>4, <2>5, <2>6 DEF Step, BrokerStep
  <1>4. ASSUME NEW j \in Rank, pc'[j] = "ring"
        PROVE  Whole'
    <2>1. CASE j # i
      BY <1>1, <1>4, <1>b, <1>c, <2>1, Moves
    <2>2. CASE OptOut(i) \/ Listen(i) \/ FallBack(i) \/ Connect(i) \/ Accept(i) \/ Crash(i)
      <3>1. pc'[i] # "ring"
        BY <2>2, NextPhase
      <3> QED
        BY <1>4, <2>1, <3>1
    <2>3. CASE i = 0 /\ j = 0 /\ BrokerStep
      <3>1. CASE SendResult
        <4>1. pc[0] = "result" /\ Advance(IF group THEN "ring" ELSE "broker")
          BY <3>1 DEF SendResult
        <4>2. group
          BY <1>4, <2>3, <4>1, AdvanceType
        <4> QED
          BY <1>b, <1>c, <4>1, <4>2
      <3>2. CASE ~SendResult
        BY <1>4, <2>3, <3>2, AdvanceType
        DEF BrokerStep, Collect, Tell, SendTable, CountVote, VoteLost, ResultLost
      <3> QED
        BY <3>1, <3>2
    <2>4. CASE i = j /\ j # 0 /\ PeerStep(j)
      <3>0. j \in Peer /\ PeerSound(j)
        BY <2>4
      <3>1. CASE HearResult(j)
        <4>1. /\ pc[j] = "result" /\ down[j] # <<>>
              /\ Return(j, IF Head(down[j]).ok THEN "ring" ELSE "broker")
          BY <3>1 DEF HearResult
        <4>2. PICK ok \in BOOLEAN : down[j] = <<Say("result", ok)>>
          BY <3>0, <4>1 DEF PeerSound, DownSound
        <4>3. Say("result", ok) \in Message /\ Say("result", ok).ok = ok
          BY Said
        <4>4. Head(down[j]) = Say("result", ok)
          BY <4>2, <4>3, Streams
        <4>5. ok = TRUE
          BY <1>4, <4>1, <4>3, <4>4, ReturnType
        <4> QED
          BY <1>b, <1>c, <3>0, <4>1, <4>2, <4>5
      <3>2. CASE ~HearResult(j)
        BY <1>4, <2>4, <3>2, NextPhase DEF PeerStep
      <3> QED
        BY <3>1, <3>2
    <2> QED
      BY <1>1, <2>1, <2>2, <2>3, <2>4 DEF Step
  <1>5. ASSUME NEW r \in Peer, pc'[r] = "result", down'[r] = <<Say("result", TRUE)>>
        PROVE  Whole'
    <2>0. Say("result", TRUE) \in Message /\ Say("result", TRUE).kind = "result"
      BY Said
    <2>a. PeerSound(r) /\ r # 0 /\ r \in Rank
      OBVIOUS
    <2>1. CASE i = r
      <3>1. CASE pc[r] = "result"
        <4>1. ~Vote(r)
          BY <3>1 DEF Vote
        <4> QED
          BY <1>1, <1>5, <2>1, <2>a, <4>1, NextPhase DEF Step, PeerStep
      <3>2. CASE pc[r] # "result"
        <4>1. Vote(r)
          BY <1>1, <1>5, <2>1, <2>a, <3>2, NextPhase DEF Step, PeerStep
        <4>2. down[r] = <<>> /\ down' = down
          BY <2>a, <4>1 DEF Vote, PeerSound, DownSound
        <4> QED
          BY <1>5, <2>0, <4>2, Streams
      <3> QED
        BY <3>1, <3>2
    <2>2. CASE i # r /\ i # 0
      <3>1. pc'[r] = pc[r] /\ down'[r] = down[r]
        BY <1>1, <2>2, Moves, Elsewhere
      <3> QED
        BY <1>5, <1>b, <1>c, <3>1
    <2>3. CASE i = 0
      <3>0. pc[r] = "result"
        BY <1>1, <1>5, <2>3, <2>a, Moves
      <3>1. CASE down'[r] = down[r]
        BY <1>5, <1>b, <1>c, <3>0, <3>1
      <3>2. CASE down'[r] # down[r]
        <4>1. Tell \/ SendTable \/ SendResult
          BY <1>1, <2>3, <3>2
          DEF Step, OptOut, Listen, FallBack, Connect, Accept, Crash, BrokerStep, Collect,
              CountVote, VoteLost, ResultLost
        <4>2. r = at
          BY <3>2, <4>1, Zenon DEF Tell, SendTable, SendResult, Write, TypeOK
        <4>3. PeerInStep(r)
          BY <2>a, <3>0 DEF PeerSound
        <4>4. ~Tell /\ ~SendTable
          <5>1. Tell => Untold(r)
            BY <1>a, <4>2 DEF Tell, Untold
          <5>2. SendTable => Told(r)
            BY <1>a, <4>2 DEF SendTable, Told
          <5> QED
            BY <3>0, <4>3, <5>1, <5>2 DEF PeerInStep
        <4>5. pc[0] = "result" /\ down'[r] = Append(down[r], Say("result", group))
          <5>1. SendResult
            BY <4>1, <4>4
          <5>2. down'[r] = Append(down[r], Say("result", group))
            BY <4>2, <5>1, Zenon DEF SendResult, Write, TypeOK
          <5> QED
            BY <5>1, <5>2 DEF SendResult
        <4>6. down[r] = <<>>
          <5>1. Counted(r)
            BY <1>a, <4>2, <4>5 DEF Counted
          <5> QED
            BY <4>3, <5>1 DEF PeerInStep
        <4>7. group
          <5>1. Say("result", group) \in Message /\ Say("result", group).ok = group
            BY Said DEF TypeOK
          <5>2. down'[r] = <<Say("result", group)>>
            BY <4>5, <4>6, <5>1, FirstMessage
          <5>3. Say("result", TRUE).ok = TRUE
            BY Said
          <5>4. Head(down'[r]) = Say("result", group)
            BY <5>1, <5>2, Streams
          <5>5. Head(down'[r]) = Say("result", TRUE)
            BY <1>5, <2>0, Streams
          <5> QED
            BY <5>1, <5>3, <5>4, <5>5
        <4> QED
          BY <1>b, <1>c, <4>5, <4>7
      <3> QED
        BY <3>1, <3>2
    <2> QED
      BY <2>1, <2>2, <2>3
  <1>6. \A j \in Rank : direct'[j] => <<j, Successor(j)>> \in linked'
    BY EdgesStep
  <1> QED
    BY <1>2, <1>3, <1>4, <1>5, <1>6 DEF VotesSound

-----------------------------------------------------------------------------
(* The invariant holds when tc_gloo_init comes to the ring topology        *)
(* exchange.                                                               *)
LEMMA Beginning ==
  ASSUME Init
  PROVE  RingInv
  <1> USE Ranks, Labels
  <1>0. /\ optin \in OptIns /\ optin \subseteq Rank
        /\ pc = [i \in Rank |-> "start"] /\ at = 1
        /\ up = [r \in Peer |-> <<>>] /\ down = [r \in Peer |-> <<>>]
        /\ listening = [i \in Rank |-> FALSE] /\ topology = TRUE /\ linked = {}
        /\ direct = [i \in Rank |-> FALSE] /\ group = FALSE
    BY DEF Init
  <1>1. TypeOK
    <2>1. <<>> \in Seq(Message)
      OBVIOUS
    <2>2. up \in [Peer -> Seq(Message)] /\ down \in [Peer -> Seq(Message)]
      BY <1>0, <2>1
    <2> QED
      BY <1>0, <2>2 DEF TypeOK
  <1>2. RolesOK /\ BrokerSound
    BY <1>0 DEF RolesOK, BrokerSound
  <1>3. \A r \in Peer : PeerSound(r)
    BY <1>0 DEF PeerSound, DownSound, UpSound, PeerInStep, Unheard, Untold, Told, Uncounted,
                Counted, Answered
  <1>4. AnswersAgree
    BY <1>0 DEF AnswersAgree, Agreed, Answered
  <1>5. VotesSound
    BY <1>0 DEF VotesSound
  <1> QED
    BY <1>1, <1>2, <1>3, <1>4, <1>5 DEF RingInv

(* The inductive invariant holds in every state of the topology exchange:  *)
(* rank 0 and every living peer keep step, whatever fails and whoever      *)
(* dies.                                                                   *)
THEOREM Invariance == Spec => []RingInv
  <1>1. Init => RingInv
    BY Beginning
  <1>2. RingInv /\ [Next]_vars => RingInv'
    <2> SUFFICES ASSUME RingInv, [Next]_vars
                 PROVE  RingInv'
      OBVIOUS
    <2>0. TypeOK /\ RolesOK /\ BrokerSound /\ AnswersAgree /\ VotesSound /\ \A r \in Peer : PeerSound(r)
      BY DEF RingInv
    <2>1. CASE Next
      <3>1. TypeOK'
        BY <2>0, <2>1, TypeStep
      <3>2. RolesOK' /\ BrokerSound'
        BY <2>0, <2>1, RolesStep, BrokerSoundStep
      <3>3. \A r \in Peer : PeerSound(r)'
        BY <2>0, <2>1, <3>1, PeersSoundStep
      <3>4. AnswersAgree'
        BY <2>0, <2>1, AnswersStep
      <3>5. VotesSound'
        BY <2>0, <2>1, <3>1, VotesStep
      <3> QED
        BY <3>1, <3>2, <3>3, <3>4, <3>5 DEF RingInv
    <2>2. CASE UNCHANGED vars
      <3>0. UNCHANGED <<optin, pc, at, up, down, listening, topology, linked, direct, group>>
        BY <2>2 DEF vars
      <3>1. TypeOK' /\ RolesOK' /\ BrokerSound'
        BY <2>0, <3>0 DEF TypeOK, RolesOK, BrokerSound
      <3>2. ASSUME NEW r \in Peer
            PROVE  PeerSound(r)' /\ (Agreed(r) => Agreed(r)')
        BY <2>0, <3>0, PeerFrame, AgreedFrame
      <3>3. AnswersAgree'
        BY <2>0, <3>0, <3>2 DEF AnswersAgree, AllAlive
      <3>4. VotesSound'
        BY <2>0, <3>0 DEF VotesSound, Whole, Vouched
      <3> QED
        BY <3>1, <3>2, <3>3, <3>4 DEF RingInv
    <2> QED
      BY <2>1, <2>2
  <1> QED
    BY <1>1, <1>2, PTL DEF Spec

(* Rank 0 is at a known point of its dialogue with every peer.             *)
LEMMA Phases ==
  ASSUME TypeOK, RolesOK, pc[0] # "crashed", NEW r \in Peer
  PROVE  \/ Unheard(r) \/ Untold(r) \/ Told(r) \/ Uncounted(r) \/ Counted(r) \/ Answered(r)
         \/ pc[0] = "broker"
  <1>1. pc[0] \in {"start", "collect", "tell", "table", "link", "accept", "votes", "result",
                   "ring", "broker"}
    BY Ranks DEF TypeOK, RolesOK, Label, Returned
  <1>2. r < at \/ r >= at
    BY Ranks DEF TypeOK
  <1> QED
    BY <1>1, <1>2 DEF Unheard, Untold, Told, Uncounted, Counted, Answered

(* The invariant implies that the routes agree.                            *)
LEMMA AllAgree ==
  ASSUME RingInv
  PROVE  RouteAgreed
  <1> USE Ranks
  <1> SUFFICES ASSUME AllAlive, NEW i \in Rank, NEW j \in Rank, pc[i] = "ring", pc[j] = "broker"
               PROVE  FALSE
    BY DEF RouteAgreed
  <1>0. TypeOK /\ RolesOK /\ BrokerSound /\ pc[0] # "crashed"
    BY DEF RingInv, AllAlive
  <1>1. \A r \in Peer : PeerInStep(r) /\ Agreed(r)
    BY DEF RingInv, PeerSound, AnswersAgree, AllAlive
  <1>2. ASSUME NEW r \in Peer, pc[r] \in {"ring", "broker"}, pc[0] # "broker"
        PROVE  \/ Answered(r)
               \/ pc[r] = "broker" /\ (Unheard(r) \/ Told(r))
    BY <1>0, <1>1, <1>2, Phases DEF PeerInStep
  <1>3. CASE i = 0
    <2>1. group /\ j \in Peer /\ Answered(j)
      BY <1>0, <1>3 DEF BrokerSound, Answered
    <2> QED
      BY <1>1, <2>1 DEF Agreed
  <1>4. CASE i # 0
    <2>1. i \in Peer /\ pc[0] # "broker"
      BY <1>1, <1>4 DEF Agreed
    <2>2. Answered(i) /\ group
      BY <1>1, <1>2, <2>1 DEF Agreed
    <2>3. j \in Peer /\ pc[0] \in {"result", "ring"}
      BY <2>1, <2>2 DEF Answered
    <2>4. Answered(j)
      BY <1>2, <2>1, <2>3 DEF Unheard, Told
    <2> QED
      BY <1>1, <2>2, <2>3, <2>4 DEF Agreed
  <1> QED
    BY <1>3, <1>4

(* The invariant implies that every message is taken for what it is.       *)
LEMMA RightMessage ==
  ASSUME RingInv
  PROVE  InStep
  <1> USE Ranks, Labels
  <1>0. TypeOK /\ \A r \in Peer : PeerSound(r)
    BY DEF RingInv
  <1>1. ASSUME NEW r \in Peer, pc[r] \in {"topology", "table", "result"}, down[r] # <<>>
        PROVE  Head(down[r]).kind = Expected(pc[r])
    <2>1. \A ok \in BOOLEAN, k \in Kind :
            Say(k, ok) \in Message /\ Say(k, ok).kind = k
      BY Said
    <2>2. CASE pc[r] = "topology"
      <3>1. \/ \E ok \in BOOLEAN : down[r] = <<Say("topology", ok)>>
            \/ down[r] = <<Say("topology", TRUE), Say("table", TRUE)>>
        BY <1>0, <1>1, <2>2 DEF PeerSound, DownSound
      <3>2. Head(down[r]).kind = "topology"
        <4>1. \A ok \in BOOLEAN : Say("topology", ok) \in Message /\ Say("topology", ok).kind = "topology"
          BY Said
        <4>2. Say("table", TRUE) \in Message
          BY Said
        <4>3. \A ok \in BOOLEAN : Head(<<Say("topology", ok)>>) = Say("topology", ok)
          BY <4>1, Streams
        <4>4. Head(<<Say("topology", TRUE), Say("table", TRUE)>>) = Say("topology", TRUE)
          BY <4>1, <4>2, Streams
        <4> QED
          BY <3>1, <4>1, <4>3, <4>4
      <3> QED
        BY <2>2, <3>2 DEF Expected
    <2>3. CASE pc[r] = "table"
      <3>1. down[r] = <<Say("table", TRUE)>>
        BY <1>0, <1>1, <2>3 DEF PeerSound, DownSound
      <3>2. Head(down[r]).kind = "table"
        <4>1. Say("table", TRUE) \in Message /\ Say("table", TRUE).kind = "table"
          BY Said
        <4> QED
          BY <3>1, <4>1, Streams
      <3> QED
        BY <2>3, <3>2 DEF Expected
    <2>4. CASE pc[r] = "result"
      <3>1. PICK ok \in BOOLEAN : down[r] = <<Say("result", ok)>>
        BY <1>0, <1>1, <2>4 DEF PeerSound, DownSound
      <3>2. Head(down[r]).kind = "result"
        BY <2>1, <3>1, Streams
      <3> QED
        BY <2>4, <3>2 DEF Expected
    <2> QED
      BY <1>1, <2>2, <2>3, <2>4
  <1>2. ASSUME pc[0] \in {"collect", "votes"}, up[at] # <<>>
        PROVE  Head(up[at]).kind = Expected(pc[0])
    <2>0. at \in Peer /\ at \in Nat /\ PeerSound(at)
      BY <1>0 DEF TypeOK
    <2>1. CASE pc[0] = "collect"
      <3>1. Unheard(at)
        BY <2>0, <2>1 DEF Unheard
      <3>2. PICK ok \in BOOLEAN : up[at] = <<Say("info", ok)>>
        BY <1>2, <2>0, <3>1 DEF PeerSound, UpSound
      <3>3. Head(up[at]).kind = "info"
        BY <3>2, Said, Streams
      <3> QED
        BY <2>1, <3>3 DEF Expected
    <2>2. CASE pc[0] = "votes"
      <3>1. Uncounted(at)
        BY <2>0, <2>2 DEF Uncounted
      <3>2. up[at] = <<Say("vote", direct[at])>> /\ direct[at] \in BOOLEAN
        BY <1>0, <1>2, <2>0, <3>1 DEF PeerSound, UpSound, TypeOK
      <3>3. Say("vote", direct[at]) \in Message /\ Say("vote", direct[at]).kind = "vote"
        BY <3>2, Said
      <3>4. Head(up[at]).kind = "vote"
        BY <3>2, <3>3, Streams
      <3> QED
        BY <2>2, <3>4 DEF Expected
    <2> QED
      BY <1>2, <2>1, <2>2
  <1> QED
    BY <1>1, <1>2 DEF InStep

(* The invariant implies that nothing is left in the streams.              *)
LEMMA NothingLeft ==
  ASSUME RingInv
  PROVE  StreamsClean
  <1> USE Ranks
  <1> SUFFICES ASSUME \A i \in Rank : pc[i] \in Returned, NEW r \in Peer
               PROVE  up[r] = <<>> /\ down[r] = <<>>
    BY DEF StreamsClean
  <1>1. AllAlive /\ pc[r] \in {"ring", "broker"} /\ pc[0] \in {"ring", "broker"}
    BY DEF AllAlive, Returned
  <1>2. UpSound(r) /\ PeerInStep(r) /\ Agreed(r)
    BY <1>1 DEF RingInv, PeerSound, AnswersAgree
  <1>3. CASE pc[0] = "ring"
    <2>1. Answered(r)
      BY <1>3 DEF Answered
    <2> QED
      BY <1>1, <1>2, <2>1 DEF UpSound, PeerInStep
  <1>4. CASE pc[0] = "broker"
    BY <1>1, <1>2, <1>4 DEF Agreed
  <1> QED
    BY <1>1, <1>3, <1>4

(* As long as nobody dies all ranks choose the same route, the ring or     *)
(* rank 0, whichever ports, connects, accepts and handshakes failed.       *)
THEOREM RoutesCorrect == Spec => []RouteAgreed
  <1> QED
    BY Invariance, AllAgree, PTL

(* A rank uses the ring only if every rank has reached its successor and   *)
(* vouched for both of its edges, also when ranks die meanwhile.           *)
THEOREM RingCorrect == Spec => []RingWhole
  <1>1. RingInv => RingWhole
    BY DEF RingInv, VotesSound, Whole, Vouched, RingWhole
  <1> QED
    BY <1>1, Invariance, PTL

(* The bytes a rank reads are always those of the message it takes them    *)
(* for, although the streams carry no frames.                              *)
THEOREM StepsCorrect == Spec => []InStep
  <1> QED
    BY Invariance, RightMessage, PTL

(* When all ranks have returned, the topology exchange has left nothing in *)
(* the streams for the first collective to trip over.                      *)
THEOREM CleanCorrect == Spec => []StreamsClean
  <1> QED
    BY Invariance, NothingLeft, PTL
=============================================================================
