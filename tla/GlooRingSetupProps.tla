-------------------------- MODULE GlooRingSetupProps --------------------------
(***************************************************************************)
(* What the ring topology exchange is supposed to guarantee.               *)
(***************************************************************************)
EXTENDS GlooRingSetup

Label == {"start", "report", "topology", "table", "link", "accept", "vote",
          "result", "collect", "tell", "votes", "crashed"} \cup Returned

(* The state has the shape the code gives it.                              *)
TypeOK ==
  /\ optin \subseteq Rank
  /\ pc \in [Rank -> Label]
  /\ at \in Peer
  /\ up \in [Peer -> Seq(Message)]
  /\ down \in [Peer -> Seq(Message)]
  /\ listening \in [Rank -> BOOLEAN]
  /\ topology \in BOOLEAN
  /\ linked \subseteq Rank \X Rank
  /\ direct \in [Rank -> BOOLEAN]
  /\ group \in BOOLEAN

AllAlive == \A i \in Rank : pc[i] # "crashed"

(* As long as nobody dies, all ranks choose the same route: a collective   *)
(* is never entered over the ring by one rank and over rank 0 by another,  *)
(* whichever ports, connects, accepts or handshakes failed.                *)
RouteAgreed ==
  AllAlive => \A i, j \in Rank : ~(pc[i] = "ring" /\ pc[j] = "broker")

(* A rank uses the ring only if the ring is whole, even if ranks die while *)
(* it is set up: every rank reached its successor and vouched for both of  *)
(* its edges.                                                              *)
RingWhole ==
  \A i \in Rank : pc[i] = "ring" =>
    \A j \in Rank : <<j, Successor(j)>> \in linked /\ direct[j]

(* What a rank is about to read from rank 0, and rank 0 from a rank.       *)
Expected(label) ==
  CASE label = "collect" -> "info"
    [] label = "votes"   -> "vote"
    [] OTHER -> label

(* The streams carry no frames: the bytes a rank reads next are always     *)
(* those of the message it takes them for.                                 *)
InStep ==
  /\ \A r \in Peer : pc[r] \in {"topology", "table", "result"} /\ down[r] # <<>> =>
       Head(down[r]).kind = Expected(pc[r])
  /\ pc[0] \in {"collect", "votes"} /\ up[at] # <<>> =>
       Head(up[at]).kind = Expected(pc[0])

(* When all ranks have returned nothing is left in the streams that the    *)
(* first collective would take for its own data.                           *)
StreamsClean ==
  (\A i \in Rank : pc[i] \in Returned) =>
    \A r \in Peer : up[r] = <<>> /\ down[r] = <<>>

(* tc_gloo_init returns at every rank that stays alive: nobody is left     *)
(* waiting in the topology exchange.                                       *)
SetupReturns == \A i \in Rank : <>(pc[i] \in Returned \cup {"crashed"})

(* The same, if nobody dies and all ranks or none have TC_GLOO_RING=1.     *)
SetupReturnsIfAlive ==
  optin \in {{}, Rank} /\ []AllAlive => \A i \in Rank : <>(pc[i] \in Returned)

-----------------------------------------------------------------------------
(* The inductive invariant.                                                *)

(* How far rank 0 is with peer r.                                          *)
Unheard(r) == pc[0] = "start" \/ (pc[0] = "collect" /\ r >= at)
Untold(r) == (pc[0] = "collect" /\ r < at) \/ (pc[0] = "tell" /\ r >= at)
Told(r) == (pc[0] = "tell" /\ r < at) \/ (pc[0] = "table" /\ r >= at)
Uncounted(r) ==
  \/ pc[0] = "table" /\ r < at
  \/ pc[0] \in {"link", "accept"}
  \/ pc[0] = "votes" /\ r >= at
Counted(r) == (pc[0] = "votes" /\ r < at) \/ (pc[0] = "result" /\ r >= at)
Answered(r) == (pc[0] = "result" /\ r < at) \/ pc[0] = "ring"

(* What a rank is about to read is what rank 0 has sent it.                *)
DownSound(r) ==
  /\ pc[r] \in {"start", "report", "link", "accept", "vote"} => down[r] = <<>>
  /\ pc[r] = "topology" =>
       down[r] \in {<<Say("topology", ok)>> : ok \in BOOLEAN}
                     \cup {<<>>, <<Say("topology", TRUE), Say("table", TRUE)>>}
  /\ pc[r] = "table" => down[r] \in {<<>>, <<Say("table", TRUE)>>}
  /\ pc[r] = "result" => down[r] \in {<<>>} \cup {<<Say("result", ok)>> : ok \in BOOLEAN}

(* At most one message is on its way to rank 0: the report until it is     *)
(* heard, the vote until it is counted.                                    *)
UpSound(r) ==
  /\ pc[r] \in {"start", "report"} => up[r] = <<>>
  /\ Unheard(r) => up[r] \in {<<>>} \cup {<<Say("info", ok)>> : ok \in BOOLEAN}
  /\ Untold(r) \/ Told(r) => up[r] = <<>>
  /\ Uncounted(r) =>
       \/ up[r] = <<>>
       \/ up[r] = <<Say("vote", direct[r])>> /\ pc[r] \in {"result", "crashed"}
  /\ Counted(r) \/ Answered(r) => up[r] = <<>> \/ pc[r] = "crashed"

(* Rank 0 and a living peer keep step.                                     *)
PeerInStep(r) ==
  /\ Unheard(r) =>
       /\ pc[r] \in {"start", "report", "topology", "broker"} /\ down[r] = <<>>
       /\ pc[r] = "broker" => up[r] = <<>>
  /\ Untold(r) => pc[r] = "topology" /\ down[r] = <<>>
  /\ Told(r) =>
       \/ pc[r] = "topology" /\ down[r] = <<Say("topology", topology)>>
       \/ pc[r] = (IF topology THEN "table" ELSE "broker") /\ down[r] = <<>>
  /\ Uncounted(r) =>
       \/ pc[r] = "topology" /\ down[r] = <<Say("topology", TRUE), Say("table", TRUE)>>
       \/ pc[r] = "table" /\ down[r] = <<Say("table", TRUE)>>
       \/ pc[r] \in {"link", "accept", "vote", "result"} /\ down[r] = <<>>
  /\ Counted(r) => pc[r] = "result" /\ down[r] = <<>>
  /\ Answered(r) =>
       \/ pc[r] = "result" /\ \E ok \in BOOLEAN : down[r] = <<Say("result", ok)>>
       \/ pc[r] \in Returned /\ down[r] = <<>>

(* The table is only sent if there is a topology, every loop of rank 0     *)
(* starts with the first peer, and rank 0 goes by the outcome it sent.     *)
BrokerSound ==
  /\ pc[0] = "table" => topology
  /\ pc[0] \in {"start", "link", "accept"} => at = 1
  /\ pc[0] = "ring" => group

(* As long as nobody dies, what rank 0 answers is one and the same for all.*)
Agreed(r) ==
  /\ Answered(r) =>
       \/ pc[r] = "result" /\ down[r] = <<Say("result", group)>>
       \/ pc[r] = (IF group THEN "ring" ELSE "broker") /\ down[r] = <<>>
  /\ pc[0] = "broker" =>
       /\ \/ pc[r] \in {"start", "report", "topology", "broker"} /\ down[r] = <<>>
          \/ pc[r] = "topology" /\ down[r] = <<Say("topology", FALSE)>> /\ up[r] = <<>>
          \/ pc[r] = "result" /\ down[r] = <<Say("result", FALSE)>> /\ up[r] = <<>>
       /\ pc[r] = "broker" => up[r] = <<>>

AnswersAgree == AllAlive => \A r \in Peer : Agreed(r)

(* A rank that has vouched for both of its edges, for good.                *)
Unlinked == {"start", "report", "collect", "topology", "tell", "table", "link", "accept"}
Vouched(i) == direct[i] /\ pc[i] \notin Unlinked
Whole == \A i \in Rank : Vouched(i)

(* Whoever is told to use the ring can rely on all votes.                  *)
VotesSound ==
  /\ \A i \in Rank : direct[i] => <<i, Successor(i)>> \in linked
  /\ pc[0] = "votes" /\ group => Vouched(0) /\ \A r \in Peer : r < at => Vouched(r)
  /\ pc[0] = "result" /\ group => Whole
  /\ \A i \in Rank : pc[i] = "ring" => Whole
  /\ \A r \in Peer : pc[r] = "result" /\ down[r] = <<Say("result", TRUE)>> => Whole

(* Rank 0 has labels of its own.                                           *)
RolesOK ==
  /\ pc[0] \notin {"report", "topology", "vote"}
  /\ \A r \in Peer : pc[r] \notin {"collect", "tell", "votes"}

PeerSound(r) == DownSound(r) /\ UpSound(r) /\ (pc[r] # "crashed" => PeerInStep(r))

(* All of it: in every phase the ranks that live are where rank 0 takes    *)
(* them to be, also after failed ports and connects and around dead ones.  *)
RingInv ==
  /\ TypeOK
  /\ RolesOK
  /\ \A r \in Peer : PeerSound(r)
  /\ BrokerSound
  /\ AnswersAgree
  /\ VotesSound
=============================================================================
