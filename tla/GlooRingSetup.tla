---------------------------- MODULE GlooRingSetup ----------------------------
(***************************************************************************)
(* The ring topology exchange at the end of tc_gloo_init, in               *)
(* lib/distributed/gloo_tcp.cpp, for groups of three ranks or more.        *)
(*                                                                         *)
(* Rank 0 holds a connection to every other rank.  Over it each rank       *)
(* reports the port of its ring listener; rank 0 tells everybody whether   *)
(* all have one, sends the table of addresses, and every rank connects to  *)
(* its successor and accepts its predecessor.  Then all vote on whether    *)
(* that worked, and rank 0 sends the outcome.  The group uses the ring, or *)
(* falls back to exchanging everything through rank 0 (the broker).        *)
(*                                                                         *)
(* Reads and writes on the rank-0 connections have no time limit.  They    *)
(* fail only when the process at the other end has died.                   *)
(***************************************************************************)
EXTENDS Naturals, Sequences

CONSTANTS NRanks,     \* world_size
          OptIns,     \* the sets of processes that may have TC_GLOO_RING=1
          Faults      \* whether processes die

Rank == 0 .. NRanks - 1
Peer == Rank \ {0}

ASSUME SetupAssumption ==
  /\ NRanks \in Nat /\ NRanks >= 3
  /\ OptIns \subseteq SUBSET Rank
  /\ Faults \in BOOLEAN

VARIABLES
  optin,     \* the processes that do have TC_GLOO_RING=1
  pc,        \* where each rank is in tc_gloo_init
  at,        \* the peer rank 0's current loop has come to
  up,        \* up[r]: what r has written to rank 0 and rank 0 has not read
  down,      \* down[r]: the other direction
  listening, \* whether my_ring_listen is open
  topology,  \* topology_ok at rank 0, over the reports it has
  linked,    \* <<i, j>>: i's connection to its successor j was established
  direct,    \* direct_ok
  group      \* group_direct_ok at rank 0

vars == <<optin, pc, at, up, down, listening, topology, linked, direct, group>>

Returned == {"ring", "broker"}        \* both with TC_OK
Successor(i) == (i + 1) % NRanks
Predecessor(i) == (i + NRanks - 1) % NRanks

Kind == {"info", "topology", "table", "vote", "result"}
Message == [kind : Kind, ok : BOOLEAN]
Say(kind, ok) == [kind |-> kind, ok |-> ok]

Broken(r) == pc[r] = "crashed" \/ pc[0] = "crashed"

Write(stream, r, msg) == [stream EXCEPT ![r] = Append(@, msg)]
Consume(stream, r) == [stream EXCEPT ![r] = Tail(@)]

Goto(i, label) == pc' = [pc EXCEPT ![i] = label]
CloseListener(i) == listening' = [listening EXCEPT ![i] = FALSE]

(* The init call returns TC_OK, with ring neighbours or without.           *)
Return(i, route) == Goto(i, route) /\ CloseListener(i)

(* One iteration of a loop of rank 0 over its peers; after the last one it *)
(* goes on at label.                                                       *)
Advance(label) ==
  IF at + 1 < NRanks
  THEN at' = at + 1 /\ UNCHANGED pc
  ELSE at' = 1 /\ Goto(0, label)

-----------------------------------------------------------------------------
Init ==
  /\ optin \in OptIns
  /\ pc = [i \in Rank |-> "start"]
  /\ at = 1
  /\ up = [r \in Peer |-> <<>>]
  /\ down = [r \in Peer |-> <<>>]
  /\ listening = [i \in Rank |-> FALSE]
  /\ topology = TRUE
  /\ linked = {}
  /\ direct = [i \in Rank |-> FALSE]
  /\ group = FALSE

(* The ring is opt-in.                                                     *)
OptOut(i) ==
  /\ pc[i] = "start"
  /\ i \notin optin
  /\ Return(i, "broker")
  /\ UNCHANGED <<optin, at, up, down, topology, linked, direct, group>>

(* Phase A.  No free port may be found; rank 0 may not know an address of  *)
(* its own that others can use.                                            *)
Listen(i) ==
  /\ pc[i] = "start"
  /\ i \in optin
  /\ \E bound \in BOOLEAN :
       /\ listening' = [listening EXCEPT ![i] = bound]
       /\ topology' \in IF i # 0 THEN {topology}
                        ELSE IF bound THEN BOOLEAN ELSE {FALSE}
  /\ Goto(i, IF i = 0 THEN "collect" ELSE "report")
  /\ UNCHANGED <<optin, at, up, down, linked, direct, group>>

(* Mutant: a rank without a port does not wait for the group's decision.   *)
ReportAndLeave(r) ==
  /\ pc[r] = "report"
  /\ up' = Write(up, r, Say("info", listening[r]))
  /\ Goto(r, IF listening[r] THEN "topology" ELSE "broker")
  /\ UNCHANGED <<optin, at, down, listening, topology, linked, direct, group>>

(* Phase B, at the other ranks.                                            *)
Report(r) ==
  /\ pc[r] = "report"
  /\ up' = Write(up, r, Say("info", listening[r]))
  /\ Goto(r, "topology")
  /\ UNCHANGED <<optin, at, down, listening, topology, linked, direct, group>>

HearTopology(r) ==
  /\ pc[r] = "topology"
  /\ down[r] # <<>>
  /\ down' = Consume(down, r)
  /\ IF Head(down[r]).ok
     THEN Goto(r, "table") /\ UNCHANGED listening
     ELSE Return(r, "broker")
  /\ UNCHANGED <<optin, at, up, topology, linked, direct, group>>

(* Mutant: the table is not waited for.                                    *)
HearTableNot(r) ==
  /\ pc[r] = "table"
  /\ Goto(r, "link")
  /\ UNCHANGED <<optin, at, up, down, listening, topology, linked, direct, group>>

HearTable(r) ==
  /\ pc[r] = "table"
  /\ down[r] # <<>>
  /\ down' = Consume(down, r)
  /\ Goto(r, "link")
  /\ UNCHANGED <<optin, at, up, listening, topology, linked, direct, group>>

(* Phase B, at rank 0.                                                     *)
Collect ==
  /\ pc[0] = "collect"
  /\ up[at] # <<>>
  /\ up' = Consume(up, at)
  /\ topology' = (topology /\ Head(up[at]).ok)
  /\ Advance("tell")
  /\ UNCHANGED <<optin, down, listening, linked, direct, group>>

(* Mutant: nobody is told that the group falls back.                       *)
TellOnlyIfOk ==
  /\ pc[0] = "tell"
  /\ IF topology
     THEN /\ down' = Write(down, at, Say("topology", TRUE))
          /\ Advance("table")
          /\ UNCHANGED listening
     ELSE Return(0, "broker") /\ UNCHANGED <<optin, at, down>>
  /\ UNCHANGED <<optin, up, topology, linked, direct, group>>

Tell ==
  /\ pc[0] = "tell"
  /\ down' = Write(down, at, Say("topology", topology))
  /\ Advance(IF topology THEN "table" ELSE "broker")
  /\ IF at + 1 = NRanks /\ ~topology
     THEN CloseListener(0) ELSE UNCHANGED listening
  /\ UNCHANGED <<optin, up, topology, linked, direct, group>>

SendTable ==
  /\ pc[0] = "table"
  /\ down' = Write(down, at, Say("table", TRUE))
  /\ Advance("link")
  /\ UNCHANGED <<optin, up, listening, topology, linked, direct, group>>

(* Up to here a failing read or write makes the rank fall back on its own, *)
(* and return TC_OK.                                                       *)
FallBack(i) ==
  /\ \/ i # 0 /\ pc[i] \in {"report", "topology", "table"} /\ Broken(i)
     \/ i = 0 /\ pc[0] \in {"collect", "tell", "table"} /\ Broken(at)
  /\ Return(i, "broker")
  /\ UNCHANGED <<optin, at, up, down, topology, linked, direct, group>>

-----------------------------------------------------------------------------
(* Phase C: connect to the successor's listener, within a time limit.      *)
Connect(i) ==
  LET j == Successor(i) IN
  /\ pc[i] = "link"
  /\ \E ok \in IF listening[j] THEN BOOLEAN ELSE {FALSE} :
       /\ direct' = [direct EXCEPT ![i] = ok]
       /\ linked' = IF ok THEN linked \cup {<<i, j>>} ELSE linked
  /\ Goto(i, "accept")
  /\ UNCHANGED <<optin, at, up, down, listening, topology, group>>

(* Accept the predecessor, within a time limit, and authenticate both.     *)
Accept(i) ==
  /\ pc[i] = "accept"
  /\ \E ok \in IF <<Predecessor(i), i>> \in linked THEN BOOLEAN ELSE {FALSE} :
       direct' = [direct EXCEPT ![i] = @ /\ ok]
  /\ Goto(i, IF i = 0 THEN "votes" ELSE "vote")
  /\ group' = IF i = 0 THEN direct'[0] ELSE group
  /\ UNCHANGED <<optin, at, up, down, listening, topology, linked>>

Vote(r) ==
  /\ pc[r] = "vote"
  /\ up' = Write(up, r, Say("vote", direct[r]))
  /\ Goto(r, "result")
  /\ UNCHANGED <<optin, at, down, listening, topology, linked, direct, group>>

(* Mutant: the last vote decides.                                          *)
CountLastVote ==
  /\ pc[0] = "votes"
  /\ up[at] # <<>>
  /\ up' = Consume(up, at)
  /\ group' = Head(up[at]).ok
  /\ Advance("result")
  /\ UNCHANGED <<optin, down, listening, topology, linked, direct>>

CountVote ==
  /\ pc[0] = "votes"
  /\ up[at] # <<>>
  /\ up' = Consume(up, at)
  /\ group' = (group /\ Head(up[at]).ok)
  /\ Advance("result")
  /\ UNCHANGED <<optin, down, listening, topology, linked, direct>>

SendResult ==
  /\ pc[0] = "result"
  /\ down' = Write(down, at, Say("result", group))
  /\ Advance(IF group THEN "ring" ELSE "broker")
  /\ IF at + 1 = NRanks THEN CloseListener(0) ELSE UNCHANGED listening
  /\ UNCHANGED <<optin, up, topology, linked, direct, group>>

(* Mutant: the vote of a rank that died is not missed.                     *)
VoteLostIgnored ==
  /\ pc[0] = "votes"
  /\ Broken(at)
  /\ Advance("result")
  /\ UNCHANGED <<optin, up, down, listening, topology, linked, direct, group>>

(* Rank 0 cannot reach a peer any more: the ring is given up, also when    *)
(* some ranks have already been told to use it.                            *)
VoteLost ==
  /\ pc[0] = "votes"
  /\ Broken(at)
  /\ group' = FALSE
  /\ Advance("result")
  /\ UNCHANGED <<optin, up, down, listening, topology, linked, direct>>

ResultLost ==
  /\ pc[0] = "result"
  /\ Broken(at)
  /\ group' = FALSE
  /\ Advance("broker")
  /\ IF at + 1 = NRanks THEN CloseListener(0) ELSE UNCHANGED listening
  /\ UNCHANGED <<optin, up, down, topology, linked, direct>>

(* Mutant: a rank goes by its own vote.                                    *)
HearResultOwnVote(r) ==
  /\ pc[r] = "result"
  /\ down[r] # <<>>
  /\ down' = Consume(down, r)
  /\ Return(r, IF direct[r] THEN "ring" ELSE "broker")
  /\ UNCHANGED <<optin, at, up, topology, linked, direct, group>>

HearResult(r) ==
  /\ pc[r] = "result"
  /\ down[r] # <<>>
  /\ down' = Consume(down, r)
  /\ Return(r, IF Head(down[r]).ok THEN "ring" ELSE "broker")
  /\ UNCHANGED <<optin, at, up, topology, linked, direct, group>>

NoResult(r) ==
  /\ pc[r] \in {"vote", "result"}
  /\ Broken(r)
  /\ Return(r, "broker")
  /\ UNCHANGED <<optin, at, up, down, topology, linked, direct, group>>

-----------------------------------------------------------------------------
Crash(i) ==
  /\ Faults
  /\ pc[i] # "crashed"
  /\ Return(i, "crashed")
  /\ UNCHANGED <<optin, at, up, down, topology, linked, direct, group>>

BrokerStep ==
  Collect \/ Tell \/ SendTable \/ CountVote \/ VoteLost \/ SendResult \/ ResultLost

PeerStep(r) ==
  \/ Report(r) \/ HearTopology(r) \/ HearTable(r)
  \/ Vote(r) \/ HearResult(r) \/ NoResult(r)

Step(i) ==
  \/ OptOut(i) \/ Listen(i) \/ Connect(i) \/ Accept(i) \/ FallBack(i)
  \/ i = 0 /\ BrokerStep
  \/ i # 0 /\ PeerStep(i)

Next == \E i \in Rank : Step(i) \/ Crash(i)

Spec == Init /\ [][Next]_vars

(* Every process is scheduled.                                             *)
FairSpec == Spec /\ \A i \in Rank : WF_vars(Step(i))
=============================================================================
