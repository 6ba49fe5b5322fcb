------------------------------- MODULE MCRaft -------------------------------
(***************************************************************************)
(* Raft and the cluster's checker over small clusters.  Every bound is a   *)
(* guard, given by a constant:                                             *)
(*   Campaigns  the <<node, term>> pairs for which a node may time out and *)
(*              campaign, hence also the highest term;                     *)
(*   Crashers   the nodes that may crash, as often as they like;           *)
(*   Delivered  the kinds of message that are ever delivered;              *)
(*   MaxLog     the log length at which clients stop proposing (a new      *)
(*              leader's no-op is always appended).                        *)
(***************************************************************************)
EXTENDS RaftContract, TLC

CONSTANTS n1, n2, n3, Campaigns, Beating, Crashers, Cut, Delivered, MaxLog

\* Values for Campaigns.
FirstTermByOne == {<<n1, 1>>}
OneThenTwo     == {<<n1, 1>>, <<n2, 2>>}
ThreeTerms     == {n1} \X (1 .. 3)
TwoRivals      == {n1, n2} \X {1, 2}
Figure8Terms   == {<<n1, 3>>, <<n3, 4>>}
StaleLeader    == {<<n1, 1>>, <<n3, 1>>, <<n3, 2>>, <<n1, 3>>}

AllKinds == {"RequestVote", "VoteResponse", "AppendEntries", "AppendResponse"}
VoteKinds == {"RequestVote", "VoteResponse"}

MayCampaign(i) == <<i, term[i] + 1>> \in Campaigns

Elections ==
  \E i \in Node :
    /\ MayCampaign(i)
    /\ \/ Campaign(i)
       \/ CampaignAlone(i)

Appends ==
  \E i \in Node :
    \/ i \in Beating /\ Heartbeat(i)
    \/ \E command \in Command : Len(log[i]) < MaxLog /\ Propose(i, command)

\* Links that are cut, as <<term, from, to>> of the messages that do not get
\* through: n1 and n3 do not hear each other in term 1; nor do they hear each
\* other's answers in the last two terms.
NoCut         == {}
IsolatedFirst == {<<1, n1, n3>>, <<1, n3, n1>>}
MuteReplies   == {<<3, n3, n1>>, <<4, n1, n3>>}
StaleCut      == IsolatedFirst \cup {<<3, n1, n3>>, <<3, n3, n1>>}

Reaches(m) == m.kind \in Delivered /\ <<m.term, m.from, m.to>> \notin Cut

Messages ==
  \E m \in wire : Reaches(m) /\ Handle(m.to, m)

Crashes ==
  \E i \in Crashers :
    \/ Crash(i)
    \/ Restart(i)
    \/ MayCampaign(i) /\ CrashInCampaign(i)
    \/ \E m \in wire : Reaches(m) /\ CrashInHandler(i, m)

Step == Elections \/ Appends \/ Messages \/ Crashes

MCInit == Init /\ CheckerInit

\* The whole cluster restarted from its disks, nothing of the past in flight.
\* The past is Figure 8 of the Raft paper: n1 led term 1 and replicated its
\* no-op to nobody, then n3 led term 2, elected by n2, and did the same; n1
\* heard of that term but granted no vote.
Figure8Disk ==
  LET noop(t) == [term |-> t, command |-> Noop]
  IN [i \in Node |->
        CASE i = n1 -> [term |-> 2, voted_for |-> Nil, log |-> <<noop(1)>>]
          [] i = n2 -> [term |-> 2, voted_for |-> n3,  log |-> <<>>]
          [] i = n3 -> [term |-> 2, voted_for |-> n3,  log |-> <<noop(2)>>]]

ColdInit ==
  /\ disk = Figure8Disk
  /\ term = [i \in Node |-> disk[i].term]
  /\ voted_for = [i \in Node |-> disk[i].voted_for]
  /\ log = [i \in Node |-> disk[i].log]
  /\ live = Node
  /\ role = [i \in Node |-> Follower]
  /\ leader_id = [i \in Node |-> Nil]
  /\ commit_index = [i \in Node |-> 0]
  /\ applied_index = [i \in Node |-> 0]
  /\ votes = [i \in Node |-> {}]
  /\ next_index = [i \in Node |-> [p \in Node |-> 1]]
  /\ match_index = [i \in Node |-> [p \in Node |-> 0]]
  /\ wire = {}
  /\ CheckerInit

\* The nodes alone, and the nodes watched by the checker.
MCSpec        == MCInit /\ [][Step /\ UNCHANGED checker]_<<vars, checker>>
MCCheckedSpec == MCInit /\ [][Step /\ Observe]_<<vars, checker>>
ColdSpec      == ColdInit /\ [][Step /\ Observe]_<<vars, checker>>

=============================================================================
