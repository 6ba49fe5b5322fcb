------------------------------ MODULE SimProofs ------------------------------
(***************************************************************************)
(* Every execution of the simulated cluster is one of Raft!Spec; nothing   *)
(* arrives in the tick it was sent in; a node that is cut off stalls.      *)
(*                                                                         *)
(* The mapping leaves every variable of the nodes as it is and gives the   *)
(* adversary the history of what was sent for its network.  Each action of *)
(* a node therefore maps to the action of the same name: the state changes *)
(* are the same, and what a handler returns is added to sent.  It has to   *)
(* be shown that a message that arrives was sent, which the invariant      *)
(* InFlight says, and that everything else is a stutter.                   *)
(*                                                                         *)
(* That a cut-off leader commits nothing rests on LinkInv: it had already  *)
(* committed all that its peers have acknowledged.                         *)
(***************************************************************************)
EXTENDS SimAdversary, RaftElectionProofs, Integers

-----------------------------------------------------------------------------
(* The operators of the instance mean what they mean in Raft *)

LEMMA SameCardinality ==
  ASSUME NEW S
  PROVE  Cardinality(S) = Adversary!Cardinality(S)
BY DEF Cardinality, Adversary!Cardinality

LEMMA SendMaps ==
  ASSUME NEW messages, wire \subseteq sent, RecordSent, Send(messages)
  PROVE  Adversary!Send(messages)
BY DEF RecordSent, Send, Adversary!Send

LEMMA BroadcastMaps ==
  ASSUME NEW i, wire \subseteq sent, RecordSent, BroadcastAppend(i)
  PROVE  Adversary!BroadcastAppend(i)
BY SendMaps DEF TermAt, Adversary!TermAt, Lower, Adversary!Lower, AppendFor,
       Adversary!AppendFor, BroadcastAppend, Adversary!BroadcastAppend

LEMMA AdvanceCommitMaps ==
  ASSUME NEW i, NEW t, NEW entries, NEW acked, wire \subseteq sent,
         RecordSent, AdvanceCommit(i, t, entries, acked)
  PROVE  Adversary!AdvanceCommit(i, t, entries, acked)
BY SameCardinality DEF IsQuorum, Adversary!IsQuorum, Highest,
       Adversary!Highest, Committable, Adversary!Committable, AdvanceCommit,
       Adversary!AdvanceCommit

LEMMA BecomeLeaderMaps ==
  ASSUME NEW i, NEW t, NEW d, wire \subseteq sent, RecordSent,
         BecomeLeader(i, t, d)
  PROVE  Adversary!BecomeLeader(i, t, d)
BY AdvanceCommitMaps, BroadcastMaps DEF AppendTo, Adversary!AppendTo, Leader,
       Adversary!Leader, BecomeLeader, Adversary!BecomeLeader

-----------------------------------------------------------------------------
(* The actions of a node *)

LEMMA CampaignMaps ==
  ASSUME NEW i, wire \subseteq sent, RecordSent, Campaign(i)
  PROVE  Adversary!Campaign(i)
BY SameCardinality, SendMaps DEF SaveHardState, Adversary!SaveHardState,
       Candidate, Adversary!Candidate, Leader, Adversary!Leader, indices,
       Adversary!indices, cursors, Adversary!cursors, IsQuorum,
       Adversary!IsQuorum, TermAt, Adversary!TermAt, LastTerm,
       Adversary!LastTerm, SelfVote, Adversary!SelfVote, StartElection,
       Adversary!StartElection, Campaign, Adversary!Campaign

LEMMA CampaignAloneMaps ==
  ASSUME NEW i, wire \subseteq sent, RecordSent, CampaignAlone(i)
  PROVE  Adversary!CampaignAlone(i)
BY SameCardinality, BecomeLeaderMaps DEF SaveHardState,
       Adversary!SaveHardState, Leader, Adversary!Leader, IsQuorum,
       Adversary!IsQuorum, SelfVote, Adversary!SelfVote, StartElection,
       Adversary!StartElection, CampaignAlone, Adversary!CampaignAlone

LEMMA HeartbeatMaps ==
  ASSUME NEW i, wire \subseteq sent, RecordSent, Heartbeat(i)
  PROVE  Adversary!Heartbeat(i)
BY BroadcastMaps DEF Leader, Adversary!Leader, memory, Adversary!memory,
       indices, Adversary!indices, cursors, Adversary!cursors, Heartbeat,
       Adversary!Heartbeat

LEMMA ProposeMaps ==
  ASSUME NEW i, NEW command, wire \subseteq sent, RecordSent, Propose(i,
         command)
  PROVE  Adversary!Propose(i, command)
BY AdvanceCommitMaps, BroadcastMaps DEF AppendTo, Adversary!AppendTo, Leader,
       Adversary!Leader, cursors, Adversary!cursors, Propose, Adversary!Propose

LEMMA GrantVoteMaps ==
  ASSUME NEW i, NEW m, wire \subseteq sent, RecordSent, GrantVote(i, m)
  PROVE  Adversary!GrantVote(i, m)
BY SendMaps DEF SaveHardState, Adversary!SaveHardState, Follower,
       Adversary!Follower, indices, Adversary!indices, cursors,
       Adversary!cursors, TermAt, Adversary!TermAt, LastTerm,
       Adversary!LastTerm, Deliverable, Adversary!Deliverable, Newer,
       Adversary!Newer, TermAfter, Adversary!TermAfter, VoteAfter,
       Adversary!VoteAfter, RoleAfter, Adversary!RoleAfter, LeaderAfter,
       Adversary!LeaderAfter, DiskAfter, Adversary!DiskAfter, UpToDate,
       Adversary!UpToDate, Grantable, Adversary!Grantable, VoteReply,
       Adversary!VoteReply, GrantDisk, Adversary!GrantDisk, OnRequestVote,
       Adversary!OnRequestVote, GrantVote, Adversary!GrantVote

LEMMA DenyVoteMaps ==
  ASSUME NEW i, NEW m, wire \subseteq sent, RecordSent, DenyVote(i, m)
  PROVE  Adversary!DenyVote(i, m)
BY SendMaps DEF SaveHardState, Adversary!SaveHardState, Follower,
       Adversary!Follower, indices, Adversary!indices, cursors,
       Adversary!cursors, TermAt, Adversary!TermAt, LastTerm,
       Adversary!LastTerm, Deliverable, Adversary!Deliverable, Newer,
       Adversary!Newer, TermAfter, Adversary!TermAfter, VoteAfter,
       Adversary!VoteAfter, RoleAfter, Adversary!RoleAfter, LeaderAfter,
       Adversary!LeaderAfter, DiskAfter, Adversary!DiskAfter, UpToDate,
       Adversary!UpToDate, Grantable, Adversary!Grantable, VoteReply,
       Adversary!VoteReply, OnRequestVote, Adversary!OnRequestVote, DenyVote,
       Adversary!DenyVote

LEMMA CountVoteMaps ==
  ASSUME NEW i, NEW m, wire \subseteq sent, RecordSent, CountVote(i, m)
  PROVE  Adversary!CountVote(i, m)
BY SameCardinality DEF RecordSent, Candidate, Adversary!Candidate, cursors,
       Adversary!cursors, IsQuorum, Adversary!IsQuorum, Deliverable,
       Adversary!Deliverable, Newer, Adversary!Newer, VoteCounts,
       Adversary!VoteCounts, OnVoteResponse, Adversary!OnVoteResponse,
       CountVote, Adversary!CountVote

LEMMA WinElectionMaps ==
  ASSUME NEW i, NEW m, wire \subseteq sent, RecordSent, WinElection(i, m)
  PROVE  Adversary!WinElection(i, m)
BY SameCardinality, BecomeLeaderMaps DEF Candidate, Adversary!Candidate,
       IsQuorum, Adversary!IsQuorum, Deliverable, Adversary!Deliverable, Newer,
       Adversary!Newer, VoteCounts, Adversary!VoteCounts, OnVoteResponse,
       Adversary!OnVoteResponse, WinElection, Adversary!WinElection

LEMMA RejectStaleMaps ==
  ASSUME NEW i, NEW m, wire \subseteq sent, RecordSent, RejectStale(i, m)
  PROVE  Adversary!RejectStale(i, m)
BY SendMaps DEF memory, Adversary!memory, indices, Adversary!indices, cursors,
       Adversary!cursors, Deliverable, Adversary!Deliverable, Newer,
       Adversary!Newer, TermAfter, Adversary!TermAfter, AppendReply,
       Adversary!AppendReply, RejectStale, Adversary!RejectStale

LEMMA RejectAppendMaps ==
  ASSUME NEW i, NEW m, wire \subseteq sent, RecordSent, RejectAppend(i, m)
  PROVE  Adversary!RejectAppend(i, m)
BY SendMaps DEF SaveHardState, Adversary!SaveHardState, Follower,
       Adversary!Follower, cursors, Adversary!cursors, TermAt,
       Adversary!TermAt, Deliverable, Adversary!Deliverable, Newer,
       Adversary!Newer, TermAfter, Adversary!TermAfter, VoteAfter,
       Adversary!VoteAfter, DiskAfter, Adversary!DiskAfter, AppendReply,
       Adversary!AppendReply, Current, Adversary!Current, FollowLeader,
       Adversary!FollowLeader, Consistent, Adversary!Consistent, Hint,
       Adversary!Hint, RejectAppend, Adversary!RejectAppend

LEMMA AcceptKnownMaps ==
  ASSUME NEW i, NEW m, wire \subseteq sent, RecordSent, AcceptKnown(i, m)
  PROVE  Adversary!AcceptKnown(i, m)
BY SendMaps DEF SaveHardState, Adversary!SaveHardState, Follower,
       Adversary!Follower, cursors, Adversary!cursors, TermAt,
       Adversary!TermAt, Lower, Adversary!Lower, Deliverable,
       Adversary!Deliverable, Newer, Adversary!Newer, TermAfter,
       Adversary!TermAfter, VoteAfter, Adversary!VoteAfter, DiskAfter,
       Adversary!DiskAfter, AppendReply, Adversary!AppendReply, Current,
       Adversary!Current, FollowLeader, Adversary!FollowLeader, Consistent,
       Adversary!Consistent, Missing, Adversary!Missing, Matched,
       Adversary!Matched, CommitAfter, Adversary!CommitAfter, AcceptAppend,
       Adversary!AcceptAppend, AcceptKnown, Adversary!AcceptKnown

LEMMA AcceptNewMaps ==
  ASSUME NEW i, NEW m, wire \subseteq sent, RecordSent, AcceptNew(i, m)
  PROVE  Adversary!AcceptNew(i, m)
BY SendMaps DEF SaveHardState, Adversary!SaveHardState, AppendTo,
       Adversary!AppendTo, TruncateFrom, Adversary!TruncateFrom, Follower,
       Adversary!Follower, cursors, Adversary!cursors, TermAt,
       Adversary!TermAt, Lower, Adversary!Lower, Lowest, Adversary!Lowest,
       Deliverable, Adversary!Deliverable, Newer, Adversary!Newer, TermAfter,
       Adversary!TermAfter, VoteAfter, Adversary!VoteAfter, DiskAfter,
       Adversary!DiskAfter, AppendReply, Adversary!AppendReply, Current,
       Adversary!Current, FollowLeader, Adversary!FollowLeader, Consistent,
       Adversary!Consistent, Missing, Adversary!Missing, Matched,
       Adversary!Matched, CommitAfter, Adversary!CommitAfter, AcceptAppend,
       Adversary!AcceptAppend, Suffix, Adversary!Suffix, Spliced,
       Adversary!Spliced, Splice, Adversary!Splice, AcceptNew,
       Adversary!AcceptNew

LEMMA AckSuccessMaps ==
  ASSUME NEW i, NEW m, wire \subseteq sent, RecordSent, AckSuccess(i, m)
  PROVE  Adversary!AckSuccess(i, m)
BY SendMaps, AdvanceCommitMaps DEF Leader, Adversary!Leader, memory,
       Adversary!memory, TermAt, Adversary!TermAt, Lower, Adversary!Lower,
       Higher, Adversary!Higher, AppendFor, Adversary!AppendFor, Deliverable,
       Adversary!Deliverable, OnAppendResponse, Adversary!OnAppendResponse,
       Acknowledged, Adversary!Acknowledged, AckSuccess, Adversary!AckSuccess

LEMMA AckFailureMaps ==
  ASSUME NEW i, NEW m, wire \subseteq sent, RecordSent, AckFailure(i, m)
  PROVE  Adversary!AckFailure(i, m)
BY SendMaps DEF Leader, Adversary!Leader, memory, Adversary!memory, TermAt,
       Adversary!TermAt, Lower, Adversary!Lower, Higher, Adversary!Higher,
       AppendFor, Adversary!AppendFor, Deliverable, Adversary!Deliverable,
       OnAppendResponse, Adversary!OnAppendResponse, BackedUp,
       Adversary!BackedUp, AckFailure, Adversary!AckFailure

LEMMA StepDownMaps ==
  ASSUME NEW i, NEW m, wire \subseteq sent, RecordSent, StepDown(i, m)
  PROVE  Adversary!StepDown(i, m)
BY DEF RecordSent, SaveHardState, Adversary!SaveHardState, Follower,
       Adversary!Follower, indices, Adversary!indices, cursors,
       Adversary!cursors, Deliverable, Adversary!Deliverable, Newer,
       Adversary!Newer, DiskAfter, Adversary!DiskAfter, StepDown,
       Adversary!StepDown

LEMMA CrashMaps ==
  ASSUME NEW i, wire \subseteq sent, RecordSent, Crash(i)
  PROVE  Adversary!Crash(i)
BY DEF RecordSent, Blank, Adversary!Blank, Follower, Adversary!Follower,
       FreshVolatile, Adversary!FreshVolatile, Remember, Adversary!Remember,
       CrashWith, Adversary!CrashWith, Crash, Adversary!Crash

LEMMA RestartMaps ==
  ASSUME NEW i, wire \subseteq sent, RecordSent, Restart(i)
  PROVE  Adversary!Restart(i)
BY DEF RecordSent, Follower, Adversary!Follower, FreshVolatile,
       Adversary!FreshVolatile, Remember, Adversary!Remember, Restart,
       Adversary!Restart

-----------------------------------------------------------------------------
(* What is in flight was sent *)

\* A message that can arrive was returned by some handler.
InFlight ==
  /\ live \subseteq Node
  /\ wire \subseteq sent
  /\ flying \subseteq [message : sent, due : Int]

allvars == <<simvars, sent>>

\* The step of the nodes that a step of the simulation is.
NodeStep ==
  \/ \E i \in Node : Campaign(i) \/ CampaignAlone(i) \/ Heartbeat(i)
  \/ \E i \in Node, command \in Command : Propose(i, command)
  \/ \E i \in Node : Crash(i) \/ Restart(i)
  \/ \E i \in Node, m \in sent : Handle(i, m)

Unmoved ==
  UNCHANGED <<disk, live, memory, role, leader_id, indices, votes, cursors>>

LEMMA NodeStepMaps ==
  ASSUME wire \subseteq sent, RecordSent, NodeStep
  PROVE  Adversary!Next
<1>1. ASSUME NEW i \in Node, Campaign(i) \/ CampaignAlone(i) \/ Heartbeat(i)
      PROVE  Adversary!Timeout(i)
  BY <1>1, CampaignMaps, CampaignAloneMaps, HeartbeatMaps DEF Adversary!Timeout
<1>2. ASSUME NEW i \in Node, NEW command \in Command, Propose(i, command)
      PROVE  Adversary!Propose(i, command)
  BY <1>2, ProposeMaps
<1>3. ASSUME NEW i \in Node, Crash(i) \/ Restart(i)
      PROVE  Adversary!Crash(i) \/ Adversary!Restart(i)
  BY <1>3, CrashMaps, RestartMaps
<1>4. ASSUME NEW i \in Node, NEW m \in sent, Handle(i, m)
      PROVE  Adversary!Handle(i, m)
  BY <1>4, GrantVoteMaps, DenyVoteMaps, CountVoteMaps, WinElectionMaps,
     RejectStaleMaps, RejectAppendMaps, AcceptKnownMaps, AcceptNewMaps,
     AckSuccessMaps, AckFailureMaps, StepDownMaps
     DEF Handle, Adversary!Handle
<1> QED
  BY <1>1, <1>2, <1>3, <1>4 DEF NodeStep, Adversary!Next

\* A step of the simulation is a step of the nodes, or leaves them alone and
\* sends nothing.
LEMMA StepIsNodeStep ==
  ASSUME InFlight, WatchedNext
  PROVE  NodeStep \/ (Unmoved /\ wire' \subseteq wire)
<1> USE DEF WatchedNext
<1>1. CASE Chaos
  BY <1>1 DEF Chaos, InjectCrash, InjectRestart, InjectPartition, InjectHeal,
     InjectPropose, CrashAfterEvent, NodeStep, Unmoved, vars, memory, indices,
     cursors
<1>2. CASE Route
  BY <1>2 DEF Route, Unmoved
<1>3. CASE AdvanceLinks \/ NextTick
  BY <1>3 DEF AdvanceLinks, NextTick, Unmoved, vars
<1>4. ASSUME NEW f \in flying, Arrive(f)
      PROVE  NodeStep \/ (Unmoved /\ wire' \subseteq wire)
  <2>1. f.message \in sent
    BY DEF InFlight
  <2>2. CASE f.message.to \in live
    <3>1. f.message.to \in Node
      BY <2>2 DEF InFlight
    <3> QED
      BY <1>4, <2>1, <2>2, <3>1
      DEF Arrive, HandleArrival, Ignored, NodeStep, Unmoved, vars
  <2>3. CASE f.message.to \notin live
    BY <1>4, <2>3 DEF Arrive, DropArrival, Unmoved, vars
  <2> QED
    BY <2>2, <2>3
<1>5. ASSUME NEW i \in Node, Tick(i)
      PROVE  NodeStep \/ (Unmoved /\ wire' \subseteq wire)
  BY <1>5 DEF Tick, FireTimer, NodeStep, Unmoved, vars
<1>6. CASE Mischief
  BY <1>6 DEF Mischief, Lose, Repeat, Unmoved, vars
<1> QED
  BY <1>1, <1>2, <1>3, <1>4, <1>5, <1>6 DEF SimNext, Clockwork

\* The nodes that are up are nodes, and nothing but Restart adds one.
LEMMA LiveStaysInNode ==
  ASSUME live \subseteq Node, NodeStep \/ Unmoved
  PROVE  live' \subseteq Node
<1>1. ASSUME NEW i, Campaign(i) \/ CampaignAlone(i) \/ Heartbeat(i)
      PROVE  live' = live
  BY <1>1 DEF Campaign, CampaignAlone, StartElection, Heartbeat
<1>2. ASSUME NEW i, NEW command, Propose(i, command)
      PROVE  live' = live
  BY <1>2 DEF Propose
<1>3. ASSUME NEW i \in Node, Crash(i) \/ Restart(i)
      PROVE  live' \subseteq live \cup {i}
  BY <1>3 DEF Crash, CrashWith, Restart
<1>4. ASSUME NEW i, NEW m, Handle(i, m)
      PROVE  live' = live
  <2>1. CASE GrantVote(i, m) \/ DenyVote(i, m) \/ StepDown(i, m)
    BY <2>1 DEF GrantVote, DenyVote, OnRequestVote, StepDown
  <2>2. CASE CountVote(i, m) \/ WinElection(i, m)
    BY <2>2 DEF CountVote, WinElection, OnVoteResponse
  <2>3. CASE RejectStale(i, m) \/ RejectAppend(i, m)
    BY <2>3 DEF RejectStale, RejectAppend, FollowLeader
  <2>4. CASE AcceptKnown(i, m) \/ AcceptNew(i, m)
    BY <2>4 DEF AcceptKnown, AcceptNew, AcceptAppend, FollowLeader
  <2>5. CASE AckSuccess(i, m) \/ AckFailure(i, m)
    BY <2>5 DEF AckSuccess, AckFailure, OnAppendResponse
  <2> QED
    BY <1>4, <2>1, <2>2, <2>3, <2>4, <2>5 DEF Handle
<1>5. CASE Unmoved
  BY <1>5 DEF Unmoved
<1> QED
  BY <1>1, <1>2, <1>3, <1>4, <1>5 DEF NodeStep

LEMMA InFlightStep ==
  ASSUME InFlight, [WatchedNext]_allvars
  PROVE  InFlight'
<1>1. CASE UNCHANGED allvars
  BY <1>1 DEF InFlight, allvars, simvars, vars, network
<1>2. CASE WatchedNext
  <2>1. sent \subseteq sent' /\ wire' \subseteq sent'
    BY <1>2 DEF WatchedNext, RecordSent
  <2>2. live' \subseteq Node
    BY <1>2, StepIsNodeStep, LiveStaysInNode DEF InFlight
  <2>3. flying \subseteq [message : sent', due : Int]
    BY <2>1 DEF InFlight
  <2>4. CASE UNCHANGED flying
    BY <2>1, <2>2, <2>3, <2>4 DEF InFlight
  <2>5. CASE Route
    <3>1. PICK delay \in [Passing -> Delays] :
            flying' = flying \cup
              {[message |-> OnLink(m), due |-> Due(delay[m])] : m \in Passing}
      BY <2>5 DEF Route
    <3>2. ASSUME NEW m \in Passing
          PROVE  m \in sent' /\ delay[m] \in Int
      <4>1. m \in sent'
        BY <2>1 DEF InFlight, Passing
      <4>2. delay[m] \in Delays
        BY <3>1
      <4>3. Delays \subseteq Int
        BY ClockAssumption DEF ClockAssumption
      <4> QED
        BY <4>1, <4>2, <4>3
    <3>3. flying' \subseteq [message : sent', due : Int]
      BY <2>3, <3>1, <3>2 DEF OnLink, Due
    <3> QED
      BY <2>1, <2>2, <3>3 DEF InFlight
  <2>6. CASE AdvanceLinks
    <3>1. flying' \subseteq [message : sent', due : Int]
      BY <2>3, <2>6 DEF AdvanceLinks
    <3> QED
      BY <2>1, <2>2, <3>1 DEF InFlight
  <2>7. CASE \E f \in flying : Arrive(f) \/ Lose(f)
    <3>1. flying' \subseteq flying
      BY <2>7 DEF Arrive, Lose
    <3> QED
      BY <2>1, <2>2, <2>3, <3>1 DEF InFlight
  <2>8. CASE \E f \in flying : Repeat(f)
    <3>1. PICK f \in flying, d \in Delays :
            flying' = flying \cup {[f EXCEPT !.due = @ + d]}
      BY <2>8 DEF Repeat
    <3>2. [f EXCEPT !.due = @ + d] \in [message : sent', due : Int]
      BY <2>3, <3>1, ClockAssumption DEF ClockAssumption
    <3>3. flying' \subseteq [message : sent', due : Int]
      BY <2>3, <3>1, <3>2
    <3> QED
      BY <2>1, <2>2, <3>3 DEF InFlight
  <2>9. CASE Chaos \/ NextTick \/ \E i \in Node : Tick(i)
    <3>1. UNCHANGED flying
      BY <2>9 DEF Chaos, InjectCrash, InjectRestart, InjectPartition,
         InjectHeal, InjectPropose, CrashAfterEvent, NextTick, Tick, network
    <3> QED
      BY <2>4, <3>1
  <2> QED
    BY <1>2, <2>5, <2>6, <2>7, <2>8, <2>9
    DEF WatchedNext, SimNext, Clockwork, Mischief
<1> QED
  BY <1>1, <1>2

-----------------------------------------------------------------------------
(* The refinement *)

LEMMA InitMaps ==
  ASSUME WatchedInit
  PROVE  InFlight /\ Adversary!Init
BY DEF WatchedInit, SimInit, Init, Adversary!Init, Blank, Adversary!Blank,
   Follower, Adversary!Follower, InFlight

LEMMA StepMaps ==
  ASSUME InFlight, [WatchedNext]_allvars
  PROVE  [Adversary!Next]_(Adversary!vars)
<1> USE DEF Adversary!vars, Adversary!memory, Adversary!indices,
        Adversary!cursors, memory, indices, cursors
<1>1. CASE UNCHANGED allvars
  BY <1>1 DEF allvars, simvars, vars
<1>2. CASE WatchedNext
  <2>1. CASE NodeStep
    BY <1>2, <2>1, NodeStepMaps DEF InFlight, WatchedNext
  <2>2. CASE Unmoved /\ wire' \subseteq wire
    BY <1>2, <2>2 DEF InFlight, WatchedNext, RecordSent, Unmoved
  <2> QED
    BY <1>2, <2>1, <2>2, StepIsNodeStep
<1> QED
  BY <1>1, <1>2

\* SimulatesRaft: whatever the cluster does, its nodes behave as Raft!Spec says
\* for the set of all messages sent, in clusters of any size, with any
\* timeouts, delays and faults.
THEOREM SimulationRefinesRaft == WatchedSpec => SimulatesRaft
<1>1. WatchedInit => InFlight /\ Adversary!Init
  BY InitMaps
<1>2. InFlight /\ [WatchedNext]_allvars => InFlight'
  BY InFlightStep
<1>3. InFlight /\ [WatchedNext]_allvars => [Adversary!Next]_(Adversary!vars)
  BY StepMaps
<1> QED
  BY <1>1, <1>2, <1>3, PTL DEF WatchedSpec, SimulatesRaft, Adversary!Spec, allvars


-----------------------------------------------------------------------------
(* Round trips take time *)

\* While arrivals are handled, what flies has at most what flew, and what is
\* put on a link is not due yet.
LEMMA NothingNewIsDue ==
  ASSUME InFlight, WatchedNext, stage = Arriving
  PROVE  \A f \in flying' : f \in flying \/ f.due # 0
<1>1. CASE Route
  <2>1. PICK delay \in [Passing -> Delays] :
          flying' = flying \cup
            {[message |-> OnLink(m), due |-> Due(delay[m])] : m \in Passing}
    BY <1>1 DEF Route
  <2>2. ASSUME NEW m \in Passing PROVE delay[m] # 0
    BY <2>1, ClockAssumption DEF ClockAssumption
  <2> QED
    BY <2>1, <2>2 DEF Due
<1>2. ~AdvanceLinks
  BY DEF AdvanceLinks, Arriving, Advancing
<1>3. CASE \E f \in flying : Arrive(f) \/ Lose(f)
  BY <1>3 DEF Arrive, Lose
<1>4. CASE \E f \in flying : Repeat(f)
  <2>1. PICK f \in flying, d \in Delays :
          f \in Arrived /\ flying' = flying \cup {[f EXCEPT !.due = @ + d]}
    BY <1>4 DEF Repeat, Misbehave
  <2>2. f \in [message : sent, due : Int] /\ f.due = 0
    BY <2>1 DEF InFlight, Arrived
  <2>3. d \in Nat \ {0}
    BY <2>1, ClockAssumption DEF ClockAssumption
  <2>4. [f EXCEPT !.due = @ + d].due = d
    BY <2>2, <2>3
  <2> QED
    BY <2>1, <2>3, <2>4
<1>5. CASE Chaos \/ NextTick \/ \E i \in Node : Tick(i)
  BY <1>5 DEF Chaos, InjectCrash, InjectRestart, InjectPartition, InjectHeal,
     InjectPropose, CrashAfterEvent, NextTick, Tick, network
<1> QED
  BY <1>1, <1>2, <1>3, <1>4, <1>5 DEF WatchedNext, SimNext, Clockwork, Mischief

\* NothingArrivesMidTick: what a handler sends, or a channel repeats, comes out
\* in a later tick, whatever the delays: no round trip takes no time.
THEOREM RoundTripsTakeTime == WatchedSpec => NothingArrivesMidTick
<1>1. WatchedInit => InFlight
  BY InitMaps
<1>2. InFlight /\ [WatchedNext]_allvars => InFlight'
  BY InFlightStep
<1>3. InFlight /\ [WatchedNext]_allvars
        => [stage = Arriving => Arrived' \subseteq Arrived]_simvars
  BY NothingNewIsDue DEF Arrived, allvars
<1> QED
  BY <1>1, <1>2, <1>3, PTL DEF WatchedSpec, NothingArrivesMidTick, allvars

-----------------------------------------------------------------------------
(* A node that is cut off: what its own steps do *)

LEMMA NotAlone ==
  ASSUME NEW i \in Node, Cardinality(Node) > 1
  PROVE  ~IsQuorum({i})
<1>1. Cardinality(Node) \in Nat /\ Cardinality({i}) = 1
  BY NodeAssumption, FS_CardinalityType, FS_Singleton
<1> QED
  BY <1>1 DEF IsQuorum

\* advance_commit leaves nothing to commit.
LEMMA AdvanceSettles ==
  ASSUME TypeOK, NEW i \in Node, NEW t, NEW entries \in Seq(Entry), NEW acked,
         AdvanceCommit(i, t, entries, acked),
         term'[i] = t, log'[i] = entries, match_index'[i] = acked
  PROVE  SettledAt(i)'
<1> DEFINE C == Committable(i, t, entries, acked)
<1>1. commit_index[i] \in Nat /\ Len(entries) \in Nat
  BY LenProperties DEF TypeOK, Index
<1>2. C \subseteq commit_index[i] + 1 .. Len(entries)
  BY DEF Committable
<1>3. PICK n \in IF C = {} THEN {commit_index[i]} ELSE Highest(C) :
        commit_index' = [commit_index EXCEPT ![i] = n]
  BY DEF AdvanceCommit
<1>4. commit_index'[i] = n
  BY <1>3 DEF TypeOK
<1>5. n \in Nat /\ commit_index[i] <= n /\ \A q \in C : q <= n
  BY <1>1, <1>2, <1>3 DEF Highest
<1>6. SettledAt(i)' =
        ({q \in n + 1 .. Len(entries) :
            /\ \A r \in q .. Len(entries) : entries[r].term = t
            /\ IsQuorum({i} \cup {p \in Node \ {i} : acked[p] >= q})} = {})
  BY <1>4 DEF SettledAt, Committable, IsQuorum
<1>7. ASSUME NEW q \in n + 1 .. Len(entries),
             \A r \in q .. Len(entries) : entries[r].term = t,
             IsQuorum({i} \cup {p \in Node \ {i} : acked[p] >= q})
      PROVE  FALSE
  <2>1. q \in commit_index[i] + 1 .. Len(entries)
    BY <1>1, <1>5, <1>7
  <2>2. q \in C
    BY <1>7, <2>1 DEF Committable
  <2> QED
    BY <1>1, <1>5, <1>7, <2>2
<1> QED
  BY <1>6, <1>7

\* The state of every other node is as it was.
Elsewhere(i) ==
  \A j \in Node \ {i} :
    /\ j \in live' <=> j \in live
    /\ role'[j] = role[j] /\ term'[j] = term[j] /\ log'[j] = log[j]
    /\ commit_index'[j] = commit_index[j]
    /\ next_index'[j] = next_index[j] /\ match_index'[j] = match_index[j]

\* What is sent goes to others.
SendsToOthers == \A m \in wire' : m \in wire \/ m.from # m.to

\* A leader's cursors are in range and it is settled.
LeadsWell(i) == role[i] = Leader => InRange(i) /\ SettledAt(i)

OwnStep(i) ==
  /\ Elsewhere(i)
  /\ i \in live' => LeadsWell(i)'
  /\ SendsToOthers

LEMMA CommitElsewhere ==
  ASSUME TypeOK, NEW i \in Node, NEW t, NEW entries, NEW acked,
         AdvanceCommit(i, t, entries, acked)
  PROVE  \A j \in Node \ {i} : commit_index'[j] = commit_index[j]
BY DEF AdvanceCommit, TypeOK

LEMMA BroadcastToOthers ==
  ASSUME NEW i \in Node, BroadcastAppend(i)
  PROVE  SendsToOthers
<1>1. ASSUME NEW p \in Node \ {i}
      PROVE  AppendFor(i, p)'.from = i /\ AppendFor(i, p)'.to = p
  BY DEF AppendFor
<1> QED
  BY <1>1 DEF BroadcastAppend, Send, SendsToOthers

\* A leader that has just been elected.
LEMMA BecomeLeaderIsGood ==
  ASSUME TypeOK, NEW i \in Node, NEW t \in Nat, NEW d, BecomeLeader(i, t, d),
         live' = live, term' = [term EXCEPT ![i] = t]
  PROVE  OwnStep(i)
<1> DEFINE noop    == [term |-> t, command |-> Noop]
           entries == Append(log[i], noop)
           nothing == [p \in Node |-> 0]
<1>1. /\ role' = [role EXCEPT ![i] = Leader]
      /\ next_index' = [next_index EXCEPT ![i] = [p \in Node |-> Len(log[i]) + 1]]
      /\ match_index' = [match_index EXCEPT ![i] = nothing]
      /\ log' = [log EXCEPT ![i] = entries]
      /\ AdvanceCommit(i, t, entries, nothing)
      /\ BroadcastAppend(i)
  BY DEF BecomeLeader
<1>2. noop \in Entry
  BY DEF Entry, Term
<1>3. /\ entries \in Seq(Entry) /\ Len(log[i]) \in Nat
      /\ Len(entries) = Len(log[i]) + 1
  BY <1>2, AppendProperties, LenProperties DEF TypeOK
<1>4. /\ term'[i] = t /\ log'[i] = entries /\ match_index'[i] = nothing
      /\ next_index'[i] = [p \in Node |-> Len(log[i]) + 1]
  BY <1>1 DEF TypeOK
<1> HIDE DEF entries, nothing
<1>5. SettledAt(i)'
  BY <1>1, <1>3, <1>4, AdvanceSettles
<1>6. InRange(i)'
  BY <1>3, <1>4 DEF InRange, nothing
<1>7. Elsewhere(i)
  BY <1>1, CommitElsewhere DEF Elsewhere, TypeOK
<1> QED
  BY <1>1, <1>5, <1>6, <1>7, BroadcastToOthers DEF OwnStep, LeadsWell

\* What a leader reads of its own state, if it stays leader.
Leading(i) == <<term[i], log[i], commit_index[i], next_index[i], match_index[i]>>

\* A node that leads on with what it had leads as well as it did.
LEMMA LeadsOn ==
  ASSUME NEW i \in Node, LeadsWell(i),
         role'[i] = Leader => role[i] = Leader /\ Leading(i)' = Leading(i)
  PROVE  LeadsWell(i)'
BY DEF LeadsWell, Leading, InRange, SettledAt, Committable, IsQuorum

LEMMA TimeoutOwn ==
  ASSUME TypeOK, NEW i \in Node, LeadsWell(i)
  PROVE  /\ Campaign(i) => OwnStep(i)
         /\ CampaignAlone(i) => OwnStep(i)
         /\ Heartbeat(i) => OwnStep(i)
<1>1. ASSUME Campaign(i) PROVE OwnStep(i)
  <2>1. role'[i] # Leader
    BY <1>1 DEF Campaign, TypeOK, Candidate, Leader
  <2>2. Elsewhere(i)
    BY <1>1 DEF Campaign, StartElection, Elsewhere, TypeOK, indices, cursors
  <2>3. SendsToOthers
    BY <1>1 DEF Campaign, Send, SendsToOthers
  <2> QED
    BY <2>1, <2>2, <2>3 DEF OwnStep, LeadsWell
<1>2. ASSUME CampaignAlone(i) PROVE OwnStep(i)
  <2>1. /\ BecomeLeader(i, term[i] + 1, SelfVote(i)) /\ live' = live
        /\ term' = [term EXCEPT ![i] = term[i] + 1]
    BY <1>2 DEF CampaignAlone, StartElection
  <2>2. term[i] + 1 \in Nat
    BY DEF TypeOK, Term
  <2> QED
    BY <2>1, <2>2, BecomeLeaderIsGood
<1>3. ASSUME Heartbeat(i) PROVE OwnStep(i)
  <2>1. /\ UNCHANGED <<live, memory, role, indices, cursors>>
        /\ BroadcastAppend(i)
    BY <1>3 DEF Heartbeat
  <2>2. LeadsWell(i)' /\ Elsewhere(i)
    BY <2>1, LeadsOn DEF Leading, Elsewhere, memory, indices, cursors
  <2> QED
    BY <2>1, <2>2, BroadcastToOthers DEF OwnStep
<1> QED
  BY <1>1, <1>2, <1>3

LEMMA ProposeOwn ==
  ASSUME TypeOK, NEW i \in Node, LeadsWell(i),
         NEW command \in Command \cup {Noop}, Propose(i, command)
  PROVE  OwnStep(i)
<1> DEFINE e       == [term |-> term[i], command |-> command]
           entries == Append(log[i], e)
<1>1. /\ role[i] = Leader /\ BroadcastAppend(i)
      /\ log' = [log EXCEPT ![i] = entries]
      /\ AdvanceCommit(i, term[i], entries, match_index[i])
      /\ UNCHANGED <<live, term, role, next_index, match_index>>
  BY DEF Propose, cursors
<1>2. e \in Entry
  BY DEF TypeOK, Entry
<1>3. /\ entries \in Seq(Entry) /\ Len(log[i]) \in Nat
      /\ Len(entries) = Len(log[i]) + 1
  BY <1>2, AppendProperties, LenProperties DEF TypeOK
<1>4. log'[i] = entries /\ term'[i] = term[i] /\ match_index'[i] = match_index[i]
  BY <1>1 DEF TypeOK
<1> HIDE DEF entries
<1>5. SettledAt(i)'
  BY <1>1, <1>3, <1>4, AdvanceSettles
<1>6. next_index[i] \in [Node -> Nat]
  BY DEF TypeOK, Index
<1>7. InRange(i)'
  BY <1>1, <1>3, <1>4, <1>6 DEF LeadsWell, InRange
<1>8. Elsewhere(i)
  BY <1>1, CommitElsewhere DEF Elsewhere, TypeOK
<1> QED
  BY <1>1, <1>5, <1>7, <1>8, BroadcastToOthers DEF OwnStep, LeadsWell

LEMMA CrashOwn ==
  ASSUME TypeOK, NEW i \in Node, Crash(i) \/ Restart(i)
  PROVE  OwnStep(i)
<1>1. /\ live' = live \ {i} \/ live' = live \cup {i}
      /\ wire' = wire /\ FreshVolatile(i)
      /\ \E d : Remember(i, d)
  BY DEF Crash, CrashWith, Restart
<1>2. role'[i] # Leader
  BY <1>1 DEF FreshVolatile, TypeOK, Follower, Leader
<1>3. Elsewhere(i)
  BY <1>1 DEF FreshVolatile, Remember, Elsewhere, TypeOK
<1> QED
  BY <1>1, <1>2, <1>3 DEF OwnStep, LeadsWell, SendsToOthers

LEMMA VoteOwn ==
  ASSUME TypeOK, NEW i \in Node, LeadsWell(i), NEW m \in Message
  PROVE  /\ GrantVote(i, m) \/ DenyVote(i, m) => OwnStep(i)
         /\ CountVote(i, m) => OwnStep(i)
         /\ WinElection(i, m) => OwnStep(i)
         /\ StepDown(i, m) => OwnStep(i)
<1>1. ASSUME GrantVote(i, m) \/ DenyVote(i, m) PROVE OwnStep(i)
  <2>1. /\ OnRequestVote(i, m)
        /\ \E granted : wire' = wire \cup {VoteReply(i, m, granted)}
    BY <1>1 DEF GrantVote, DenyVote, Send
  <2>2. /\ term' = [term EXCEPT ![i] = TermAfter(i, m)]
        /\ role' = [role EXCEPT ![i] = RoleAfter(i, m)]
        /\ UNCHANGED <<live, log, commit_index, next_index, match_index>>
        /\ m.from # i
    BY <1>1, <2>1 DEF GrantVote, DenyVote, OnRequestVote, Deliverable, indices, cursors
  <2>3. role'[i] = Leader => role[i] = Leader /\ term'[i] = term[i]
    BY <2>2 DEF TypeOK, RoleAfter, TermAfter, Follower, Leader
  <2>4. LeadsWell(i)'
    BY <2>2, <2>3, LeadsOn DEF Leading
  <2>5. Elsewhere(i)
    BY <2>2 DEF Elsewhere, TypeOK
  <2>6. \A granted : VoteReply(i, m, granted).from # VoteReply(i, m, granted).to
    BY <2>2 DEF VoteReply
  <2> QED
    BY <2>1, <2>4, <2>5, <2>6 DEF OwnStep, SendsToOthers
<1>2. ASSUME CountVote(i, m) PROVE OwnStep(i)
  <2>1. UNCHANGED <<live, term, log, role, commit_index, cursors, wire>>
    BY <1>2 DEF CountVote, OnVoteResponse
  <2>2. LeadsWell(i)' /\ Elsewhere(i)
    BY <2>1, LeadsOn DEF Leading, Elsewhere, cursors
  <2> QED
    BY <2>1, <2>2 DEF OwnStep, SendsToOthers
<1>3. ASSUME WinElection(i, m) PROVE OwnStep(i)
  <2>1. /\ BecomeLeader(i, term[i], disk[i]) /\ live' = live
        /\ term' = [term EXCEPT ![i] = term[i]] /\ term[i] \in Nat
    BY <1>3 DEF WinElection, OnVoteResponse, TypeOK, Term
  <2> QED
    BY <2>1, BecomeLeaderIsGood
<1>4. ASSUME StepDown(i, m) PROVE OwnStep(i)
  <2>1. /\ term' = [term EXCEPT ![i] = m.term]
        /\ role' = [role EXCEPT ![i] = Follower]
        /\ UNCHANGED <<live, log, commit_index, next_index, match_index, wire>>
    BY <1>4 DEF StepDown, indices, cursors
  <2>2. role'[i] # Leader
    BY <2>1 DEF TypeOK, Follower, Leader
  <2>3. Elsewhere(i)
    BY <2>1 DEF Elsewhere, TypeOK
  <2> QED
    BY <2>1, <2>2, <2>3 DEF OwnStep, LeadsWell, SendsToOthers
<1> QED
  BY <1>1, <1>2, <1>3, <1>4

LEMMA FollowOwn ==
  ASSUME TypeOK, NEW i \in Node, LeadsWell(i), NEW m \in Message
  PROVE  /\ RejectStale(i, m) => OwnStep(i)
         /\ RejectAppend(i, m) => OwnStep(i)
         /\ AcceptKnown(i, m) \/ AcceptNew(i, m) => OwnStep(i)
<1>1. m.from # i => \A s, n : AppendReply(i, m, s, n).from # AppendReply(i, m, s, n).to
  BY DEF AppendReply
<1>2. FollowLeader(i, m) =>
        /\ role'[i] # Leader /\ m.from # i
        /\ \A j \in Node \ {i} :
             role'[j] = role[j] /\ term'[j] = term[j]
        /\ UNCHANGED <<live, next_index, match_index>>
  BY DEF FollowLeader, Deliverable, TypeOK, Follower, Leader, cursors
<1>3. ASSUME RejectStale(i, m) PROVE OwnStep(i)
  <2>1. /\ UNCHANGED <<live, term, log, role, commit_index, next_index, match_index>>
        /\ wire' = wire \cup {AppendReply(i, m, FALSE, 0)} /\ m.from # i
    BY <1>3 DEF RejectStale, Deliverable, Send, memory, indices, cursors
  <2>2. LeadsWell(i)' /\ Elsewhere(i)
    BY <2>1, LeadsOn DEF Leading, Elsewhere
  <2> QED
    BY <1>1, <2>1, <2>2 DEF OwnStep, SendsToOthers
<1>4. ASSUME RejectAppend(i, m) PROVE OwnStep(i)
  <2>1. /\ FollowLeader(i, m) /\ UNCHANGED <<log, commit_index>>
        /\ wire' = wire \cup {AppendReply(i, m, FALSE, Hint(i, m))}
    BY <1>4 DEF RejectAppend, Send
  <2>2. Elsewhere(i)
    BY <1>2, <2>1 DEF Elsewhere
  <2> QED
    BY <1>1, <1>2, <2>1, <2>2 DEF OwnStep, LeadsWell, SendsToOthers
<1>5. ASSUME AcceptKnown(i, m) \/ AcceptNew(i, m) PROVE OwnStep(i)
  <2>1. /\ FollowLeader(i, m)
        /\ commit_index' = [commit_index EXCEPT ![i] = CommitAfter(i, m)]
        /\ wire' = wire \cup {AppendReply(i, m, TRUE, Matched(i, m))}
    BY <1>5 DEF AcceptKnown, AcceptNew, AcceptAppend, Send
  <2>2. \A j \in Node \ {i} : log'[j] = log[j]
    BY <1>5 DEF AcceptKnown, AcceptNew, Splice, TypeOK
  <2>3. Elsewhere(i)
    BY <1>2, <2>1, <2>2 DEF Elsewhere, TypeOK
  <2> QED
    BY <1>1, <1>2, <2>1, <2>3 DEF OwnStep, LeadsWell, SendsToOthers
<1> QED
  BY <1>3, <1>4, <1>5

LEMMA AckOwn ==
  ASSUME TypeOK, NEW i \in Node, LeadsWell(i), NEW m \in Message
  PROVE  AckSuccess(i, m) \/ AckFailure(i, m) => OwnStep(i)
<1>1. ASSUME OnAppendResponse(i, m)
      PROVE  /\ UNCHANGED <<live, term, log, role>>
             /\ InRange(i) /\ SettledAt(i)
             /\ i # m.from /\ m.from \in Node
             /\ AppendFor(i, m.from)'.from # AppendFor(i, m.from)'.to
  <2>1. /\ UNCHANGED <<live, term, log, role>> /\ role[i] = Leader /\ i # m.from
    BY <1>1 DEF OnAppendResponse, Deliverable, memory
  <2>2. m.from \in Node
    BY MessageFields
  <2> QED
    BY <2>1, <2>2 DEF AppendFor, LeadsWell
<1>2. ASSUME AckSuccess(i, m) PROVE OwnStep(i)
  <2> DEFINE acked == [match_index[i] EXCEPT ![m.from] = Acknowledged(i, m)]
  <2>1. /\ OnAppendResponse(i, m)
        /\ match_index' = [match_index EXCEPT ![i] = acked]
        /\ next_index' = [next_index EXCEPT ![i][m.from] = acked[m.from] + 1]
        /\ AdvanceCommit(i, term[i], log[i], acked)
        /\ wire' = wire \/ wire' = wire \cup {AppendFor(i, m.from)'}
    BY <1>2 DEF AckSuccess, Send
  <2>2. InRange(i)'
    BY <1>1, <1>2, <2>1, AckRange
  <2>3. match_index'[i] = acked /\ log[i] \in Seq(Entry)
    BY <2>1 DEF TypeOK
  <2> HIDE DEF acked
  <2>4. SettledAt(i)'
    BY <1>1, <2>1, <2>3, AdvanceSettles
  <2>5. Elsewhere(i)
    BY <1>1, <2>1, CommitElsewhere DEF Elsewhere, TypeOK
  <2> QED
    BY <1>1, <2>1, <2>2, <2>4, <2>5 DEF OwnStep, LeadsWell, SendsToOthers
<1>3. ASSUME AckFailure(i, m) PROVE OwnStep(i)
  <2>1. /\ OnAppendResponse(i, m) /\ UNCHANGED <<commit_index, match_index>>
        /\ next_index' = [next_index EXCEPT ![i][m.from] = BackedUp(i, m)]
        /\ wire' = wire \cup {AppendFor(i, m.from)'}
    BY <1>3 DEF AckFailure, Send
  <2>2. InRange(i)'
    BY <1>1, <1>3, <2>1, AckRange
  <2>3. SettledAt(i)'
    BY <1>1, <2>1 DEF SettledAt, Committable, IsQuorum
  <2>4. Elsewhere(i)
    BY <1>1, <2>1 DEF Elsewhere, TypeOK
  <2> QED
    BY <1>1, <2>1, <2>2, <2>3, <2>4 DEF OwnStep, LeadsWell, SendsToOthers
<1> QED
  BY <1>2, <1>3

-----------------------------------------------------------------------------
(* A node that is cut off: the invariant *)

\* What a node does of its own accord, or has done to it.
OwnEvent(i) ==
  \/ Campaign(i) \/ CampaignAlone(i) \/ Heartbeat(i)
  \/ \E command \in Command : Propose(i, command)
  \/ Crash(i) \/ Restart(i)

\* A step of the simulation is an event of one node, an arrival at one node, or
\* nothing to the nodes.
LEMMA StepHasActor ==
  ASSUME InFlight, WatchedNext
  PROVE  \/ \E i \in Node : OwnEvent(i)
         \/ \E f \in flying : /\ f.message.to \in Node
                              /\ Handle(f.message.to, f.message)
         \/ Unmoved /\ wire' \subseteq wire
<1> USE DEF WatchedNext
<1>1. CASE Chaos
  BY <1>1 DEF Chaos, InjectCrash, InjectRestart, InjectPartition, InjectHeal,
     InjectPropose, CrashAfterEvent, OwnEvent, Unmoved, vars, memory, indices,
     cursors
<1>2. CASE Route
  BY <1>2 DEF Route, Unmoved
<1>3. CASE AdvanceLinks \/ NextTick
  BY <1>3 DEF AdvanceLinks, NextTick, Unmoved, vars
<1>4. ASSUME NEW f \in flying, Arrive(f)
      PROVE  \/ f.message.to \in Node /\ Handle(f.message.to, f.message)
             \/ Unmoved /\ wire' \subseteq wire
  <2>1. CASE f.message.to \in live
    BY <1>4, <2>1 DEF Arrive, HandleArrival, Ignored, InFlight, Unmoved, vars
  <2>2. CASE f.message.to \notin live
    BY <1>4, <2>2 DEF Arrive, DropArrival, Unmoved, vars
  <2> QED
    BY <2>1, <2>2
<1>5. ASSUME NEW i \in Node, Tick(i)
      PROVE  OwnEvent(i) \/ (Unmoved /\ wire' \subseteq wire)
  BY <1>5 DEF Tick, FireTimer, OwnEvent, Unmoved, vars
<1>6. CASE Mischief
  BY <1>6 DEF Mischief, Lose, Repeat, Unmoved, vars
<1> QED
  BY <1>1, <1>2, <1>3, <1>4, <1>5, <1>6 DEF SimNext, Clockwork

\* The invariant, node by node.
LEMMA NodeByNode ==
  CursorsInRange /\ LeadersSettled <=> \A i \in live : LeadsWell(i)
BY DEF CursorsInRange, LeadersSettled, LeadsWell

LEMMA OwnEventGood ==
  ASSUME LinkInv, NEW i \in Node, OwnEvent(i)
  PROVE  TypeOK' /\ OwnStep(i)
<1>1. CASE Crash(i) \/ Restart(i)
  BY <1>1, CrashTypes, CrashOwn DEF LinkInv
<1>2. CASE ~(Crash(i) \/ Restart(i))
  <2>1. i \in live
    BY <1>2 DEF OwnEvent, Campaign, CampaignAlone, StartElection, Heartbeat, Propose
  <2>2. TypeOK /\ CursorsInRange /\ LeadsWell(i)
    BY <2>1, NodeByNode DEF LinkInv
  <2>3. TypeOK'
    BY <1>2, <2>2, CampaignTypes, LeaderTypes DEF OwnEvent
  <2>4. OwnStep(i)
    BY <1>2, <2>2, TimeoutOwn, ProposeOwn DEF OwnEvent
  <2> QED
    BY <2>3, <2>4
<1> QED
  BY <1>1, <1>2

LEMMA HandleGood ==
  ASSUME LinkInv, NEW i \in Node, NEW m \in Message, Handle(i, m)
  PROVE  TypeOK' /\ OwnStep(i)
<1>1. i \in live
  BY DEF Handle, GrantVote, DenyVote, OnRequestVote, CountVote, WinElection,
     OnVoteResponse, StepDown, RejectStale, RejectAppend, AcceptKnown,
     AcceptNew, AcceptAppend, FollowLeader, AckSuccess, AckFailure,
     OnAppendResponse, Deliverable
<1>2. TypeOK /\ CursorsInRange /\ LeadsWell(i)
  BY <1>1, NodeByNode DEF LinkInv
<1>3. TypeOK'
  BY <1>2, VoteTypes, FollowerTypes, AckTypes DEF Handle
<1>4. OwnStep(i)
  BY <1>2, VoteOwn, FollowOwn, AckOwn DEF Handle
<1> QED
  BY <1>3, <1>4

LEMMA LinkInvStep ==
  ASSUME LinkInv, InFlight, [WatchedNext]_allvars
  PROVE  LinkInv'
<1>1. ASSUME TypeOK', SendsToOthers, \A i \in live' : LeadsWell(i)',
             sent' = sent \cup wire'
      PROVE  LinkInv'
  <2>1. CursorsInRange' /\ LeadersSettled'
    BY <1>1 DEF CursorsInRange, LeadersSettled, LeadsWell
  <2>2. SentToOthers'
    BY <1>1 DEF LinkInv, SentToOthers, SendsToOthers, InFlight, TypeOK
  <2> QED
    BY <1>1, <2>1, <2>2 DEF LinkInv
<1>2. \A i \in live : LeadsWell(i)
  BY NodeByNode DEF LinkInv
<1>3. ASSUME NEW i \in Node, TypeOK', OwnStep(i), RecordSent PROVE LinkInv'
  <2>1. ASSUME NEW j \in live' \ {i} PROVE LeadsWell(j)'
    <3>1. j \in live /\ j \in Node /\ LeadsWell(j)
      BY <1>2, <1>3, <2>1 DEF OwnStep, Elsewhere, TypeOK
    <3>2. role'[j] = role[j] /\ Leading(j)' = Leading(j)
      BY <1>3, <2>1, <3>1 DEF OwnStep, Elsewhere, Leading
    <3> QED
      BY <3>1, <3>2, LeadsOn
  <2> QED
    BY <1>1, <1>3, <2>1 DEF OwnStep, RecordSent
<1>4. ASSUME Unmoved, wire' \subseteq wire, sent' = sent \cup wire' PROVE LinkInv'
  <2>1. TypeOK'
    BY <1>4 DEF LinkInv, TypeOK, Unmoved, memory, indices, cursors
  <2>2. \A j \in live' : LeadsWell(j)'
    <3>1. TAKE j \in live'
    <3>2. j \in Node /\ LeadsWell(j)
      BY <1>2, <1>4, <3>1 DEF Unmoved, LinkInv, TypeOK
    <3>3. role'[j] = role[j] /\ Leading(j)' = Leading(j)
      BY <1>4 DEF Unmoved, Leading, memory, indices, cursors
    <3> QED
      BY <3>2, <3>3, LeadsOn
  <2>3. SendsToOthers
    BY <1>4 DEF SendsToOthers
  <2> QED
    BY <1>1, <1>4, <2>1, <2>2, <2>3
<1>5. CASE UNCHANGED allvars
  <2>1. Unmoved /\ wire' \subseteq wire /\ sent' = sent \cup wire'
    BY <1>5 DEF allvars, simvars, vars, Unmoved, InFlight
  <2> QED
    BY <1>4, <2>1
<1>6. CASE WatchedNext
  <2>1. RecordSent
    BY <1>6 DEF WatchedNext
  <2>2. ASSUME NEW f \in flying PROVE f.message \in Message
    BY DEF InFlight, LinkInv, SentToOthers
  <2> QED
    BY <1>3, <1>4, <1>6, <2>1, <2>2, StepHasActor, OwnEventGood, HandleGood
    DEF RecordSent
<1> QED
  BY <1>5, <1>6

-----------------------------------------------------------------------------
(* A node that is cut off: it stalls *)

\* It commits nothing and wins no election.
Stalls(i) ==
  /\ commit_index'[i] <= commit_index[i]
  /\ role'[i] = Leader => role[i] = Leader

\* What a settled leader appends cannot be committed by its own replica, and
\* makes nothing before it committable.
LEMMA ProposeStalls ==
  ASSUME TypeOK, NEW i \in Node, LeadsWell(i), ~IsQuorum({i}),
         NEW command \in Command, Propose(i, command)
  PROVE  Stalls(i)
<1> DEFINE e       == [term |-> term[i], command |-> command]
           entries == Append(log[i], e)
           C       == Committable(i, term[i], entries, match_index[i])
<1>1. role[i] = Leader /\ AdvanceCommit(i, term[i], entries, match_index[i])
  BY DEF Propose
<1>2. InRange(i) /\ SettledAt(i)
  BY <1>1 DEF LeadsWell
<1>3. e \in Entry
  BY DEF TypeOK, Entry
<1>4. /\ Len(log[i]) \in Nat /\ Len(entries) = Len(log[i]) + 1
      /\ \A n \in 1 .. Len(log[i]) : entries[n] = log[i][n]
  BY <1>3, AppendProperties, LenProperties DEF TypeOK
<1>5. /\ commit_index[i] \in Nat
      /\ \A p \in Node \ {i} : /\ match_index[i][p] \in Nat
                               /\ match_index[i][p] <= Len(log[i])
  <2>1. /\ match_index[i] \in [Node -> Nat] /\ next_index[i] \in [Node -> Nat]
        /\ commit_index[i] \in Nat
    BY DEF TypeOK, Index
  <2> QED
    BY <1>2, <1>4, <2>1 DEF InRange
<1> HIDE DEF entries
<1>6. ASSUME NEW n \in C PROVE FALSE
  <2>1. /\ n \in commit_index[i] + 1 .. Len(entries)
        /\ \A q \in n .. Len(entries) : entries[q].term = term[i]
        /\ IsQuorum({i} \cup {p \in Node \ {i} : match_index[i][p] >= n})
    BY <1>6 DEF Committable
  <2>2. CASE n = Len(entries)
    <3>1. {p \in Node \ {i} : match_index[i][p] >= n} = {}
      BY <1>4, <1>5, <2>2
    <3> QED
      BY <2>1, <3>1
  <2>3. CASE n # Len(entries)
    <3>1. n \in commit_index[i] + 1 .. Len(log[i])
      BY <1>4, <1>5, <2>1, <2>3
    <3>2. \A q \in n .. Len(log[i]) : log[i][q].term = term[i]
      BY <1>4, <1>5, <2>1, <3>1
    <3>3. n \in Committable(i, term[i], log[i], match_index[i])
      BY <2>1, <3>1, <3>2 DEF Committable
    <3> QED
      BY <1>2, <3>3 DEF SettledAt
  <2> QED
    BY <2>2, <2>3
<1>7. C = {}
  BY <1>6
<1> HIDE DEF C
<1>8. commit_index' = [commit_index EXCEPT ![i] = commit_index[i]]
  BY <1>1, <1>7 DEF AdvanceCommit, C
<1> QED
  BY <1>1, <1>5, <1>8 DEF Stalls, TypeOK

LEMMA OwnEventStalls ==
  ASSUME LinkInv, NEW i \in Node, ~IsQuorum({i}), OwnEvent(i)
  PROVE  Stalls(i)
<1>1. TypeOK /\ commit_index[i] \in Nat
  BY DEF LinkInv, TypeOK, Index
<1>2. CASE Crash(i) \/ Restart(i)
  <2>1. FreshVolatile(i)
    BY <1>2 DEF Crash, CrashWith, Restart
  <2> QED
    BY <1>1, <2>1 DEF FreshVolatile, Stalls, TypeOK, Follower, Leader
<1>3. CASE Campaign(i)
  BY <1>1, <1>3 DEF Campaign, Stalls, TypeOK, Candidate, Leader, indices
<1>4. ~CampaignAlone(i)
  BY DEF CampaignAlone
<1>5. CASE Heartbeat(i)
  BY <1>1, <1>5 DEF Heartbeat, Stalls, indices
<1>6. ASSUME NEW command \in Command, Propose(i, command) PROVE Stalls(i)
  <2>1. LeadsWell(i)
    BY <1>6, NodeByNode DEF Propose, LinkInv
  <2> QED
    BY <1>1, <1>6, <2>1, ProposeStalls
<1> QED
  BY <1>2, <1>3, <1>4, <1>5, <1>6 DEF OwnEvent

\* Whatever another node does leaves it as it is.
LEMMA OtherStalls ==
  ASSUME LinkInv, NEW i \in Node, NEW k \in Node \ {i}, OwnStep(k)
  PROVE  Stalls(i)
<1>1. commit_index[i] \in Nat
  BY DEF LinkInv, TypeOK, Index
<1> QED
  BY <1>1 DEF OwnStep, Elsewhere, Stalls

\* No datagram to or from it gets into the channels.
LEMMA StaysIsolated ==
  ASSUME LinkInv, InFlight, WatchedNext, NEW i \in Node, Isolated(i), Severed(i)'
  PROVE  Isolated(i)'
<1>1. \A f \in flying : /\ f \in [message : sent, due : Int]
                        /\ i \notin {f.message.from, f.message.to}
  BY DEF Isolated, InFlight
<1>2. SUFFICES ASSUME NEW f \in flying'
               PROVE  i \notin {f.message.from, f.message.to}
  BY DEF Isolated
<1>3. CASE Route
  <2>1. PICK delay \in [Passing -> Delays] :
          flying' = flying \cup
            {[message |-> OnLink(m), due |-> Due(delay[m])] : m \in Passing}
    BY <1>3 DEF Route
  <2>2. ASSUME NEW m \in Passing PROVE i \notin {m.from, m.to}
    <3>1. m \in Message /\ m.from # m.to /\ <<m.from, m.to>> \notin blocked
      BY DEF Passing, InFlight, LinkInv, SentToOthers
    <3>2. m.from \in Node /\ m.to \in Node
      BY <3>1, MessageFields
    <3> QED
      BY <3>1, <3>2 DEF Isolated, Severed
  <2> QED
    BY <1>1, <2>1, <2>2 DEF OnLink
<1>4. CASE AdvanceLinks
  BY <1>1, <1>4 DEF AdvanceLinks
<1>5. CASE \E g \in flying : Arrive(g) \/ Lose(g)
  BY <1>1, <1>5 DEF Arrive, Lose
<1>6. CASE \E g \in flying : Repeat(g)
  <2>1. PICK g \in flying, d \in Delays :
          flying' = flying \cup {[g EXCEPT !.due = @ + d]}
    BY <1>6 DEF Repeat
  <2>2. [g EXCEPT !.due = @ + d].message = g.message
    BY <1>1, <2>1
  <2> QED
    BY <1>1, <2>1, <2>2
<1>7. CASE Chaos \/ NextTick \/ \E k \in Node : Tick(k)
  BY <1>1, <1>7 DEF Chaos, InjectCrash, InjectRestart, InjectPartition,
     InjectHeal, InjectPropose, CrashAfterEvent, NextTick, Tick, network
<1> QED
  BY <1>3, <1>4, <1>5, <1>6, <1>7 DEF WatchedNext, SimNext, Clockwork, Mischief

LEMMA CutOffStep ==
  ASSUME LinkInv, InFlight, WatchedNext, NEW i \in Node, Isolated(i),
         Severed(i)', Cardinality(Node) > 1
  PROVE  Isolated(i)' /\ Stalls(i)
<1>1. ~IsQuorum({i})
  BY NotAlone
<1>2. ASSUME NEW k \in Node, OwnEvent(k) PROVE Stalls(i)
  BY <1>1, <1>2, OwnEventStalls, OwnEventGood, OtherStalls
<1>3. ASSUME NEW f \in flying, f.message.to \in Node, Handle(f.message.to, f.message)
      PROVE  Stalls(i)
  <2>1. f.message \in Message /\ f.message.to # i
    BY DEF InFlight, LinkInv, SentToOthers, Isolated
  <2> QED
    BY <1>3, <2>1, HandleGood, OtherStalls
<1>4. ASSUME Unmoved PROVE Stalls(i)
  <2>1. commit_index[i] \in Nat
    BY DEF LinkInv, TypeOK, Index
  <2> QED
    BY <1>4, <2>1 DEF Unmoved, Stalls, indices
<1> QED
  BY <1>2, <1>3, <1>4, StaysIsolated, StepHasActor

LEMMA LinkInvInit == WatchedInit => LinkInv /\ InFlight
<1>1. SUFFICES ASSUME WatchedInit PROVE LinkInv
  BY InitMaps
<1>2. TypeOK /\ role = [i \in Node |-> Follower]
  <2>1. Init
    BY <1>1 DEF WatchedInit, SimInit
  <2> QED
    BY <2>1, TypeInit DEF Init
<1>3. LeadersSettled /\ CursorsInRange
  BY <1>2 DEF LeadersSettled, CursorsInRange, TypeOK, Follower, Leader
<1> QED
  BY <1>1, <1>2, <1>3 DEF WatchedInit, LinkInv, SentToOthers

\* In every simulation the state has its types, the cursors of a leader are in
\* range and it has committed whatever its match indices allow.
THEOREM LinkInvHolds == WatchedSpec => []LinkInv
<1>1. WatchedInit => LinkInv /\ InFlight
  BY LinkInvInit
<1>2. LinkInv /\ InFlight /\ [WatchedNext]_allvars => LinkInv' /\ InFlight'
  BY LinkInvStep, InFlightStep
<1> QED
  BY <1>1, <1>2, PTL DEF WatchedSpec, allvars

\* CutOffNodeStalls: behind cut links, in clusters of any size and with any
\* timeouts, a node campaigns and is proposed to in vain.
THEOREM CutOffNodesStall == WatchedSpec => CutOffNodeStalls
<1>1. WatchedInit => LinkInv /\ InFlight
  BY LinkInvInit
<1>2. LinkInv /\ InFlight /\ [WatchedNext]_allvars => LinkInv' /\ InFlight'
  BY LinkInvStep, InFlightStep
<1>3. LinkInv /\ InFlight /\ [WatchedNext]_allvars
        => [\A i \in Node : Isolated(i) /\ Severed(i)' /\ Cardinality(Node) > 1 =>
              /\ Isolated(i)'
              /\ commit_index'[i] <= commit_index[i]
              /\ role'[i] = Leader => role[i] = Leader]_simvars
  BY CutOffStep DEF Stalls, allvars
<1> QED
  BY <1>1, <1>2, <1>3, PTL DEF WatchedSpec, CutOffNodeStalls, allvars
=============================================================================
