----------------------------- MODULE SimCluster -----------------------------
(***************************************************************************)
(* The simulated cluster (crates/sim/src/cluster.rs): nodes with timers,   *)
(* one channel per directed link, partitions, and step(), which advances   *)
(* virtual time by one tick: injected events in a fixed order, then the    *)
(* arrivals by sender and receiver, then every node's timers.              *)
(*                                                                         *)
(* One action is one event of a tick; a handler and the routing of what it *)
(* returned are two actions, between which the node may be crashed.  wire  *)
(* holds only what the handler that has just run returned.                 *)
(*                                                                         *)
(* A channel (the channel crate, not part of the repository) delivers a    *)
(* datagram after some of Delays ticks, in no particular order, and may    *)
(* lose or repeat one in flight, at most MaxMischief times in all.  Copies *)
(* of one message that arrive in the same tick are handled once.           *)
(***************************************************************************)
EXTENDS Raft

CONSTANTS
  MinTimeout, MaxTimeout,   \* election_timeout
  HeartbeatInterval,
  LuckyTerm,                \* from this term on, timeouts are favourable:
  LuckySpread,              \*   the better the log, the sooner, by this much
  Delays, MaxMischief       \* the channels

\* NodeId is an integer, which fixes the order in which nodes are looked at.
ASSUME IdAssumption == Node \subseteq Nat

\* Node::new's assertion; a clock that ticks; channels that take time.
ASSUME ClockAssumption ==
  /\ MinTimeout \in Nat \ {0} /\ MaxTimeout \in Nat /\ MinTimeout <= MaxTimeout
  /\ HeartbeatInterval \in Nat /\ LuckySpread \in Nat
  /\ Delays \subseteq Nat \ {0}

VARIABLES
  stage,          \* how far step() has got
  ticked,         \* the nodes whose tick() it has called
  busy,           \* the node whose messages are not routed yet
  election_in,    \* per node: election_deadline - now, 0 once it has passed
  heartbeat_in,   \* per node: heartbeat_deadline - now
  flying,         \* the datagrams in the channels, with their remaining delay
  blocked,        \* the links that are cut
  mischief        \* datagrams lost or repeated so far

timers  == <<election_in, heartbeat_in>>
network == <<flying, blocked, mischief>>
driver  == <<stage, ticked, busy>>
simvars == <<vars, timers, network, driver>>

\* The stages of a tick; a tick that has passed one does not go back to it.
Crashing     == 1
Restarting   == 2
Partitioning == 3
Healing      == 4
Proposing    == 5
Advancing    == 6
Arriving     == 7
Ticking      == 8

-----------------------------------------------------------------------------
(* Timers *)

\* Whose log is better, ids breaking ties: how favourable timeouts are ordered.
Better(i, j) ==
  \/ LastTerm(log[i]) > LastTerm(log[j])
  \/ /\ LastTerm(log[i]) = LastTerm(log[j])
     /\ \/ Len(log[i]) > Len(log[j])
        \/ Len(log[i]) = Len(log[j]) /\ i < j

Behind(i) == Cardinality({j \in Node : Better(j, i)})

\* The timeouts node i may draw, in the state its handler leaves behind: any,
\* or the favourable one.
Draws(i) ==
  IF term[i] < LuckyTerm THEN MinTimeout .. MaxTimeout
  ELSE {Lower(MinTimeout + LuckySpread * Behind(i), MaxTimeout)}

ResetElectionTimer(i) ==
  \E d \in Draws(i)' : election_in' = [election_in EXCEPT ![i] = d]

\* Mutant of Resets: hearing from the leader does not put off an election.
ResetsNotOnAppend(i, m) ==
  \/ Newer(i, m)
  \/ m.kind = "RequestVote" /\ Grantable(i, m)

\* The messages that make node i start waiting anew: of a newer term, a request
\* it grants, the current leader's.
Resets(i, m) ==
  \/ Newer(i, m)
  \/ m.kind = "RequestVote" /\ Grantable(i, m)
  \/ m.kind = "AppendEntries" /\ Current(i, m)

\* become_leader starts the heartbeats, whoever it is called by.
ResetHeartbeat(i) ==
  heartbeat_in' = [heartbeat_in EXCEPT ![i] =
                     IF role'[i] = Leader /\ role[i] # Leader
                     THEN HeartbeatInterval ELSE @]

-----------------------------------------------------------------------------
(* Injected events, each at most once per tick and in this order *)

Inject(s) ==
  /\ stage <= s /\ busy = Nil
  /\ stage' = s + 1
  /\ UNCHANGED ticked

\* The timers of a node that is gone do not matter.
StopTimers(i) ==
  /\ election_in' = [election_in EXCEPT ![i] = 0]
  /\ heartbeat_in' = [heartbeat_in EXCEPT ![i] = 0]

InjectCrash(i) ==
  /\ Inject(Crashing)
  /\ Crash(i)
  /\ StopTimers(i)
  /\ UNCHANGED <<network, busy>>

InjectRestart(i) ==
  /\ Inject(Restarting)
  /\ Restart(i)
  /\ ResetElectionTimer(i)
  /\ UNCHANGED <<heartbeat_in, network, busy>>

\* The links between the two sides are cut in both directions.
CutBetween(side) == {l \in Node \X Node : (l[1] \in side) # (l[2] \in side)}

InjectPartition(side) ==
  /\ Inject(Partitioning)
  /\ blocked' = CutBetween(side)
  /\ UNCHANGED <<vars, timers, flying, mischief, busy>>

InjectHeal ==
  /\ Inject(Healing)
  /\ blocked' = {}
  /\ UNCHANGED <<vars, timers, flying, mischief, busy>>

\* Cluster::leader: the live leader of the highest term.
IsTopLeader(i) ==
  /\ i \in live /\ role[i] = Leader
  /\ \A j \in live : role[j] = Leader => term[j] <= term[i]

InjectPropose(i, command) ==
  /\ Inject(Proposing)
  /\ IsTopLeader(i)
  /\ Propose(i, command)
  /\ busy' = i
  /\ UNCHANGED <<timers, network>>

-----------------------------------------------------------------------------
(* Messages *)

\* Mutant of Passing: partitions are not looked at.
PassingAll == wire

\* What route() hands to the channels, unless the node was crashed first.
Passing == {m \in wire : busy \in live /\ <<m.from, m.to>> \notin blocked}

\* Mutant of OnLink: the link is looked up the wrong way round.
OnLinkBack(m) == [m EXCEPT !.from = m.to, !.to = m.from]

\* What comes out of the link m is put on: the datagram, whose sender and
\* receiver are the link's.
OnLink(m) == m

\* Mutant of Due: the clock of a link lags while arrivals are handled.
DueStale(delay) == IF stage = Arriving THEN delay - 1 ELSE delay

\* When it comes out: every link's clock shows the current tick.
Due(delay) == delay

Route ==
  /\ busy # Nil
  /\ busy' = Nil
  /\ wire' = {}
  /\ \E delay \in [Passing -> Delays] :
       flying' = flying \cup
         {[message |-> OnLink(m), due |-> Due(delay[m])] : m \in Passing}
  /\ UNCHANGED <<disk, live, memory, role, leader_id, indices, votes, cursors>>
  /\ UNCHANGED <<timers, blocked, mischief, stage, ticked>>

\* The channels' clocks move on before anything that arrives is handled.
AdvanceLinks ==
  /\ stage <= Advancing /\ busy = Nil
  /\ stage' = Arriving
  /\ flying' = {[f EXCEPT !.due = @ - 1] : f \in flying}
  /\ UNCHANGED <<vars, timers, blocked, mischief, ticked, busy>>

Arrived == {f \in flying : f.due = 0}

Before(f, g) ==
  \/ f.message.from < g.message.from
  \/ f.message.from = g.message.from /\ f.message.to < g.message.to

\* handle() returns nothing and changes nothing: a vote that does not count, an
\* answer to a leader of the past.
Ignored(i, m) ==
  /\ Deliverable(i, m) /\ ~Newer(i, m)
  /\ \/ m.kind = "VoteResponse" /\ ~VoteCounts(i, m)
     \/ m.kind = "AppendResponse" /\ (role[i] # Leader \/ m.term # term[i])
  /\ UNCHANGED vars

HandleArrival(i, m) ==
  /\ Handle(i, m) \/ Ignored(i, m)
  /\ IF Resets(i, m) THEN ResetElectionTimer(i) ELSE UNCHANGED election_in
  /\ ResetHeartbeat(i)
  /\ busy' = i

DropArrival == UNCHANGED <<vars, timers, busy>>

Arrive(f) ==
  /\ stage = Arriving /\ busy = Nil
  /\ f \in Arrived /\ \A g \in Arrived : ~Before(g, f)
  /\ flying' = flying \ {f}
  /\ IF f.message.to \in live THEN HandleArrival(f.message.to, f.message)
     ELSE DropArrival
  /\ UNCHANGED <<blocked, mischief, stage, ticked>>

\* crash_after_event: what the handler returned is lost with the node.
CrashAfterEvent(i) ==
  /\ stage = Arriving /\ busy = i
  /\ Crash(i)
  /\ StopTimers(i)
  /\ UNCHANGED <<network, driver>>

\* The channel's faults, which show when a datagram arrives; a corrupted one is
\* a lost one.
Misbehave(f) ==
  /\ stage = Arriving /\ busy = Nil /\ f \in Arrived
  /\ mischief < MaxMischief
  /\ mischief' = mischief + 1

Lose(f) ==
  /\ Misbehave(f)
  /\ flying' = flying \ {f}
  /\ UNCHANGED <<vars, timers, blocked, driver>>

Repeat(f) ==
  /\ Misbehave(f)
  /\ \E d \in Delays : flying' = flying \cup {[f EXCEPT !.due = @ + d]}
  /\ UNCHANGED <<vars, timers, blocked, driver>>

-----------------------------------------------------------------------------
(* tick() for every node that is up, in the order of their ids *)

\* Mutant of NewHeartbeat: the next heartbeat is never due.
NewHeartbeatNever == MaxTimeout + 1

NewHeartbeat == HeartbeatInterval

\* A deadline has passed.
FireTimer(i) ==
  \/ /\ heartbeat_in[i] = 0
     /\ Heartbeat(i)
     /\ heartbeat_in' = [heartbeat_in EXCEPT ![i] = NewHeartbeat]
     /\ UNCHANGED election_in
  \/ /\ election_in[i] = 0
     /\ Campaign(i) \/ CampaignAlone(i)
     /\ ResetElectionTimer(i)
     /\ ResetHeartbeat(i)

\* No deadline has.
NotDue(i) ==
  IF i \notin live THEN TRUE
  ELSE IF role[i] = Leader THEN heartbeat_in[i] > 0 ELSE election_in[i] > 0

Tick(i) ==
  /\ stage \in {Arriving, Ticking} /\ busy = Nil
  /\ Arrived = {}
  /\ i \notin ticked /\ \A j \in Node \ ticked : i <= j
  /\ stage' = Ticking
  /\ ticked' = ticked \cup {i}
  /\ \/ FireTimer(i) /\ busy' = i
     \/ NotDue(i) /\ UNCHANGED <<vars, timers, busy>>
  /\ UNCHANGED network

\* The tick is over, and the next one begins: every deadline is nearer.
Sooner(deadline) == [i \in Node |-> IF deadline[i] = 0 THEN 0 ELSE deadline[i] - 1]

NextTick ==
  /\ ticked = Node /\ busy = Nil
  /\ stage' = Crashing
  /\ ticked' = {}
  /\ election_in' = Sooner(election_in)
  /\ heartbeat_in' = Sooner(heartbeat_in)
  /\ UNCHANGED <<vars, network, busy>>

-----------------------------------------------------------------------------

\* A node that boots between two calls of step() draws its timeout while the
\* clock still shows the tick before.
DrawnBefore(timeouts) == {d - 1 : d \in timeouts}

SimInit ==
  /\ Init
  /\ election_in \in [Node -> DrawnBefore(MinTimeout .. MaxTimeout)]
  /\ heartbeat_in = [i \in Node |-> 0]
  /\ flying = {} /\ blocked = {} /\ mischief = 0
  /\ stage = Crashing /\ ticked = {} /\ busy = Nil

Chaos ==
  \/ \E i \in Node : InjectCrash(i) \/ InjectRestart(i) \/ CrashAfterEvent(i)
  \/ \E side \in SUBSET Node : InjectPartition(side)
  \/ InjectHeal
  \/ \E i \in Node, command \in Command : InjectPropose(i, command)

Clockwork ==
  \/ Route \/ AdvanceLinks \/ NextTick
  \/ \E f \in flying : Arrive(f)
  \/ \E i \in Node : Tick(i)

Mischief == \E f \in flying : Lose(f) \/ Repeat(f)

SimNext == Chaos \/ Clockwork \/ Mischief

SimSpec == SimInit /\ [][SimNext]_simvars

-----------------------------------------------------------------------------
(* Properties *)

\* All links of node i are cut and what was in flight on them has drained.
Severed(i) == \A j \in Node \ {i} : {<<i, j>>, <<j, i>>} \subseteq blocked

Isolated(i) ==
  /\ Severed(i)
  /\ \A f \in flying : i \notin {f.message.from, f.message.to}

\* A partition drops what is sent while it lasts (route): once the datagrams
\* already under way have drained, a node that is cut off neither hears nor is
\* heard until the heal, however often it campaigns, beats or is proposed to;
\* until then it commits nothing and wins no election.
CutOffNodeStalls ==
  [][\A i \in Node : Isolated(i) /\ Severed(i)' /\ Cardinality(Node) > 1 =>
       /\ Isolated(i)'
       /\ commit_index'[i] <= commit_index[i]
       /\ role'[i] = Leader => role[i] = Leader]_simvars

\* What a handler sends never arrives in the same tick, or a round trip over
\* one-tick links could take no time at all (safety.rs, "replies sent while
\* handling an arrival used to be stamped with a stale link clock").
NothingArrivesMidTick ==
  [][stage = Arriving => Arrived' \subseteq Arrived]_simvars

=============================================================================
