---------------------------- MODULE SimLiveness -----------------------------
(***************************************************************************)
(* The cluster after the storm (crates/sim/tests/liveness.rs): at some     *)
(* tick quiesce() heals the network, restarts every node that is down and  *)
(* ends the injected events; from then on the driver steps the cluster     *)
(* while it gets one marker command committed on every node, proposing it  *)
(* again whenever no log holds it.                                         *)
(*                                                                         *)
(* Fairness.  The driver's loop calls step() again and again, and step()   *)
(* runs to its end: weak fairness of what the driver does next, and        *)
(* nothing about which message is lost or which timeout is drawn.  Neither *)
(* may go wrong for ever, their probabilities being below one: at most     *)
(* MaxMischief datagrams are lost or repeated, and from LuckyTerm on the   *)
(* timeouts drawn keep candidates apart.                                   *)
(***************************************************************************)
EXTENDS SimCluster

CONSTANTS
  Marker,           \* the command the driver wants committed
  HighestTerm       \* the term after which no election is needed

ASSUME MarkerAssumption == Marker \in Command

VARIABLE storm      \* quiesce() has not been called yet

Holds(entries) == \E n \in 1 .. Len(entries) : entries[n].command = Marker

\* Between two calls of step().
BetweenSteps == stage = Crashing /\ ticked = {} /\ busy = Nil

-----------------------------------------------------------------------------

Storm == storm /\ SimNext /\ UNCHANGED storm

\* quiesce() heals at once and then boots, one after the other, the nodes that
\* are down.
Quiesce ==
  /\ storm /\ BetweenSteps
  /\ storm' = FALSE
  /\ blocked' = {}
  /\ UNCHANGED <<vars, timers, flying, mischief, driver>>

Boot(i) ==
  /\ ~storm
  /\ i \notin live /\ \A j \in Node \ live : i <= j
  /\ Restart(i)
  /\ \E d \in DrawnBefore(Draws(i)') : election_in' = [election_in EXCEPT ![i] = d]
  /\ UNCHANGED <<heartbeat_in, network, driver, storm>>

\* The driver proposes the marker before it steps, if no log holds it and there
\* is a leader; otherwise it steps.  It retries at every tick, where the source
\* lets fifty ticks pass in between.
Wanted == BetweenSteps /\ \A i \in Node : ~Holds(log[i])

Submit ==
  /\ Wanted
  /\ \E i \in Node : InjectPropose(i, Marker)

Step ==
  /\ Wanted => \A i \in Node : ~IsTopLeader(i)
  /\ Clockwork \/ Mischief

Calm ==
  \/ \E i \in Node : Boot(i)
  \/ /\ ~storm /\ live = Node
     /\ Submit \/ Step
     /\ UNCHANGED storm

LivenessInit == SimInit /\ storm = TRUE

LivenessSpec ==
  /\ LivenessInit
  /\ [][Storm \/ Quiesce \/ Calm]_<<simvars, storm>>
  /\ WF_<<simvars, storm>>(Calm)

-----------------------------------------------------------------------------
(* Properties *)

\* marker_committed_everywhere.
CommittedEverywhere ==
  /\ live = Node
  /\ \A i \in Node : Holds(SubSeq(log[i], 1, commit_index[i]))

\* After the storm a new command is committed on every node, whatever was lost,
\* whoever led and however far the logs had diverged, and it stays committed
\* (liveness.rs, "a leader emerges and new commands commit on every node").
MarkerCommits == ~storm ~> []CommittedEverywhere

\* Node i leads, the others follow it in its term with its log, and all of it is
\* committed everywhere.
Settled(i) ==
  /\ role[i] = Leader
  /\ \A j \in Node :
       /\ role[j] = Leader => j = i
       /\ leader_id[j] = i
       /\ term[j] = term[i]
       /\ log[j] = log[i]
       /\ commit_index[j] = Len(log[i])

\* After the storm one leader emerges and remains: the elections end, the logs
\* of deposed leaders are repaired, and heartbeats spread the commit index.
LeaderEmerges == <>~storm => \E i \in Node : <>[]Settled(i)

\* A leader that is heard in time is not challenged: heartbeats put off the
\* elections of the others, and a lost election is not repeated for long.
ElectionsEnd == \A i \in Node : term[i] <= HighestTerm

=============================================================================
