----------------------------- MODULE MCLiveness -----------------------------
(***************************************************************************)
(* Recovery after a storm, in the scenarios below.  A storm may inject any *)
(* of the events of its schedule, <<tick, event, node>>, each at its tick, *)
(* and may end between any two ticks up to its horizon.  faults bounds how *)
(* many datagrams are lost or repeated, in the storm and after it.  Node 0 *)
(* is about to be elected when it starts.                                  *)
(***************************************************************************)
EXTENDS SimLiveness

VARIABLES scenario, now

\* The first leader is cut off with a command nobody else has; the others elect
\* a new leader, and the first one may be back before quiesce().
Deposed ==
  [schedule |-> {<<5, "partition", 0>>, <<6, "propose", 0>>, <<12, "crash", 0>>,
                 <<12, "heal", 0>>, <<13, "restart", 0>>},
   horizon  |-> 14,
   faults   |-> 0]

\* The first election, over a network that fails once, at any point.
Lossy == [schedule |-> {}, horizon |-> 3, faults |-> 1]

Event(e) ==
  /\ e[1] = now
  /\ \/ e[2] = "crash" /\ InjectCrash(e[3])
     \/ e[2] = "restart" /\ InjectRestart(e[3])
     \/ e[2] = "partition" /\ InjectPartition({e[3]})
     \/ e[2] = "heal" /\ InjectHeal
     \/ e[2] = "propose" /\ \E c \in Command \ {Marker} : InjectPropose(e[3], c)

MCStorm ==
  /\ storm /\ UNCHANGED storm
  /\ now < scenario.horizon
  /\ \/ Clockwork
     \/ Mischief
     \/ \E e \in scenario.schedule : Event(e)
  /\ now' = IF ticked # {} /\ ticked' = {} THEN now + 1 ELSE now

MCInit ==
  /\ LivenessInit
  /\ election_in = [i \in Node |-> (IF i = 0 THEN MinTimeout ELSE MaxTimeout) - 1]
  /\ scenario \in {Deposed, Lossy}
  /\ now = 1

MCNext ==
  /\ \/ MCStorm
     \/ (Quiesce \/ Calm) /\ UNCHANGED now
  /\ mischief' <= scenario.faults
  /\ UNCHANGED scenario

MCSpec ==
  /\ MCInit
  /\ [][MCNext]_<<simvars, storm, scenario, now>>
  /\ WF_<<simvars, storm>>(Calm)

=============================================================================
