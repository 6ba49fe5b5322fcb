---------------------------- MODULE SimAdversary ----------------------------
(***************************************************************************)
(* The simulated cluster is one of the executions Raft.tla allows: its     *)
(* partitions, channels, timers and crashes only choose among the steps of *)
(* the nodes under an unrestricted adversary.  What is shown of Raft!Spec  *)
(* therefore holds in every simulation.                                    *)
(*                                                                         *)
(* sent is a history variable: every message any handler ever returned,    *)
(* which is what the adversary may deliver, early, late, again or never.   *)
(***************************************************************************)
EXTENDS SimCluster

VARIABLE sent

Adversary == INSTANCE Raft WITH wire <- sent

RecordSent == sent' = sent \cup wire'

WatchedInit == SimInit /\ sent = {}

WatchedNext == SimNext /\ RecordSent

WatchedSpec == WatchedInit /\ [][WatchedNext]_<<simvars, sent>>

\* Every step of the simulation, the loss of messages in a partition, in a
\* crash after a handler or in a channel included, is a step of the nodes under
\* the adversary's network, or none: nothing is delivered that was not sent,
\* and nothing a handler does depends on the clock or the links.
SimulatesRaft == Adversary!Spec

-----------------------------------------------------------------------------
(* Inductive: what a leader that hears from nobody starts from *)

\* The leader has committed everything its match indices let it commit.
SettledAt(i) == Committable(i, term[i], log[i], match_index[i]) = {}

LeadersSettled == \A i \in live : role[i] = Leader => SettledAt(i)

\* Nobody writes to itself.
SentToOthers == sent \subseteq Message /\ \A m \in sent : m.from # m.to

LinkInv == TypeOK /\ CursorsInRange /\ LeadersSettled /\ SentToOthers

=============================================================================
