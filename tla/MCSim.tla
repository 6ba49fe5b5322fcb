------------------------------- MODULE MCSim -------------------------------
(***************************************************************************)
(* The simulated cluster under chaos, over a few ticks.  The bounds, each  *)
(* a guard given by a constant:                                            *)
(*   Horizon      the number of ticks;                                     *)
(*   MaxChaos     how many events are injected in all, of Injected kinds;  *)
(*   Impatient    the nodes whose first election timeout is the shortest,  *)
(*                the others' being the longest.                           *)
(***************************************************************************)
EXTENDS SimAdversary

CONSTANTS Horizon, MaxChaos, Impatient

VARIABLES now, injected

MCInit ==
  /\ WatchedInit
  /\ election_in = [i \in Node |->
                      (IF i \in Impatient THEN MinTimeout ELSE MaxTimeout) - 1]
  /\ now = 1 /\ injected = 0

\* A command is submitted once; a partition cuts off one node.
ChaosOfInterest ==
  \/ \E i \in Node : InjectCrash(i) \/ InjectRestart(i) \/ CrashAfterEvent(i)
  \/ \E i \in Node : InjectPartition({i})
  \/ InjectHeal /\ blocked # {}
  \/ \E i \in Node : \E command \in Command :
       /\ \A n \in 1 .. Len(log[i]) : log[i][n].command # command
       /\ InjectPropose(i, command)

MCNext ==
  /\ \/ ChaosOfInterest /\ injected < MaxChaos /\ injected' = injected + 1
     \/ (Clockwork \/ Mischief) /\ UNCHANGED injected
  /\ RecordSent
  /\ now' = IF ticked # {} /\ ticked' = {} THEN now + 1 ELSE now
  /\ now' <= Horizon

MCSpec == MCInit /\ [][MCNext]_<<simvars, sent, now, injected>>

=============================================================================
