------------------------------- MODULE MCApply -------------------------------
(***************************************************************************)
(* Raft and its state machines over a small cluster, with the bounds of    *)
(* MCRaft.                                                                 *)
(***************************************************************************)
EXTENDS RaftApply, MCRaft

CONSTANT Appliers   \* the nodes whose state machine calls take_committed

MCApplySpec ==
  /\ MCInit /\ ApplyInit
  /\ [][ /\ \/ Step /\ KeepApplied
            \/ \E i \in Appliers : Apply(i)
         /\ UNCHANGED checker]_<<vars, checker, delivered>>

=============================================================================
