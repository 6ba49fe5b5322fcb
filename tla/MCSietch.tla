------------------------------ MODULE MCSietch ------------------------------
(***************************************************************************)
(* SietchStorage over small inputs.  MaxLog bounds the log; the node ids   *)
(* go up to the one below NoVote.                                          *)
(***************************************************************************)
EXTENDS SietchStorage

CONSTANTS c1, c2, MaxLog

E1 == [term |-> 1, command |-> c1]
E2 == [term |-> 2, command |-> c2]

SmallBatches == {<<>>, <<E1>>, <<E2>>, <<E1, E2>>, <<E2, E2>>}

MCSpec ==
  SietchInit /\ [][SietchNext /\ last_index' <= MaxLog]_sietch

=============================================================================
