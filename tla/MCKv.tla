-------------------------------- MODULE MCKv --------------------------------
(***************************************************************************)
(* Replicated stores over a small cluster, with the bounds of MCRaft: one  *)
(* key that is put twice and deleted, and a malformed command.             *)
(***************************************************************************)
EXTENDS KvApply, MCRaft

CONSTANT Appliers   \* the nodes whose store calls take_committed

key == <<0>>

SomeCommands == {EncodeCommand(Put(key, <<1>>)), EncodeCommand(Put(key, <<>>)),
                 EncodeCommand(Delete(key)), <<1, 1>>}
NoopCommand  == <<>>

MCKvSpec ==
  /\ MCInit /\ KvInit
  /\ [][ /\ \/ Step /\ KeepStores
            \/ \E i \in Appliers : Apply(i)
         /\ UNCHANGED checker]_<<vars, checker, store, reached>>

=============================================================================
