--------------------------- MODULE StorageContract ---------------------------
(***************************************************************************)
(* What the Storage trait promises a node (crates/raft/src/storage.rs): a  *)
(* single Persistent record that only the three mutations change, each at  *)
(* once, and that a crash leaves alone.  MemStorage is exactly this: the   *)
(* record behind a shared handle that outlives the node.                   *)
(*                                                                         *)
(* Terms, Batches and Cuts are what nodes ask for: the terms they save,    *)
(* the entries they append, the indices they truncate from.                *)
(***************************************************************************)
EXTENDS Storage

CONSTANTS Terms, Batches, Cuts

VARIABLES stored,
          call     \* the last call, so that an implementation answers for it

Calls ==
  [op : {"save"}, term : Terms, voted_for : Node \cup {Nil}]
    \cup [op : {"append"}, entries : Batches]
    \cup [op : {"truncate"}, index : Cuts]

ContractInit == stored = Blank /\ call = Nil

\* What the record becomes by a call.
After(c, p) ==
  CASE c.op = "save"     -> SaveHardState(p, c.term, c.voted_for)
    [] c.op = "append"   -> AppendTo(p, c.entries)
    [] c.op = "truncate" -> TruncateFrom(p, c.index)

ContractNext ==
  \E c \in Calls : call' = c /\ stored' = After(c, stored)

ContractSpec == ContractInit /\ [][ContractNext]_<<stored, call>>

=============================================================================
