---------------------------- MODULE RaftMessages ----------------------------
(***************************************************************************)
(* The values Raft nodes exchange (crates/raft/src/message.rs).            *)
(*                                                                         *)
(* A node is a member of Node, a client command an opaque member of        *)
(* Command; Noop is the empty command a new leader appends (a client may   *)
(* submit it too).  Terms and indices are natural numbers: the u64 bound   *)
(* is never approached by an execution that counts elections and entries.  *)
(* The sender is not encoded in a datagram, the link supplies it; here a   *)
(* message is the datagram together with its link, so it has "from"/"to".  *)
(***************************************************************************)
EXTENDS Naturals, Sequences, FiniteSets

CONSTANTS Node, Command, Noop, Nil

\* A cluster has at least one node: Config.id < cluster_size.
ASSUME NodeAssumption == IsFiniteSet(Node) /\ Node # {}

\* Option::None is not the id of a node.
ASSUME NilAssumption == Nil \notin Node

Term  == Nat
Index == Nat

Entry == [term : Term, command : Command \cup {Noop}]

RequestVote ==
  [kind : {"RequestVote"}, from : Node, to : Node, term : Term,
   last_log_index : Index, last_log_term : Term]

VoteResponse ==
  [kind : {"VoteResponse"}, from : Node, to : Node, term : Term,
   granted : BOOLEAN]

AppendEntries ==
  [kind : {"AppendEntries"}, from : Node, to : Node, term : Term,
   prev_index : Index, prev_term : Term, entries : Seq(Entry),
   leader_commit : Index]

AppendResponse ==
  [kind : {"AppendResponse"}, from : Node, to : Node, term : Term,
   success : BOOLEAN, match_index : Index]

Message == RequestVote \cup VoteResponse \cup AppendEntries \cup AppendResponse

=============================================================================
