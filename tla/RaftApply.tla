----------------------------- MODULE RaftApply -----------------------------
(***************************************************************************)
(* What a node hands to its state machine.  take_committed returns the     *)
(* entries after applied_index up to commit_index, with their indices;     *)
(* delivered is the sequence of everything it has returned since the node  *)
(* was last started (a restart rebuilds the state machine from nothing).   *)
(***************************************************************************)
EXTENDS RaftHistory

VARIABLE delivered

ApplyInit == delivered = [i \in Node |-> <<>>]

Apply(i) ==
  /\ TakeCommitted(i)
  /\ delivered' = [delivered EXCEPT ![i] = @ \o Handed(i)]

\* Any other step hands out nothing, and a node that goes down has forgotten
\* what it applied.
KeepApplied ==
  /\ \A i \in live' : applied_index'[i] = applied_index[i]
  /\ delivered' = [i \in Node |-> IF i \in live' THEN delivered[i] ELSE <<>>]

ApplyNext ==
  \/ Next /\ KeepApplied
  \/ \E i \in Node : Apply(i)

ApplySpec == Init /\ ApplyInit /\ [][ApplyNext]_<<vars, delivered>>

-----------------------------------------------------------------------------
(* Inductive with LogInv and CommitInv: what was handed out is decided, and *)
(* still on the disk of the node that handed it out.                        *)

Delivery == [index : Index, entry : Entry]

StandsAt(led, i, d) ==
  /\ d.index \in 1 .. Len(disk[i].log)
  /\ disk[i].log[d.index] = d.entry
  /\ Decided(led, disk[i].log, d.index, disk[i].term)

DeliveredInv(led) ==
  /\ delivered \in [Node -> Seq(Delivery)]
  /\ \A i \in Node : \A k \in 1 .. Len(delivered[i]) :
       StandsAt(led, i, delivered[i][k])

DeliveredHistory ==
  \E led \in [Term -> Seq(Entry)] :
    LogInv(led) /\ CommitInv(led) /\ DeliveredInv(led)

-----------------------------------------------------------------------------
(* Clusters whose logs fit in one batch: there every AppendEntries ends     *)
(* with the sender's log, so that it holds whatever it says is committed.   *)

LogsFit == \A i \in Node : Len(disk[i].log) <= MaxBatch

SentWhole ==
  \A m \in wire : IsAppend(m) => m.leader_commit <= Matched(m.to, m)

\* Inductive while the logs fit: deliveries are counted by applied_index.
InOrder ==
  /\ \A i \in live :
       /\ applied_index[i] <= commit_index[i]
       /\ Len(delivered[i]) = applied_index[i]
       /\ \A k \in 1 .. Len(delivered[i]) : delivered[i][k].index = k
  /\ \A i \in Node \ live : delivered[i] = <<>>

-----------------------------------------------------------------------------

\* A node's commit index never moves backwards while the node is up
\* (crates/raft/tests/node.rs, "commit index never moves backwards").
CommitNeverRegresses ==
  [][\A i \in live \cap live' : commit_index[i] <= commit_index'[i]]_vars

\* Each committed entry is delivered once, in order
\* (crates/raft/tests/node.rs, "each committed entry is delivered once").
DeliveredOnce ==
  \A i \in live : \A k \in 1 .. Len(delivered[i]) :
    /\ delivered[i][k].index = k
    /\ k <= Len(log[i])
    /\ delivered[i][k].entry = log[i][k]

\* Node j has committed or handed out entry n.
Reached(j, n) ==
  \/ n <= commit_index[j]
  \/ \E k \in 1 .. Len(delivered[j]) : n <= delivered[j][k].index

\* What a state machine was handed is what every other node has committed or
\* handed out at that index, and its own node keeps it: nobody ever applies
\* another entry there, even where take_committed hands one out again.
DeliveredIsAgreed ==
  \A i, j \in Node : \A k \in 1 .. Len(delivered[i]) :
    LET d == delivered[i][k]
    IN Reached(j, d.index) =>
         d.index <= Len(disk[j].log) /\ disk[j].log[d.index] = d.entry

=============================================================================
