---------------------------- MODULE RaftContract ----------------------------
(***************************************************************************)
(* The nodes implement the replicated log: the log agreed on is the one    *)
(* the checker collects, and a node knows its log up to its commit index.  *)
(***************************************************************************)
EXTENDS RaftChecker

Reported == [i \in Node |-> SubSeq(log[i], 1, commit_index[i])]

Contract == INSTANCE ReplicatedLog WITH agreed <- committed, known <- Reported

\* No election, overwritten log, lost message or crash ever takes back or
\* reorders what some node has reported as committed, nor shows a node another
\* log than the rest (cluster.rs, "every node's committed prefix agrees with the
\* global committed log, which only ever grows").
ImplementsLog == Contract!Spec

=============================================================================
