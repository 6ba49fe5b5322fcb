---------------------------- MODULE ReplicatedLog ----------------------------
(***************************************************************************)
(* What the cluster promises its clients: one log is agreed on, it only    *)
(* ever grows, and what a node reports as committed is a prefix of it.     *)
(* Agreement is reached by one node, the leader that counts the replicas,  *)
(* which then knows all of it; the others learn of it later.  A node that  *)
(* crashes forgets what it knew, and a follower may fall back to a shorter *)
(* prefix: the promise is about the log, not about a node's progress.      *)
(***************************************************************************)
EXTENDS Naturals, Sequences

CONSTANT Node

VARIABLES
  agreed,   \* the log agreed on so far
  known     \* per node: what it reports as committed

Init ==
  /\ agreed = <<>>
  /\ known = [i \in Node |-> <<>>]

OnlyKnows(i, prefix) == known' = [known EXCEPT ![i] = prefix]

\* Node i extends the agreed log.
Agree(i) ==
  /\ Len(agreed) < Len(agreed')
  /\ SubSeq(agreed', 1, Len(agreed)) = agreed
  /\ OnlyKnows(i, agreed')

\* Node i learns of more, falls back, or forgets everything.
Learn(i) ==
  /\ \E n \in 0 .. Len(agreed) : OnlyKnows(i, SubSeq(agreed, 1, n))
  /\ UNCHANGED agreed

Next == \E i \in Node : Agree(i) \/ Learn(i)

Spec == Init /\ [][Next]_<<agreed, known>>

=============================================================================
