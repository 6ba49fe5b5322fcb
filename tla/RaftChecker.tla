----------------------------- MODULE RaftChecker -----------------------------
(***************************************************************************)
(* The cluster's own invariant checker (Cluster::check_invariants and the  *)
(* durability check of Cluster::restart in crates/sim/src/cluster.rs): the *)
(* checker's state as history variables, what it records after a step, and *)
(* what it asserts.  The simulator looks once per tick, after all the      *)
(* events of that tick; here it looks after every event.                   *)
(***************************************************************************)
EXTENDS RaftHistory

VARIABLES
  leaders_by_term,  \* set of <<term, node>>: who was seen leading what
  committed,        \* the globally committed log prefix seen so far
  committed_in,     \* per index of committed: the term it was committed in
                    \* (not kept by the simulator; it says what its comment means)
  max_commit_seen,  \* per node, across its restarts
  max_term_seen

checker == <<leaders_by_term, committed, committed_in, max_commit_seen,
             max_term_seen>>

CheckerInit ==
  /\ leaders_by_term = {}
  /\ committed = <<>>
  /\ committed_in = <<>>
  /\ max_commit_seen = [i \in Node |-> 0]
  /\ max_term_seen = [i \in Node |-> 0]

IsLeader(i) == i \in live /\ role[i] = Leader

\* The checker's pass over the live nodes, in the state the step led to.  (Where
\* it stops with a violation the model goes on, so that the properties below see
\* it: a leader seen second is added to the first, and the highest term is kept.)
Observe ==
  /\ leaders_by_term' =
       leaders_by_term \cup {<<term'[i], i>> : i \in {j \in Node : IsLeader(j)'}}
  /\ max_term_seen' =
       [i \in Node |-> IF i \in live' THEN Higher(max_term_seen[i], term'[i])
                       ELSE max_term_seen[i]]
  /\ max_commit_seen' =
       [i \in Node |-> Higher(max_commit_seen[i], commit_index'[i])]
  /\ \/ /\ \A i \in Node : commit_index'[i] <= Len(committed)
        /\ UNCHANGED <<committed, committed_in>>
     \/ \E i \in Node :
          /\ commit_index'[i] > Len(committed)
          /\ LET new == SubSeq(log'[i], Len(committed) + 1, commit_index'[i])
             IN /\ committed' = committed \o new
                /\ committed_in' = committed_in \o [k \in 1 .. Len(new) |-> term'[i]]

CheckedSpec ==
  Init /\ CheckerInit /\ [][Next /\ Observe]_<<vars, checker>>

\* Inductive with ElectionInv: what the checker has seen is what was decided.
\* Whoever it saw leading was elected, and no disk is behind the terms it saw.
SeenInv ==
  /\ leaders_by_term \subseteq Term \X Node
  /\ \A seen \in leaders_by_term : Elected(seen[2], seen[1])
  /\ max_term_seen \in [Node -> Term]
  /\ \A i \in Node : max_term_seen[i] <= disk[i].term

\* Inductive with LogInv and CommitInv: every prefix the checker collected was
\* decided by the term it was committed in, and whatever a node once had
\* committed is decided and still on its disk.
AgreedInv(led) ==
  /\ committed \in Seq(Entry) /\ committed_in \in Seq(Term)
  /\ Len(committed_in) = Len(committed)
  /\ \A k \in 1 .. Len(committed) : Decided(led, committed, k, committed_in[k])
  /\ max_commit_seen \in [Node -> Index]
  /\ \A i \in Node :
       /\ commit_index[i] <= max_commit_seen[i]
       /\ max_commit_seen[i] <= Len(committed)
       /\ Decided(led, disk[i].log, max_commit_seen[i], disk[i].term)
       /\ i \in live \/ commit_index[i] = 0

\* Some led explains the nodes and what the checker saw of them.
AgreedHistory ==
  \E led \in [Term -> Seq(Entry)] :
    LogInv(led) /\ CommitInv(led) /\ AgreedInv(led)

-----------------------------------------------------------------------------
(* Properties *)

\* Terms never go backwards, even across restarts (the checker's first check).
TermsNeverRegress ==
  \A i \in live : term[i] >= max_term_seen[i]

\* At most one leader per term, over the whole execution.
OneLeaderPerTerm ==
  \A a, b \in leaders_by_term : a[1] = b[1] => a[2] = b[2]

\* State-machine safety: every node's committed prefix agrees with the global
\* committed log, which only ever grows, and is within the node's log.
StateMachineSafety ==
  \A i \in live :
    /\ commit_index[i] <= Len(log[i])
    /\ SubSeq(log[i], 1, commit_index[i]) = SubSeq(committed, 1, commit_index[i])

\* Durability: whatever a node had committed is still on its disk, so that a
\* restart recovers it (Cluster::restart's check, at every moment).
Durability ==
  \A i \in Node :
    /\ max_commit_seen[i] <= Len(disk[i].log)
    /\ SubSeq(disk[i].log, 1, max_commit_seen[i])
         = SubSeq(committed, 1, max_commit_seen[i])

Holds(i, k) == k <= Len(log[i]) /\ log[i][k] = committed[k]

\* Leader completeness: a leader's log holds every entry that was committed in
\* a term before its own.
LeaderCompleteness ==
  \A i \in live : role[i] = Leader =>
    \A k \in 1 .. Len(committed) : committed_in[k] < term[i] => Holds(i, k)

\* Leader completeness as check_invariants tests it: over the term an entry was
\* created in rather than the one it was committed in.
CheckerLeaderCompleteness ==
  \A i \in live : role[i] = Leader =>
    \A k \in 1 .. Len(committed) :
      (\A q \in 1 .. k : committed[q].term < term[i]) => Holds(i, k)

=============================================================================
