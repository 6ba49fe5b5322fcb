--------------------------- MODULE RaftInvariants ---------------------------
(***************************************************************************)
(* The inductive invariant behind election safety: what a vote, once sent, *)
(* forces the voter's disk to hold, and what a leader's messages prove     *)
(* about the votes it was given.                                           *)
(***************************************************************************)
EXTENDS Raft

DurableAt(i) ==
  /\ disk[i].term = term[i]
  /\ disk[i].voted_for = voted_for[i]
  /\ disk[i].log = log[i]

\* Between two handlers a live node's memory is what is on its disk: every
\* handler writes term, vote and log before it returns (node.rs header).
MemoryIsDurable == \A i \in live : DurableAt(i)

\* Nobody sends a message of a term it has not written to disk, or to itself.
SentIsWritten ==
  \A m \in wire : m.from # m.to /\ m.term <= disk[m.from].term

IsGrant(m)  == m.kind = "VoteResponse" /\ m.granted = TRUE
IsAppend(m) == m.kind = "AppendEntries"

\* No node has answered two candidates of one term with a vote, over all time.
OneGrantPerTerm ==
  \A m, n \in wire :
    IsGrant(m) /\ IsGrant(n) /\ m.from = n.from /\ m.term = n.term
      => m.to = n.to

\* Node v has voted for c in term t: for itself, or by a reply.
VotedFor(v, c, t) ==
  \/ v = c
  \/ \E m \in wire : IsGrant(m) /\ m.from = v /\ m.to = c /\ m.term = t

StandingAt(i) ==
  /\ role[i] \in {Candidate, Leader} =>
       voted_for[i] = i /\ \A v \in votes[i] : VotedFor(v, i, term[i])
  /\ role[i] = Leader => IsQuorum(votes[i])

\* A candidate or leader has voted for itself, and every vote it counts was
\* given to it in its current term; a leader counts a majority of them.
Standing == \A i \in live : StandingAt(i)

\* Node c was elected in term t: it voted for itself and for nobody else, and a
\* majority voted for it.
Elected(c, t) ==
  /\ \/ disk[c].term > t
     \/ disk[c].term = t /\ disk[c].voted_for = c
  /\ \A m \in wire : IsGrant(m) /\ m.from = c => m.term # t
  /\ \E Q \in SUBSET Node : IsQuorum(Q) /\ \A v \in Q : VotedFor(v, c, t)

\* Whoever leads, or ever sent AppendEntries, was elected in that term.
LeadersElected == \A i \in live : role[i] = Leader => Elected(i, term[i])
SendersElected == \A m \in wire : IsAppend(m) => Elected(m.from, m.term)

NodeInv == MemoryIsDurable /\ CursorsInRange /\ Standing

WireInv ==
  /\ SentIsWritten
  /\ GrantsAreDurable
  /\ OneGrantPerTerm
  /\ LeadersElected
  /\ SendersElected

\* Inductive: what nodes hold, and what the messages they sent prove.
ElectionInv == TypeOK /\ NodeInv /\ WireInv

-----------------------------------------------------------------------------
(* What every step does, as far as the invariant is concerned *)

ForwardAt(i) ==
  \/ disk'[i].term > disk[i].term
  \/ /\ disk'[i].term = disk[i].term
     /\ disk[i].voted_for \in {Nil, disk'[i].voted_for}

\* Every disk goes forward (the body of VoteNeverChanges).
Forward == \A i \in Node : ForwardAt(i)

\* A message leaves a node that is up, in the term it is then in; a grant is
\* the vote it then holds, and only a leader sends AppendEntries.
Fresh(m) ==
  /\ m.from \in live' /\ m.from # m.to
  /\ m.term = term'[m.from]
  /\ IsGrant(m) => voted_for'[m.from] = m.to
  /\ IsAppend(m) => role'[m.from] = Leader

SendsFresh == wire \subseteq wire' /\ \A m \in wire' : m \in wire \/ Fresh(m)

\* An action touches one node,
ElsewhereUnchanged(i) ==
  \A j \in Node \ {i} :
    /\ j \in live' <=> j \in live
    /\ disk'[j] = disk[j]
    /\ term'[j] = term[j] /\ voted_for'[j] = voted_for[j] /\ log'[j] = log[j]
    /\ role'[j] = role[j] /\ votes'[j] = votes[j]
    /\ next_index'[j] = next_index[j] /\ match_index'[j] = match_index[j]

\* and leaves it, if it is still up, as the invariant wants it.
LocalStep(i) ==
  /\ ElsewhereUnchanged(i)
  /\ SendsFresh
  /\ ForwardAt(i)
  /\ i \in live' => /\ DurableAt(i)'
                    /\ role'[i] = Leader => InRange(i)'
                    /\ StandingAt(i)'

GoodStep ==
  /\ MemoryIsDurable'
  /\ CursorsInRange'
  /\ Standing'
  /\ Forward
  /\ SendsFresh

=============================================================================
