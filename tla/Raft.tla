-------------------------------- MODULE Raft --------------------------------
(***************************************************************************)
(* The consensus node of crates/raft/src/node.rs, one action per path      *)
(* through tick(), handle() and propose(), for every node of the cluster,  *)
(* with the crashes and restarts of crates/sim/src/cluster.rs and the      *)
(* faulty network between them.                                            *)
(*                                                                         *)
(* Network.  wire is the set of every message a handler ever returned and  *)
(* is never emptied.  A message that is lost is one no action handles; a   *)
(* duplicated, delayed or reordered one is handled again, later, or after  *)
(* a younger one; a corrupted or truncated datagram is rejected by the     *)
(* codec, hence lost; a partition is a period in which some messages are   *)
(* not handled.  A crash right after an event, before its messages are     *)
(* routed, is the handler's action, then Crash, with those messages lost.  *)
(*                                                                         *)
(* Time.  Both deadlines are passed at any moment (the timeouts are random *)
(* and the clock is the caller's), so the timers are not represented.      *)
(*                                                                         *)
(* Memory and disk are separate: term, voted_for and log are the node's    *)
(* copies, disk is what its Storage holds; only disk outlives a crash.     *)
(***************************************************************************)
EXTENDS Storage

CONSTANT MaxBatch   \* Config.max_batch: most entries in one AppendEntries

ASSUME MaxBatchAssumption == MaxBatch \in Nat

Follower  == "Follower"
Candidate == "Candidate"
Leader    == "Leader"
Role      == {Follower, Candidate, Leader}

VARIABLES
  disk,           \* per node: its Storage
  live,           \* the nodes that are up
  term, voted_for, log,                   \* memory copies of disk
  role, leader_id, commit_index, applied_index,
  votes,          \* per node: who granted it a vote in its current term
  next_index, match_index,                \* per leader and peer
  wire            \* every message sent so far

memory  == <<term, voted_for, log>>
indices == <<commit_index, applied_index>>
cursors == <<next_index, match_index>>
vars == <<disk, live, memory, role, leader_id, indices, votes, cursors, wire>>

TypeOK ==
  /\ disk \in [Node -> Persistent]
  /\ live \subseteq Node
  /\ term \in [Node -> Term]
  /\ voted_for \in [Node -> Node \cup {Nil}]
  /\ log \in [Node -> Seq(Entry)]
  /\ role \in [Node -> Role]
  /\ leader_id \in [Node -> Node \cup {Nil}]
  /\ commit_index \in [Node -> Index]
  /\ applied_index \in [Node -> Index]
  /\ votes \in [Node -> SUBSET Node]
  /\ next_index \in [Node -> [Node -> Index \ {0}]]
  /\ match_index \in [Node -> [Node -> Index]]
  /\ wire \subseteq Message

-----------------------------------------------------------------------------
(* Helpers of the handlers *)

\* Node::quorum and the counts compared with it.
IsQuorum(S) == Cardinality(S) >= Cardinality(Node) \div 2 + 1

TermAt(entries, n) == IF n = 0 THEN 0 ELSE entries[n].term

LastTerm(entries) == TermAt(entries, Len(entries))

Lower(a, b)  == IF a <= b THEN a ELSE b
Higher(a, b) == IF a <= b THEN b ELSE a
Highest(S)   == {n \in S : \A q \in S : q <= n}
Lowest(S)    == {n \in S : \A q \in S : n <= q}

Send(messages) == wire' = wire \cup messages

\* append_for: what leader i sends to peer p from its current state.
AppendFor(i, p) ==
  LET prev == next_index[i][p] - 1
      end  == Lower(Len(log[i]), prev + MaxBatch)
  IN [kind |-> "AppendEntries", from |-> i, to |-> p, term |-> term[i],
      prev_index    |-> prev,
      prev_term     |-> TermAt(log[i], prev),
      entries       |-> SubSeq(log[i], prev + 1, end),
      leader_commit |-> commit_index[i]]

\* broadcast_append, from the state the handler leaves behind.
BroadcastAppend(i) == Send({AppendFor(i, p)' : p \in Node \ {i}})

HalfIsEnough(S) == Cardinality(S) >= Cardinality(Node) \div 2

\* Mutants of Committable: an entry of any term may be committed by counting
\* its replicas; one replica short of a majority is enough; the last entry is
\* left out of the range.
CommittableOfAnyTerm(i, t, entries, acked) ==
  {n \in commit_index[i] + 1 .. Len(entries) :
     IsQuorum({i} \cup {p \in Node \ {i} : acked[p] >= n})}
CommittableOneShort(i, t, entries, acked) ==
  {n \in commit_index[i] + 1 .. Len(entries) :
     /\ \A q \in n .. Len(entries) : entries[q].term = t
     /\ HalfIsEnough({i} \cup {p \in Node \ {i} : acked[p] >= n})}

CommittableBelowLast(i, t, entries, acked) ==
  {n \in commit_index[i] + 1 .. Len(entries) - 1 :
     /\ \A q \in n .. Len(entries) : entries[q].term = t
     /\ IsQuorum({i} \cup {p \in Node \ {i} : acked[p] >= n})}

\* The indices advance_commit accepts: it walks down from the last entry, stops
\* at the first one that is not of the leader's term t, and needs a majority of
\* replicas, its own and those acknowledged.
Committable(i, t, entries, acked) ==
  {n \in commit_index[i] + 1 .. Len(entries) :
     /\ \A q \in n .. Len(entries) : entries[q].term = t
     /\ IsQuorum({i} \cup {p \in Node \ {i} : acked[p] >= n})}

AdvanceCommit(i, t, entries, acked) ==
  LET C == Committable(i, t, entries, acked)
  IN \E n \in IF C = {} THEN {commit_index[i]} ELSE Highest(C) :
       commit_index' = [commit_index EXCEPT ![i] = n]

-----------------------------------------------------------------------------
(* The prelude of handle(): a message of a newer term makes the node step   *)
(* down before it is dispatched.  The operators below are the node's state  *)
(* after the prelude, which the rest of the handler starts from.            *)

Deliverable(i, m) == i \in live /\ m.to = i /\ m.from # i

Newer(i, m) == m.term > term[i]

TermAfter(i, m)   == IF Newer(i, m) THEN m.term ELSE term[i]
VoteAfter(i, m)   == IF Newer(i, m) THEN Nil ELSE voted_for[i]
\* Mutants: a leader goes on leading; the hint survives into the next term.
RoleKept(i, m)    == role[i]
LeaderKept(i, m)  == leader_id[i]
RoleAfter(i, m)   == IF Newer(i, m) THEN Follower ELSE role[i]
LeaderAfter(i, m) == IF Newer(i, m) THEN Nil ELSE leader_id[i]
DiskAfter(i, m)   == IF Newer(i, m) THEN SaveHardState(disk[i], m.term, Nil)
                     ELSE disk[i]

-----------------------------------------------------------------------------
(* Elections *)

\* Mutant: the self-vote is sent out before it is written.
SelfVoteUnsaved(i) == disk[i]

\* What start_election writes before anything else.
SelfVote(i) == SaveHardState(disk[i], term[i] + 1, i)

StartElection(i) ==
  /\ i \in live
  /\ role[i] # Leader
  /\ term' = [term EXCEPT ![i] = @ + 1]
  /\ voted_for' = [voted_for EXCEPT ![i] = i]
  /\ votes' = [votes EXCEPT ![i] = {i}]

\* start_election when the candidate's own vote is not a majority.
Campaign(i) ==
  /\ StartElection(i)
  /\ ~IsQuorum({i})
  /\ disk' = [disk EXCEPT ![i] = SelfVote(i)]
  /\ role' = [role EXCEPT ![i] = Candidate]
  /\ leader_id' = [leader_id EXCEPT ![i] = Nil]
  /\ Send({[kind |-> "RequestVote", from |-> i, to |-> p,
            term           |-> term[i] + 1,
            last_log_index |-> Len(log[i]),
            last_log_term  |-> LastTerm(log[i])] : p \in Node \ {i}})
  /\ UNCHANGED <<live, log, indices, cursors>>

\* become_leader, for a node that is in term t with storage d: the peers'
\* cursors start after the log as it was before the no-op, which is appended,
\* committed if the cluster has no other node, and offered to every peer.
BecomeLeader(i, t, d) ==
  LET noop    == [term |-> t, command |-> Noop]
      next    == Len(log[i]) + 1
      nothing == [p \in Node |-> 0]
  IN /\ role' = [role EXCEPT ![i] = Leader]
     /\ leader_id' = [leader_id EXCEPT ![i] = i]
     /\ next_index' = [next_index EXCEPT ![i] = [p \in Node |-> next]]
     /\ match_index' = [match_index EXCEPT ![i] = nothing]
     /\ disk' = [disk EXCEPT ![i] = AppendTo(d, <<noop>>)]
     /\ log' = [log EXCEPT ![i] = Append(@, noop)]
     /\ AdvanceCommit(i, t, Append(log[i], noop), nothing)
     /\ BroadcastAppend(i)

\* start_election in a cluster of one: elected by its own vote.
CampaignAlone(i) ==
  /\ StartElection(i)
  /\ IsQuorum({i})
  /\ BecomeLeader(i, term[i] + 1, SelfVote(i))
  /\ UNCHANGED <<live, applied_index>>

\* RequestVote.  up_to_date compares the last entries, term first.
UpToDate(i, m) ==
  \/ m.last_log_term > LastTerm(log[i])
  \/ /\ m.last_log_term = LastTerm(log[i])
     /\ m.last_log_index >= Len(log[i])

\* Mutants of Grantable: the vote already cast is not looked at, or the
\* candidate's log is not.
GrantableTwice(i, m) == m.term = TermAfter(i, m) /\ UpToDate(i, m)
GrantableToAnyLog(i, m) ==
  m.term = TermAfter(i, m) /\ VoteAfter(i, m) \in {Nil, m.from}

Grantable(i, m) ==
  /\ m.term = TermAfter(i, m)
  /\ VoteAfter(i, m) \in {Nil, m.from}
  /\ UpToDate(i, m)

VoteReply(i, m, granted) ==
  [kind |-> "VoteResponse", from |-> i, to |-> m.from,
   term |-> TermAfter(i, m), granted |-> granted]

\* Mutant of GrantDisk: the vote is answered before it is written.
GrantUnsaved(i, m) == DiskAfter(i, m)

\* What is on disk when the granting reply is returned.
GrantDisk(i, m) == SaveHardState(DiskAfter(i, m), TermAfter(i, m), m.from)

OnRequestVote(i, m) ==
  /\ Deliverable(i, m)
  /\ m.kind = "RequestVote"
  /\ term' = [term EXCEPT ![i] = TermAfter(i, m)]
  /\ role' = [role EXCEPT ![i] = RoleAfter(i, m)]
  /\ leader_id' = [leader_id EXCEPT ![i] = LeaderAfter(i, m)]
  /\ UNCHANGED <<live, log, indices, votes, cursors>>

GrantVote(i, m) ==
  /\ OnRequestVote(i, m)
  /\ Grantable(i, m)
  /\ voted_for' = [voted_for EXCEPT ![i] = m.from]
  /\ disk' = [disk EXCEPT ![i] = GrantDisk(i, m)]
  /\ Send({VoteReply(i, m, TRUE)})

DenyVote(i, m) ==
  /\ OnRequestVote(i, m)
  /\ ~Grantable(i, m)
  /\ voted_for' = [voted_for EXCEPT ![i] = VoteAfter(i, m)]
  /\ disk' = [disk EXCEPT ![i] = DiskAfter(i, m)]
  /\ Send({VoteReply(i, m, FALSE)})

\* A response of a newer term does nothing but make the node step down.
StepDown(i, m) ==
  /\ Deliverable(i, m)
  /\ m.kind \in {"VoteResponse", "AppendResponse"}
  /\ Newer(i, m)
  /\ term' = [term EXCEPT ![i] = m.term]
  /\ voted_for' = [voted_for EXCEPT ![i] = Nil]
  /\ disk' = [disk EXCEPT ![i] = DiskAfter(i, m)]
  /\ role' = [role EXCEPT ![i] = Follower]
  /\ leader_id' = [leader_id EXCEPT ![i] = Nil]
  /\ UNCHANGED <<live, log, indices, votes, cursors, wire>>

\* Mutant of VoteCounts: a vote of an earlier election is counted.
VoteCountsAnyTerm(i, m) == role[i] = Candidate /\ m.granted

\* on_vote_response ignores everything else.
VoteCounts(i, m) == role[i] = Candidate /\ m.term = term[i] /\ m.granted

OnVoteResponse(i, m) ==
  /\ Deliverable(i, m)
  /\ m.kind = "VoteResponse"
  /\ ~Newer(i, m)
  /\ VoteCounts(i, m)
  /\ votes' = [votes EXCEPT ![i] = @ \cup {m.from}]
  /\ UNCHANGED <<live, term, voted_for, applied_index>>

CountVote(i, m) ==
  /\ OnVoteResponse(i, m)
  /\ ~IsQuorum(votes[i] \cup {m.from})
  /\ UNCHANGED <<disk, log, role, leader_id, commit_index, cursors, wire>>

WinElection(i, m) ==
  /\ OnVoteResponse(i, m)
  /\ IsQuorum(votes[i] \cup {m.from})
  /\ BecomeLeader(i, term[i], disk[i])

-----------------------------------------------------------------------------
(* Replication *)

\* tick() at a leader whose heartbeat deadline has passed.
Heartbeat(i) ==
  /\ i \in live
  /\ role[i] = Leader
  /\ UNCHANGED <<disk, live, memory, role, leader_id, indices, votes, cursors>>
  /\ BroadcastAppend(i)

\* propose() at a leader; anywhere else it only returns NotLeader(leader_id).
Propose(i, command) ==
  /\ i \in live
  /\ role[i] = Leader
  /\ LET e == [term |-> term[i], command |-> command]
     IN /\ disk' = [disk EXCEPT ![i] = AppendTo(@, <<e>>)]
        /\ log' = [log EXCEPT ![i] = Append(@, e)]
        /\ AdvanceCommit(i, term[i], Append(log[i], e), match_index[i])
  /\ UNCHANGED <<live, term, voted_for, role, leader_id, applied_index, votes,
                 cursors>>
  /\ BroadcastAppend(i)

AppendReply(i, m, success, match) ==
  [kind |-> "AppendResponse", from |-> i, to |-> m.from,
   term |-> TermAfter(i, m), success |-> success, match_index |-> match]

\* on_append_entries answers a leader of an earlier term with its own term.
RejectStale(i, m) ==
  /\ Deliverable(i, m)
  /\ m.kind = "AppendEntries"
  /\ m.term < term[i]
  /\ Send({AppendReply(i, m, FALSE, 0)})
  /\ UNCHANGED <<disk, live, memory, role, leader_id, indices, votes, cursors>>

\* Mutant of Current: a deposed leader is obeyed.
CurrentAlways(i, m) == TRUE

Current(i, m) == m.term >= term[i]

\* Otherwise the sender is the leader of this term.  (A leader that gets here
\* in its own term trips the debug assertion "two leaders in term {}"; a
\* release build goes on as a follower.)
FollowLeader(i, m) ==
  /\ Deliverable(i, m)
  /\ m.kind = "AppendEntries"
  /\ Current(i, m)
  /\ term' = [term EXCEPT ![i] = TermAfter(i, m)]
  /\ voted_for' = [voted_for EXCEPT ![i] = VoteAfter(i, m)]
  /\ role' = [role EXCEPT ![i] = Follower]
  /\ leader_id' = [leader_id EXCEPT ![i] = m.from]
  /\ UNCHANGED <<live, applied_index, votes, cursors>>

\* Mutant of Consistent: the term of the preceding entry is not compared.
ConsistentByIndex(i, m) == m.prev_index <= Len(log[i])

\* The entry the message's entries follow is in the log.
Consistent(i, m) ==
  /\ m.prev_index <= Len(log[i])
  /\ TermAt(log[i], m.prev_index) = m.prev_term

\* The hint of a failed append: the end of a log that is too short, or the
\* index before the entry whose term differs.
Hint(i, m) ==
  IF m.prev_index > Len(log[i]) THEN Len(log[i])
  ELSE IF m.prev_index = 0 THEN 0 ELSE m.prev_index - 1

RejectAppend(i, m) ==
  /\ FollowLeader(i, m)
  /\ ~Consistent(i, m)
  /\ disk' = [disk EXCEPT ![i] = DiskAfter(i, m)]
  /\ Send({AppendReply(i, m, FALSE, Hint(i, m))})
  /\ UNCHANGED <<log, commit_index>>

\* Mutant of Missing: everything sent is taken to be missing, so a stale
\* duplicate truncates what came later.
MissingAlways(i, m) == 1 .. Len(m.entries)

\* The positions in the message whose entry the log does not have.
Missing(i, m) ==
  {k \in 1 .. Len(m.entries) :
     \/ m.prev_index + k > Len(log[i])
     \/ log[i][m.prev_index + k].term # m.entries[k].term}

\* Mutant of Matched: the follower acknowledges its whole log.
MatchedWholeLog(i, m) == Higher(Len(log[i]), m.prev_index + Len(m.entries))

\* What the follower acknowledges.
Matched(i, m) == m.prev_index + Len(m.entries)

\* Mutant of CommitAfter: an old message's commit index is believed too.
CommitAfterLatest(i, m) == Lower(m.leader_commit, Matched(i, m))

CommitAfter(i, m) ==
  IF m.leader_commit > commit_index[i]
  THEN Lower(m.leader_commit, Matched(i, m))
  ELSE commit_index[i]

AcceptAppend(i, m) ==
  /\ FollowLeader(i, m)
  /\ Consistent(i, m)
  /\ commit_index' = [commit_index EXCEPT ![i] = CommitAfter(i, m)]
  /\ Send({AppendReply(i, m, TRUE, Matched(i, m))})

\* Nothing new: a heartbeat, a duplicate or an overlapping resend.
AcceptKnown(i, m) ==
  /\ AcceptAppend(i, m)
  /\ Missing(i, m) = {}
  /\ disk' = [disk EXCEPT ![i] = DiskAfter(i, m)]
  /\ UNCHANGED log

\* From entry k of the message on, the follower's log is replaced by what the
\* message carries: one durable truncation (of nothing, when the log ends
\* there) and one durable append.
Suffix(m, k) == SubSeq(m.entries, k, Len(m.entries))

Spliced(i, m, k) == SubSeq(log[i], 1, m.prev_index + k - 1) \o Suffix(m, k)

Splice(i, m, k) ==
  /\ log' = [log EXCEPT ![i] = Spliced(i, m, k)]
  /\ disk' = [disk EXCEPT ![i] =
                AppendTo(TruncateFrom(DiskAfter(i, m), m.prev_index + k),
                         Suffix(m, k))]

\* The first missing entry is where the message is spliced in.
AcceptNew(i, m) ==
  /\ AcceptAppend(i, m)
  /\ \E k \in Lowest(Missing(i, m)) : Splice(i, m, k)

OnAppendResponse(i, m) ==
  /\ Deliverable(i, m)
  /\ m.kind = "AppendResponse"
  /\ role[i] = Leader
  /\ m.term = term[i]
  /\ UNCHANGED <<disk, live, memory, role, leader_id, applied_index, votes>>

Acknowledged(i, m) ==
  Higher(match_index[i][m.from], Lower(m.match_index, Len(log[i])))

\* A success raises the peer's match index, may commit, and is followed by
\* the next batch when the peer still lacks entries.
AckSuccess(i, m) ==
  /\ OnAppendResponse(i, m)
  /\ m.success
  /\ LET acked == [match_index[i] EXCEPT ![m.from] = Acknowledged(i, m)]
         next  == acked[m.from] + 1
     IN /\ match_index' = [match_index EXCEPT ![i] = acked]
        /\ next_index' = [next_index EXCEPT ![i][m.from] = next]
        /\ AdvanceCommit(i, term[i], log[i], acked)
        /\ Send(IF next <= Len(log[i]) THEN {AppendFor(i, m.from)'} ELSE {})

\* Mutants of BackedUp: the cursor stays where it is; the hint is followed below
\* what the peer acknowledged.
BackedUpNever(i, m) == next_index[i][m.from]
BackedUpToHint(i, m) == Lower(next_index[i][m.from], m.match_index + 1)

\* next_index after a failure: never above the hint, never below what the peer
\* has acknowledged.
BackedUp(i, m) ==
  Higher(match_index[i][m.from] + 1,
         Lower(next_index[i][m.from], m.match_index + 1))

AckFailure(i, m) ==
  /\ OnAppendResponse(i, m)
  /\ ~m.success
  /\ next_index' = [next_index EXCEPT ![i][m.from] = BackedUp(i, m)]
  /\ UNCHANGED <<commit_index, match_index>>
  /\ Send({AppendFor(i, m.from)'})

\* Mutants of Handed: only the entry at commit_index is handed out; the last
\* applied entry is handed out again.
HandedLatest(i) ==
  IF commit_index[i] <= applied_index[i] THEN <<>>
  ELSE <<[index |-> commit_index[i], entry |-> log[i][commit_index[i]]]>>

HandedAgain(i) ==
  LET first == Higher(applied_index[i], 1)
  IN [k \in 1 .. (commit_index[i] + 1) - first |->
        [index |-> first + k - 1, entry |-> log[i][first + k - 1]]]

\* What take_committed hands out: the entries from applied_index + 1 to
\* commit_index, with their indices.
Handed(i) ==
  LET first == applied_index[i] + 1
  IN [k \in 1 .. (commit_index[i] + 1) - first |->
        [index |-> first + k - 1, entry |-> log[i][first + k - 1]]]

TakeCommitted(i) ==
  /\ i \in live
  /\ applied_index' = [applied_index EXCEPT ![i] = commit_index[i]]
  /\ UNCHANGED <<disk, live, memory, role, leader_id, commit_index, votes,
                 cursors, wire>>

-----------------------------------------------------------------------------
(* Crashes and restarts *)

\* Mutant of FreshVolatile: next_index starts at 0 like match_index.
FreshCursorsAtZero(i) ==
  /\ role' = [role EXCEPT ![i] = Follower]
  /\ leader_id' = [leader_id EXCEPT ![i] = Nil]
  /\ commit_index' = [commit_index EXCEPT ![i] = 0]
  /\ applied_index' = [applied_index EXCEPT ![i] = 0]
  /\ votes' = [votes EXCEPT ![i] = {}]
  /\ next_index' = [next_index EXCEPT ![i] = [p \in Node |-> 0]]
  /\ match_index' = [match_index EXCEPT ![i] = [p \in Node |-> 0]]

\* The volatile state of Node::new.  A node that is down has no state; giving
\* it this one means that it looks the same whatever it did before.
FreshVolatile(i) ==
  /\ role' = [role EXCEPT ![i] = Follower]
  /\ leader_id' = [leader_id EXCEPT ![i] = Nil]
  /\ commit_index' = [commit_index EXCEPT ![i] = 0]
  /\ applied_index' = [applied_index EXCEPT ![i] = 0]
  /\ votes' = [votes EXCEPT ![i] = {}]
  /\ next_index' = [next_index EXCEPT ![i] = [p \in Node |-> 1]]
  /\ match_index' = [match_index EXCEPT ![i] = [p \in Node |-> 0]]

\* Mutant of Remember: the vote is not loaded.
RememberNoVote(i, p) ==
  /\ term' = [term EXCEPT ![i] = p.term]
  /\ voted_for' = [voted_for EXCEPT ![i] = Nil]
  /\ log' = [log EXCEPT ![i] = p.log]

\* The copies the node works on.
Remember(i, p) ==
  /\ term' = [term EXCEPT ![i] = p.term]
  /\ voted_for' = [voted_for EXCEPT ![i] = p.voted_for]
  /\ log' = [log EXCEPT ![i] = p.log]

\* The node is dropped with d on its disk.
CrashWith(i, d) ==
  /\ i \in live
  /\ live' = live \ {i}
  /\ disk' = [disk EXCEPT ![i] = d]
  /\ Remember(i, Blank)
  /\ FreshVolatile(i)
  /\ UNCHANGED wire

Crash(i) == CrashWith(i, disk[i])

\* A handler that makes several durable writes can be cut short between two of
\* them (a failed write panics): after the step-down of a message of a newer
\* term, or after the truncation that precedes an append.
CrashInStepDown(i, m) ==
  /\ Deliverable(i, m)
  /\ Newer(i, m)
  /\ CrashWith(i, DiskAfter(i, m))

CrashInTruncate(i, m) ==
  /\ Deliverable(i, m)
  /\ m.kind = "AppendEntries"
  /\ Current(i, m)
  /\ Consistent(i, m)
  /\ \E k \in Lowest(Missing(i, m)) :
       CrashWith(i, TruncateFrom(DiskAfter(i, m), m.prev_index + k))

\* Likewise between the two writes of a lone candidate.
CrashInCampaign(i) ==
  /\ role[i] # Leader
  /\ CrashWith(i, SelfVote(i))

\* Node::new on what the disk holds.
Restart(i) ==
  /\ i \notin live
  /\ live' = live \cup {i}
  /\ Remember(i, disk[i])
  /\ FreshVolatile(i)
  /\ UNCHANGED <<disk, wire>>

-----------------------------------------------------------------------------

\* Every node boots on an empty disk.
Init ==
  /\ disk = [i \in Node |-> Blank]
  /\ live = Node
  /\ term = [i \in Node |-> 0]
  /\ voted_for = [i \in Node |-> Nil]
  /\ log = [i \in Node |-> <<>>]
  /\ role = [i \in Node |-> Follower]
  /\ leader_id = [i \in Node |-> Nil]
  /\ commit_index = [i \in Node |-> 0]
  /\ applied_index = [i \in Node |-> 0]
  /\ votes = [i \in Node |-> {}]
  /\ next_index = [i \in Node |-> [p \in Node |-> 1]]
  /\ match_index = [i \in Node |-> [p \in Node |-> 0]]
  /\ wire = {}

Timeout(i) == Campaign(i) \/ CampaignAlone(i) \/ Heartbeat(i)

Handle(i, m) ==
  \/ GrantVote(i, m)    \/ DenyVote(i, m)
  \/ CountVote(i, m)    \/ WinElection(i, m)
  \/ RejectStale(i, m)  \/ RejectAppend(i, m)
  \/ AcceptKnown(i, m)  \/ AcceptNew(i, m)
  \/ AckSuccess(i, m)   \/ AckFailure(i, m)
  \/ StepDown(i, m)

CrashInHandler(i, m) == CrashInStepDown(i, m) \/ CrashInTruncate(i, m)

Next ==
  \E i \in Node :
    \/ Timeout(i)
    \/ \E command \in Command \cup {Noop} : Propose(i, command)
    \/ TakeCommitted(i)
    \/ Crash(i) \/ CrashInCampaign(i) \/ Restart(i)
    \/ \E m \in wire : Handle(i, m) \/ CrashInHandler(i, m)

Spec == Init /\ [][Next]_vars

-----------------------------------------------------------------------------
(* Properties *)

\* A node grants at most one vote per term, and the grant is on its disk before
\* the reply leaves: a granting reply is backed by the recorded vote for as long
\* as the node stays in that term, whatever crashed in between (node.rs header,
\* "a crash can lose a message but never a promise").
GrantsAreDurable ==
  \A m \in wire :
    (m.kind = "VoteResponse" /\ m.granted) =>
      \/ disk[m.from].term > m.term
      \/ disk[m.from].term = m.term /\ disk[m.from].voted_for = m.to

\* What a disk records only moves forward: no step, crash or restart takes back
\* a term, or a vote within its term (step_down, start_election,
\* on_request_vote and Node::new between them).
VoteNeverChanges ==
  [][\A i \in Node :
       \/ disk'[i].term > disk[i].term
       \/ /\ disk'[i].term = disk[i].term
          /\ disk[i].voted_for \in {Nil, disk'[i].voted_for}]_vars

\* Election safety: whoever ever sent AppendEntries in a term is the
\* only node that ever did, leaders that crashed or were deposed included.
OneSenderPerTerm ==
  \A m, n \in wire :
    m.kind = "AppendEntries" /\ n.kind = "AppendEntries" /\ m.term = n.term
      => m.from = n.from

\* The debug assertion of on_append_entries cannot fail: no AppendEntries of its
\* own term can reach a leader, however late.
NoRivalAppend ==
  \A i \in live : role[i] = Leader =>
    \A m \in wire :
      m.kind = "AppendEntries" /\ m.term = term[i] => m.from = i

\* The hint in NotLeader(leader_id) names the node that was elected in the term
\* the answering node is in.
HintIsElected ==
  \A i \in live : leader_id[i] # Nil =>
    \/ leader_id[i] = i /\ role[i] = Leader
    \/ \E m \in wire : /\ m.kind = "AppendEntries" /\ m.term = term[i]
                       /\ m.from = leader_id[i]

\* Log matching: logs with an entry of the same term at the same index are
\* identical up to there, on the disks of all nodes, up or down.
LogMatching ==
  \A i, j \in Node :
    \A n \in 1 .. Lower(Len(disk[i].log), Len(disk[j].log)) :
      disk[i].log[n].term = disk[j].log[n].term =>
        SubSeq(disk[i].log, 1, n) = SubSeq(disk[j].log, 1, n)

\* A leader never shortens or rewrites its log while its term lasts, not even in
\* the step in which it crashes.
LeaderAppendOnly ==
  [][\A i \in Node : role[i] = Leader /\ disk'[i].term = disk[i].term =>
       /\ Len(disk[i].log) <= Len(disk'[i].log)
       /\ SubSeq(disk'[i].log, 1, Len(disk[i].log)) = disk[i].log]_vars

\* What a leader counts as replicated is: as long as the follower has not moved
\* to a later term, its disk holds the leader's log up to match_index, although
\* it may have crashed and handled old messages since it acknowledged.
AckedIsDurable ==
  \A i \in live : role[i] = Leader =>
    \A p \in Node \ {i} :
      \/ disk[p].term > term[i]
      \/ /\ match_index[i][p] <= Lower(Len(disk[p].log), Len(log[i]))
         /\ SubSeq(disk[p].log, 1, match_index[i][p])
              = SubSeq(log[i], 1, match_index[i][p])

\* append_for's subtraction and its slice of the log are defined for every peer.
InRange(i) ==
  \A p \in Node \ {i} :
    /\ match_index[i][p] < next_index[i][p]
    /\ next_index[i][p] <= Len(log[i]) + 1

\* A leader's cursors stay where append_for can use them (its slice and its
\* subtraction panic otherwise), in whatever order answers and hints arrive.
CursorsInRange == \A i \in live : role[i] = Leader => InRange(i)

\* Whatever a node has committed is, and stays, on the disks of a majority.
CommittedOnMajority ==
  \A i \in live :
    /\ commit_index[i] <= Len(log[i])
    /\ IsQuorum({p \in Node :
         /\ commit_index[i] <= Len(disk[p].log)
         /\ SubSeq(disk[p].log, 1, commit_index[i])
              = SubSeq(log[i], 1, commit_index[i])})

\* In a cluster of one, whatever the leader has appended is committed, the
\* entries of its earlier lives included.
LoneLeaderCommits ==
  \A i \in live :
    Node = {i} /\ role[i] = Leader => commit_index[i] = Len(log[i])

=============================================================================
