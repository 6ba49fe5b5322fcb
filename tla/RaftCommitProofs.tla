-------------------------- MODULE RaftCommitProofs --------------------------
(***************************************************************************)
(* What is committed stays, for any cluster: a committed entry is in the   *)
(* log of every later leader, so that no majority can ever lose it.        *)
(***************************************************************************)
EXTENDS RaftLogProofs

-----------------------------------------------------------------------------
(* What each action acknowledges, commits and sends *)

\* A step that sends nothing, or something that is neither an answer nor
\* AppendEntries.
LEMMA SendsNothing ==
  ASSUME NEW i, wire' = wire
  PROVE  AcksTaken(i) /\ AsksTruly(i) /\ GrantsUpToDate(i) /\ SendsCommit(i)
  BY DEF AcksTaken, AsksTruly, GrantsUpToDate, SendsCommit

\* AppendEntries are no answers, and carry the commit index.
LEMMA SendsAppends ==
  ASSUME NEW i, NEW P, wire' = wire \cup {AppendFor(i, p)' : p \in P}
  PROVE  AcksTaken(i) /\ AsksTruly(i) /\ GrantsUpToDate(i) /\ SendsCommit(i)
<1>1. \A p : LET m == AppendFor(i, p)'
             IN /\ m.kind = "AppendEntries" /\ m.from = i
                /\ m.leader_commit = commit_index'[i]
  BY DEF AppendFor
<1>2. \A m \in wire' \ wire :
        /\ m.kind = "AppendEntries" /\ m.from = i
        /\ m.leader_commit = commit_index'[i]
  BY <1>1
<1>3. QED
  BY <1>2 DEF AcksTaken, AsksTruly, GrantsUpToDate, SendsCommit, IsAck, IsGrant

\* A node that does not lead when the step ends has no match index to keep.
LEMMA NotLeading ==
  ASSUME NEW i, i \notin live' \/ role'[i] # Leader
  PROVE  MatchesRaised(i)
  BY DEF MatchesRaised

LEMMA AdvanceIsCommit ==
  ASSUME TypeOK, NEW i \in Node, NEW t, NEW entries, NEW acked,
         AdvanceCommit(i, t, entries, acked)
  PROVE  /\ \A j \in Node \ {i} : commit_index'[j] = commit_index[j]
         /\ \/ commit_index'[i] = commit_index[i]
            \/ commit_index'[i] \in Committable(i, t, entries, acked)
  BY DEF TypeOK, AdvanceCommit, Highest

LEMMA LeadsAndCommits ==
  ASSUME TypeOK, NEW i \in Node, i \in live', role'[i] = Leader,
         AdvanceCommit(i, term'[i], log'[i], match_index'[i])
  PROVE  Commits(i)
<1>1. PICK t : t = term'[i]
  OBVIOUS
<1>2. PICK l : l = log'[i]
  OBVIOUS
<1>3. PICK a : a = match_index'[i]
  OBVIOUS
<1>4. AdvanceCommit(i, t, l, a)
  BY <1>1, <1>2, <1>3
<1>5. /\ \A j \in Node \ {i} : commit_index'[j] = commit_index[j]
      /\ \/ commit_index'[i] = commit_index[i]
         \/ commit_index'[i] \in Committable(i, t, l, a)
  BY <1>4, AdvanceIsCommit
<1>6. QED
  BY <1>1, <1>2, <1>3, <1>5 DEF Commits

LEMMA BecomeLeaderReplicates ==
  ASSUME TypeOK, NEW i \in Node, NEW t, NEW d, BecomeLeader(i, t, d),
         i \in live', t = term'[i]
  PROVE  Replicates(i)
<1> DEFINE noop == [term |-> t, command |-> Noop]
           nothing == [p \in Node |-> 0]
<1>1. /\ role'[i] = Leader /\ log'[i] = Append(log[i], noop)
      /\ match_index'[i] = nothing
      /\ AdvanceCommit(i, t, Append(log[i], noop), nothing)
      /\ wire' = wire \cup {AppendFor(i, p)' : p \in Node \ {i}}
  BY DEF BecomeLeader, BroadcastAppend, Send, TypeOK
<1>2. Commits(i)
  BY <1>1, LeadsAndCommits
<1>3. MatchesRaised(i)
  BY <1>1 DEF MatchesRaised
<1>4. QED
  BY <1>1, <1>2, <1>3, SendsAppends DEF Replicates

LEMMA ElectionsReplicate ==
  ASSUME ElectionInv, TypeOK', NEW i \in Node,
         Campaign(i) \/ CampaignAlone(i) \/ \E m \in wire : WinElection(i, m)
  PROVE  Replicates(i)
<1>1. TypeOK
  BY DEF ElectionInv
<1>2. ASSUME Campaign(i) PROVE Replicates(i)
  <2>1. /\ i \in live /\ role'[i] = Candidate /\ commit_index' = commit_index
    BY <1>1, <1>2 DEF Campaign, StartElection, TypeOK, indices
  <2>2. \A m \in wire' \ wire :
          /\ m.kind = "RequestVote" /\ m.from = i
          /\ m.last_log_index = Len(log[i]) /\ m.last_log_term = LastTerm(log[i])
    BY <1>2 DEF Campaign, Send
  <2>3. AcksTaken(i) /\ AsksTruly(i) /\ GrantsUpToDate(i) /\ SendsCommit(i)
    BY <2>1, <2>2 DEF AcksTaken, AsksTruly, GrantsUpToDate, SendsCommit,
       IsAck, IsGrant, IsAppend
  <2>4. QED
    BY <2>1, <2>3 DEF Replicates, Commits, MatchesRaised, Candidate, Leader
<1>3. ASSUME CampaignAlone(i) PROVE Replicates(i)
  <2>1. /\ i \in live' /\ term'[i] = term[i] + 1
        /\ BecomeLeader(i, term[i] + 1, SelfVote(i))
    BY <1>1, <1>3 DEF CampaignAlone, StartElection, TypeOK
  <2>2. QED
    BY <1>1, <2>1, BecomeLeaderReplicates
<1>4. ASSUME NEW m \in wire, WinElection(i, m) PROVE Replicates(i)
  <2>1. i \in live' /\ term'[i] = term[i] /\ BecomeLeader(i, term[i], disk[i])
    BY <1>4 DEF WinElection, OnVoteResponse, Deliverable
  <2>2. QED
    BY <1>1, <2>1, BecomeLeaderReplicates
<1>5. QED
  BY <1>2, <1>3, <1>4

LEMMA VotingReplicates ==
  ASSUME ElectionInv, TypeOK', NEW i \in Node, NEW m \in wire,
         GrantVote(i, m) \/ DenyVote(i, m) \/ StepDown(i, m) \/ CountVote(i, m)
  PROVE  Replicates(i)
<1>1. TypeOK /\ i \in live
  BY DEF ElectionInv, GrantVote, DenyVote, OnRequestVote, StepDown, CountVote,
     OnVoteResponse, Deliverable
<1>2. Commits(i)
  BY DEF GrantVote, DenyVote, OnRequestVote, StepDown, CountVote, indices, Commits
<1>3. MatchesRaised(i)
  <2>1. match_index' = match_index
    BY DEF GrantVote, DenyVote, OnRequestVote, StepDown, CountVote, cursors
  <2>2. role'[i] = Leader => role[i] = Leader /\ term'[i] = term[i]
    BY <1>1 DEF GrantVote, DenyVote, OnRequestVote, StepDown, CountVote,
       OnVoteResponse, RoleAfter, TermAfter, Follower, Leader, TypeOK
  <2>3. QED
    BY <1>1, <2>1, <2>2 DEF MatchesRaised
<1>4. ASSUME GrantVote(i, m) PROVE Replicates(i)
  <2>1. /\ m.kind = "RequestVote" /\ UpToDate(i, m) /\ m.term = TermAfter(i, m)
        /\ wire' = wire \cup {VoteReply(i, m, TRUE)}
    BY <1>4 DEF GrantVote, OnRequestVote, Grantable, Send
  <2>2. \A n \in wire' \ wire :
          n.kind = "VoteResponse" /\ n.from = i /\ n.to = m.from /\ n.term = m.term
    BY <2>1 DEF VoteReply
  <2>3. GrantsUpToDate(i)
    BY <1>1, <2>1, <2>2 DEF GrantsUpToDate
  <2>4. AcksTaken(i) /\ AsksTruly(i) /\ SendsCommit(i)
    BY <2>2 DEF AcksTaken, AsksTruly, SendsCommit, IsAck, IsAppend
  <2>5. QED
    BY <1>2, <1>3, <2>3, <2>4 DEF Replicates
<1>5. ASSUME DenyVote(i, m) PROVE Replicates(i)
  <2>1. \A n \in wire' \ wire : n.kind = "VoteResponse" /\ n.granted = FALSE
    BY <1>5 DEF DenyVote, Send, VoteReply
  <2>2. AcksTaken(i) /\ AsksTruly(i) /\ GrantsUpToDate(i) /\ SendsCommit(i)
    BY <2>1 DEF AcksTaken, AsksTruly, GrantsUpToDate, SendsCommit, IsAck, IsGrant,
       IsAppend
  <2>3. QED
    BY <1>2, <1>3, <2>2 DEF Replicates
<1>6. ASSUME StepDown(i, m) \/ CountVote(i, m) PROVE Replicates(i)
  <2>1. wire' = wire
    BY <1>6 DEF StepDown, CountVote
  <2>2. QED
    BY <1>2, <1>3, <2>1, SendsNothing DEF Replicates
<1>7. QED
  BY <1>4, <1>5, <1>6

LEMMA CrashReplicates ==
  ASSUME TypeOK, NEW i \in Node, FreshVolatile(i), wire' = wire
  PROVE  Replicates(i)
<1>1. /\ role'[i] = Follower /\ commit_index'[i] = 0
      /\ \A j \in Node \ {i} : commit_index'[j] = commit_index[j]
  BY DEF FreshVolatile, TypeOK
<1>2. QED
  BY <1>1, SendsNothing DEF Replicates, Commits, MatchesRaised, Follower, Leader

LEMMA CrashesReplicate ==
  ASSUME ElectionInv, TypeOK', NEW i \in Node,
         \/ Crash(i) \/ CrashInCampaign(i) \/ Restart(i)
         \/ \E m \in wire : CrashInHandler(i, m)
  PROVE  Replicates(i)
<1>1. FreshVolatile(i) /\ wire' = wire
  BY DEF Crash, CrashInCampaign, CrashInHandler, CrashInStepDown, CrashInTruncate,
     CrashWith, Restart
<1>2. QED
  BY <1>1, CrashReplicates DEF ElectionInv

LEMMA LeadersReplicate ==
  ASSUME ElectionInv, TypeOK', NEW i \in Node,
         \/ Heartbeat(i) \/ TakeCommitted(i)
         \/ \E c \in Command \cup {Noop} : Propose(i, c)
  PROVE  Replicates(i)
<1>1. TypeOK
  BY DEF ElectionInv
<1>2. /\ i \in live /\ role' = role /\ term' = term /\ match_index' = match_index
  BY DEF Heartbeat, TakeCommitted, Propose, memory, cursors
<1>3. MatchesRaised(i)
  BY <1>2 DEF MatchesRaised
<1>4. ASSUME Heartbeat(i) PROVE Replicates(i)
  <2>1. commit_index' = commit_index
        /\ wire' = wire \cup {AppendFor(i, p)' : p \in Node \ {i}}
    BY <1>4 DEF Heartbeat, BroadcastAppend, Send, indices
  <2>2. QED
    BY <1>3, <2>1, SendsAppends DEF Replicates, Commits
<1>5. ASSUME TakeCommitted(i) PROVE Replicates(i)
  BY <1>3, <1>5, SendsNothing DEF TakeCommitted, Replicates, Commits
<1>6. ASSUME NEW c \in Command \cup {Noop}, Propose(i, c) PROVE Replicates(i)
  <2> DEFINE e == [term |-> term[i], command |-> c]
  <2>1. /\ i \in live' /\ role'[i] = Leader
        /\ log'[i] = Append(log[i], e)
        /\ AdvanceCommit(i, term[i], Append(log[i], e), match_index[i])
        /\ wire' = wire \cup {AppendFor(i, p)' : p \in Node \ {i}}
    BY <1>1, <1>6 DEF Propose, BroadcastAppend, Send, TypeOK
  <2>2. Commits(i)
    BY <1>1, <1>2, <2>1, LeadsAndCommits
  <2>3. QED
    BY <1>3, <2>1, <2>2, SendsAppends DEF Replicates
<1>7. QED
  BY <1>4, <1>5, <1>6

\* A follower that accepts AppendEntries acknowledges and commits what it took.
LEMMA AcceptReplicates ==
  ASSUME ElectionInv, TypeOK', NEW i \in Node, NEW m \in wire,
         AcceptAppend(i, m), Takes(i, m)
  PROVE  Replicates(i)
<1>1. TypeOK /\ FollowLeader(i, m) /\ m.term = disk'[i].term
  BY DEF ElectionInv, AcceptAppend, Takes
<1>2. role'[i] = Follower /\ TermAfter(i, m) = m.term
  <2>1. role'[i] = Follower /\ Current(i, m)
    BY <1>1 DEF FollowLeader, TypeOK
  <2>2. TermAfter(i, m) = m.term
    BY <1>1, <2>1, MessageFields DEF TypeOK, Term, Current, TermAfter, Newer
  <2>3. QED
    BY <2>1, <2>2
<1>3. Commits(i)
  <2>1. commit_index' = [commit_index EXCEPT ![i] = CommitAfter(i, m)]
    BY DEF AcceptAppend
  <2>2. /\ commit_index'[i] = CommitAfter(i, m)
        /\ \A j \in Node \ {i} : commit_index'[j] = commit_index[j]
    BY <1>1, <2>1 DEF TypeOK
  <2>3. \/ CommitAfter(i, m) = commit_index[i]
        \/ CommitAfter(i, m) = Lower(m.leader_commit, Matched(i, m))
    BY DEF CommitAfter
  <2>4. QED
    BY <2>2, <2>3 DEF Commits
<1>4. wire' = wire \cup {AppendReply(i, m, TRUE, Matched(i, m))}
  BY DEF AcceptAppend, Send
<1>5. \A n \in wire' \ wire :
        /\ n.kind = "AppendResponse" /\ n.from = i
        /\ n.term = m.term /\ n.match_index = Matched(i, m)
  BY <1>2, <1>4 DEF AppendReply
<1>6. AcksTaken(i)
  BY <1>5 DEF AcksTaken
<1>7. AsksTruly(i) /\ GrantsUpToDate(i) /\ SendsCommit(i)
  BY <1>5 DEF AsksTruly, GrantsUpToDate, SendsCommit, IsGrant, IsAppend
<1>8. MatchesRaised(i)
  BY <1>2 DEF MatchesRaised, Follower, Leader
<1>9. QED
  BY <1>3, <1>6, <1>7, <1>8 DEF Replicates

LEMMA FollowersReplicate ==
  ASSUME ElectionInv, TypeOK', NEW i \in Node, NEW m \in wire,
         RejectStale(i, m) \/ RejectAppend(i, m) \/ AcceptKnown(i, m) \/ AcceptNew(i, m)
  PROVE  Replicates(i)
<1>1. TypeOK
  BY DEF ElectionInv
<1>2. ASSUME NEW n, wire' = wire \cup {AppendReply(i, m, FALSE, n)}
      PROVE  AcksTaken(i) /\ AsksTruly(i) /\ GrantsUpToDate(i) /\ SendsCommit(i)
  <2>1. \A r \in wire' \ wire : r.kind = "AppendResponse" /\ r.success = FALSE
    BY <1>2 DEF AppendReply
  <2>2. QED
    BY <2>1 DEF AcksTaken, AsksTruly, GrantsUpToDate, SendsCommit, IsAck, IsGrant,
       IsAppend
<1>3. ASSUME RejectStale(i, m) PROVE Replicates(i)
  <2>1. /\ i \in live /\ role' = role /\ term' = term /\ match_index' = match_index
        /\ commit_index' = commit_index
        /\ wire' = wire \cup {AppendReply(i, m, FALSE, 0)}
    BY <1>3 DEF RejectStale, Deliverable, memory, indices, cursors, Send
  <2>2. QED
    BY <1>2, <2>1 DEF Replicates, Commits, MatchesRaised
<1>4. ASSUME RejectAppend(i, m) PROVE Replicates(i)
  <2>1. /\ role'[i] = Follower /\ commit_index' = commit_index
        /\ wire' = wire \cup {AppendReply(i, m, FALSE, Hint(i, m))}
    BY <1>1, <1>4 DEF RejectAppend, FollowLeader, TypeOK, Send
  <2>2. QED
    BY <1>2, <2>1 DEF Replicates, Commits, MatchesRaised, Follower, Leader
<1>5. ASSUME AcceptKnown(i, m) \/ AcceptNew(i, m) PROVE Replicates(i)
  <2>1. /\ AcceptAppend(i, m) /\ i \in live /\ live' = live /\ IsAppend(m)
        /\ Current(i, m) /\ Consistent(i, m) /\ term'[i] = TermAfter(i, m)
    BY <1>1, <1>5 DEF AcceptKnown, AcceptNew, AcceptAppend, FollowLeader, Deliverable,
       IsAppend, TypeOK
  <2>2. LocalStep(i)
    BY <1>5, FollowerSteps
  <2>3. disk'[i].log = log'[i] /\ disk'[i].term = term'[i]
    BY <2>1, <2>2 DEF LocalStep, DurableAt
  <2>4. TermAfter(i, m) = m.term
    BY <1>1, <2>1, MessageFields DEF TypeOK, Term, Current, TermAfter, Newer
  <2>5. \/ Missing(i, m) = {} /\ log'[i] = log[i]
        \/ \E k \in Lowest(Missing(i, m)) : log'[i] = Spliced(i, m, k)
    <3>1. CASE AcceptKnown(i, m)
      BY <3>1 DEF AcceptKnown
    <3>2. CASE AcceptNew(i, m)
      BY <1>1, <3>2 DEF AcceptNew, Splice, TypeOK
    <3>3. QED
      BY <1>5, <3>1, <3>2
  <2>6. Takes(i, m)
    BY <2>1, <2>3, <2>4, <2>5 DEF Takes
  <2>7. QED
    BY <2>1, <2>6, AcceptReplicates
<1>6. QED
  BY <1>3, <1>4, <1>5

LEMMA AcksReplicate ==
  ASSUME ElectionInv, TypeOK', NEW i \in Node, NEW m \in wire,
         AckSuccess(i, m) \/ AckFailure(i, m)
  PROVE  Replicates(i)
<1>1. TypeOK /\ OnAppendResponse(i, m)
  BY DEF ElectionInv, AckSuccess, AckFailure
<1>2. /\ i \in live /\ i \in live' /\ role[i] = Leader /\ role' = role
      /\ term' = term /\ log' = log
      /\ m.kind = "AppendResponse" /\ m.term = term[i] /\ m.from \in Node
  BY <1>1, MessageFields DEF OnAppendResponse, Deliverable, memory, TypeOK
<1>3. AcksTaken(i) /\ AsksTruly(i) /\ GrantsUpToDate(i) /\ SendsCommit(i)
  <2>1. \/ wire' = wire
        \/ wire' = wire \cup {AppendFor(i, p)' : p \in {m.from}}
    BY DEF AckSuccess, AckFailure, Send
  <2>2. QED
    BY <2>1, SendsNothing, SendsAppends
<1>4. ASSUME AckFailure(i, m) PROVE Replicates(i)
  BY <1>2, <1>3, <1>4 DEF AckFailure, Replicates, Commits, MatchesRaised
<1>5. ASSUME AckSuccess(i, m) PROVE Replicates(i)
  <2>1. PICK a \in Nat : a = Acknowledged(i, m)
    BY <1>1, <1>2, MessageFields, LenProperties
    DEF TypeOK, Index, AppendResponse, Acknowledged, Higher, Lower
  <2>2. /\ match_index' = [match_index EXCEPT ![i] = [match_index[i] EXCEPT ![m.from] = a]]
        /\ AdvanceCommit(i, term[i], log[i], [match_index[i] EXCEPT ![m.from] = a])
        /\ m.success
    BY <1>5, <2>1 DEF AckSuccess
  <2>3. /\ match_index'[i] = [match_index[i] EXCEPT ![m.from] = a]
        /\ match_index'[i][m.from] = a
        /\ \A p \in Node \ {m.from} : match_index'[i][p] = match_index[i][p]
    BY <1>1, <1>2, <2>2 DEF TypeOK
  <2>4. Commits(i)
    BY <1>1, <1>2, <2>2, <2>3, LeadsAndCommits
  <2>5. IsAck(m) /\ m.match_index \in Nat
    BY <1>1, <1>2, <2>2, MessageFields DEF IsAck, TypeOK, Index, AppendResponse
  <2>6. a = match_index[i][m.from] \/ a <= m.match_index
    <3>1. match_index[i][m.from] \in Nat /\ Len(log[i]) \in Nat
      BY <1>1, <1>2, LenProperties DEF TypeOK, Index
    <3>2. QED
      BY <2>1, <2>5, <3>1 DEF Acknowledged, Higher, Lower
  <2>7. MatchesRaised(i)
    <3>1. SUFFICES ASSUME NEW p \in Node \ {i}
                   PROVE  \/ match_index'[i][p] = match_index[i][p]
                          \/ p = m.from /\ match_index'[i][p] <= m.match_index
      BY <1>2, <2>5 DEF MatchesRaised
    <3>2. QED
      BY <2>3, <2>6
  <2>8. QED
    BY <1>3, <2>4, <2>7 DEF Replicates
<1>6. QED
  BY <1>4, <1>5

\* Every step, as far as the invariants are concerned.
LEMMA ReplicationOfStep ==
  ASSUME ElectionInv, TypeOK', NEW i \in Node, StepOf(i)
  PROVE  Replicates(i)
<1>1. CASE Timeout(i)
  BY <1>1, ElectionsReplicate, LeadersReplicate DEF Timeout
<1>2. CASE \/ \E c \in Command \cup {Noop} : Propose(i, c)
           \/ TakeCommitted(i)
  BY <1>2, LeadersReplicate
<1>3. CASE Crash(i) \/ CrashInCampaign(i) \/ Restart(i)
  BY <1>3, CrashesReplicate
<1>4. ASSUME NEW m \in wire, Handle(i, m) \/ CrashInHandler(i, m)
      PROVE  Replicates(i)
  <2>1. CASE CrashInHandler(i, m)
    BY <2>1, CrashesReplicate
  <2>2. CASE Handle(i, m)
    BY <2>2, VotingReplicates, ElectionsReplicate, FollowersReplicate,
       AcksReplicate DEF Handle
  <2>3. QED
    BY <1>4, <2>1, <2>2
<1>5. QED
  BY <1>1, <1>2, <1>3, <1>4 DEF StepOf

-----------------------------------------------------------------------------
(* How the logs evolve *)

LEMMA SelfPrefix ==
  ASSUME NEW l \in Seq(Entry)
  PROVE  SamePrefix(l, l, Len(l)) /\ SamePrefix(l, l, 0) /\ Len(l) \in Nat
  BY LenProperties DEF SamePrefix

LEMMA StepEvolves ==
  ASSUME ElectionInv, ElectionInv', NEW led \in [Term -> Seq(Entry)], LogInv(led),
         NEW i \in Node, LocalStep(i), Idle(i) \/ Grow(i) \/ Obey(i)
  PROVE  \E led2 \in [Term -> Seq(Entry)] : LogInv(led2)' /\ Evolves(led, led2, i)
<1>1. \A j \in Node : disk[j].log \in Seq(Entry)
  BY LogFacts
<1>2. \A j \in Node \ {i} : LogKept(led, j)
  BY <1>1, OthersFit, SelfPrefix DEF LogKept
<1>3. Extended(led, led)
  BY SelfPrefix DEF Extended
<1>4. ASSUME Idle(i)
      PROVE  LogInv(led)' /\ Evolves(led, led, i)
  <2>1. LogKept(led, i)
    BY <1>1, <1>4, SelfPrefix DEF Idle, LogKept
  <2>2. CandidateKept(i)
    BY <1>4 DEF Idle, CandidateKept
  <2>3. LogInv(led)'
    BY <1>4, IdleKeepsLog
  <2>4. QED
    BY <1>2, <1>3, <2>1, <2>2, <2>3 DEF Evolves, LedKept, Grown
<1>5. ASSUME Obey(i)
      PROVE  LogInv(led)' /\ Evolves(led, led, i)
  <2>1. LogKept(led, i)
    <3>1. PICK r \in Seq(Entry) : r = led[disk'[i].term]
      BY <1>5, ObeyFacts
    <3>2. PICK l \in Seq(Entry) : l = disk'[i].log
      BY DEF ElectionInv, TypeOK, Persistent
    <3>3. /\ r # <<>> /\ SamePrefix(l, r, Len(l))
          /\ \A n \in Nat : SamePrefix(disk[i].log, r, n) => n <= Len(l)
      BY <1>5, <3>1, <3>2, ObeyFacts
    <3>4. \A n \in Nat : n <= Len(l) => SamePrefix(l, r, n)
      BY <3>3, PrefixShorter, LenProperties
    <3>5. QED
      BY <3>1, <3>2, <3>3, <3>4 DEF LogKept
  <2>2. CandidateKept(i)
    BY <1>5 DEF Obey, CandidateKept, Follower, Candidate
  <2>3. LogInv(led)'
    BY <1>5, ObeyKeepsLog
  <2>4. QED
    BY <1>2, <1>3, <2>1, <2>2, <2>3 DEF Evolves, LedKept, Grown
<1>6. ASSUME Grow(i)
      PROVE  \E led2 \in [Term -> Seq(Entry)] : LogInv(led2)' /\ Evolves(led, led2, i)
  <2>1. PICK led2 : led2 = Built(led, i)
    OBVIOUS
  <2>2. /\ led2 \in [Term -> Seq(Entry)] /\ led2[term'[i]] = disk'[i].log
        /\ \A t \in Term : t # term'[i] => led2[t] = led[t]
        /\ Extended(led, led2)
    BY <1>6, <2>1, GrowExtends
  <2>3. LogInv(led2)'
    BY <1>6, <2>1, GrowKeepsLog
  <2>4. /\ disk'[i].term = term'[i]
        /\ SamePrefix(disk[i].log, disk'[i].log, Len(disk[i].log))
        /\ \/ led[term'[i]] = disk[i].log /\ role[i] = Leader /\ term[i] = term'[i]
           \/ led[term'[i]] = <<>> /\ ~(role[i] = Leader /\ term[i] = term'[i])
    BY <1>6, GrowFacts
  <2>5. /\ i \in live' /\ role'[i] = Leader
        /\ \/ role[i] = Leader /\ term'[i] = term[i]
           \/ StandsFor(i, term'[i])
           \/ term'[i] > disk[i].term
    BY <1>6 DEF Grow
  <2>6. led[term'[i]] = <<>> => StandsFor(i, term'[i]) \/ term'[i] > disk[i].term
    <3>1. CASE role[i] = Leader /\ term'[i] = term[i]
      BY <1>6, <3>1 DEF Grow, LogInv, LeadersLed
    <3>2. QED
      BY <2>5, <3>1
  <2>7. LedKept(led, led2, i)
    BY <2>2, <2>4, <2>5, <2>6 DEF LedKept, Grown
  <2>8. LogKept(led, i) /\ CandidateKept(i)
    BY <2>4, <2>5 DEF LogKept, CandidateKept, Candidate, Leader
  <2>9. QED
    BY <1>2, <2>2, <2>3, <2>7, <2>8 DEF Evolves
<1>7. QED
  BY <1>4, <1>5, <1>6

-----------------------------------------------------------------------------
(* What a step keeps *)

LEMMA StepBasics ==
  ASSUME NEW led \in [Term -> Seq(Entry)], NEW led2 \in [Term -> Seq(Entry)],
         NEW i \in Node, StepFrom(led, led2, i)
  PROVE  /\ TypeOK /\ TypeOK' /\ GoodStep /\ wire \subseteq wire'
         /\ OneWinner'
         /\ \A v \in Node :
              /\ disk[v].term \in Nat /\ disk'[v].term \in Nat
              /\ disk[v].term <= disk'[v].term
              /\ disk[v].log \in Seq(Entry) /\ disk'[v].log \in Seq(Entry)
         /\ \A j \in live :
              j \in Node /\ disk[j].term = term[j] /\ disk[j].log = log[j]
         /\ \A j \in live' :
              j \in Node /\ disk'[j].term = term'[j] /\ disk'[j].log = log'[j]
<1>1. TypeOK /\ TypeOK' /\ GoodStep /\ wire \subseteq wire' /\ OneWinner'
  BY LocalToGood, WinnerIsOneNext DEF StepFrom, ElectionInv, LocalStep, SendsFresh
<1>2. \A v \in Node : disk[v] \in Persistent /\ disk'[v] \in Persistent
  BY <1>1 DEF TypeOK
<1>3. \A v \in Node : /\ disk[v].term \in Nat /\ disk'[v].term \in Nat
                      /\ disk[v].term <= disk'[v].term
  BY <1>1, DisksForward DEF StepFrom
<1>4. \A j \in live' : j \in Node /\ DurableAt(j)'
  BY <1>1 DEF GoodStep, MemoryIsDurable, TypeOK
<1>5. QED
  BY <1>1, <1>2, <1>3, <1>4, NodeFacts DEF StepFrom, Persistent, DurableAt

\* The logs of the terms' leaders.
LEMMA LedBasics ==
  ASSUME NEW led \in [Term -> Seq(Entry)], NEW led2 \in [Term -> Seq(Entry)],
         NEW i \in Node, StepFrom(led, led2, i), NEW t \in Term
  PROVE  /\ led[t] \in Seq(Entry) /\ led2[t] \in Seq(Entry) /\ t \in Nat
         /\ Len(led[t]) \in Nat /\ Len(led2[t]) \in Nat
         /\ Len(led[t]) <= Len(led2[t])
         /\ \A n \in Nat : n <= Len(led[t]) =>
              SamePrefix(led[t], led2[t], n) /\ SamePrefix(led2[t], led[t], n)
         /\ led[t] # <<>> => led2[t] # <<>>
         /\ ~Grown(led, led2, t) => led2[t] = led[t]
<1>1. led[t] \in Seq(Entry) /\ led2[t] \in Seq(Entry) /\ t \in Nat
  BY DEF Term
<1>2. SamePrefix(led[t], led2[t], Len(led[t]))
  BY DEF StepFrom, Evolves, LedKept, Extended
<1>3. Len(led[t]) \in Nat /\ Len(led2[t]) \in Nat /\ Len(led[t]) <= Len(led2[t])
  BY <1>1, <1>2, LenProperties DEF SamePrefix
<1>4. \A n \in Nat : n <= Len(led[t]) =>
        SamePrefix(led[t], led2[t], n) /\ SamePrefix(led2[t], led[t], n)
  BY <1>1, <1>2, <1>3, PrefixShorter
<1>5. led[t] # <<>> => led2[t] # <<>>
  BY <1>1, <1>3, EmptySeq
<1>6. ~Grown(led, led2, t) => led2[t] = led[t]
  BY DEF Grown
<1>7. QED
  BY <1>1, <1>3, <1>4, <1>5, <1>6

\* Whoever appends to a term's log leads that term, and has won it.
LEMMA LedChanged ==
  ASSUME NEW led \in [Term -> Seq(Entry)], NEW led2 \in [Term -> Seq(Entry)],
         NEW i \in Node, StepFrom(led, led2, i), NEW t \in Term,
         Grown(led, led2, t)
  PROVE  /\ t = term'[i] /\ t = disk'[i].term /\ led2[t] = disk'[i].log
         /\ i \in live' /\ role'[i] = Leader
  BY DEF StepFrom, Evolves, LedKept

LEMMA BuilderElected ==
  ASSUME NEW led \in [Term -> Seq(Entry)], NEW led2 \in [Term -> Seq(Entry)],
         NEW i \in Node, StepFrom(led, led2, i), NEW t \in Term,
         Grown(led, led2, t)
  PROVE  Elected(i, t)'
<1>1. t = term'[i] /\ i \in live' /\ role'[i] = Leader
  BY LedChanged
<1>2. Elected(i, term[i])'
  BY <1>1 DEF StepFrom, ElectionInv, WireInv, LeadersElected
<1>3. QED
  BY <1>1, <1>2 DEF Elected

\* What a log shares with a leader's, it shares with what that becomes.
LEMMA PrefixLed ==
  ASSUME NEW led \in [Term -> Seq(Entry)], NEW led2 \in [Term -> Seq(Entry)],
         NEW i \in Node, StepFrom(led, led2, i), NEW t \in Term,
         NEW l, NEW n \in Nat, SamePrefix(l, led[t], n)
  PROVE  SamePrefix(l, led2[t], n)
<1>1. n <= Len(led[t])
  BY DEF SamePrefix
<1>2. SamePrefix(led[t], led2[t], n)
  BY <1>1, LedBasics
<1>3. QED
  BY <1>2, PrefixTransitive

LEMMA ShorterThanLed ==
  ASSUME NEW led \in [Term -> Seq(Entry)], NEW led2 \in [Term -> Seq(Entry)],
         NEW i \in Node, StepFrom(led, led2, i), NEW t \in Term, NEW n \in Nat,
         n <= Len(led[t])
  PROVE  n <= Len(led2[t])
<1>1. /\ Len(led[t]) \in Nat /\ Len(led2[t]) \in Nat
      /\ Len(led[t]) <= Len(led2[t])
  BY LedBasics
<1>2. QED
  BY <1>1

\* Who wins a term stays its winner; and was it, once it had appended.
LEMMA ElectedStep ==
  ASSUME NEW led \in [Term -> Seq(Entry)], NEW led2 \in [Term -> Seq(Entry)],
         NEW i \in Node, StepFrom(led, led2, i), NEW t \in Term, NEW c \in Node
  PROVE  /\ Elected(c, t) => Elected(c, t)'
         /\ Elected(c, t)' /\ led[t] # <<>> => Elected(c, t)
<1>1. \A d \in Node : Elected(d, t) => Elected(d, t)'
  BY StepBasics, ElectedKept DEF StepFrom, Term
<1>2. ASSUME Elected(c, t)', led[t] # <<>> PROVE Elected(c, t)
  <2>1. PICK d \in Node : Elected(d, t)
    BY <1>2 DEF StepFrom, LogInv, LedElected
  <2>2. d = c
    BY <1>1, <1>2, <2>1, StepBasics DEF OneWinner
  <2>3. QED
    BY <2>1, <2>2
<1>3. QED
  BY <1>1, <1>2

LEMMA AckFields ==
  ASSUME TypeOK, NEW m \in wire, IsAck(m)
  PROVE  m.from \in Node /\ m.term \in Term /\ m.match_index \in Nat
  BY MessageFields DEF TypeOK, IsAck, AppendResponse, Index, Term

\* What a follower takes from AppendEntries is the leader's log up to their end.
LEMMA TakesFacts ==
  ASSUME ElectionInv, NEW led \in [Term -> Seq(Entry)], LogInv(led),
         NEW i \in Node, NEW a \in wire, Takes(i, a)
  PROVE  /\ a.term \in Term /\ a.term = disk'[i].term
         /\ Matched(i, a) \in Nat /\ Matched(i, a) <= Len(led[a.term])
         /\ SamePrefix(disk'[i].log, led[a.term], Matched(i, a))
<1>1. i \in live /\ IsAppend(a) /\ a.term = disk'[i].term /\ Consistent(i, a)
  BY DEF Takes
<1>2. /\ a.term \in Term /\ a.prev_index \in Nat /\ Len(a.entries) \in Nat
      /\ SliceOf(a, led[a.term])
  BY <1>1, MessageFacts DEF Term
<1>3. /\ Matched(i, a) = a.prev_index + Len(a.entries)
      /\ Matched(i, a) \in Nat /\ Matched(i, a) <= Len(led[a.term])
  BY <1>2 DEF Matched, SliceOf
<1>4. CASE Missing(i, a) = {} /\ disk'[i].log = log[i]
  <2>1. PICK k \in Nat : k = Len(a.entries)
    BY <1>2
  <2>2. k \notin Missing(i, a)
    BY <1>4
  <2>3. SamePrefix(log[i], led[a.term], a.prev_index + k)
    BY <1>1, <2>1, <2>2, AgreesUpTo
  <2>4. QED
    BY <1>1, <1>2, <1>3, <1>4, <2>1, <2>3
<1>5. ASSUME NEW k \in Lowest(Missing(i, a)), disk'[i].log = Spliced(i, a, k)
      PROVE  SamePrefix(disk'[i].log, led[a.term], Matched(i, a))
  <2>1. LET l == Spliced(i, a, k)
        IN /\ Len(l) = a.prev_index + Len(a.entries)
           /\ SamePrefix(l, led[a.term], Len(l))
    BY <1>1, SpliceAgrees
  <2>2. QED
    BY <1>3, <1>5, <2>1
<1>6. QED
  BY <1>1, <1>2, <1>3, <1>4, <1>5 DEF Takes

LEMMA NewAck ==
  ASSUME NEW led \in [Term -> Seq(Entry)], NEW led2 \in [Term -> Seq(Entry)],
         NEW i \in Node, StepFrom(led, led2, i),
         NEW m \in wire', m \notin wire, IsAck(m)
  PROVE  /\ m.from = i /\ m.term = disk'[i].term /\ m.term \in Term
         /\ m.match_index \in Nat /\ m.match_index <= Len(led[m.term])
         /\ SamePrefix(disk'[i].log, led[m.term], m.match_index)
<1>1. /\ m.from = i
      /\ \E a \in wire : Takes(i, a) /\ m.term = a.term /\ m.match_index = Matched(i, a)
  BY DEF StepFrom, Replicates, AcksTaken
<1>2. QED
  BY <1>1, TakesFacts DEF StepFrom

\* Only a node that is in the term can newly back something.
LEMMA PastBacker ==
  ASSUME NEW led \in [Term -> Seq(Entry)], NEW led2 \in [Term -> Seq(Entry)],
         NEW i \in Node, StepFrom(led, led2, i), NEW t \in Term, NEW v \in Node,
         NEW n \in Nat \ {0}, Backed(led2, v, n, t)', disk'[v].term > t
  PROVE  n \in 1 .. Len(led[t]) /\ Backed(led, v, n, t)
<1>1. disk'[v].term \in Nat /\ t \in Nat /\ Len(led[t]) \in Nat
  BY StepBasics, LedBasics
<1>2. ASSUME NEW m \in wire', IsAck(m), m.from = v, m.term = t, n <= m.match_index
      PROVE  n \in 1 .. Len(led[t]) /\ Backed(led, v, n, t)
  <2>1. m \in wire
    BY <1>1, <1>2, NewAck
  <2>2. m.match_index <= Len(led[m.term]) /\ m.match_index \in Nat
    BY <1>2, <2>1, StepBasics, AckFields DEF StepFrom, CommitInv, AcksHold
  <2>3. QED
    BY <1>1, <1>2, <2>1, <2>2 DEF Backed
<1>3. ASSUME Elected(v, t)', n <= Len(led2[t])
      PROVE  n \in 1 .. Len(led[t]) /\ Backed(led, v, n, t)
  <2>1. led2[t] = led[t]
    <3>1. SUFFICES ASSUME Grown(led, led2, t) PROVE FALSE
      BY LedBasics
    <3>2. t = disk'[i].term
      BY <3>1, LedChanged
    <3>3. Elected(i, t)'
      BY <3>1, BuilderElected
    <3>4. v = i
      BY <1>3, <3>3, StepBasics DEF OneWinner
    <3>5. QED
      BY <1>1, <3>2, <3>4
  <2>2. n \in 1 .. Len(led[t]) /\ led[t] # <<>>
    BY <1>1, <1>3, <2>1, EmptySeq
  <2>3. Elected(v, t)
    BY <1>3, <2>2, ElectedStep
  <2>4. QED
    BY <1>3, <2>1, <2>2, <2>3 DEF Backed
<1>4. QED
  BY <1>2, <1>3 DEF Backed, IsAck

\* What may be chosen could be before: a node that is past the term cannot back
\* anything new.
LEMMA MayBeChosenBefore ==
  ASSUME NEW led \in [Term -> Seq(Entry)], NEW led2 \in [Term -> Seq(Entry)],
         NEW i \in Node, StepFrom(led, led2, i), NEW t \in Term,
         NEW n \in 1 .. Len(led[t]), MayBeChosen(led2, n, t)'
  PROVE  MayBeChosen(led, n, t)
<1>1. /\ Own(led2, n, t)
      /\ \E Q \in SUBSET Node : IsQuorum(Q) /\
           \A v \in Q : Backed(led2, v, n, t)' \/ disk'[v].term <= t
  BY DEF MayBeChosen, Own, IsQuorum
<1>2. PICK Q \in SUBSET Node : IsQuorum(Q) /\
        \A v \in Q : Backed(led2, v, n, t)' \/ disk'[v].term <= t
  BY <1>1
<1>3. n \in Nat \ {0} /\ n <= Len(led[t]) /\ t \in Nat
  <2>1. Len(led[t]) \in Nat /\ t \in Nat
    BY LedBasics
  <2>2. QED
    BY <2>1
<1>4. Own(led, n, t)
  <2>1. SamePrefix(led[t], led2[t], n)
    BY <1>3, LedBasics
  <2>2. QED
    BY <1>1, <1>3, <2>1 DEF Own, SamePrefix
<1>5. ASSUME NEW v \in Q
      PROVE  Backed(led, v, n, t) \/ disk[v].term <= t
  <2>1. v \in Node
    OBVIOUS
  <2>2. /\ disk[v].term \in Nat /\ disk'[v].term \in Nat
        /\ disk[v].term <= disk'[v].term
    BY <2>1, StepBasics
  <2>3. CASE disk'[v].term <= t
    BY <1>3, <2>2, <2>3
  <2>4. CASE ~(disk'[v].term <= t)
    <3>1. Backed(led2, v, n, t)' /\ disk'[v].term > t
      BY <1>2, <1>3, <2>2, <2>4
    <3>2. QED
      BY <1>3, <2>1, <3>1, PastBacker
  <2>5. QED
    BY <2>3, <2>4
<1>6. QED
  BY <1>2, <1>4, <1>5 DEF MayBeChosen

\* When a majority is past the term, one of them has backed what may be chosen.
LEMMA PastQuorum ==
  ASSUME NEW led \in [Term -> Seq(Entry)], NEW led2 \in [Term -> Seq(Entry)],
         NEW i \in Node, StepFrom(led, led2, i), NEW t \in Term,
         NEW n \in 1 .. Len(led2[t]), MayBeChosen(led2, n, t)',
         NEW Q \in SUBSET Node, IsQuorum(Q), \A v \in Q : disk'[v].term > t
  PROVE  /\ n \in 1 .. Len(led[t]) /\ MayBeChosen(led, n, t)
         /\ \E v \in Q : Backed(led, v, n, t)
<1>1. PICK P \in SUBSET Node : IsQuorum(P) /\
        \A v \in P : Backed(led2, v, n, t)' \/ disk'[v].term <= t
  BY DEF MayBeChosen, IsQuorum
<1>2. PICK v \in Node : v \in P /\ v \in Q
  BY <1>1, QuorumsMeet
<1>3. disk'[v].term > t /\ n \in Nat \ {0} /\ t \in Nat /\ disk'[v].term \in Nat
  <2>1. Len(led2[t]) \in Nat /\ t \in Nat
    BY LedBasics
  <2>2. disk'[v].term \in Nat
    BY StepBasics
  <2>3. QED
    BY <1>2, <2>1, <2>2
<1>4. Backed(led2, v, n, t)'
  BY <1>1, <1>2, <1>3
<1>5. n \in 1 .. Len(led[t]) /\ Backed(led, v, n, t)
  BY <1>3, <1>4, PastBacker
<1>6. QED
  BY <1>2, <1>5, MayBeChosenBefore

\* A disk keeps what it shares with a term's leader, as long as it is in that
\* term or as long as that may be chosen.
LEMMA DiskKept ==
  ASSUME NEW led \in [Term -> Seq(Entry)], NEW led2 \in [Term -> Seq(Entry)],
         NEW i \in Node, StepFrom(led, led2, i), NEW t \in Term, NEW j \in Node,
         NEW n \in Nat, SamePrefix(disk[j].log, led[t], n),
         \/ disk'[j].term = t
         \/ /\ disk'[j].term >= t
            /\ \E N \in 1 .. Len(led[t]) : n <= N /\ MayBeChosen(led, N, t)
  PROVE  SamePrefix(disk'[j].log, led[t], n) /\ SamePrefix(disk'[j].log, led2[t], n)
<1>1. /\ disk[j].log \in Seq(Entry) /\ disk'[j].log \in Seq(Entry)
      /\ disk'[j].term \in Nat /\ disk'[j].term \in Term
      /\ led[t] \in Seq(Entry) /\ t \in Nat
  BY StepBasics, LedBasics DEF Term
<1>2. LogKept(led, j)
  BY DEF StepFrom, Evolves
<1> SUFFICES SamePrefix(disk'[j].log, led[t], n)
  BY PrefixLed
<1>3. CASE SamePrefix(disk[j].log, disk'[j].log, Len(disk[j].log))
  <2>1. n <= Len(disk[j].log) /\ Len(disk[j].log) \in Nat
    BY <1>1, LenProperties DEF SamePrefix
  <2>2. SamePrefix(disk'[j].log, disk[j].log, n)
    BY <1>1, <1>3, <2>1, PrefixShorter
  <2>3. QED
    BY <2>2, PrefixTransitive
<1>4. CASE /\ led[disk'[j].term] # <<>>
           /\ \A k \in Nat : SamePrefix(disk[j].log, led[disk'[j].term], k) =>
                               SamePrefix(disk'[j].log, led[disk'[j].term], k)
  <2>1. PICK u \in Term : u = disk'[j].term
    BY <1>1
  <2>2. CASE u = t
    BY <1>4, <2>1, <2>2
  <2>3. CASE u # t
    <3>1. PICK N \in 1 .. Len(led[t]) : n <= N /\ MayBeChosen(led, N, t)
      BY <2>1, <2>3
    <3>2. t < u
      BY <1>1, <2>1, <2>3
    <3>3. SamePrefix(led[u], led[t], N)
      BY <1>4, <2>1, <3>1, <3>2 DEF StepFrom, CommitInv, LaterLeadersHold
    <3>4. SamePrefix(led[u], led[t], n) /\ SamePrefix(led[t], led[u], n)
      <4>1. led[u] \in Seq(Entry) /\ N \in Int /\ n \in Int
        BY LedBasics
      <4>2. QED
        BY <1>1, <3>1, <3>3, <4>1, PrefixShorter
    <3>5. SamePrefix(disk[j].log, led[u], n)
      BY <3>4, PrefixTransitive
    <3>6. SamePrefix(disk'[j].log, led[u], n)
      BY <1>4, <2>1, <3>5
    <3>7. QED
      BY <3>4, <3>6, PrefixTransitive
  <2>4. QED
    BY <2>2, <2>3
<1>5. QED
  BY <1>2, <1>3, <1>4 DEF LogKept

-----------------------------------------------------------------------------
(* Each part of the invariant is kept *)

LEMMA AcksHoldKept ==
  ASSUME NEW led \in [Term -> Seq(Entry)], NEW led2 \in [Term -> Seq(Entry)],
         NEW i \in Node, StepFrom(led, led2, i)
  PROVE  AcksHold(led2)'
<1>1. SUFFICES ASSUME NEW m \in wire', IsAck(m)
               PROVE  /\ m.match_index <= Len(led2[m.term])
                      /\ disk'[m.from].term = m.term =>
                           SamePrefix(disk'[m.from].log, led2[m.term], m.match_index)
  BY DEF AcksHold, IsAck
<1>2. CASE m \in wire
  <2>1. m.from \in Node /\ m.term \in Term /\ m.match_index \in Nat
    BY <1>1, <1>2, AckFields, StepBasics
  <2>2. /\ m.match_index <= Len(led[m.term])
        /\ disk[m.from].term = m.term =>
             SamePrefix(disk[m.from].log, led[m.term], m.match_index)
    BY <1>1, <1>2 DEF StepFrom, CommitInv, AcksHold
  <2>3. m.term <= disk[m.from].term
    BY <1>2 DEF StepFrom, ElectionInv, WireInv, SentIsWritten
  <2>4. m.match_index <= Len(led2[m.term])
    BY <2>1, <2>2, ShorterThanLed
  <2>5. ASSUME disk'[m.from].term = m.term
        PROVE  SamePrefix(disk'[m.from].log, led2[m.term], m.match_index)
    <3>1. disk[m.from].term = m.term
      <4>1. /\ disk[m.from].term \in Nat /\ disk[m.from].term <= disk'[m.from].term
            /\ m.term \in Nat
        BY <2>1, StepBasics, LedBasics
      <4>2. QED
        BY <2>3, <2>5, <4>1
    <3>2. QED
      BY <2>1, <2>2, <2>5, <3>1, DiskKept
  <2>6. QED
    BY <2>4, <2>5
<1>3. CASE m \notin wire
  <2>1. /\ m.from = i /\ m.term \in Term /\ m.match_index \in Nat
        /\ m.match_index <= Len(led[m.term])
        /\ SamePrefix(disk'[i].log, led[m.term], m.match_index)
    BY <1>1, <1>3, NewAck
  <2>2. QED
    BY <2>1, ShorterThanLed, PrefixLed
<1>4. QED
  BY <1>2, <1>3

LEMMA OwnersHoldKept ==
  ASSUME NEW led \in [Term -> Seq(Entry)], NEW led2 \in [Term -> Seq(Entry)],
         NEW i \in Node, StepFrom(led, led2, i)
  PROVE  OwnersHold(led2)'
<1>1. SUFFICES ASSUME NEW t \in Term, NEW v \in Node, Elected(v, t)',
                      disk'[v].term = t
               PROVE  SamePrefix(disk'[v].log, led2[t], Len(led2[t]))
  BY DEF OwnersHold
<1>2. /\ disk'[v].log \in Seq(Entry) /\ led2[t] \in Seq(Entry) /\ t \in Nat
      /\ led[t] \in Seq(Entry) /\ Len(led[t]) \in Nat
      /\ disk[v].term \in Nat /\ disk[v].term <= disk'[v].term
  BY StepBasics, LedBasics
<1>3. CASE Grown(led, led2, t)
  <2>1. Elected(i, t)'
    BY <1>3, BuilderElected
  <2>2. v = i
    BY <1>1, <2>1, StepBasics DEF OneWinner
  <2>3. led2[t] = disk'[v].log
    BY <1>3, <2>2, LedChanged
  <2>4. QED
    BY <1>2, <2>3, SelfPrefix
<1>4. CASE ~Grown(led, led2, t)
  <2>1. led2[t] = led[t]
    BY <1>4, LedBasics
  <2>2. CASE led[t] = <<>>
    BY <1>2, <2>1, <2>2, LenProperties, EmptySeq DEF SamePrefix
  <2>3. CASE led[t] # <<>>
    <3>1. Elected(v, t)
      BY <1>1, <2>3, ElectedStep
    <3>2. disk[v].term = t
      BY <1>1, <1>2, <3>1, ElectedTerm
    <3>3. SamePrefix(disk[v].log, led[t], Len(led[t]))
      BY <3>1, <3>2 DEF StepFrom, CommitInv, OwnersHold
    <3>4. QED
      BY <1>1, <1>2, <2>1, <3>3, DiskKept
  <2>4. QED
    BY <2>2, <2>3
<1>5. QED
  BY <1>3, <1>4

\* Backing something takes a node that is, or was, in the term.
LEMMA BackerInTermNext ==
  ASSUME NEW led \in [Term -> Seq(Entry)], NEW led2 \in [Term -> Seq(Entry)],
         NEW i \in Node, StepFrom(led, led2, i), NEW v \in Node, NEW n,
         NEW t \in Term, Backed(led2, v, n, t)'
  PROVE  disk'[v].term > t \/ disk'[v].term = t
<1>1. disk'[v].term \in Nat /\ t \in Nat
  BY StepBasics DEF Term
<1>2. ASSUME NEW m \in wire', m.from = v, m.term = t
      PROVE  disk'[v].term > t \/ disk'[v].term = t
  <2>1. m.term <= disk'[m.from].term
    BY DEF StepFrom, ElectionInv, WireInv, SentIsWritten
  <2>2. QED
    BY <1>1, <1>2, <2>1
<1>3. QED
  BY <1>2 DEF Backed, Elected

LEMMA BackersHoldKept ==
  ASSUME NEW led \in [Term -> Seq(Entry)], NEW led2 \in [Term -> Seq(Entry)],
         NEW i \in Node, StepFrom(led, led2, i)
  PROVE  BackersHold(led2)'
<1>1. SUFFICES ASSUME NEW t \in Term, NEW n \in 1 .. Len(led2[t]),
                      MayBeChosen(led2, n, t)', NEW v \in Node,
                      Backed(led2, v, n, t)'
               PROVE  SamePrefix(disk'[v].log, led2[t], n)
  BY DEF BackersHold
<1>2. /\ led2[t] \in Seq(Entry) /\ Len(led2[t]) \in Nat
      /\ disk'[v].log \in Seq(Entry)
  BY StepBasics, LedBasics
<1>3. n \in Nat \ {0} /\ n <= Len(led2[t])
  BY <1>2
<1>4. CASE disk'[v].term = t
  <2>1. ASSUME NEW m \in wire', IsAck(m), m.from = v, m.term = t, n <= m.match_index
        PROVE  SamePrefix(disk'[v].log, led2[t], n)
    <3>1. SamePrefix(disk'[v].log, led2[t], m.match_index)
      BY <1>4, <2>1, AcksHoldKept DEF AcksHold, IsAck
    <3>2. m.match_index \in Nat
      <4>1. m \in Message
        BY StepBasics DEF TypeOK
      <4>2. QED
        BY <2>1, <4>1, MessageFields DEF IsAck, AppendResponse, Index
    <3>3. QED
      BY <1>2, <1>3, <2>1, <3>1, <3>2, PrefixShorter
  <2>2. ASSUME Elected(v, t)'
        PROVE  SamePrefix(disk'[v].log, led2[t], n)
    <3>1. SamePrefix(disk'[v].log, led2[t], Len(led2[t]))
      BY <1>4, <2>2, OwnersHoldKept DEF OwnersHold
    <3>2. QED
      BY <1>2, <1>3, <3>1, PrefixShorter
  <2>3. QED
    BY <1>1, <2>1, <2>2 DEF Backed, IsAck
<1>5. CASE disk'[v].term > t
  <2>1. n \in 1 .. Len(led[t]) /\ Backed(led, v, n, t)
    BY <1>1, <1>3, <1>5, PastBacker
  <2>2. MayBeChosen(led, n, t)
    BY <1>1, <2>1, MayBeChosenBefore
  <2>3. SamePrefix(disk[v].log, led[t], n)
    BY <2>1, <2>2 DEF StepFrom, CommitInv, BackersHold
  <2>4. disk'[v].term >= t /\ n <= n /\ n \in Nat
    <3>1. disk'[v].term \in Nat /\ t \in Nat
      BY StepBasics DEF Term
    <3>2. QED
      BY <1>3, <1>5, <3>1
  <2>5. QED
    BY <2>1, <2>2, <2>3, <2>4, DiskKept
<1>6. QED
  BY <1>1, <1>4, <1>5, BackerInTermNext

\* A voter is in the term it votes in, or past it.
LEMMA VoterInTerm ==
  ASSUME NEW led \in [Term -> Seq(Entry)], NEW led2 \in [Term -> Seq(Entry)],
         NEW i \in Node, StepFrom(led, led2, i), NEW u \in Term, NEW c \in Node,
         disk'[c].term > u \/ disk'[c].term = u, NEW v \in Node, VotedFor(v, c, u)'
  PROVE  disk'[v].term > u \/ disk'[v].term = u
<1>1. ASSUME NEW m \in wire', IsGrant(m), m.from = v, m.term = u
      PROVE  disk'[v].term > u \/ disk'[v].term = u
  BY <1>1 DEF StepFrom, ElectionInv, WireInv, GrantsAreDurable, IsGrant
<1>2. QED
  BY <1>1 DEF VotedFor, IsGrant

\* Whoever won a term after t had the vote of a node that backed what may be
\* chosen in t.
LEMMA WinnersVoter ==
  ASSUME NEW led \in [Term -> Seq(Entry)], NEW led2 \in [Term -> Seq(Entry)],
         NEW i \in Node, StepFrom(led, led2, i), NEW t \in Term,
         NEW n \in 1 .. Len(led2[t]), MayBeChosen(led2, n, t)',
         NEW u \in Term, t < u, NEW c \in Node, Elected(c, u)'
  PROVE  /\ n \in 1 .. Len(led[t]) /\ MayBeChosen(led, n, t)
         /\ \E v \in Node : VotedFor(v, c, u)' /\ Backed(led, v, n, t)
<1>1. PICK Q \in SUBSET Node : IsQuorum(Q) /\ \A v \in Q : VotedFor(v, c, u)'
  BY DEF Elected, IsQuorum
<1>2. ASSUME NEW v \in Q PROVE disk'[v].term > t
  <2>1. v \in Node
    OBVIOUS
  <2>2. disk'[v].term > u \/ disk'[v].term = u
    <3>1. disk'[c].term > u \/ disk'[c].term = u
      BY DEF Elected
    <3>2. VotedFor(v, c, u)'
      BY <1>1
    <3>3. QED
      BY <2>1, <3>1, <3>2, VoterInTerm
  <2>3. disk'[v].term \in Nat /\ t \in Nat /\ u \in Nat
    BY <2>1, StepBasics DEF Term
  <2>4. QED
    BY <2>2, <2>3
<1>3. /\ n \in 1 .. Len(led[t]) /\ MayBeChosen(led, n, t)
      /\ \E v \in Q : Backed(led, v, n, t)
  BY <1>1, <1>2, PastQuorum
<1>4. QED
  BY <1>1, <1>3

\* A log that shares with another what that shares with a third.
LEMMA PrefixMeets ==
  ASSUME NEW a \in Seq(Entry), NEW b \in Seq(Entry), NEW n \in Int, NEW N \in Int,
         NEW c, SamePrefix(a, b, N), n <= N, SamePrefix(a, c, n)
  PROVE  SamePrefix(b, c, n)
<1>1. SamePrefix(b, a, n)
  BY PrefixShorter
<1>2. QED
  BY <1>1, PrefixTransitive

LEMMA LaterLeadersHoldKept ==
  ASSUME NEW led \in [Term -> Seq(Entry)], NEW led2 \in [Term -> Seq(Entry)],
         NEW i \in Node, StepFrom(led, led2, i)
  PROVE  LaterLeadersHold(led2)'
<1>1. SUFFICES ASSUME NEW t \in Term, NEW n \in 1 .. Len(led2[t]),
                      MayBeChosen(led2, n, t)', NEW u \in Term, t < u,
                      led2[u] # <<>>
               PROVE  SamePrefix(led2[u], led2[t], n)
  BY DEF LaterLeadersHold
<1>2. PICK c \in Node : Elected(c, u)'
  BY <1>1 DEF StepFrom, LogInv, LedElected
<1>3. n \in 1 .. Len(led[t]) /\ MayBeChosen(led, n, t)
  BY <1>1, <1>2, WinnersVoter
<1>4. n \in Nat
  BY LedBasics
<1>5. SUFFICES SamePrefix(led2[u], led[t], n)
  BY <1>4, PrefixLed
<1>6. CASE led[u] # <<>>
  <2>1. SamePrefix(led[u], led[t], n)
    BY <1>1, <1>3, <1>6 DEF StepFrom, CommitInv, LaterLeadersHold
  <2>2. n <= Len(led[u])
    BY <2>1 DEF SamePrefix
  <2>3. SamePrefix(led2[u], led[u], n)
    BY <1>4, <2>2, LedBasics
  <2>4. QED
    BY <2>1, <2>3, PrefixTransitive
<1>7. CASE led[u] = <<>>
  <2>1. Grown(led, led2, u)
    BY <1>1, <1>7 DEF Grown
  <2>2. /\ u = term'[i] /\ u = disk'[i].term /\ led2[u] = disk'[i].log
        /\ i \in live' /\ role'[i] = Leader
    BY <2>1, LedChanged
  <2>3. /\ SamePrefix(disk[i].log, led2[u], Len(disk[i].log))
        /\ StandsFor(i, u) \/ u > disk[i].term
    BY <1>7, <2>1 DEF StepFrom, Evolves, LedKept
  <2>4. c = i
    <3>1. Elected(i, u)'
      BY <2>1, BuilderElected
    <3>2. QED
      BY <1>2, <3>1, StepBasics DEF OneWinner
  <2>5. PICK v \in Node : VotedFor(v, i, u)' /\ Backed(led, v, n, t)
    BY <1>1, <1>2, <2>4, WinnersVoter
  <2>6. SamePrefix(disk[i].log, led[t], n)
    <3>1. CASE v = i
      BY <1>3, <2>5, <3>1 DEF StepFrom, CommitInv, BackersHold
    <3>2. CASE v # i
      <4>1. PICK m \in wire' : IsGrant(m) /\ m.from = v /\ m.to = i /\ m.term = u
        BY <2>5, <3>2 DEF VotedFor, IsGrant
      <4>2. m \in wire
        BY <3>2, <4>1 DEF StepFrom, Replicates, GrantsUpToDate
      <4>3. StandsFor(i, u)
        <5>1. u <= disk[i].term
          BY <4>1, <4>2 DEF StepFrom, CommitInv, GrantsAnswer
        <5>2. u \in Nat /\ disk[i].term \in Nat
          BY StepBasics DEF Term
        <5>3. QED
          BY <2>3, <5>1, <5>2
      <4>4. i \in live /\ role[i] = Candidate /\ term[i] = u
        BY <4>3 DEF StandsFor
      <4>5. VotedFor(v, i, u)
        BY <4>1, <4>2 DEF VotedFor
      <4>6. SamePrefix(log[i], led[t], n)
        BY <1>1, <1>3, <2>5, <4>4, <4>5 DEF StepFrom, CommitInv, CandidatesHold
      <4>7. QED
        BY <4>4, <4>6, StepBasics
    <3>3. QED
      BY <3>1, <3>2
  <2>7. n <= Len(disk[i].log) /\ disk[i].log \in Seq(Entry) /\ Len(disk[i].log) \in Nat
        /\ led2[u] \in Seq(Entry)
    BY <2>6, StepBasics, LedBasics, LenProperties DEF SamePrefix
  <2>8. QED
    BY <1>4, <2>3, <2>6, <2>7, PrefixMeets
<1>8. QED
  BY <1>6, <1>7

\* The last entry of a log is of the latest of its terms, and the log is that
\* term's leader's.
LEMMA LastEntry ==
  ASSUME NEW led \in [Term -> Seq(Entry)], LedFits(led),
         NEW l \in Seq(Entry), l # <<>>, Fits(l, led)
  PROVE  /\ Len(l) \in Nat \ {0} /\ LastTerm(l) = l[Len(l)].term
         /\ LastTerm(l) \in Term /\ LastTerm(l) \in Nat
         /\ SamePrefix(l, led[LastTerm(l)], Len(l))
         /\ BoundedBy(l, LastTerm(l))
<1>1. Len(l) \in Nat \ {0} /\ Len(l) \in 1 .. Len(l)
  BY LenProperties, EmptySeq
<1>2. LastTerm(l) = l[Len(l)].term /\ LastTerm(l) \in Term /\ LastTerm(l) \in Nat
  BY <1>1, EntryOf DEF LastTerm, TermAt
<1>3. SamePrefix(l, led[LastTerm(l)], Len(l))
  BY <1>1, <1>2 DEF Fits
<1>4. BoundedBy(led[LastTerm(l)], LastTerm(l))
  BY <1>2 DEF LedFits
<1>5. BoundedBy(l, LastTerm(l))
  <2>1. PICK r \in Seq(Entry) : r = led[LastTerm(l)]
    BY <1>2
  <2>2. Len(r) \in Nat /\ Len(l) <= Len(r) /\ \A k \in 1 .. Len(l) : l[k] = r[k]
    BY <1>3, <2>1, LenProperties DEF SamePrefix
  <2>3. \A k \in 1 .. Len(r) : r[k].term <= LastTerm(l)
    BY <1>4, <2>1 DEF BoundedBy
  <2>4. QED
    BY <1>1, <2>2, <2>3 DEF BoundedBy
<1>6. QED
  BY <1>1, <1>2, <1>3, <1>5

\* The vote's comparison of last entries is enough: a log b that is as up to
\* date as a holds what a holds of an entry every later leader has.
LEMMA UpToDateHolds ==
  ASSUME NEW led \in [Term -> Seq(Entry)], LedFits(led),
         NEW a \in Seq(Entry), Fits(a, led), NEW b \in Seq(Entry), Fits(b, led),
         NEW t \in Term, NEW n \in 1 .. Len(led[t]), led[t][n].term = t,
         SamePrefix(a, led[t], n),
         \A u \in Term : t < u /\ led[u] # <<>> => SamePrefix(led[u], led[t], n),
         \/ LastTerm(b) > LastTerm(a)
         \/ LastTerm(b) = LastTerm(a) /\ Len(b) >= Len(a)
  PROVE  SamePrefix(b, led[t], n)
<1>1. /\ led[t] \in Seq(Entry) /\ Len(led[t]) \in Nat /\ t \in Nat
      /\ Len(a) \in Nat /\ Len(b) \in Nat
  BY LenProperties DEF Term
<1>2. n \in Nat \ {0} /\ n <= Len(a) /\ a # <<>> /\ a[n].term = t
  BY <1>1, EmptySeq DEF SamePrefix
<1>3. /\ LastTerm(a) \in Term /\ LastTerm(a) \in Nat
      /\ SamePrefix(a, led[LastTerm(a)], Len(a))
      /\ BoundedBy(a, LastTerm(a))
  BY <1>2, LastEntry
<1>4. t <= LastTerm(a)
  BY <1>1, <1>2, <1>3 DEF BoundedBy
<1>5. b # <<>>
  <2>1. SUFFICES ASSUME b = <<>> PROVE FALSE
    OBVIOUS
  <2>2. Len(b) = 0 /\ LastTerm(b) = 0
    BY <2>1, EmptySeq DEF LastTerm, TermAt
  <2>3. QED
    BY <1>1, <1>2, <1>3, <2>2
<1>6. /\ Len(b) \in Nat \ {0} /\ LastTerm(b) = b[Len(b)].term
      /\ LastTerm(b) \in Term /\ LastTerm(b) \in Nat
      /\ SamePrefix(b, led[LastTerm(b)], Len(b))
  BY <1>5, LastEntry
<1>7. CASE LastTerm(b) = LastTerm(a)
  <2>1. Len(b) >= Len(a)
    BY <1>3, <1>7
  <2>2. PICK r \in Seq(Entry) : r = led[LastTerm(a)]
    BY <1>3
  <2>3. SamePrefix(b, r, n) /\ SamePrefix(r, a, n)
    <3>1. n <= Len(b) /\ n \in Int /\ Len(a) \in Int /\ Len(b) \in Int
      BY <1>1, <1>2, <2>1
    <3>2. QED
      BY <1>2, <1>3, <1>6, <1>7, <2>2, <3>1, PrefixShorter
  <2>4. SamePrefix(b, a, n)
    BY <2>3, PrefixTransitive
  <2>5. QED
    BY <2>4, PrefixTransitive
<1>8. CASE LastTerm(b) > LastTerm(a)
  <2>1. PICK u \in Term : u = LastTerm(b)
    BY <1>6
  <2>2. t < u
    BY <1>1, <1>3, <1>4, <1>6, <1>8, <2>1
  <2>3. led[u] \in Seq(Entry) /\ SamePrefix(b, led[u], Len(b)) /\ b[Len(b)].term = u
    BY <1>6, <2>1
  <2>4. led[u] # <<>>
    BY <1>6, <2>3, EmptySeq DEF SamePrefix
  <2>5. SamePrefix(led[u], led[t], n)
    BY <2>2, <2>4
  <2>6. n <= Len(b)
    <3>1. SUFFICES ASSUME Len(b) < n PROVE FALSE
      BY <1>1, <1>2
    <3>2. Len(b) \in 1 .. Len(b) /\ Len(b) \in 1 .. n /\ Len(b) \in 1 .. Len(led[t])
      BY <1>1, <1>2, <1>6, <3>1
    <3>3. b[Len(b)] = led[t][Len(b)]
      BY <2>3, <2>5, <3>2 DEF SamePrefix
    <3>4. led[t][Len(b)].term <= t
      BY <3>2 DEF LedFits, BoundedBy
    <3>5. u \in Nat
      BY DEF Term
    <3>6. QED
      BY <1>1, <2>2, <2>3, <3>3, <3>4, <3>5
  <2>7. SamePrefix(b, led[u], n)
    BY <1>1, <1>2, <2>3, <2>6, PrefixShorter
  <2>8. QED
    BY <2>5, <2>7, PrefixTransitive
<1>9. QED
  BY <1>7, <1>8

\* A candidate that was in its term before the step stood for it, with that log.
LEMMA CandidateBefore ==
  ASSUME NEW led \in [Term -> Seq(Entry)], NEW led2 \in [Term -> Seq(Entry)],
         NEW i \in Node, StepFrom(led, led2, i),
         NEW c \in live', role'[c] = Candidate, NEW u \in Term, term'[c] = u,
         u <= disk[c].term
  PROVE  /\ c \in live /\ role[c] = Candidate /\ term[c] = u
         /\ log'[c] = log[c] /\ disk'[c].log = disk[c].log
<1>1. c \in Node /\ log'[c] = disk'[c].log
  BY StepBasics
<1>2. CASE c # i
  <2>1. /\ c \in live /\ role'[c] = role[c] /\ term'[c] = term[c]
        /\ log'[c] = log[c] /\ disk'[c] = disk[c]
    BY <1>1, <1>2 DEF StepFrom, LocalStep, ElsewhereUnchanged
  <2>2. QED
    BY <2>1
<1>3. CASE c = i
  <2>1. disk'[i].log = disk[i].log /\ (StandsFor(i, u) \/ u > disk[i].term)
    BY <1>3 DEF StepFrom, Evolves, CandidateKept
  <2>2. u \in Nat /\ disk[i].term \in Nat
    BY StepBasics DEF Term
  <2>3. StandsFor(i, u)
    BY <1>3, <2>1, <2>2
  <2>4. i \in live /\ role[i] = Candidate /\ term[i] = u
    BY <2>3 DEF StandsFor
  <2>5. disk[i].log = log[i]
    BY <2>4, StepBasics
  <2>6. QED
    BY <1>1, <1>3, <2>1, <2>4, <2>5
<1>4. QED
  BY <1>2, <1>3

LEMMA CandidatesHoldKept ==
  ASSUME NEW led \in [Term -> Seq(Entry)], NEW led2 \in [Term -> Seq(Entry)],
         NEW i \in Node, StepFrom(led, led2, i)
  PROVE  CandidatesHold(led2)'
<1>1. SUFFICES ASSUME NEW c \in live', role'[c] = Candidate,
                      NEW t \in Term, NEW n \in 1 .. Len(led2[t]),
                      MayBeChosen(led2, n, t)', t < term'[c],
                      NEW v \in Node, VotedFor(v, c, term[c])', Backed(led2, v, n, t)'
               PROVE  SamePrefix(log'[c], led2[t], n)
  BY DEF CandidatesHold
<1>2. /\ c \in Node /\ log'[c] = disk'[c].log /\ disk'[c].term = term'[c]
      /\ disk'[c].term \in Nat
  BY StepBasics
<1>3. PICK u \in Term : u = term'[c]
  BY <1>2 DEF Term
<1>4. VotedFor(v, c, u)'
  BY <1>1, <1>3 DEF VotedFor, IsGrant
<1>5. disk'[v].term > u \/ disk'[v].term = u
  BY <1>2, <1>3, <1>4, VoterInTerm
<1>6. t \in Nat /\ u \in Nat /\ t < u /\ disk'[v].term \in Nat /\ n \in Nat \ {0}
  <2>1. Len(led2[t]) \in Nat
    BY LedBasics
  <2>2. t \in Nat /\ u \in Nat /\ disk'[v].term \in Nat
    BY StepBasics DEF Term
  <2>3. QED
    BY <1>1, <1>3, <2>1, <2>2
<1>7. disk'[v].term > t
  BY <1>5, <1>6
<1>8. n \in 1 .. Len(led[t]) /\ Backed(led, v, n, t)
  BY <1>1, <1>6, <1>7, PastBacker
<1>9. MayBeChosen(led, n, t)
  BY <1>1, <1>8, MayBeChosenBefore
<1>10. SamePrefix(disk[v].log, led[t], n)
  BY <1>8, <1>9 DEF StepFrom, CommitInv, BackersHold
<1>11. SUFFICES SamePrefix(log'[c], led[t], n)
  BY <1>6, PrefixLed
<1>12. CASE v = c
  <2>1. disk'[v].term >= t /\ n <= n
    BY <1>6, <1>7
  <2>2. SamePrefix(disk'[v].log, led[t], n)
    BY <1>6, <1>8, <1>9, <1>10, <2>1, DiskKept
  <2>3. QED
    BY <1>2, <1>12, <2>2
<1>13. CASE v # c
  <2>1. PICK m \in wire' : IsGrant(m) /\ m.from = v /\ m.to = c /\ m.term = u
    BY <1>4, <1>13 DEF VotedFor, IsGrant
  <2>2. CASE m \in wire
    <3>1. u <= disk[c].term
      BY <2>1, <2>2 DEF StepFrom, CommitInv, GrantsAnswer
    <3>2. c \in live /\ role[c] = Candidate /\ term[c] = u /\ log'[c] = log[c]
      BY <1>1, <1>3, <3>1, CandidateBefore
    <3>3. VotedFor(v, c, u)
      BY <2>1, <2>2 DEF VotedFor
    <3>4. SamePrefix(log[c], led[t], n)
      BY <1>6, <1>8, <1>9, <3>2, <3>3 DEF StepFrom, CommitInv, CandidatesHold
    <3>5. QED
      BY <3>2, <3>4
  <2>3. CASE m \notin wire
    <3>1. /\ v = i /\ i \in live
          /\ \E r \in wire : /\ r.kind = "RequestVote" /\ r.from = c
                             /\ r.term = u /\ UpToDate(i, r)
      BY <2>1, <2>3 DEF StepFrom, Replicates, GrantsUpToDate
    <3>2. PICK r \in wire : /\ r.kind = "RequestVote" /\ r.from = c
                            /\ r.term = u /\ UpToDate(i, r)
      BY <3>1
    <3>3. u <= disk[c].term
      BY <3>2 DEF StepFrom, ElectionInv, WireInv, SentIsWritten
    <3>4. c \in live /\ role[c] = Candidate /\ term[c] = u /\ log'[c] = log[c]
      BY <1>1, <1>3, <3>3, CandidateBefore
    <3>5. r.last_log_index = Len(log[c]) /\ r.last_log_term = LastTerm(log[c])
      BY <3>2, <3>4 DEF StepFrom, CommitInv, RequestsAreTrue, StandsFor
    <3>6. PICK a \in Seq(Entry) : a = log[i] /\ a = disk[i].log
      BY <3>1, StepBasics
    <3>7. PICK b \in Seq(Entry) : b = log[c] /\ b = disk[c].log
      BY <3>4, StepBasics
    <3>8. \/ LastTerm(b) > LastTerm(a)
          \/ LastTerm(b) = LastTerm(a) /\ Len(b) >= Len(a)
      BY <3>2, <3>5, <3>6, <3>7 DEF UpToDate
    <3>9. LedFits(led) /\ Fits(a, led) /\ Fits(b, led)
      BY <1>2, <3>6, <3>7 DEF StepFrom, LogInv, DiskFits
    <3>10. \A w \in Term : t < w /\ led[w] # <<>> => SamePrefix(led[w], led[t], n)
      BY <1>8, <1>9 DEF StepFrom, CommitInv, LaterLeadersHold
    <3>11. led[t][n].term = t
      BY <1>9 DEF MayBeChosen, Own
    <3>12. SamePrefix(a, led[t], n)
      BY <1>10, <3>1, <3>6
    <3>13. SamePrefix(b, led[t], n)
      BY <1>8, <3>8, <3>9, <3>10, <3>11, <3>12, UpToDateHolds
    <3>14. QED
      BY <3>4, <3>7, <3>13
  <2>4. QED
    BY <2>2, <2>3
<1>14. QED
  BY <1>12, <1>13

LEMMA RequestsKept ==
  ASSUME NEW led \in [Term -> Seq(Entry)], NEW led2 \in [Term -> Seq(Entry)],
         NEW i \in Node, StepFrom(led, led2, i)
  PROVE  RequestsAreTrue'
<1>1. SUFFICES ASSUME NEW m \in wire', m.kind = "RequestVote",
                      m.from \in live', role'[m.from] = Candidate,
                      term'[m.from] = m.term
               PROVE  /\ m.last_log_index = Len(log'[m.from])
                      /\ m.last_log_term = LastTerm(log'[m.from])
  BY DEF RequestsAreTrue, StandsFor, LastTerm, TermAt
<1>2. PICK c \in live' : c = m.from
  BY <1>1
<1>3. PICK u \in Term : u = m.term
  BY <1>1, StepBasics DEF TypeOK
<1>4. CASE m \in wire
  <2>1. u <= disk[c].term
    BY <1>2, <1>3, <1>4 DEF StepFrom, ElectionInv, WireInv, SentIsWritten
  <2>2. c \in live /\ role[c] = Candidate /\ term[c] = u /\ log'[c] = log[c]
    BY <1>1, <1>2, <1>3, <2>1, CandidateBefore
  <2>3. QED
    BY <1>1, <1>2, <1>3, <1>4, <2>2
    DEF StepFrom, CommitInv, RequestsAreTrue, StandsFor
<1>5. CASE m \notin wire
  <2>1. /\ c = i /\ i \in live
        /\ m.last_log_index = Len(log[i]) /\ m.last_log_term = LastTerm(log[i])
    BY <1>1, <1>2, <1>5 DEF StepFrom, Replicates, AsksTruly
  <2>2. disk'[i].log = disk[i].log
    BY <1>1, <1>2, <2>1 DEF StepFrom, Evolves, CandidateKept
  <2>3. log'[i] = log[i]
    BY <1>2, <2>1, <2>2, StepBasics
  <2>4. QED
    BY <1>2, <2>1, <2>3
<1>6. QED
  BY <1>4, <1>5

LEMMA GrantsAnswerKept ==
  ASSUME NEW led \in [Term -> Seq(Entry)], NEW led2 \in [Term -> Seq(Entry)],
         NEW i \in Node, StepFrom(led, led2, i)
  PROVE  GrantsAnswer'
<1>1. SUFFICES ASSUME NEW m \in wire', IsGrant(m)
               PROVE  m.term <= disk'[m.to].term
  BY DEF GrantsAnswer, IsGrant
<1>2. m.to \in Node /\ m.term \in Nat
  <2>1. m \in Message
    BY StepBasics DEF TypeOK
  <2>2. QED
    BY <2>1, MessageFields
<1>3. /\ disk[m.to].term \in Nat /\ disk'[m.to].term \in Nat
      /\ disk[m.to].term <= disk'[m.to].term
  BY <1>2, StepBasics
<1>4. m.term <= disk[m.to].term
  <2>1. CASE m \in wire
    BY <1>1, <2>1 DEF StepFrom, CommitInv, GrantsAnswer
  <2>2. CASE m \notin wire
    <3>1. PICK r \in wire : r.from = m.to /\ r.term = m.term
      BY <1>1, <2>2 DEF StepFrom, Replicates, GrantsUpToDate
    <3>2. QED
      BY <3>1 DEF StepFrom, ElectionInv, WireInv, SentIsWritten
  <2>3. QED
    BY <2>1, <2>2
<1>5. QED
  BY <1>2, <1>3, <1>4

LEMMA MatchesKept ==
  ASSUME NEW led \in [Term -> Seq(Entry)], NEW led2 \in [Term -> Seq(Entry)],
         NEW i \in Node, StepFrom(led, led2, i)
  PROVE  MatchesAcked'
<1>1. SUFFICES ASSUME NEW j \in live', role'[j] = Leader, NEW p \in Node \ {j}
               PROVE  \/ match_index'[j][p] = 0
                      \/ \E m \in wire' :
                           /\ IsAck(m) /\ m.from = p /\ m.term = term'[j]
                           /\ match_index'[j][p] <= m.match_index
  BY DEF MatchesAcked, IsAck
<1>2. wire \subseteq wire' /\ j \in Node
  BY StepBasics
<1>3. ASSUME j \in live, role[j] = Leader, term'[j] = term[j],
             match_index'[j][p] = match_index[j][p]
      PROVE  \/ match_index'[j][p] = 0
             \/ \E m \in wire' :
                  /\ IsAck(m) /\ m.from = p /\ m.term = term'[j]
                  /\ match_index'[j][p] <= m.match_index
  BY <1>2, <1>3 DEF StepFrom, CommitInv, MatchesAcked
<1>4. CASE j # i
  <2>1. /\ j \in live /\ role'[j] = role[j] /\ term'[j] = term[j]
        /\ match_index'[j] = match_index[j]
    BY <1>2, <1>4 DEF StepFrom, LocalStep, ElsewhereUnchanged
  <2>2. QED
    BY <1>1, <1>3, <2>1
<1>5. CASE j = i
  <2>1. MatchesRaised(i)
    BY DEF StepFrom, Replicates
  <2>2. \/ match_index'[i][p] = 0
        \/ /\ i \in live /\ role[i] = Leader /\ term'[i] = term[i]
           /\ match_index'[i][p] = match_index[i][p]
        \/ \E m \in wire : /\ IsAck(m) /\ m.from = p /\ m.term = term'[i]
                          /\ match_index'[i][p] <= m.match_index
    BY <1>1, <1>5, <2>1 DEF MatchesRaised
  <2>3. QED
    BY <1>2, <1>3, <1>5, <2>2
<1>6. QED
  BY <1>4, <1>5

-----------------------------------------------------------------------------
(* What is decided stays decided *)

LEMMA ChosenMayBe ==
  ASSUME NEW led, NEW n, NEW t, Chosen(led, n, t)
  PROVE  MayBeChosen(led, n, t) /\ Own(led, n, t) /\ n \in 1 .. Len(led[t])
  BY DEF Chosen, MayBeChosen, Own

LEMMA BackedStays ==
  ASSUME NEW led \in [Term -> Seq(Entry)], NEW led2 \in [Term -> Seq(Entry)],
         NEW i \in Node, StepFrom(led, led2, i), NEW t \in Term, NEW v \in Node,
         NEW n \in 1 .. Len(led[t]), Backed(led, v, n, t)
  PROVE  Backed(led2, v, n, t)'
<1>1. wire \subseteq wire'
  BY StepBasics
<1>2. CASE \E m \in wire :
             IsAck(m) /\ m.from = v /\ m.term = t /\ n <= m.match_index
  BY <1>1, <1>2 DEF Backed, IsAck
<1>3. CASE Elected(v, t) /\ n <= Len(led[t])
  <2>1. Elected(v, t)'
    BY <1>3, ElectedStep
  <2>2. n <= Len(led2[t])
    <3>1. Len(led[t]) \in Nat
      BY LedBasics
    <3>2. n \in Nat
      BY <3>1
    <3>3. QED
      BY <1>3, <3>2, ShorterThanLed
  <2>3. QED
    BY <2>1, <2>2 DEF Backed
<1>4. QED
  BY <1>2, <1>3 DEF Backed

LEMMA ChosenStays ==
  ASSUME NEW led \in [Term -> Seq(Entry)], NEW led2 \in [Term -> Seq(Entry)],
         NEW i \in Node, StepFrom(led, led2, i), NEW t \in Term,
         NEW n \in 1 .. Len(led[t]), Chosen(led, n, t)
  PROVE  Chosen(led2, n, t)' /\ n \in 1 .. Len(led2[t])
<1>1. n \in Nat \ {0} /\ n <= Len(led[t]) /\ Len(led2[t]) \in Nat
  <2>1. Len(led[t]) \in Nat /\ Len(led2[t]) \in Nat
    BY LedBasics
  <2>2. QED
    BY <2>1
<1>2. SamePrefix(led[t], led2[t], n)
  BY <1>1, LedBasics
<1>3. n \in 1 .. Len(led2[t]) /\ led2[t][n] = led[t][n]
  BY <1>1, <1>2 DEF SamePrefix
<1>4. Own(led2, n, t)
  BY <1>3 DEF Chosen, Own
<1>5. PICK Q \in SUBSET Node : IsQuorum(Q) /\ \A v \in Q : Backed(led, v, n, t)
  BY DEF Chosen
<1>6. \A v \in Q : Backed(led2, v, n, t)'
  BY <1>5, BackedStays
<1>7. \E P \in SUBSET Node : IsQuorum(P)' /\ \A v \in P : Backed(led2, v, n, t)'
  BY <1>5, <1>6 DEF IsQuorum
<1>8. Chosen(led2, n, t)'
  BY <1>4, <1>7 DEF Chosen, Own
<1>9. QED
  BY <1>3, <1>8

\* A log that agrees with what was decided is decided after the step.
LEMMA DecidedNext ==
  ASSUME NEW led \in [Term -> Seq(Entry)], NEW led2 \in [Term -> Seq(Entry)],
         NEW i \in Node, StepFrom(led, led2, i),
         NEW u \in Term, NEW N \in 1 .. Len(led[u]), Chosen(led, N, u),
         NEW l, NEW n \in Nat, n <= N, SamePrefix(l, led[u], n),
         NEW t, u <= t
  PROVE  Decided(led2, l, n, t)'
<1>1. Chosen(led2, N, u)' /\ N \in 1 .. Len(led2[u])
  BY ChosenStays
<1>2. SamePrefix(l, led2[u], n)
  BY PrefixLed
<1>3. QED
  BY <1>1, <1>2 DEF Decided

\* What is decided of a disk's log stays so.
LEMMA DecidedStays ==
  ASSUME NEW led \in [Term -> Seq(Entry)], NEW led2 \in [Term -> Seq(Entry)],
         NEW i \in Node, StepFrom(led, led2, i), NEW j \in Node, NEW n \in Nat,
         Decided(led, disk[j].log, n, disk[j].term)
  PROVE  Decided(led2, disk[j].log, n, disk[j].term)'
<1>1. CASE n = 0
  BY <1>1 DEF Decided
<1>2. CASE n # 0
  <2>1. PICK u \in Term : \E N \in 1 .. Len(led[u]) :
          /\ u <= disk[j].term /\ n <= N
          /\ Chosen(led, N, u) /\ SamePrefix(disk[j].log, led[u], n)
    BY <1>2 DEF Decided
  <2>2. PICK N \in 1 .. Len(led[u]) :
          /\ u <= disk[j].term /\ n <= N
          /\ Chosen(led, N, u) /\ SamePrefix(disk[j].log, led[u], n)
    BY <2>1
  <2>3. PICK t \in Nat : t = disk'[j].term
    BY StepBasics
  <2>4. u <= t
    <3>1. u \in Nat /\ disk[j].term \in Nat /\ disk[j].term <= disk'[j].term
      BY StepBasics DEF Term
    <3>2. QED
      BY <2>2, <2>3, <3>1
  <2>5. PICK l : l = disk'[j].log
    OBVIOUS
  <2>6. SamePrefix(l, led[u], n)
    <3>1. disk'[j].term >= u
      <4>1. u \in Nat
        BY DEF Term
      <4>2. QED
        BY <2>3, <2>4, <4>1
    <3>2. MayBeChosen(led, N, u)
      BY <2>2, ChosenMayBe
    <3>3. QED
      BY <2>2, <2>5, <3>1, <3>2, DiskKept
  <2>7. Decided(led2, l, n, t)'
    BY <2>2, <2>4, <2>6, DecidedNext
  <2>8. QED
    BY <2>3, <2>5, <2>7 DEF Decided
<1>3. QED
  BY <1>1, <1>2

LEMMA CommitsKept ==
  ASSUME NEW led \in [Term -> Seq(Entry)], NEW led2 \in [Term -> Seq(Entry)],
         NEW i \in Node, StepFrom(led, led2, i)
  PROVE  CommitsDecided(led2)'
<1>1. SUFFICES ASSUME NEW j \in Node
               PROVE  Decided(led2, disk[j].log, commit_index[j], disk[j].term)'
  BY DEF CommitsDecided
<1>2. PICK k : k = commit_index'[j]
  OBVIOUS
<1>3. k \in Nat /\ commit_index[j] \in Nat
  BY <1>2, StepBasics DEF TypeOK, Index
<1>4. SUFFICES Decided(led2, disk[j].log, k, disk[j].term)'
  BY <1>2 DEF Decided
<1>5. CASE k = 0
  BY <1>5 DEF Decided
<1>6. CASE k = commit_index[j]
  <2>1. Decided(led, disk[j].log, k, disk[j].term)
    BY <1>6 DEF StepFrom, CommitInv, CommitsDecided
  <2>2. QED
    BY <1>3, <2>1, DecidedStays
<1>7. CASE /\ j = i /\ i \in live' /\ role'[i] = Leader
           /\ k \in Committable(i, term'[i], log'[i], match_index'[i])
  <2>1. PICK t \in Term : t = term'[i]
    BY StepBasics DEF TypeOK
  <2>2. PICK l \in Seq(Entry) : l = log'[i]
    BY StepBasics DEF TypeOK
  <2>3. l = led2[t] /\ l = disk'[i].log /\ t = disk'[i].term
    BY <1>7, <2>1, <2>2, StepBasics DEF StepFrom, LogInv, LeadersLed
  <2>4. /\ k \in commit_index[i] + 1 .. Len(l)
        /\ \A q \in k .. Len(l) : l[q].term = t
        /\ IsQuorum({i} \cup {p \in Node \ {i} : match_index'[i][p] >= k})
    BY <1>7, <2>1, <2>2 DEF Committable
  <2>5. Len(l) \in Nat /\ k \in 1 .. Len(l) /\ k \in k .. Len(l) /\ k # 0
    <3>1. Len(l) \in Nat
      BY LenProperties
    <3>2. commit_index[i] \in Nat
      BY <1>3, <1>7
    <3>3. QED
      BY <2>4, <3>1, <3>2
  <2>6. Own(led2, k, t)
    BY <2>3, <2>4, <2>5 DEF Own
  <2>7. Elected(i, t)'
    <3>1. Elected(i, term[i])'
      BY <1>7 DEF StepFrom, ElectionInv, WireInv, LeadersElected
    <3>2. QED
      BY <2>1, <3>1 DEF Elected
  <2>8. Backed(led2, i, k, t)'
    BY <2>3, <2>5, <2>7 DEF Backed
  <2>9. ASSUME NEW p \in Node \ {i}, match_index'[i][p] >= k
        PROVE  Backed(led2, p, k, t)'
    <3>1. match_index'[i][p] \in Nat
      BY StepBasics DEF TypeOK, Index
    <3>2. PICK m \in wire' : /\ IsAck(m) /\ m.from = p /\ m.term = t
                             /\ match_index'[i][p] <= m.match_index
      <4>1. match_index'[i][p] # 0
        BY <1>3, <2>5, <2>9, <3>1
      <4>2. QED
        BY <1>7, <2>1, <4>1, MatchesKept DEF MatchesAcked, IsAck
    <3>3. m.match_index \in Nat
      <4>1. m \in Message
        BY <3>2, StepBasics DEF TypeOK
      <4>2. QED
        BY <3>2, <4>1, MessageFields DEF IsAck, AppendResponse, Index
    <3>4. k <= m.match_index
      BY <1>3, <2>9, <3>1, <3>2, <3>3
    <3>5. QED
      BY <3>2, <3>4 DEF Backed, IsAck
  <2>10. Chosen(led2, k, t)'
    <3>1. PICK Q : Q = {i} \cup {p \in Node \ {i} : match_index'[i][p] >= k}
      OBVIOUS
    <3>2. Q \in SUBSET Node /\ IsQuorum(Q) /\ \A v \in Q : Backed(led2, v, k, t)'
      BY <2>4, <2>8, <2>9, <3>1
    <3>3. \E P \in SUBSET Node : IsQuorum(P)' /\ \A v \in P : Backed(led2, v, k, t)'
      BY <3>2 DEF IsQuorum
    <3>4. QED
      BY <2>6, <3>3 DEF Chosen, Own
  <2>11. SamePrefix(l, led2[t], k)
    BY <2>3, <2>5 DEF SamePrefix
  <2>12. Decided(led2, l, k, t)'
    <3>1. t <= t /\ k <= k
      BY <1>3 DEF Term
    <3>2. QED
      BY <2>3, <2>5, <2>10, <2>11, <3>1 DEF Decided
  <2>13. QED
    BY <1>7, <2>3, <2>12 DEF Decided
<1>8. ASSUME j = i, NEW a \in wire, Takes(i, a),
             k = Lower(a.leader_commit, Matched(i, a)), k # 0
      PROVE  Decided(led2, disk[j].log, k, disk[j].term)'
  <2>1. /\ a.term \in Term /\ a.term = disk'[i].term
        /\ Matched(i, a) \in Nat
        /\ SamePrefix(disk'[i].log, led[a.term], Matched(i, a))
    BY <1>8, TakesFacts DEF StepFrom
  <2>2. IsAppend(a) /\ a.leader_commit \in Nat
    <3>1. IsAppend(a) /\ a \in Message
      BY <1>8, StepBasics DEF Takes, TypeOK
    <3>2. QED
      BY <3>1, MessageFields DEF IsAppend, AppendEntries, Index
  <2>3. k <= a.leader_commit /\ k <= Matched(i, a) /\ a.leader_commit # 0
    BY <1>3, <1>8, <2>1, <2>2 DEF Lower
  <2>4. Decided(led, led[a.term], a.leader_commit, a.term)
    BY <2>2 DEF StepFrom, CommitInv, SentDecided
  <2>5. PICK u \in Term : \E N \in 1 .. Len(led[u]) :
          /\ u <= a.term /\ a.leader_commit <= N
          /\ Chosen(led, N, u) /\ SamePrefix(led[a.term], led[u], a.leader_commit)
    BY <2>3, <2>4 DEF Decided
  <2>6. PICK N \in 1 .. Len(led[u]) :
          /\ u <= a.term /\ a.leader_commit <= N
          /\ Chosen(led, N, u) /\ SamePrefix(led[a.term], led[u], a.leader_commit)
    BY <2>5
  <2>7. PICK l \in Seq(Entry) : l = disk'[i].log
    BY StepBasics
  <2>8. PICK r \in Seq(Entry) : r = led[a.term]
    BY <2>1, LedBasics
  <2>9. led[u] \in Seq(Entry) /\ Len(led[u]) \in Nat
    BY LedBasics
  <2>10. SamePrefix(l, r, k)
    BY <1>3, <2>1, <2>3, <2>7, <2>8, PrefixShorter
  <2>11. SamePrefix(r, led[u], k)
    BY <1>3, <2>2, <2>3, <2>6, <2>8, <2>9, PrefixShorter
  <2>12. SamePrefix(l, led[u], k)
    BY <2>10, <2>11, PrefixTransitive
  <2>13. k <= N
    BY <1>3, <2>2, <2>3, <2>6, <2>9
  <2>14. PICK t : t = disk'[i].term
    OBVIOUS
  <2>15. u <= t
    BY <2>1, <2>6, <2>14
  <2>16. Decided(led2, l, k, t)'
    BY <1>3, <2>6, <2>12, <2>13, <2>15, DecidedNext
  <2>17. QED
    BY <1>8, <2>7, <2>14, <2>16 DEF Decided
<1>9. QED
  <2>1. Commits(i)
    BY DEF StepFrom, Replicates
  <2>2. CASE j # i
    BY <1>2, <1>6, <2>1, <2>2 DEF Commits
  <2>3. CASE j = i
    <3>1. \/ k \in {0, commit_index[i]}
          \/ /\ i \in live' /\ role'[i] = Leader
             /\ k \in Committable(i, term'[i], log'[i], match_index'[i])
          \/ \E a \in wire : Takes(i, a) /\ k = Lower(a.leader_commit, Matched(i, a))
      BY <1>2, <2>1, <2>3 DEF Commits
    <3>2. QED
      BY <1>5, <1>6, <1>7, <1>8, <2>3, <3>1
  <2>4. QED
    BY <2>2, <2>3

LEMMA SentDecidedKept ==
  ASSUME NEW led \in [Term -> Seq(Entry)], NEW led2 \in [Term -> Seq(Entry)],
         NEW i \in Node, StepFrom(led, led2, i)
  PROVE  SentDecided(led2)'
<1>1. SUFFICES ASSUME NEW m \in wire', IsAppend(m)
               PROVE  Decided(led2, led2[m.term], m.leader_commit, m.term)'
  BY DEF SentDecided, IsAppend
<1>2. PICK t \in Term : t = m.term
  BY MessageFields, StepBasics DEF TypeOK, Term
<1>3. PICK k \in Nat : k = m.leader_commit
  BY <1>1, MessageFields, StepBasics DEF TypeOK, IsAppend, AppendEntries, Index
<1>4. SUFFICES Decided(led2, led2[t], k, t)'
  BY <1>2, <1>3
<1>5. CASE m \in wire /\ k # 0
  <2>1. Decided(led, led[t], k, t)
    BY <1>1, <1>2, <1>3, <1>5 DEF StepFrom, CommitInv, SentDecided
  <2>2. PICK u \in Term : \E N \in 1 .. Len(led[u]) :
          u <= t /\ k <= N /\ Chosen(led, N, u) /\ SamePrefix(led[t], led[u], k)
    BY <1>5, <2>1 DEF Decided
  <2>3. PICK N \in 1 .. Len(led[u]) :
          u <= t /\ k <= N /\ Chosen(led, N, u) /\ SamePrefix(led[t], led[u], k)
    BY <2>2
  <2>4. SamePrefix(led2[t], led[t], k)
    <3>1. k <= Len(led[t])
      BY <2>3 DEF SamePrefix
    <3>2. QED
      BY <3>1, LedBasics
  <2>5. SamePrefix(led2[t], led[u], k)
    BY <2>3, <2>4, PrefixTransitive
  <2>6. QED
    BY <2>3, <2>5, DecidedNext
<1>6. CASE m \notin wire
  <2>1. m.from = i /\ k = commit_index'[i]
    BY <1>1, <1>3, <1>6 DEF StepFrom, Replicates, SendsCommit
  <2>2. /\ i \in live' /\ disk'[i].term = t /\ term'[i] = t /\ role'[i] = Leader
    BY <1>1, <1>2, <1>6, <2>1, StepBasics, NewMessage
  <2>3. disk'[i].log = led2[t]
    BY <2>2, StepBasics DEF StepFrom, LogInv, LeadersLed
  <2>4. Decided(led2, disk[i].log, commit_index[i], disk[i].term)'
    BY CommitsKept DEF CommitsDecided
  <2>5. QED
    BY <2>1, <2>2, <2>3, <2>4 DEF Decided
<1>7. CASE k = 0
  BY <1>7 DEF Decided
<1>8. QED
  BY <1>5, <1>6, <1>7

LEMMA CommitInvKept ==
  ASSUME NEW led \in [Term -> Seq(Entry)], NEW led2 \in [Term -> Seq(Entry)],
         NEW i \in Node, StepFrom(led, led2, i)
  PROVE  CommitInv(led2)'
  BY AcksHoldKept, OwnersHoldKept, BackersHoldKept, LaterLeadersHoldKept,
     CandidatesHoldKept, RequestsKept, GrantsAnswerKept, CommitsKept,
     SentDecidedKept, MatchesKept DEF CommitInv

-----------------------------------------------------------------------------
(* What is decided is one log *)

\* Two decided logs agree as far as the shorter decision goes.
LEMMA DecidedAgree ==
  ASSUME NEW led \in [Term -> Seq(Entry)], NEW a \in Seq(Entry), NEW b \in Seq(Entry),
         NEW n \in Nat, NEW k \in Nat, n <= k, NEW t, NEW u
  PROVE  LaterLeadersHold(led) /\ Decided(led, a, n, t) /\ Decided(led, b, k, u)
           => SamePrefix(a, b, n)
<1>1. SUFFICES ASSUME LaterLeadersHold(led), Decided(led, a, n, t), Decided(led, b, k, u)
               PROVE  SamePrefix(a, b, n)
  OBVIOUS
<1>2. CASE n = 0
  BY <1>2, LenProperties DEF SamePrefix
<1>3. CASE n # 0
  <2>1. k # 0
    BY <1>3
  <2>2. PICK r, N :
          /\ r \in Term /\ N \in 1 .. Len(led[r])
          /\ n <= N /\ Chosen(led, N, r) /\ SamePrefix(a, led[r], n)
    BY <1>1, <1>3 DEF Decided
  <2>3. PICK s, K :
          /\ s \in Term /\ K \in 1 .. Len(led[s])
          /\ k <= K /\ Chosen(led, K, s) /\ SamePrefix(b, led[s], k)
    BY <1>1, <2>1 DEF Decided
  <2>4. /\ r \in Nat /\ s \in Nat /\ led[r] \in Seq(Entry) /\ led[s] \in Seq(Entry)
        /\ Len(led[r]) \in Nat /\ Len(led[s]) \in Nat
    BY <2>2, <2>3, LenProperties DEF Term
  <2>5. N \in Nat /\ K \in Nat /\ n <= K
    BY <2>2, <2>3, <2>4
  <2>6. led[r] # <<>> /\ led[s] # <<>>
    BY <2>2, <2>3, EmptySeq
  <2>7. MayBeChosen(led, N, r) /\ MayBeChosen(led, K, s)
    BY <2>2, <2>3, ChosenMayBe
  <2>8. SamePrefix(led[s], b, n)
    BY <2>3, <2>4, PrefixShorter
  <2>9. SamePrefix(led[r], led[s], n)
    <3>1. CASE r = s
      <4>1. n <= Len(led[r])
        BY <2>2 DEF SamePrefix
      <4>2. QED
        BY <3>1, <4>1 DEF SamePrefix
    <3>2. CASE r < s
      <4>1. SamePrefix(led[s], led[r], N)
        BY <1>1, <2>2, <2>3, <2>6, <2>7, <3>2 DEF LaterLeadersHold
      <4>2. QED
        BY <2>2, <2>4, <2>5, <4>1, PrefixShorter
    <3>3. CASE s < r
      <4>1. SamePrefix(led[r], led[s], K)
        BY <1>1, <2>2, <2>3, <2>6, <2>7, <3>3 DEF LaterLeadersHold
      <4>2. QED
        BY <2>4, <2>5, <4>1, PrefixShorter
    <3>4. QED
      BY <2>4, <3>1, <3>2, <3>3
  <2>10. QED
    BY <2>2, <2>8, <2>9, PrefixTransitive
<1>4. QED
  BY <1>2, <1>3

LEMMA DecidedAgreeNext ==
  ASSUME NEW led \in [Term -> Seq(Entry)], NEW a \in Seq(Entry), NEW b \in Seq(Entry),
         NEW n \in Nat, NEW k \in Nat, n <= k, NEW t, NEW u
  PROVE  LaterLeadersHold(led)' /\ Decided(led, a, n, t)' /\ Decided(led, b, k, u)'
           => SamePrefix(a, b, n)
<1>1. LaterLeadersHold(led) /\ Decided(led, a, n, t) /\ Decided(led, b, k, u)
        => SamePrefix(a, b, n)
  BY DecidedAgree
<1>2. LaterLeadersHold(led)' /\ Decided(led, a, n, t)' /\ Decided(led, b, k, u)'
        => SamePrefix(a, b, n)'
  BY <1>1, PTL
<1>3. QED
  BY <1>2 DEF SamePrefix

\* A shorter prefix, or a log that shares it, is decided too.
LEMMA DecidedShorter ==
  ASSUME NEW led \in [Term -> Seq(Entry)], NEW a \in Seq(Entry), NEW b \in Seq(Entry),
         NEW n \in Nat, NEW k \in Nat, k <= n, SamePrefix(b, a, k), NEW t
  PROVE  Decided(led, a, n, t) => Decided(led, b, k, t)
<1>1. SUFFICES ASSUME Decided(led, a, n, t), k # 0 PROVE Decided(led, b, k, t)
  BY DEF Decided
<1>2. n # 0
  BY <1>1
<1>3. PICK u, N :
        /\ u \in Term /\ N \in 1 .. Len(led[u])
        /\ u <= t /\ n <= N /\ Chosen(led, N, u) /\ SamePrefix(a, led[u], n)
  BY <1>1, <1>2 DEF Decided
<1>4. led[u] \in Seq(Entry) /\ N \in Nat
  BY <1>3, LenProperties
<1>5. SamePrefix(a, led[u], k)
  BY <1>3, <1>4, PrefixShorter
<1>6. k <= N
  BY <1>3, <1>4
<1>7. QED
  BY <1>3, <1>5, <1>6, PrefixTransitive DEF Decided

LEMMA DecidedShorterNext ==
  ASSUME NEW led \in [Term -> Seq(Entry)], NEW a \in Seq(Entry), NEW b \in Seq(Entry),
         NEW n \in Nat, NEW k \in Nat, k <= n, SamePrefix(b, a, k), NEW t
  PROVE  Decided(led, a, n, t)' => Decided(led, b, k, t)'
<1>1. Decided(led, a, n, t) => Decided(led, b, k, t)
  BY DecidedShorter
<1>2. QED
  BY <1>1, PTL

\* What was decided by some term is decided by it after every step.
LEMMA DecidedForGood ==
  ASSUME NEW led \in [Term -> Seq(Entry)], NEW led2 \in [Term -> Seq(Entry)],
         NEW i \in Node, StepFrom(led, led2, i), NEW l, NEW n \in Nat, NEW t,
         Decided(led, l, n, t)
  PROVE  Decided(led2, l, n, t)'
<1>1. CASE n = 0
  BY <1>1 DEF Decided
<1>2. CASE n # 0
  <2>1. PICK u, N :
          /\ u \in Term /\ N \in 1 .. Len(led[u])
          /\ u <= t /\ n <= N /\ Chosen(led, N, u) /\ SamePrefix(l, led[u], n)
    BY <1>2 DEF Decided
  <2>2. QED
    BY <2>1, DecidedNext
<1>3. QED
  BY <1>1, <1>2

\* A decided prefix of a disk's log stays on that disk, entry by entry.
LEMMA PrefixForGood ==
  ASSUME NEW led \in [Term -> Seq(Entry)], NEW led2 \in [Term -> Seq(Entry)],
         NEW i \in Node, StepFrom(led, led2, i), NEW p \in Node, NEW n \in Nat,
         Decided(led, disk[p].log, n, disk[p].term)
  PROVE  /\ Decided(led2, disk[p].log, n, disk[p].term)'
         /\ SamePrefix(disk[p].log, disk'[p].log, n)
<1>1. PICK l \in Seq(Entry), l2 \in Seq(Entry) : l = disk[p].log /\ l2 = disk'[p].log
  BY StepBasics
<1>2. PICK t, t2 : t = disk[p].term /\ t2 = disk'[p].term
  OBVIOUS
<1>3. Decided(led2, l, n, t)'
  BY <1>1, <1>2, DecidedForGood
<1>4. Decided(led2, disk[p].log, n, disk[p].term)'
  BY DecidedStays
<1>5. Decided(led2, l2, n, t2)'
  BY <1>1, <1>2, <1>4 DEF Decided
<1>6. LaterLeadersHold(led2)'
  BY CommitInvKept DEF CommitInv
<1>7. n <= n
  OBVIOUS
<1>8. SamePrefix(l, l2, n)
  BY <1>3, <1>5, <1>6, <1>7, DecidedAgreeNext
<1>9. QED
  BY <1>1, <1>4, <1>8

\* A node's commit index is within its log.
LEMMA CommittedIsInLog ==
  ASSUME ElectionInv, NEW led \in [Term -> Seq(Entry)], LogInv(led),
         CommitsDecided(led), NEW i \in Node
  PROVE  commit_index[i] <= Len(disk[i].log) /\ commit_index[i] \in Nat
<1>1. Decided(led, disk[i].log, commit_index[i], disk[i].term)
  BY DEF CommitsDecided
<1>2. commit_index[i] \in Nat
  BY DEF ElectionInv, TypeOK, Index
<1>3. Len(disk[i].log) \in Nat
  BY LogFacts
<1>4. QED
  BY <1>1, <1>2, <1>3 DEF Decided, SamePrefix

\* A node that comes up has applied nothing: only Restart brings one up.
LEMMA RestartForgets ==
  ASSUME TypeOK, NEW i \in Node, StepOf(i), NEW p \in live' \ live
  PROVE  applied_index'[p] = 0
<1>1. CASE live' = live
  BY <1>1
<1>2. ASSUME NEW d, CrashWith(i, d) PROVE FALSE
  BY <1>2 DEF CrashWith
<1>3. CASE Timeout(i)
  BY <1>1, <1>3 DEF Timeout, Campaign, CampaignAlone, Heartbeat, StartElection
<1>4. CASE \/ TakeCommitted(i)
           \/ \E c \in Command \cup {Noop} : Propose(i, c)
  BY <1>1, <1>4 DEF TakeCommitted, Propose
<1>5. CASE Crash(i) \/ CrashInCampaign(i)
  BY <1>2, <1>5 DEF Crash, CrashInCampaign
<1>6. CASE Restart(i)
  <2>1. p = i /\ applied_index' = [applied_index EXCEPT ![i] = 0]
    BY <1>6 DEF Restart, FreshVolatile
  <2>2. QED
    BY <2>1 DEF TypeOK
<1>7. ASSUME NEW m \in wire, Handle(i, m) PROVE live' = live
  BY <1>7 DEF Handle, GrantVote, DenyVote, OnRequestVote,
     CountVote, WinElection, OnVoteResponse, RejectStale, RejectAppend,
     AcceptKnown, AcceptNew, AcceptAppend, FollowLeader, AckSuccess, AckFailure,
     OnAppendResponse, StepDown
<1>8. ASSUME NEW m \in wire, CrashInHandler(i, m) PROVE FALSE
  BY <1>2, <1>8 DEF CrashInHandler, CrashInStepDown, CrashInTruncate
<1>9. QED
  BY <1>1, <1>3, <1>4, <1>5, <1>6, <1>7, <1>8 DEF StepOf

-----------------------------------------------------------------------------
(* What the checker collected *)

\* What is decided depends on the disks and the messages only.
LEMMA DecidedStutters ==
  ASSUME NEW led, disk' = disk, wire' = wire
  PROVE  \A l, n, t : Decided(led, l, n, t)' <=> Decided(led, l, n, t)
<1>1. \A v, c, t : VotedFor(v, c, t)' <=> VotedFor(v, c, t)
  BY DEF VotedFor, IsGrant
<1>2. \A c, t : Elected(c, t)' <=> Elected(c, t)
  BY <1>1 DEF Elected, IsGrant, IsQuorum
<1>3. \A v, n, t : Backed(led, v, n, t)' <=> Backed(led, v, n, t)
  BY <1>2 DEF Backed, IsAck
<1>4. \A n, t : Chosen(led, n, t)' <=> Chosen(led, n, t)
  BY <1>3 DEF Chosen, Own, IsQuorum
<1>5. QED
  BY <1>4 DEF Decided

-----------------------------------------------------------------------------
(* The invariant holds *)

LEMMA HistoryStarts ==
  ASSUME Init
  PROVE  History
<1>1. PICK led \in [Term -> Seq(Entry)] : LogInv(led) /\ \A t \in Term : led[t] = <<>>
  <2>1. PICK none : none = [t \in Term |-> <<>>]
    OBVIOUS
  <2>2. QED
    BY <2>1, NothingLed
<1>2. \A t \in Term : 1 .. Len(led[t]) = {}
  BY <1>1, EmptySeq
<1>3. /\ wire = {} /\ \A i \in Node : role[i] = Follower
      /\ \A i \in Node : commit_index[i] = 0
      /\ \A i \in Node : disk[i].log = <<>>
  BY DEF Init, Blank
<1>4. live \subseteq Node /\ DOMAIN led = Term
  BY DEF Init
<1>5. AcksHold(led) /\ RequestsAreTrue /\ GrantsAnswer /\ SentDecided(led)
  BY <1>3 DEF AcksHold, RequestsAreTrue, GrantsAnswer, SentDecided
<1>6. OwnersHold(led)
  BY <1>1, <1>3, <1>4, EmptySeq DEF OwnersHold, SamePrefix
<1>7. BackersHold(led) /\ LaterLeadersHold(led)
  BY <1>2, <1>4 DEF BackersHold, LaterLeadersHold
<1>8. CandidatesHold(led) /\ MatchesAcked
  BY <1>3, <1>4 DEF CandidatesHold, MatchesAcked, Follower, Candidate, Leader
<1>9. CommitsDecided(led)
  BY <1>3 DEF CommitsDecided, Decided
<1>10. QED
  BY <1>1, <1>5, <1>6, <1>7, <1>8, <1>9 DEF CommitInv, History

\* A step of the specification is a step between explained states.
LEMMA NextIsStepFrom ==
  ASSUME ElectionInv, NEW led \in [Term -> Seq(Entry)], LogInv(led), CommitInv(led),
         Next
  PROVE  \E i \in Node : \E led2 \in [Term -> Seq(Entry)] :
           StepOf(i) /\ StepFrom(led, led2, i)
<1>1. ElectionInv' /\ TypeOK'
  BY NextKeepsInvariant DEF ElectionInv
<1>2. PICK i \in Node : StepOf(i)
  BY DEF Next, StepOf
<1>3. LocalStep(i) /\ (Idle(i) \/ Grow(i) \/ Obey(i)) /\ Replicates(i)
  BY <1>1, <1>2, ShapeOfStep, ReplicationOfStep
<1>4. \E led2 \in [Term -> Seq(Entry)] : LogInv(led2)' /\ Evolves(led, led2, i)
  BY <1>1, <1>3, StepEvolves
<1>5. QED
  BY <1>1, <1>2, <1>3, <1>4 DEF StepFrom

LEMMA HistoryStep ==
  ASSUME ElectionInv, History, Next
  PROVE  History'
<1>1. PICK led \in [Term -> Seq(Entry)] : LogInv(led) /\ CommitInv(led)
  BY DEF History
<1>2. PICK i \in Node, led2 \in [Term -> Seq(Entry)] : StepFrom(led, led2, i)
  BY <1>1, NextIsStepFrom
<1>3. CommitInv(led2)'
  BY <1>2, CommitInvKept
<1>4. QED
  BY <1>2, <1>3 DEF StepFrom, History

LEMMA CommitInvStutters ==
  ASSUME NEW led \in [Term -> Seq(Entry)], CommitInv(led), UNCHANGED vars
  PROVE  CommitInv(led)'
<1>1. /\ disk' = disk /\ live' = live /\ wire' = wire /\ term' = term /\ log' = log
      /\ role' = role /\ commit_index' = commit_index /\ match_index' = match_index
  BY DEF vars, memory, indices, cursors
<1>2. /\ \A v, c, t : VotedFor(v, c, t)' <=> VotedFor(v, c, t)
      /\ \A c, t : StandsFor(c, t)' <=> StandsFor(c, t)
      /\ \A m : IsAck(m)' <=> IsAck(m)
  BY <1>1 DEF VotedFor, IsGrant, StandsFor, IsAck
<1>3. \A c, t : Elected(c, t)' <=> Elected(c, t)
  BY <1>1, <1>2 DEF Elected, IsGrant, IsQuorum
<1>4. \A v, n, t : Backed(led, v, n, t)' <=> Backed(led, v, n, t)
  BY <1>1, <1>3 DEF Backed, IsAck
<1>5. \A n, t : /\ Chosen(led, n, t)' <=> Chosen(led, n, t)
                /\ MayBeChosen(led, n, t)' <=> MayBeChosen(led, n, t)
  BY <1>1, <1>4 DEF Chosen, MayBeChosen, Own, IsQuorum
<1>6. \A l, n, t : Decided(led, l, n, t)' <=> Decided(led, l, n, t)
  BY <1>5 DEF Decided
<1>7. AcksHold(led)' /\ OwnersHold(led)'
  BY <1>1, <1>3 DEF CommitInv, AcksHold, OwnersHold, IsAck
<1>8. BackersHold(led)' /\ LaterLeadersHold(led)' /\ CandidatesHold(led)'
  BY <1>1, <1>2, <1>4, <1>5 DEF CommitInv, BackersHold, LaterLeadersHold, CandidatesHold
<1>9. RequestsAreTrue' /\ GrantsAnswer' /\ MatchesAcked'
  BY <1>1, <1>2 DEF CommitInv, RequestsAreTrue, GrantsAnswer, MatchesAcked, IsAck, IsGrant
<1>10. CommitsDecided(led)' /\ SentDecided(led)'
  BY <1>1, <1>6 DEF CommitInv, CommitsDecided, SentDecided, IsAppend
<1>11. QED
  BY <1>7, <1>8, <1>9, <1>10 DEF CommitInv

\* Some led explains every log, acknowledgement, vote and commit index.
THEOREM HistoryHolds == Spec => [](ElectionInv /\ History)
<1>1. Init => ElectionInv /\ History
  BY InitIsInvariant, HistoryStarts
<1>2. ElectionInv /\ History /\ [Next]_vars => (ElectionInv /\ History)'
  <2>1. SUFFICES ASSUME ElectionInv, History, [Next]_vars
                 PROVE  ElectionInv' /\ History'
    OBVIOUS
  <2>2. CASE Next
    BY <2>1, <2>2, NextKeepsInvariant, HistoryStep
  <2>3. CASE UNCHANGED vars
    <3>1. PICK led \in [Term -> Seq(Entry)] : LogInv(led) /\ CommitInv(led)
      BY <2>1 DEF History
    <3>2. LogInv(led)' /\ CommitInv(led)'
      BY <2>3, <3>1, LogInvStutters, CommitInvStutters
    <3>3. QED
      BY <2>1, <2>3, <3>2, StutterKeepsInvariant DEF History
  <2>4. QED
    BY <2>1, <2>2, <2>3
<1>3. QED
  BY <1>1, <1>2, PTL DEF Spec

-----------------------------------------------------------------------------
(* What follows for acknowledgements and commit indices *)

LEMMA NoEntries ==
  ASSUME NEW a, NEW b
  PROVE  SubSeq(a, 1, 0) = SubSeq(b, 1, 0)
  OBVIOUS

LEMMA HistoryGivesAcked ==
  ASSUME ElectionInv, History
  PROVE  AckedIsDurable
<1>1. PICK led \in [Term -> Seq(Entry)] : LogInv(led) /\ CommitInv(led)
  BY DEF History
<1>2. SUFFICES ASSUME NEW i \in live, role[i] = Leader, NEW p \in Node \ {i},
                      ~(disk[p].term > term[i])
               PROVE  /\ match_index[i][p] <= Lower(Len(disk[p].log), Len(log[i]))
                      /\ SubSeq(disk[p].log, 1, match_index[i][p])
                           = SubSeq(log[i], 1, match_index[i][p])
  BY DEF AckedIsDurable
<1>3. PICK n \in Nat : n = match_index[i][p]
  BY DEF ElectionInv, TypeOK, Index
<1>4. PICK a \in Seq(Entry) : a = disk[p].log
  BY <1>1, LogFacts
<1>5. PICK b \in Seq(Entry) : b = log[i]
  BY DEF ElectionInv, TypeOK
<1>6. Len(a) \in Nat /\ Len(b) \in Nat
  BY LenProperties
<1>7. CASE n = 0
  <2>1. 0 <= Lower(Len(a), Len(b))
    BY <1>6 DEF Lower
  <2>2. SubSeq(a, 1, 0) = SubSeq(b, 1, 0)
    BY NoEntries
  <2>3. QED
    BY <1>3, <1>4, <1>5, <1>7, <2>1, <2>2
<1>8. CASE n # 0
  <2>1. PICK m \in wire : IsAck(m) /\ m.from = p /\ m.term = term[i] /\ n <= m.match_index
    BY <1>1, <1>2, <1>3, <1>8 DEF CommitInv, MatchesAcked
  <2>2. m.match_index \in Nat /\ m.term \in Nat
    BY <2>1, AckFields DEF ElectionInv, Term
  <2>3. disk[p].term = m.term
    <3>1. m.term <= disk[p].term
      BY <2>1 DEF ElectionInv, WireInv, SentIsWritten
    <3>2. disk[p].term \in Nat
      BY <1>1, LogFacts
    <3>3. QED
      BY <1>2, <2>1, <2>2, <3>1, <3>2
  <2>4. SamePrefix(a, b, m.match_index)
    <3>1. SamePrefix(disk[m.from].log, led[m.term], m.match_index)
      BY <1>1, <2>1, <2>3 DEF CommitInv, AcksHold
    <3>2. log[i] = led[term[i]]
      BY <1>1, <1>2 DEF LogInv, LeadersLed
    <3>3. QED
      BY <1>4, <1>5, <2>1, <3>1, <3>2
  <2>5. SamePrefix(a, b, n)
    BY <2>1, <2>2, <2>4, PrefixShorter
  <2>6. n <= Lower(Len(a), Len(b))
    BY <2>5 DEF SamePrefix, Lower
  <2>7. QED
    BY <1>3, <1>4, <1>5, <2>5, <2>6, PrefixSubSeq
<1>9. QED
  BY <1>7, <1>8

\* What a leader counts as replicated is on the follower's disk until the
\* follower moves to a later term, whatever old messages it handled and however
\* often it crashed since: on_append_response may count it towards a majority.
THEOREM AckedStaysDurable == Spec => []AckedIsDurable
  BY HistoryGivesAcked, HistoryHolds, PTL

LEMMA LargerQuorum ==
  ASSUME NEW P \in SUBSET Node, NEW Q \in SUBSET Node, P \subseteq Q, IsQuorum(P)
  PROVE  IsQuorum(Q)
<1>1. IsFiniteSet(Node) /\ IsFiniteSet(Q) /\ IsFiniteSet(P)
  BY NodeAssumption, FS_Subset
<1>2. Cardinality(P) <= Cardinality(Q)
  BY <1>1, FS_Subset
<1>3. Cardinality(P) \in Nat /\ Cardinality(Q) \in Nat /\ Cardinality(Node) \in Nat
  BY <1>1, NodeAssumption, FS_CardinalityType
<1>4. QED
  BY <1>2, <1>3 DEF IsQuorum

LEMMA EveryoneIsQuorum == IsQuorum(Node)
<1>1. Cardinality(Node) \in Nat /\ Cardinality(Node) # 0
  BY NodeAssumption, FS_CardinalityType, FS_EmptySet
<1>2. QED
  BY <1>1 DEF IsQuorum

\* A majority's disks hold what is decided.
LEMMA DecidedOnMajority ==
  ASSUME ElectionInv, NEW led \in [Term -> Seq(Entry)], LogInv(led), CommitInv(led),
         NEW l \in Seq(Entry), NEW n \in Nat, NEW t, Decided(led, l, n, t)
  PROVE  /\ n <= Len(l)
         /\ \E Q \in SUBSET Node :
              IsQuorum(Q) /\ \A p \in Q : SamePrefix(disk[p].log, l, n)
<1>1. Len(l) \in Nat /\ \A p \in Node : disk[p].log \in Seq(Entry)
  BY LogFacts, LenProperties
<1>2. CASE n = 0
  BY <1>1, <1>2, EveryoneIsQuorum, LenProperties DEF SamePrefix
<1>3. CASE n # 0
  <2>1. PICK u \in Term : \E N \in 1 .. Len(led[u]) :
          n <= N /\ Chosen(led, N, u) /\ SamePrefix(l, led[u], n)
    BY <1>3 DEF Decided
  <2>2. PICK N \in 1 .. Len(led[u]) :
          n <= N /\ Chosen(led, N, u) /\ SamePrefix(l, led[u], n)
    BY <2>1
  <2>3. led[u] \in Seq(Entry) /\ Len(led[u]) \in Nat /\ N \in Nat
    BY LenProperties
  <2>4. PICK Q \in SUBSET Node : IsQuorum(Q) /\ \A v \in Q : Backed(led, v, N, u)
    BY <2>2 DEF Chosen
  <2>5. ASSUME NEW v \in Q PROVE SamePrefix(disk[v].log, l, n)
    <3>1. MayBeChosen(led, N, u)
      BY <2>2, ChosenMayBe
    <3>2. SamePrefix(disk[v].log, led[u], N)
      BY <2>4, <3>1 DEF CommitInv, BackersHold
    <3>3. SamePrefix(disk[v].log, led[u], n)
      BY <1>1, <2>2, <2>3, <3>2, PrefixShorter
    <3>4. SamePrefix(led[u], l, n)
      BY <2>2, <2>3, PrefixShorter
    <3>5. QED
      BY <3>3, <3>4, PrefixTransitive
  <2>6. n <= Len(l)
    BY <2>2 DEF SamePrefix
  <2>7. QED
    BY <2>4, <2>5, <2>6
<1>4. QED
  BY <1>2, <1>3

LEMMA HistoryGivesMajority ==
  ASSUME ElectionInv, History
  PROVE  CommittedOnMajority
<1>1. PICK led \in [Term -> Seq(Entry)] : LogInv(led) /\ CommitInv(led)
  BY DEF History
<1>2. SUFFICES ASSUME NEW i \in live
               PROVE  /\ commit_index[i] <= Len(log[i])
                      /\ IsQuorum({p \in Node :
                           /\ commit_index[i] <= Len(disk[p].log)
                           /\ SubSeq(disk[p].log, 1, commit_index[i])
                                = SubSeq(log[i], 1, commit_index[i])})
  BY DEF CommittedOnMajority
<1>3. i \in Node /\ disk[i].log = log[i]
  BY NodeFacts
<1>4. PICK n \in Nat : n = commit_index[i]
  BY <1>3 DEF ElectionInv, TypeOK, Index
<1>5. PICK l \in Seq(Entry) : l = log[i]
  BY <1>3 DEF ElectionInv, TypeOK
<1>6. Decided(led, l, n, disk[i].term)
  BY <1>1, <1>3, <1>4, <1>5 DEF CommitInv, CommitsDecided
<1>7. /\ n <= Len(l)
      /\ \E Q \in SUBSET Node :
           IsQuorum(Q) /\ \A p \in Q : SamePrefix(disk[p].log, l, n)
  BY <1>1, <1>6, DecidedOnMajority
<1>8. PICK Q \in SUBSET Node :
        IsQuorum(Q) /\ \A p \in Q : SamePrefix(disk[p].log, l, n)
  BY <1>7
<1>9. PICK S : S = {p \in Node : /\ n <= Len(disk[p].log)
                                 /\ SubSeq(disk[p].log, 1, n) = SubSeq(l, 1, n)}
  OBVIOUS
<1>10. ASSUME NEW p \in Q PROVE p \in S
  <2>1. disk[p].log \in Seq(Entry) /\ SamePrefix(disk[p].log, l, n)
    BY <1>1, <1>8, LogFacts
  <2>2. n <= Len(disk[p].log)
    BY <2>1 DEF SamePrefix
  <2>3. SubSeq(disk[p].log, 1, n) = SubSeq(l, 1, n)
    BY <2>1, PrefixSubSeq
  <2>4. QED
    BY <1>9, <2>2, <2>3
<1>11. IsQuorum(S)
  BY <1>8, <1>9, <1>10, LargerQuorum
<1>12. QED
  BY <1>4, <1>5, <1>7, <1>9, <1>11

\* What a node has committed, as a leader or on its leader's word, is on the
\* disks of a majority, and no crash or change of leader takes it from them.
THEOREM CommitsOnMajority == Spec => []CommittedOnMajority
  BY HistoryGivesMajority, HistoryHolds, PTL

-----------------------------------------------------------------------------
(* A cluster of one *)

\* A lone leader that appends an entry of its term commits its whole log.
LEMMA LoneCommits ==
  ASSUME ElectionInv, History, NEW i \in Node, Node = {i}, i \in live,
         NEW t, NEW e \in Entry, e.term = t, NEW acked,
         AdvanceCommit(i, t, Append(log[i], e), acked)
  PROVE  commit_index'[i] = Len(Append(log[i], e))
<1>1. PICK led \in [Term -> Seq(Entry)] : LogInv(led) /\ CommitInv(led)
  BY DEF History
<1>2. PICK k \in Nat : k = commit_index[i]
  BY DEF ElectionInv, TypeOK, Index
<1>3. PICK a \in Seq(Entry) : a = log[i]
  BY DEF ElectionInv, TypeOK
<1>4. k <= Len(a)
  <2>1. Decided(led, a, k, disk[i].term)
    BY <1>1, <1>2, <1>3, NodeFacts DEF CommitInv, CommitsDecided
  <2>2. QED
    BY <1>1, <2>1, DecidedOnMajority
<1>5. PICK l : l = Append(a, e)
  OBVIOUS
<1>6. Len(l) = Len(a) + 1 /\ Len(a) \in Nat /\ l[Len(l)] = e
  BY <1>5, AppendPrefix, Zenon
<1>7. PICK C : C = Committable(i, t, l, acked)
  OBVIOUS
<1>8. \A n \in C : n \in Nat /\ n <= Len(l)
  BY <1>2, <1>6, <1>7 DEF Committable
<1>9. Len(l) \in C
  <2>1. Len(l) \in commit_index[i] + 1 .. Len(l)
    BY <1>2, <1>4, <1>6
  <2>2. \A q \in Len(l) .. Len(l) : l[q].term = t
    BY <1>6
  <2>3. IsQuorum({i} \cup {p \in Node \ {i} : acked[p] >= Len(l)})
    <3>1. {i} \cup {p \in Node \ {i} : acked[p] >= Len(l)} = Node
      OBVIOUS
    <3>2. QED
      BY <3>1, EveryoneIsQuorum
  <2>4. QED
    BY <1>7, <2>1, <2>2, <2>3 DEF Committable
<1>10. Highest(C) = {Len(l)}
  BY <1>6, <1>8, <1>9 DEF Highest
<1>11. commit_index' = [commit_index EXCEPT ![i] = Len(l)]
  BY <1>3, <1>5, <1>7, <1>9, <1>10 DEF AdvanceCommit
<1>12. QED
  BY <1>3, <1>5, <1>11 DEF ElectionInv, TypeOK

LEMMA LoneStep ==
  ASSUME ElectionInv, History, LoneLeaderCommits, Next
  PROVE  LoneLeaderCommits'
<1>1. SUFFICES ASSUME NEW i \in live', Node = {i}, role'[i] = Leader
               PROVE  commit_index'[i] = Len(log'[i])
  BY DEF LoneLeaderCommits
<1>2. TypeOK /\ TypeOK' /\ i \in Node
  BY <1>1, NextKeepsInvariant DEF ElectionInv
<1>3. PICK j \in Node : StepOf(j)
  BY DEF Next, StepOf
<1>4. StepOf(i)
  BY <1>1, <1>3
<1>5. ASSUME NEW t \in Term, NEW d, i \in live, BecomeLeader(i, t, d)
      PROVE  commit_index'[i] = Len(log'[i])
  <2>1. PICK e : e = [term |-> t, command |-> Noop]
    OBVIOUS
  <2>2. e \in Entry /\ e.term = t
    BY <2>1 DEF Entry
  <2>3. log'[i] = Append(log[i], e)
    BY <1>2, <1>5, <2>1 DEF BecomeLeader, TypeOK
  <2>4. \E acked : AdvanceCommit(i, t, Append(log[i], e), acked)
    BY <1>5, <2>1 DEF BecomeLeader
  <2>5. QED
    BY <1>1, <1>2, <1>5, <2>2, <2>3, <2>4, LoneCommits
<1>6. CASE Campaign(i)
  BY <1>1, <1>2, <1>6 DEF Campaign, TypeOK, Candidate, Leader
<1>7. CASE CampaignAlone(i)
  <2>1. i \in live /\ BecomeLeader(i, term[i] + 1, SelfVote(i))
    BY <1>7 DEF CampaignAlone, StartElection
  <2>2. term[i] + 1 \in Term
    BY <1>2 DEF TypeOK, Term
  <2>3. QED
    BY <1>5, <2>1, <2>2
<1>8. CASE \E c \in Command \cup {Noop} : Propose(i, c)
  <2>1. PICK c \in Command \cup {Noop} : Propose(i, c)
    BY <1>8
  <2>2. PICK e : e = [term |-> term[i], command |-> c]
    OBVIOUS
  <2>3. e \in Entry /\ e.term = term[i]
    BY <1>2, <2>2 DEF TypeOK, Entry
  <2>4. /\ i \in live /\ log'[i] = Append(log[i], e)
        /\ AdvanceCommit(i, term[i], Append(log[i], e), match_index[i])
    BY <1>2, <2>1, <2>2 DEF Propose, TypeOK
  <2>5. QED
    BY <1>1, <1>2, <2>3, <2>4, LoneCommits
<1>9. CASE Heartbeat(i) \/ TakeCommitted(i)
  <2>1. live' = live /\ role' = role /\ commit_index' = commit_index /\ log' = log
    BY <1>9 DEF Heartbeat, TakeCommitted, indices, memory
  <2>2. QED
    BY <1>1, <2>1 DEF LoneLeaderCommits
<1>10. CASE Crash(i) \/ CrashInCampaign(i)
  BY <1>1, <1>10 DEF Crash, CrashInCampaign, CrashWith
<1>11. CASE Restart(i)
  BY <1>1, <1>2, <1>11 DEF Restart, FreshVolatile, TypeOK, Follower, Leader
<1>12. ASSUME NEW m \in wire, Handle(i, m) \/ CrashInHandler(i, m) PROVE FALSE
  <2>1. Deliverable(i, m)
    BY <1>12 DEF Handle, CrashInHandler, GrantVote, DenyVote, OnRequestVote,
       CountVote, WinElection, OnVoteResponse, RejectStale, RejectAppend,
       AcceptKnown, AcceptNew, AcceptAppend, FollowLeader, AckSuccess, AckFailure,
       OnAppendResponse, StepDown, CrashInStepDown, CrashInTruncate
  <2>2. m.from \in Node
    BY <1>2, MessageFields DEF TypeOK
  <2>3. QED
    BY <1>1, <2>1, <2>2 DEF Deliverable
<1>13. QED
  BY <1>4, <1>6, <1>7, <1>8, <1>9, <1>10, <1>11, <1>12 DEF StepOf, Timeout

\* A lone node commits whatever it appends at once, and its no-op brings in what
\* its earlier lives had appended: there is no peer whose answer would.
THEOREM LoneLeadersCommit == Spec => []LoneLeaderCommits
<1>1. Init => LoneLeaderCommits
  BY DEF Init, LoneLeaderCommits, Follower, Leader
<1>2. ASSUME LoneLeaderCommits, UNCHANGED vars PROVE LoneLeaderCommits'
  BY <1>2 DEF LoneLeaderCommits, vars, memory, indices
<1>3. ElectionInv /\ History /\ LoneLeaderCommits /\ [Next]_vars => LoneLeaderCommits'
  BY <1>2, LoneStep
<1>4. QED
  BY <1>1, <1>3, HistoryHolds, PTL DEF Spec

=============================================================================
