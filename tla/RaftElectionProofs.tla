------------------------- MODULE RaftElectionProofs -------------------------
(***************************************************************************)
(* Every action of the Raft node keeps the types of its state, and the     *)
(* election invariant is inductive, for any cluster, any log and any       *)
(* number of elections, crashes, restarts, losses and duplicates; hence    *)
(* type correctness, durable votes and election safety.                    *)
(***************************************************************************)
EXTENDS RaftInvariants, FiniteSetTheorems, SequenceTheorems, TLAPS

-----------------------------------------------------------------------------
(* The types of what the handlers read and compute *)

\* Every message names nodes and carries a term.
LEMMA MessageFields ==
  ASSUME NEW m \in Message
  PROVE  /\ m.from \in Node /\ m.to \in Node /\ m.term \in Nat
         /\ m.kind = "AppendEntries" => m \in AppendEntries
         /\ m.kind = "AppendResponse" => m \in AppendResponse
         /\ m.kind = "RequestVote" => m \in RequestVote
         /\ m.kind = "VoteResponse" => m \in VoteResponse
  BY DEF Message, RequestVote, VoteResponse, AppendEntries, AppendResponse,
         Term, Index

\* The storage operations yield storage, with the expected fields.
LEMMA SaveType ==
  ASSUME NEW p \in Persistent, NEW t \in Nat, NEW v \in Node \cup {Nil}
  PROVE  /\ SaveHardState(p, t, v) \in Persistent
         /\ SaveHardState(p, t, v).term = t
         /\ SaveHardState(p, t, v).voted_for = v
         /\ SaveHardState(p, t, v).log = p.log
  BY DEF SaveHardState, Persistent, Term

LEMMA AppendToType ==
  ASSUME NEW p \in Persistent, NEW s \in Seq(Entry)
  PROVE  /\ AppendTo(p, s) \in Persistent
         /\ AppendTo(p, s).term = p.term
         /\ AppendTo(p, s).voted_for = p.voted_for
         /\ AppendTo(p, s).log = p.log \o s
<1>1. p.log \o s \in Seq(Entry)
  BY ConcatProperties DEF Persistent
<1>2. QED
  BY <1>1 DEF AppendTo, Persistent

LEMMA TruncateFromType ==
  ASSUME NEW p \in Persistent, NEW n \in Nat \ {0}
  PROVE  /\ TruncateFrom(p, n) \in Persistent
         /\ TruncateFrom(p, n).term = p.term
         /\ TruncateFrom(p, n).voted_for = p.voted_for
         /\ n <= Len(p.log) + 1 => TruncateFrom(p, n).log = SubSeq(p.log, 1, n - 1)
<1>1. p.log \in Seq(Entry) /\ Len(p.log) \in Nat
  BY LenProperties DEF Persistent
<1>2. CASE n > Len(p.log)
  <2>1. TruncateFrom(p, n) = p
    BY <1>2 DEF TruncateFrom
  <2>2. n <= Len(p.log) + 1 => n - 1 = Len(p.log)
    BY <1>1, <1>2
  <2>3. SubSeq(p.log, 1, Len(p.log)) = p.log
    BY <1>1, SubSeqFull
  <2>4. QED
    BY <2>1, <2>2, <2>3
<1>3. CASE ~(n > Len(p.log))
  <2>1. \A k \in 1 .. n - 1 : p.log[k] \in Entry
    BY <1>1, <1>3, ElementOfSeq
  <2>2. SubSeq(p.log, 1, n - 1) \in Seq(Entry)
    BY <2>1, SubSeqProperties
  <2>3. QED
    BY <1>3, <2>2 DEF TruncateFrom, Persistent
<1>4. QED
  BY <1>2, <1>3

\* What a leader reads from its log for one peer.
LEMMA SliceType ==
  ASSUME NEW entries \in Seq(Entry), NEW prev \in Nat, prev <= Len(entries)
  PROVE  /\ TermAt(entries, prev) \in Nat
         /\ SubSeq(entries, prev + 1, Lower(Len(entries), prev + MaxBatch))
              \in Seq(Entry)
<1>1. Len(entries) \in Nat /\ \A k \in 1 .. Len(entries) : entries[k] \in Entry
  BY LenProperties, ElementOfSeq
<1>2. TermAt(entries, prev) \in Nat
  BY <1>1 DEF TermAt, Entry, Term
<1>3. Lower(Len(entries), prev + MaxBatch) \in Int
  BY <1>1, MaxBatchAssumption DEF Lower
<1>4. \A k \in prev + 1 .. Lower(Len(entries), prev + MaxBatch) : entries[k] \in Entry
  BY <1>1, MaxBatchAssumption DEF Lower
<1>5. QED
  BY <1>2, <1>3, <1>4, SubSeqProperties

LEMMA LastTermType ==
  ASSUME NEW entries \in Seq(Entry)
  PROVE  LastTerm(entries) \in Nat /\ Len(entries) \in Nat
<1>1. Len(entries) \in Nat /\ \A k \in 1 .. Len(entries) : entries[k] \in Entry
  BY LenProperties, ElementOfSeq
<1>2. QED
  BY <1>1 DEF LastTerm, TermAt, Entry, Term

LEMMA WireTyped ==
  ASSUME TypeOK, NEW m \in wire
  PROVE  m \in Message
  BY DEF TypeOK

\* The state after the step-down prelude.
LEMMA PreludeType ==
  ASSUME TypeOK, NEW i \in Node, NEW m \in Message
  PROVE  /\ TermAfter(i, m) \in Nat
         /\ VoteAfter(i, m) \in Node \cup {Nil}
         /\ RoleAfter(i, m) \in Role
         /\ LeaderAfter(i, m) \in Node \cup {Nil}
         /\ DiskAfter(i, m) \in Persistent
         /\ DiskAfter(i, m).log = disk[i].log
<1>1. m.term \in Nat
  BY MessageFields DEF TypeOK
<1>2. SaveHardState(disk[i], m.term, Nil) \in Persistent
      /\ SaveHardState(disk[i], m.term, Nil).log = disk[i].log
  BY <1>1, SaveType DEF TypeOK
<1>3. QED
  BY <1>1, <1>2 DEF TypeOK, TermAfter, VoteAfter, RoleAfter, LeaderAfter,
     DiskAfter, Role, Term

\* The AppendEntries a handler returns, from the state it leaves behind.
LEMMA AppendForType ==
  ASSUME NEW i \in Node, NEW p \in Node \ {i},
         term'[i] \in Nat, log'[i] \in Seq(Entry), commit_index'[i] \in Nat,
         next_index'[i][p] \in Nat \ {0}, next_index'[i][p] <= Len(log'[i]) + 1
  PROVE  /\ AppendFor(i, p)' \in AppendEntries
         /\ AppendFor(i, p)'.kind = "AppendEntries"
         /\ AppendFor(i, p)'.from = i
         /\ AppendFor(i, p)'.to = p
         /\ AppendFor(i, p)'.term = term'[i]
<1>1. next_index'[i][p] - 1 \in Nat /\ next_index'[i][p] - 1 <= Len(log'[i])
  BY LenProperties
<1>2. /\ TermAt(log'[i], next_index'[i][p] - 1) \in Nat
      /\ SubSeq(log'[i], next_index'[i][p] - 1 + 1,
                Lower(Len(log'[i]), next_index'[i][p] - 1 + MaxBatch)) \in Seq(Entry)
  BY <1>1, SliceType
<1>3. QED
  BY <1>1, <1>2 DEF AppendFor, AppendEntries, Term, Index

-----------------------------------------------------------------------------
(* Type correctness, one lemma per group of actions.  The cursors' bound is *)
(* needed with it: a message carries what a slice of the log returned.      *)

\* Messages appended to the wire are messages.
LEMMA SendType ==
  ASSUME TypeOK, NEW ms, ms \subseteq Message, Send(ms)
  PROVE  wire' \subseteq Message
  BY DEF TypeOK, Send

LEMMA BroadcastType ==
  ASSUME TypeOK, NEW i \in Node, BroadcastAppend(i),
         term'[i] \in Nat, log'[i] \in Seq(Entry), commit_index'[i] \in Nat,
         \A p \in Node \ {i} :
           next_index'[i][p] \in Nat \ {0} /\ next_index'[i][p] <= Len(log'[i]) + 1
  PROVE  wire' \subseteq Message
<1>1. \A p \in Node \ {i} : AppendFor(i, p)' \in Message
  BY AppendForType DEF Message
<1>2. {AppendFor(i, p)' : p \in Node \ {i}} \subseteq Message
  BY <1>1
<1>3. QED
  BY <1>2 DEF BroadcastAppend, Send, TypeOK

LEMMA CommitType ==
  ASSUME TypeOK, NEW i \in Node, NEW t, NEW entries \in Seq(Entry), NEW acked,
         AdvanceCommit(i, t, entries, acked)
  PROVE  /\ commit_index' \in [Node -> Index]
         /\ commit_index'[i] \in Nat
<1>1. Len(entries) \in Nat
  BY LenProperties
<1>2. Committable(i, t, entries, acked) \subseteq Nat
  BY <1>1 DEF Committable, TypeOK, Index
<1>3. PICK n \in (IF Committable(i, t, entries, acked) = {} THEN {commit_index[i]}
                  ELSE Highest(Committable(i, t, entries, acked))) :
        commit_index' = [commit_index EXCEPT ![i] = n]
  BY DEF AdvanceCommit
<1>4. n \in Nat
  BY <1>2, <1>3 DEF Highest, TypeOK, Index
<1>5. QED
  BY <1>3, <1>4 DEF TypeOK, Index

\* become_leader, from a log and a storage of the right types.
LEMMA BecomeLeaderType ==
  ASSUME TypeOK, NEW i \in Node, NEW t \in Nat, NEW d \in Persistent,
         BecomeLeader(i, t, d), term' \in [Node -> Term]
  PROVE  /\ disk' \in [Node -> Persistent] /\ log' \in [Node -> Seq(Entry)]
         /\ role' \in [Node -> Role] /\ leader_id' \in [Node -> Node \cup {Nil}]
         /\ commit_index' \in [Node -> Index]
         /\ next_index' \in [Node -> [Node -> Index \ {0}]]
         /\ match_index' \in [Node -> [Node -> Index]]
         /\ wire' \subseteq Message
<1> DEFINE noop == [term |-> t, command |-> Noop]
<1>1. noop \in Entry /\ <<noop>> \in Seq(Entry)
  BY DEF Entry, Term
<1>2. /\ log[i] \in Seq(Entry) /\ Len(log[i]) \in Nat
      /\ Append(log[i], noop) \in Seq(Entry)
      /\ Len(Append(log[i], noop)) = Len(log[i]) + 1
  BY <1>1, LenProperties, AppendProperties DEF TypeOK
<1>3. AppendTo(d, <<noop>>) \in Persistent
  BY <1>1, AppendToType
<1>4. commit_index' \in [Node -> Index] /\ commit_index'[i] \in Nat
  BY <1>2, CommitType DEF BecomeLeader
<1>5. /\ next_index'[i] = [p \in Node |-> Len(log[i]) + 1]
      /\ log'[i] = Append(log[i], noop)
  BY DEF BecomeLeader, TypeOK
<1>6. /\ disk' \in [Node -> Persistent]
      /\ log' \in [Node -> Seq(Entry)]
      /\ role' \in [Node -> Role]
      /\ leader_id' \in [Node -> Node \cup {Nil}]
      /\ next_index' \in [Node -> [Node -> Index \ {0}]]
      /\ match_index' \in [Node -> [Node -> Index]]
  BY <1>2, <1>3 DEF BecomeLeader, TypeOK, Role, Index
<1>7. wire' \subseteq Message
  <2>1. BroadcastAppend(i)
    BY DEF BecomeLeader
  <2>2. term'[i] \in Nat
    BY DEF Term
  <2>3. \A p \in Node \ {i} :
          next_index'[i][p] \in Nat \ {0} /\ next_index'[i][p] <= Len(log'[i]) + 1
    BY <1>2, <1>5
  <2>4. QED
    BY <2>1, <2>2, <2>3, <1>2, <1>4, <1>5, BroadcastType
<1>8. QED
  BY <1>4, <1>6, <1>7

LEMMA CampaignTypes ==
  ASSUME TypeOK, NEW i \in Node, Campaign(i) \/ CampaignAlone(i)
  PROVE  TypeOK'
<1>1. term[i] + 1 \in Nat /\ SelfVote(i) \in Persistent
  BY SaveType DEF TypeOK, SelfVote, Term
<1>2. CASE Campaign(i)
  <2>1. /\ LastTerm(log[i]) \in Nat /\ Len(log[i]) \in Nat
    BY LastTermType DEF TypeOK
  <2>2. {[kind |-> "RequestVote", from |-> i, to |-> p, term |-> term[i] + 1,
          last_log_index |-> Len(log[i]), last_log_term |-> LastTerm(log[i])] :
            p \in Node \ {i}} \subseteq Message
    BY <1>1, <2>1 DEF Message, RequestVote, Term, Index
  <2>3. wire' \subseteq Message
    BY <1>2, <2>2, SendType DEF Campaign
  <2>4. QED
    BY <1>1, <1>2, <2>3
    DEF Campaign, StartElection, TypeOK, Role, Term, indices, cursors
<1>3. CASE CampaignAlone(i)
  <2>1. term' \in [Node -> Term]
    BY <1>1, <1>3 DEF CampaignAlone, StartElection, TypeOK, Term
  <2>2. BecomeLeader(i, term[i] + 1, SelfVote(i))
    BY <1>3 DEF CampaignAlone
  <2>3. /\ disk' \in [Node -> Persistent] /\ log' \in [Node -> Seq(Entry)]
        /\ role' \in [Node -> Role] /\ leader_id' \in [Node -> Node \cup {Nil}]
        /\ commit_index' \in [Node -> Index]
        /\ next_index' \in [Node -> [Node -> Index \ {0}]]
        /\ match_index' \in [Node -> [Node -> Index]]
        /\ wire' \subseteq Message
    BY <1>1, <2>1, <2>2, BecomeLeaderType
  <2>4. QED
    BY <1>3, <2>1, <2>3 DEF CampaignAlone, StartElection, TypeOK
<1>4. QED
  BY <1>2, <1>3

LEMMA VoteTypes ==
  ASSUME TypeOK, NEW i \in Node, NEW m \in Message
  PROVE  /\ GrantVote(i, m) => TypeOK'
         /\ DenyVote(i, m) => TypeOK'
         /\ StepDown(i, m) => TypeOK'
         /\ CountVote(i, m) => TypeOK'
         /\ WinElection(i, m) => TypeOK'
<1>1. /\ m.from \in Node /\ m.to \in Node /\ m.term \in Nat
      /\ TermAfter(i, m) \in Nat
      /\ VoteAfter(i, m) \in Node \cup {Nil}
      /\ RoleAfter(i, m) \in Role
      /\ LeaderAfter(i, m) \in Node \cup {Nil}
      /\ DiskAfter(i, m) \in Persistent
  BY MessageFields, PreludeType DEF TypeOK
<1>2. \A granted \in BOOLEAN : VoteReply(i, m, granted) \in Message
  BY <1>1 DEF VoteReply, Message, VoteResponse, Term
<1>3. ASSUME GrantVote(i, m) PROVE TypeOK'
  <2>1. GrantDisk(i, m) \in Persistent
    BY <1>1, SaveType DEF GrantDisk
  <2>2. wire' \subseteq Message
    <3>1. {VoteReply(i, m, TRUE)} \subseteq Message
      BY <1>2
    <3>2. QED
      BY <1>3, <3>1, SendType DEF GrantVote
  <2>3. QED
    BY <1>1, <1>3, <2>1, <2>2
    DEF GrantVote, OnRequestVote, TypeOK, Term, indices, cursors
<1>4. ASSUME DenyVote(i, m) PROVE TypeOK'
  <2>1. wire' \subseteq Message
    <3>1. {VoteReply(i, m, FALSE)} \subseteq Message
      BY <1>2
    <3>2. QED
      BY <1>4, <3>1, SendType DEF DenyVote
  <2>2. QED
    BY <1>1, <1>4, <2>1
    DEF DenyVote, OnRequestVote, TypeOK, Term, indices, cursors
<1>5. ASSUME StepDown(i, m) PROVE TypeOK'
  BY <1>1, <1>5 DEF StepDown, TypeOK, Term, Role, indices, cursors
<1>6. ASSUME CountVote(i, m) PROVE TypeOK'
  BY <1>1, <1>6 DEF CountVote, OnVoteResponse, TypeOK, cursors
<1>7. ASSUME WinElection(i, m) PROVE TypeOK'
  <2>1. term' \in [Node -> Term]
    BY <1>7 DEF WinElection, OnVoteResponse, TypeOK
  <2>2. BecomeLeader(i, term[i], disk[i]) /\ term[i] \in Nat /\ disk[i] \in Persistent
    BY <1>7 DEF WinElection, TypeOK, Term
  <2>3. /\ disk' \in [Node -> Persistent] /\ log' \in [Node -> Seq(Entry)]
        /\ role' \in [Node -> Role] /\ leader_id' \in [Node -> Node \cup {Nil}]
        /\ commit_index' \in [Node -> Index]
        /\ next_index' \in [Node -> [Node -> Index \ {0}]]
        /\ match_index' \in [Node -> [Node -> Index]]
        /\ wire' \subseteq Message
    BY <2>1, <2>2, BecomeLeaderType
  <2>4. QED
    BY <1>1, <1>7, <2>1, <2>3 DEF WinElection, OnVoteResponse, TypeOK
<1>8. QED
  BY <1>3, <1>4, <1>5, <1>6, <1>7

\* The entries a follower takes from a message: they start at or before the
\* end of its log, so what it keeps and what it adds leave no gap.
LEMMA SuffixType ==
  ASSUME TypeOK, NEW i \in Node, NEW m \in Message, m.kind = "AppendEntries",
         Consistent(i, m), NEW k \in Lowest(Missing(i, m))
  PROVE  /\ m.prev_index \in Nat /\ k \in Nat /\ m.prev_index + k \in Nat \ {0}
         /\ m.prev_index + k <= Len(log[i]) + 1
         /\ Suffix(m, k) \in Seq(Entry)
         /\ SubSeq(log[i], 1, m.prev_index + k - 1) \in Seq(Entry)
         /\ Spliced(i, m, k) \in Seq(Entry)
<1>1. /\ m.prev_index \in Nat /\ m.entries \in Seq(Entry)
      /\ log[i] \in Seq(Entry)
  BY MessageFields DEF TypeOK, AppendEntries, Index
<1>2. /\ Len(m.entries) \in Nat /\ Len(log[i]) \in Nat
      /\ \A n \in 1 .. Len(m.entries) : m.entries[n] \in Entry
      /\ \A n \in 1 .. Len(log[i]) : log[i][n] \in Entry
  BY <1>1, LenProperties, ElementOfSeq
<1>3. k \in 1 .. Len(m.entries) /\ \A q \in Missing(i, m) : k <= q
  BY DEF Lowest, Missing
<1>4. m.prev_index + k <= Len(log[i]) + 1
  <2>1. CASE k = 1
    BY <1>1, <1>2, <2>1 DEF Consistent
  <2>2. CASE k # 1
    <3>1. k - 1 \in 1 .. Len(m.entries) /\ k - 1 \notin Missing(i, m)
      BY <1>2, <1>3, <2>2
    <3>2. ~(m.prev_index + (k - 1) > Len(log[i]))
      BY <3>1 DEF Missing
    <3>3. QED
      BY <1>1, <1>2, <1>3, <3>2
  <2>3. QED
    BY <2>1, <2>2
<1>5. Suffix(m, k) \in Seq(Entry)
  <2>1. \A n \in k .. Len(m.entries) : m.entries[n] \in Entry
    BY <1>2, <1>3
  <2>2. QED
    BY <1>2, <1>3, <2>1, SubSeqProperties DEF Suffix
<1>6. SubSeq(log[i], 1, m.prev_index + k - 1) \in Seq(Entry)
  <2>1. \A n \in 1 .. m.prev_index + k - 1 : log[i][n] \in Entry
    BY <1>1, <1>2, <1>3, <1>4
  <2>2. QED
    BY <1>1, <1>3, <2>1, SubSeqProperties
<1>7. Spliced(i, m, k) \in Seq(Entry)
  BY <1>5, <1>6, ConcatProperties DEF Spliced
<1>8. QED
  BY <1>1, <1>3, <1>4, <1>5, <1>6, <1>7

LEMMA FollowerTypes ==
  ASSUME TypeOK, NEW i \in Node, NEW m \in Message
  PROVE  /\ RejectStale(i, m) => TypeOK'
         /\ RejectAppend(i, m) => TypeOK'
         /\ AcceptKnown(i, m) => TypeOK'
         /\ AcceptNew(i, m) => TypeOK'
<1> USE DEF Term, Index
<1>1. /\ m.from \in Node
      /\ TermAfter(i, m) \in Nat
      /\ VoteAfter(i, m) \in Node \cup {Nil}
      /\ DiskAfter(i, m) \in Persistent
  BY MessageFields, PreludeType DEF TypeOK
<1>2. \A success \in BOOLEAN, n \in Nat : {AppendReply(i, m, success, n)} \subseteq Message
  BY <1>1 DEF AppendReply, Message, AppendResponse
<1>3. m.kind = "AppendEntries" =>
        /\ m.prev_index \in Nat /\ m.leader_commit \in Nat
        /\ Matched(i, m) \in Nat /\ CommitAfter(i, m) \in Nat /\ Hint(i, m) \in Nat
  <2>1. SUFFICES ASSUME m.kind = "AppendEntries"
                 PROVE  /\ m.prev_index \in Nat /\ m.leader_commit \in Nat
                        /\ Matched(i, m) \in Nat /\ CommitAfter(i, m) \in Nat
                        /\ Hint(i, m) \in Nat
    OBVIOUS
  <2>2. m.prev_index \in Nat /\ m.leader_commit \in Nat /\ m.entries \in Seq(Entry)
    BY <2>1, MessageFields DEF TypeOK, AppendEntries
  <2>3. Len(m.entries) \in Nat /\ Len(log[i]) \in Nat
    BY <2>2, LenProperties DEF TypeOK
  <2>4. QED
    BY <2>2, <2>3 DEF Matched, CommitAfter, Hint, Lower, TypeOK
<1>4. FollowLeader(i, m) =>
        /\ term' \in [Node -> Term]
        /\ voted_for' \in [Node -> Node \cup {Nil}]
        /\ role' \in [Node -> Role]
        /\ leader_id' \in [Node -> Node \cup {Nil}]
        /\ live' \subseteq Node /\ applied_index' \in [Node -> Index]
        /\ votes' \in [Node -> SUBSET Node]
        /\ next_index' \in [Node -> [Node -> Index \ {0}]]
        /\ match_index' \in [Node -> [Node -> Index]]
  <2>1. SUFFICES ASSUME FollowLeader(i, m)
        PROVE  /\ term' \in [Node -> Term]
               /\ voted_for' \in [Node -> Node \cup {Nil}]
               /\ role' \in [Node -> Role]
               /\ leader_id' \in [Node -> Node \cup {Nil}]
               /\ live' \subseteq Node /\ applied_index' \in [Node -> Index]
               /\ votes' \in [Node -> SUBSET Node]
               /\ next_index' \in [Node -> [Node -> Index \ {0}]]
               /\ match_index' \in [Node -> [Node -> Index]]
    OBVIOUS
  <2>2. /\ term' = [term EXCEPT ![i] = TermAfter(i, m)]
        /\ voted_for' = [voted_for EXCEPT ![i] = VoteAfter(i, m)]
        /\ role' = [role EXCEPT ![i] = Follower]
        /\ leader_id' = [leader_id EXCEPT ![i] = m.from]
        /\ live' = live /\ applied_index' = applied_index /\ votes' = votes
        /\ next_index' = next_index /\ match_index' = match_index
    BY <2>1 DEF FollowLeader, cursors
  <2>3. Follower \in Role
    BY DEF Role
  <2>4. QED
    BY <1>1, <2>2, <2>3 DEF TypeOK
<1>5. ASSUME RejectStale(i, m) PROVE TypeOK'
  <2>1. wire' \subseteq Message
    BY <1>2, <1>5, SendType DEF RejectStale
  <2>2. QED
    BY <1>5, <2>1 DEF RejectStale, TypeOK, memory, indices, cursors
<1>6. ASSUME RejectAppend(i, m) PROVE TypeOK'
  <2>1. m.kind = "AppendEntries"
    BY <1>6 DEF RejectAppend, FollowLeader
  <2>2. wire' \subseteq Message
    BY <1>2, <1>3, <1>6, <2>1, SendType DEF RejectAppend
  <2>3. QED
    BY <1>1, <1>4, <1>6, <2>2 DEF RejectAppend, TypeOK
<1>7. ASSUME AcceptAppend(i, m)
      PROVE  wire' \subseteq Message /\ commit_index' \in [Node -> Index]
  <2>1. m.kind = "AppendEntries"
    BY <1>7 DEF AcceptAppend, FollowLeader
  <2>2. wire' \subseteq Message
    BY <1>2, <1>3, <1>7, <2>1, SendType DEF AcceptAppend
  <2>3. QED
    BY <1>3, <1>7, <2>1, <2>2 DEF AcceptAppend, TypeOK
<1>8. ASSUME AcceptKnown(i, m) PROVE TypeOK'
  BY <1>1, <1>4, <1>7, <1>8 DEF AcceptKnown, AcceptAppend, TypeOK
<1>9. ASSUME AcceptNew(i, m) PROVE TypeOK'
  <2>1. AcceptAppend(i, m) /\ Consistent(i, m) /\ m.kind = "AppendEntries"
    BY <1>9 DEF AcceptNew, AcceptAppend, FollowLeader
  <2>2. PICK k \in Lowest(Missing(i, m)) : Splice(i, m, k)
    BY <1>9 DEF AcceptNew
  <2>3. /\ m.prev_index + k \in Nat \ {0}
        /\ Suffix(m, k) \in Seq(Entry)
        /\ Spliced(i, m, k) \in Seq(Entry)
    BY <2>1, SuffixType
  <2>4. AppendTo(TruncateFrom(DiskAfter(i, m), m.prev_index + k), Suffix(m, k))
          \in Persistent
    BY <1>1, <2>3, TruncateFromType, AppendToType
  <2>5. log' \in [Node -> Seq(Entry)] /\ disk' \in [Node -> Persistent]
    BY <2>2, <2>3, <2>4 DEF Splice, TypeOK
  <2>6. QED
    BY <1>4, <1>7, <2>1, <2>5 DEF AcceptAppend, TypeOK
<1>10. QED
  BY <1>5, <1>6, <1>8, <1>9

LEMMA LeaderTypes ==
  ASSUME TypeOK, CursorsInRange, NEW i \in Node
  PROVE  /\ Heartbeat(i) => TypeOK'
         /\ \A c \in Command \cup {Noop} : Propose(i, c) => TypeOK'
         /\ TakeCommitted(i) => TypeOK'
<1> USE DEF Term, Index
<1>1. ASSUME Heartbeat(i) PROVE TypeOK'
  <2>1. \A p \in Node \ {i} : next_index[i][p] \in Nat \ {0}
                              /\ next_index[i][p] <= Len(log[i]) + 1
    BY <1>1 DEF Heartbeat, CursorsInRange, InRange, TypeOK
  <2>2. wire' \subseteq Message
    BY <1>1, <2>1, BroadcastType DEF Heartbeat, TypeOK, memory, indices, cursors
  <2>3. QED
    BY <1>1, <2>2 DEF Heartbeat, TypeOK, memory, indices, cursors
<1>2. ASSUME NEW c \in Command \cup {Noop}, Propose(i, c) PROVE TypeOK'
  <2> DEFINE e == [term |-> term[i], command |-> c]
  <2>1. e \in Entry /\ <<e>> \in Seq(Entry)
    BY DEF TypeOK, Entry
  <2>2. /\ Append(log[i], e) \in Seq(Entry) /\ Len(log[i]) \in Nat
        /\ Len(Append(log[i], e)) = Len(log[i]) + 1
    BY <2>1, AppendProperties, LenProperties DEF TypeOK
  <2>3. AppendTo(disk[i], <<e>>) \in Persistent
    BY <2>1, AppendToType DEF TypeOK
  <2>4. /\ disk' = [disk EXCEPT ![i] = AppendTo(disk[i], <<e>>)]
        /\ log' = [log EXCEPT ![i] = Append(log[i], e)]
        /\ AdvanceCommit(i, term[i], Append(log[i], e), match_index[i])
    BY <1>2 DEF Propose
  <2>5. log' \in [Node -> Seq(Entry)] /\ disk' \in [Node -> Persistent]
    BY <2>2, <2>3, <2>4 DEF TypeOK
  <2>6. commit_index' \in [Node -> Index] /\ commit_index'[i] \in Nat
    BY <2>2, <2>4, CommitType
  <2>7. \A p \in Node \ {i} : next_index'[i][p] \in Nat \ {0}
                              /\ next_index'[i][p] <= Len(log'[i]) + 1
    BY <1>2, <2>2, <2>4 DEF Propose, CursorsInRange, InRange, TypeOK, cursors
  <2>8. wire' \subseteq Message
    BY <1>2, <2>5, <2>6, <2>7, BroadcastType DEF Propose, TypeOK
  <2>9. QED
    BY <1>2, <2>5, <2>6, <2>8 DEF Propose, TypeOK, cursors
<1>3. ASSUME TakeCommitted(i) PROVE TypeOK'
  BY <1>3 DEF TakeCommitted, TypeOK, memory, cursors
<1>4. QED
  BY <1>1, <1>2, <1>3

LEMMA AckTypes ==
  ASSUME TypeOK, CursorsInRange, NEW i \in Node, NEW m \in Message
  PROVE  /\ AckSuccess(i, m) => TypeOK'
         /\ AckFailure(i, m) => TypeOK'
<1> USE DEF Term, Index
<1>1. OnAppendResponse(i, m) =>
        /\ m.from \in Node \ {i} /\ m.match_index \in Nat /\ Len(log[i]) \in Nat
        /\ next_index[i][m.from] \in Nat \ {0}
        /\ next_index[i][m.from] <= Len(log[i]) + 1
        /\ match_index[i][m.from] \in Nat
        /\ match_index[i][m.from] <= Len(log[i])
  <2>1. SUFFICES ASSUME OnAppendResponse(i, m)
        PROVE /\ m.from \in Node \ {i} /\ m.match_index \in Nat /\ Len(log[i]) \in Nat
              /\ next_index[i][m.from] \in Nat \ {0}
              /\ next_index[i][m.from] <= Len(log[i]) + 1
              /\ match_index[i][m.from] \in Nat
              /\ match_index[i][m.from] <= Len(log[i])
    OBVIOUS
  <2>2. m \in AppendResponse /\ m.from \in Node /\ m.from # i
        /\ i \in live /\ role[i] = Leader
    BY <2>1, MessageFields DEF OnAppendResponse, Deliverable, TypeOK
  <2>3. m.match_index \in Nat /\ Len(log[i]) \in Nat
    BY <2>2, LenProperties DEF AppendResponse, TypeOK
  <2>4. next_index[i][m.from] \in Nat \ {0} /\ match_index[i][m.from] \in Nat
    <3>1. next_index[i] \in [Node -> Nat \ {0}] /\ match_index[i] \in [Node -> Nat]
      BY DEF TypeOK
    <3>2. QED
      BY <2>2, <3>1
  <2>5. /\ match_index[i][m.from] < next_index[i][m.from]
        /\ next_index[i][m.from] <= Len(log[i]) + 1
    BY <2>2 DEF CursorsInRange, InRange
  <2>6. QED
    BY <2>2, <2>3, <2>4, <2>5
<1>2. ASSUME AckSuccess(i, m) PROVE TypeOK'
  <2> DEFINE acked == [match_index[i] EXCEPT ![m.from] = Acknowledged(i, m)]
             next  == acked[m.from] + 1
  <2>1. /\ OnAppendResponse(i, m)
        /\ match_index' = [match_index EXCEPT ![i] = acked]
        /\ next_index' = [next_index EXCEPT ![i][m.from] = next]
        /\ AdvanceCommit(i, term[i], log[i], acked)
        /\ Send(IF next <= Len(log[i]) THEN {AppendFor(i, m.from)'} ELSE {})
    BY <1>2 DEF AckSuccess
  <2>2. Acknowledged(i, m) \in Nat
    BY <1>1, <2>1 DEF Acknowledged, Higher, Lower
  <2>3. acked \in [Node -> Index] /\ next \in Nat \ {0}
    <3>1. match_index[i] \in [Node -> Nat] /\ m.from \in Node
      BY <1>1, <2>1 DEF TypeOK
    <3>2. acked \in [Node -> Nat] /\ acked[m.from] = Acknowledged(i, m)
      BY <2>2, <3>1
    <3>3. QED
      BY <2>2, <3>2
  <2>4. /\ match_index' \in [Node -> [Node -> Index]]
        /\ next_index' \in [Node -> [Node -> Index \ {0}]]
        /\ next_index'[i][m.from] = next
    BY <1>1, <2>1, <2>3 DEF TypeOK
  <2>5. commit_index' \in [Node -> Index] /\ commit_index'[i] \in Nat
    BY <2>1, CommitType DEF TypeOK
  <2>6. log' = log /\ term' = term
    BY <2>1 DEF OnAppendResponse, memory
  <2>7. next <= Len(log[i]) => AppendFor(i, m.from)' \in Message
    <3>1. SUFFICES ASSUME next <= Len(log[i]) PROVE AppendFor(i, m.from)' \in AppendEntries
      BY DEF Message
    <3>2. next_index'[i][m.from] \in Nat \ {0} /\ next_index'[i][m.from] <= Len(log'[i]) + 1
      BY <1>1, <2>1, <2>3, <2>4, <2>6, <3>1
    <3>3. m.from \in Node \ {i} /\ term'[i] \in Nat /\ log'[i] \in Seq(Entry)
      BY <1>1, <2>1, <2>6 DEF TypeOK
    <3>4. QED
      BY <2>5, <3>2, <3>3, AppendForType
  <2>8. wire' \subseteq Message
    BY <2>1, <2>7 DEF Send, TypeOK
  <2>9. QED
    BY <2>1, <2>4, <2>5, <2>8 DEF OnAppendResponse, TypeOK, memory
<1>3. ASSUME AckFailure(i, m) PROVE TypeOK'
  <2>1. /\ OnAppendResponse(i, m)
        /\ next_index' = [next_index EXCEPT ![i][m.from] = BackedUp(i, m)]
        /\ UNCHANGED <<commit_index, match_index>>
        /\ Send({AppendFor(i, m.from)'})
    BY <1>3 DEF AckFailure
  <2>2. BackedUp(i, m) \in Nat \ {0}
    BY <1>1, <2>1 DEF BackedUp, Higher, Lower
  <2>3. next_index' \in [Node -> [Node -> Index \ {0}]]
        /\ next_index'[i][m.from] = BackedUp(i, m)
    BY <1>1, <2>1, <2>2 DEF TypeOK
  <2>4. log' = log /\ term' = term
    BY <2>1 DEF OnAppendResponse, memory
  <2>5. AppendFor(i, m.from)' \in Message
    <3>1. next_index'[i][m.from] \in Nat \ {0} /\ next_index'[i][m.from] <= Len(log'[i]) + 1
      BY <1>1, <2>1, <2>2, <2>3, <2>4 DEF BackedUp, Higher, Lower
    <3>2. /\ m.from \in Node \ {i} /\ term'[i] \in Nat /\ log'[i] \in Seq(Entry)
          /\ commit_index'[i] \in Nat
      BY <1>1, <2>1, <2>4 DEF TypeOK
    <3>3. AppendFor(i, m.from)' \in AppendEntries
      BY <3>1, <3>2, AppendForType
    <3>4. QED
      BY <3>3 DEF Message
  <2>6. wire' \subseteq Message
    BY <2>1, <2>5 DEF Send, TypeOK
  <2>7. QED
    BY <2>1, <2>3, <2>6 DEF OnAppendResponse, TypeOK, memory
<1>4. QED
  BY <1>2, <1>3

\* An answer to a leader moves the cursors of one peer within their range.
LEMMA AckRange ==
  ASSUME TypeOK, NEW i \in Node, NEW m \in Message, InRange(i)
  PROVE  /\ AckSuccess(i, m) => InRange(i)'
         /\ AckFailure(i, m) => InRange(i)'
<1>1. ASSUME OnAppendResponse(i, m)
      PROVE  /\ log' = log /\ m.from \in Node \ {i}
             /\ m.match_index \in Nat /\ Len(log[i]) \in Nat
             /\ \A p \in Node : next_index[i][p] \in Nat \ {0}
                                /\ match_index[i][p] \in Nat
             /\ match_index[i][m.from] < next_index[i][m.from]
             /\ next_index[i][m.from] <= Len(log[i]) + 1
  <2>1. m.kind = "AppendResponse" /\ m.from # i /\ log' = log
    BY <1>1 DEF OnAppendResponse, Deliverable, memory
  <2>2. m.from \in Node /\ m.match_index \in Nat /\ Len(log[i]) \in Nat
    BY <2>1, MessageFields, LenProperties DEF TypeOK, AppendResponse, Index
  <2>3. next_index[i] \in [Node -> Nat \ {0}] /\ match_index[i] \in [Node -> Nat]
    BY DEF TypeOK, Index
  <2>4. QED
    BY <2>1, <2>2, <2>3 DEF InRange
<1>2. ASSUME AckSuccess(i, m) PROVE InRange(i)'
  <2> DEFINE a == Acknowledged(i, m)
             acked == [match_index[i] EXCEPT ![m.from] = a]
  <2>1. /\ OnAppendResponse(i, m)
        /\ match_index' = [match_index EXCEPT ![i] = acked]
        /\ next_index' = [next_index EXCEPT ![i][m.from] = acked[m.from] + 1]
    BY <1>2 DEF AckSuccess
  <2>2. a \in Nat /\ a <= Len(log[i])
    BY <1>1, <2>1 DEF Acknowledged, Higher, Lower
  <2>3. match_index \in [Node -> [Node -> Nat]] /\ next_index \in [Node -> [Node -> Nat]]
    BY DEF TypeOK, Index
  <2>4. /\ match_index'[i][m.from] = a /\ next_index'[i][m.from] = a + 1
        /\ \A p \in Node \ {m.from} : /\ match_index'[i][p] = match_index[i][p]
                                      /\ next_index'[i][p] = next_index[i][p]
    BY <1>1, <2>1, <2>3
  <2>5. \A p \in Node \ {i} : /\ match_index'[i][p] < next_index'[i][p]
                              /\ next_index'[i][p] <= Len(log'[i]) + 1
    <3>1. TAKE p \in Node \ {i}
    <3>2. CASE p = m.from
      BY <1>1, <2>1, <2>2, <2>4, <3>2
    <3>3. CASE p # m.from
      BY <1>1, <2>1, <2>4, <3>3 DEF InRange
    <3>4. QED
      BY <3>2, <3>3
  <2>6. QED
    BY <2>5 DEF InRange
<1>3. ASSUME AckFailure(i, m) PROVE InRange(i)'
  <2>1. /\ OnAppendResponse(i, m) /\ match_index' = match_index
        /\ next_index' = [next_index EXCEPT ![i][m.from] = BackedUp(i, m)]
    BY <1>3 DEF AckFailure
  <2>2. /\ BackedUp(i, m) > match_index[i][m.from]
        /\ BackedUp(i, m) <= Len(log[i]) + 1
    <3>1. OnAppendResponse(i, m)
      BY <2>1
    <3>2. /\ m.match_index \in Nat /\ Len(log[i]) \in Nat
          /\ next_index[i][m.from] \in Nat /\ match_index[i][m.from] \in Nat
          /\ match_index[i][m.from] < next_index[i][m.from]
          /\ next_index[i][m.from] <= Len(log[i]) + 1
      BY <1>1, <3>1
    <3>3. QED
      BY <3>2 DEF BackedUp, Higher, Lower
  <2>3. next_index \in [Node -> [Node -> Nat]]
    BY DEF TypeOK, Index
  <2>4. /\ next_index'[i][m.from] = BackedUp(i, m)
        /\ \A p \in Node \ {m.from} : next_index'[i][p] = next_index[i][p]
    BY <1>1, <2>1, <2>3
  <2>5. BackedUp(i, m) \in Nat
    BY <1>1, <2>1 DEF BackedUp, Higher, Lower
  <2>6. \A p \in Node \ {i} : /\ match_index'[i][p] < next_index'[i][p]
                              /\ next_index'[i][p] <= Len(log'[i]) + 1
    <3>1. TAKE p \in Node \ {i}
    <3>2. CASE p = m.from
      BY <1>1, <2>1, <2>2, <2>4, <2>5, <3>2
    <3>3. CASE p # m.from
      BY <1>1, <2>1, <2>4, <3>3 DEF InRange
    <3>4. QED
      BY <3>2, <3>3
  <2>7. QED
    BY <2>6 DEF InRange
<1>4. QED
  BY <1>2, <1>3

LEMMA FreshTypes ==
  ASSUME TypeOK, NEW i \in Node, FreshVolatile(i)
  PROVE  /\ role' \in [Node -> Role] /\ leader_id' \in [Node -> Node \cup {Nil}]
         /\ commit_index' \in [Node -> Index] /\ applied_index' \in [Node -> Index]
         /\ votes' \in [Node -> SUBSET Node]
         /\ next_index' \in [Node -> [Node -> Index \ {0}]]
         /\ match_index' \in [Node -> [Node -> Index]]
<1>1. Follower \in Role /\ 0 \in Index /\ 1 \in Index \ {0}
  BY DEF Role, Index
<1>2. /\ [p \in Node |-> 1] \in [Node -> Index \ {0}]
      /\ [p \in Node |-> 0] \in [Node -> Index]
  BY <1>1
<1>3. QED
  BY <1>1, <1>2 DEF FreshVolatile, TypeOK

LEMMA RememberTypes ==
  ASSUME TypeOK, NEW i \in Node, NEW d \in Persistent, Remember(i, d)
  PROVE  /\ term' \in [Node -> Term]
         /\ voted_for' \in [Node -> Node \cup {Nil}]
         /\ log' \in [Node -> Seq(Entry)]
  BY DEF Remember, TypeOK, Persistent

LEMMA BlankType == Blank \in Persistent
  BY EmptySeq DEF Blank, Persistent, Term

LEMMA CrashWithType ==
  ASSUME TypeOK, NEW i \in Node, NEW d \in Persistent, CrashWith(i, d)
  PROVE  TypeOK'
<1>1. Remember(i, Blank) /\ FreshVolatile(i)
  BY DEF CrashWith
<1>2. disk' \in [Node -> Persistent] /\ live' \subseteq Node /\ wire' \subseteq Message
  BY DEF CrashWith, TypeOK
<1>3. QED
  BY <1>1, <1>2, BlankType, FreshTypes, RememberTypes DEF TypeOK

LEMMA CrashTypes ==
  ASSUME TypeOK, NEW i \in Node
  PROVE  /\ Crash(i) => TypeOK'
         /\ CrashInCampaign(i) => TypeOK'
         /\ Restart(i) => TypeOK'
<1>1. disk[i] \in Persistent /\ SelfVote(i) \in Persistent
  BY SaveType DEF TypeOK, SelfVote, Term
<1>2. Crash(i) => TypeOK'
  BY <1>1, CrashWithType DEF Crash
<1>3. CrashInCampaign(i) => TypeOK'
  BY <1>1, CrashWithType DEF CrashInCampaign
<1>4. ASSUME Restart(i) PROVE TypeOK'
  <2>1. Remember(i, disk[i]) /\ FreshVolatile(i)
    BY <1>4 DEF Restart
  <2>2. disk' \in [Node -> Persistent] /\ live' \subseteq Node /\ wire' \subseteq Message
    BY <1>4 DEF Restart, TypeOK
  <2>3. QED
    BY <1>1, <2>1, <2>2, FreshTypes, RememberTypes DEF TypeOK
<1>5. QED
  BY <1>2, <1>3, <1>4

LEMMA CrashInHandlerTypes ==
  ASSUME TypeOK, NEW i \in Node, NEW m \in Message
  PROVE  /\ CrashInStepDown(i, m) => TypeOK'
         /\ CrashInTruncate(i, m) => TypeOK'
<1>1. DiskAfter(i, m) \in Persistent
  BY PreludeType
<1>2. CrashInStepDown(i, m) => TypeOK'
  BY <1>1, CrashWithType DEF CrashInStepDown
<1>3. ASSUME CrashInTruncate(i, m) PROVE TypeOK'
  <2>1. PICK k \in Lowest(Missing(i, m)) :
          CrashWith(i, TruncateFrom(DiskAfter(i, m), m.prev_index + k))
    BY <1>3 DEF CrashInTruncate
  <2>2. m.prev_index + k \in Nat \ {0}
    BY <1>3, SuffixType DEF CrashInTruncate
  <2>3. TruncateFrom(DiskAfter(i, m), m.prev_index + k) \in Persistent
    BY <1>1, <2>2, TruncateFromType
  <2>4. QED
    BY <2>1, <2>3, CrashWithType
<1>4. QED
  BY <1>2, <1>3

LEMMA TypeInit == Init => TypeOK
<1>1. SUFFICES ASSUME Init PROVE TypeOK
  OBVIOUS
<1>2. Follower \in Role /\ 0 \in Index /\ 0 \in Term /\ 1 \in Index \ {0}
      /\ <<>> \in Seq(Entry)
  BY EmptySeq DEF Role, Index, Term
<1>3. /\ [p \in Node |-> 1] \in [Node -> Index \ {0}]
      /\ [p \in Node |-> 0] \in [Node -> Index]
  BY <1>2
<1>4. QED
  BY <1>1, <1>2, <1>3, BlankType DEF Init, TypeOK

\* Every step keeps the types, given that the cursors are in range.
LEMMA TypeStep ==
  ASSUME TypeOK, CursorsInRange, Next
  PROVE  TypeOK'
<1>1. PICK i \in Node :
        \/ Timeout(i)
        \/ \E command \in Command \cup {Noop} : Propose(i, command)
        \/ TakeCommitted(i)
        \/ Crash(i) \/ CrashInCampaign(i) \/ Restart(i)
        \/ \E m \in wire : Handle(i, m) \/ CrashInHandler(i, m)
  BY DEF Next
<1>2. CASE Timeout(i)
  BY <1>2, CampaignTypes, LeaderTypes DEF Timeout
<1>3. CASE \E command \in Command \cup {Noop} : Propose(i, command)
  BY <1>3, LeaderTypes
<1>4. CASE TakeCommitted(i) \/ Crash(i) \/ CrashInCampaign(i) \/ Restart(i)
  BY <1>4, LeaderTypes, CrashTypes
<1>5. CASE \E m \in wire : Handle(i, m) \/ CrashInHandler(i, m)
  BY <1>5, WireTyped, VoteTypes, FollowerTypes, AckTypes, CrashInHandlerTypes
  DEF Handle, CrashInHandler
<1>6. QED
  BY <1>1, <1>2, <1>3, <1>4, <1>5

-----------------------------------------------------------------------------
(* An action is a change of one node's state, and of the wire.              *)

\* A vote, once sent, has been sent for ever.
LEMMA VotedForKept ==
  ASSUME wire \subseteq wire', NEW v, NEW c, NEW t, VotedFor(v, c, t)
  PROVE  VotedFor(v, c, t)'
  BY DEF VotedFor, IsGrant

\* The nodes an action does not touch are as the invariant wants them.
LEMMA LocalToGood ==
  ASSUME ElectionInv, TypeOK', NEW i \in Node, LocalStep(i)
  PROVE  GoodStep
<1>1. live \subseteq Node /\ live' \subseteq Node /\ wire \subseteq wire'
  BY DEF ElectionInv, TypeOK, LocalStep, SendsFresh
<1>2. SUFFICES ASSUME NEW j \in Node
               PROVE  /\ ForwardAt(j)
                      /\ j \in live' => /\ DurableAt(j)'
                                        /\ role'[j] = Leader => InRange(j)'
                                        /\ StandingAt(j)'
  BY <1>1, <1>2 DEF GoodStep, MemoryIsDurable, CursorsInRange, Standing, Forward,
     LocalStep
<1>3. CASE j = i
  BY <1>3 DEF LocalStep
<1>4. CASE j # i
  <2>1. /\ j \in live' <=> j \in live
        /\ disk'[j] = disk[j]
        /\ term'[j] = term[j] /\ voted_for'[j] = voted_for[j] /\ log'[j] = log[j]
        /\ role'[j] = role[j] /\ votes'[j] = votes[j]
        /\ next_index'[j] = next_index[j] /\ match_index'[j] = match_index[j]
    BY <1>4 DEF LocalStep, ElsewhereUnchanged
  <2>2. ForwardAt(j)
    BY <2>1 DEF ForwardAt
  <2>3. ASSUME j \in live
        PROVE  DurableAt(j) /\ (role[j] = Leader => InRange(j)) /\ StandingAt(j)
    BY <2>3 DEF ElectionInv, NodeInv, MemoryIsDurable, CursorsInRange, Standing
  <2>4. j \in live => DurableAt(j)' /\ (role'[j] = Leader => InRange(j)')
    BY <2>1, <2>3 DEF DurableAt, InRange
  <2>5. j \in live => StandingAt(j)'
    BY <1>1, <2>1, <2>3, VotedForKept DEF StandingAt
  <2>6. QED
    BY <2>1, <2>2, <2>4, <2>5
<1>5. QED
  BY <1>3, <1>4

\* What the invariant says of one node.
LEMMA NodeFacts ==
  ASSUME ElectionInv, NEW i \in live
  PROVE  /\ i \in Node
         /\ disk[i].term = term[i]
         /\ disk[i].voted_for = voted_for[i]
         /\ disk[i].log = log[i]
         /\ StandingAt(i)
         /\ role[i] \in {Candidate, Leader} => voted_for[i] = i
         /\ role[i] = Leader => InRange(i)
  BY DEF ElectionInv, TypeOK, NodeInv, MemoryIsDurable, DurableAt, Standing,
     StandingAt, CursorsInRange

\* What the step-down of the prelude leaves on disk is what it leaves in
\* memory, and it is no step back.
LEMMA PreludeKeepsDurable ==
  ASSUME ElectionInv, NEW i \in live, NEW m \in wire
  PROVE  /\ DiskAfter(i, m) \in Persistent
         /\ DiskAfter(i, m).term = TermAfter(i, m)
         /\ DiskAfter(i, m).voted_for = VoteAfter(i, m)
         /\ DiskAfter(i, m).log = log[i]
         /\ \/ TermAfter(i, m) > disk[i].term
            \/ TermAfter(i, m) = disk[i].term /\ VoteAfter(i, m) = disk[i].voted_for
<1>1. i \in Node /\ disk[i] \in Persistent /\ m.term \in Nat /\ term[i] \in Nat
      /\ Nil \in Node \cup {Nil}
  BY NodeFacts, MessageFields DEF ElectionInv, TypeOK, Term
<1>2. /\ disk[i].term = term[i] /\ disk[i].voted_for = voted_for[i]
      /\ disk[i].log = log[i]
  BY NodeFacts
<1>3. CASE Newer(i, m)
  BY <1>1, <1>2, <1>3, SaveType DEF DiskAfter, TermAfter, VoteAfter, Newer
<1>4. CASE ~Newer(i, m)
  BY <1>1, <1>2, <1>4 DEF DiskAfter, TermAfter, VoteAfter
<1>5. QED
  BY <1>3, <1>4

\* A node that is still a candidate or a leader after the prelude was not
\* touched by it.
LEMMA PreludeKeepsStanding ==
  ASSUME NEW i, NEW m, RoleAfter(i, m) \in {Candidate, Leader}
  PROVE  /\ RoleAfter(i, m) = role[i]
         /\ TermAfter(i, m) = term[i]
         /\ VoteAfter(i, m) = voted_for[i]
  BY DEF RoleAfter, TermAfter, VoteAfter, Follower, Candidate, Leader

\* Standing survives a step that changes neither the role, the term and vote
\* nor the votes counted, and a node that is a follower needs none.
LEMMA StandingKept ==
  ASSUME ElectionInv, wire \subseteq wire', NEW i \in live,
         role'[i] # Follower =>
           /\ role'[i] = role[i] /\ term'[i] = term[i]
           /\ voted_for'[i] = voted_for[i] /\ votes'[i] = votes[i]
  PROVE  StandingAt(i)'
<1>1. CASE role'[i] = Follower
  BY <1>1 DEF StandingAt, Follower, Candidate, Leader
<1>2. CASE role'[i] # Follower
  BY <1>2, NodeFacts, VotedForKept DEF StandingAt
<1>3. QED
  BY <1>1, <1>2

-----------------------------------------------------------------------------
(* Elections, action by action *)

LEMMA CampaignStep ==
  ASSUME ElectionInv, TypeOK', NEW i \in Node, Campaign(i)
  PROVE  LocalStep(i)
<1>1. /\ i \in live /\ live' = live /\ log' = log
      /\ term' = [term EXCEPT ![i] = term[i] + 1]
      /\ voted_for' = [voted_for EXCEPT ![i] = i]
      /\ votes' = [votes EXCEPT ![i] = {i}]
      /\ disk' = [disk EXCEPT ![i] = SelfVote(i)]
      /\ role' = [role EXCEPT ![i] = Candidate]
      /\ next_index' = next_index /\ match_index' = match_index
  BY DEF Campaign, StartElection, cursors
<1>2. TypeOK /\ term[i] \in Nat /\ term[i] + 1 \in Nat
  BY DEF ElectionInv, TypeOK, Term
<1>3. /\ term'[i] = term[i] + 1 /\ voted_for'[i] = i /\ votes'[i] = {i}
      /\ role'[i] = Candidate /\ log'[i] = log[i] /\ disk'[i] = SelfVote(i)
  BY <1>1, <1>2 DEF TypeOK
<1>4. ElsewhereUnchanged(i)
  BY <1>1, <1>2 DEF ElsewhereUnchanged, TypeOK
<1>5. /\ disk'[i].term = term'[i] /\ disk'[i].voted_for = i
      /\ disk'[i].log = disk[i].log
  BY <1>2, <1>3, SaveType DEF SelfVote, TypeOK
<1>6. SendsFresh
  BY <1>1, <1>3 DEF Campaign, Send, SendsFresh, Fresh, IsGrant, IsAppend
<1>7. ForwardAt(i)
  BY <1>1, <1>2, <1>3, <1>5, NodeFacts DEF ForwardAt
<1>8. DurableAt(i)'
  BY <1>1, <1>3, <1>5, NodeFacts DEF DurableAt
<1>9. StandingAt(i)'
  BY <1>3 DEF StandingAt, VotedFor, Candidate, Leader
<1>10. role'[i] # Leader
  BY <1>3 DEF Candidate, Leader
<1>11. QED
  BY <1>4, <1>6, <1>7, <1>8, <1>9, <1>10 DEF LocalStep

\* What a leader sends is fresh: to one peer, and to all of them.
LEMMA AppendIsFresh ==
  ASSUME NEW i \in Node, NEW p \in Node \ {i}, i \in live', role'[i] = Leader
  PROVE  LET m == AppendFor(i, p)'
         IN /\ m.from \in live' /\ m.from # m.to /\ m.term = term'[m.from]
            /\ ~IsGrant(m) /\ role'[m.from] = Leader
  BY DEF AppendFor, IsGrant

LEMMA BroadcastIsFresh ==
  ASSUME NEW i \in Node, i \in live', role'[i] = Leader, BroadcastAppend(i)
  PROVE  SendsFresh
<1>1. \A p \in Node \ {i} : Fresh(AppendFor(i, p)')
  BY AppendIsFresh DEF Fresh
<1>2. QED
  BY <1>1 DEF BroadcastAppend, Send, SendsFresh

\* Becoming leader, at a node whose disk and votes are in order: the cursors
\* start after the old log, which the no-op extends.
LEMMA BecomeLeaderStep ==
  ASSUME ElectionInv, TypeOK', NEW i \in live, NEW t \in Nat, NEW d \in Persistent,
         BecomeLeader(i, t, d), live' = live, term'[i] = t,
         d.term = t, d.voted_for = voted_for'[i], d.log = log[i],
         voted_for'[i] = i, IsQuorum(votes'[i]),
         \A v \in votes'[i] : v = i \/ VotedFor(v, i, t)
  PROVE  /\ SendsFresh /\ DurableAt(i)' /\ InRange(i)' /\ StandingAt(i)'
<1> DEFINE noop == [term |-> t, command |-> Noop]
<1>1. i \in Node /\ TypeOK
  BY NodeFacts DEF ElectionInv
<1>2. /\ role'[i] = Leader
      /\ next_index'[i] = [p \in Node |-> Len(log[i]) + 1]
      /\ match_index'[i] = [p \in Node |-> 0]
      /\ disk'[i] = AppendTo(d, <<noop>>)
      /\ log'[i] = Append(log[i], noop)
      /\ BroadcastAppend(i)
  BY <1>1 DEF BecomeLeader, TypeOK
<1>3. noop \in Entry /\ log[i] \in Seq(Entry)
  BY <1>1 DEF Entry, Term, TypeOK
<1>4. Len(log[i]) \in Nat /\ Len(log'[i]) = Len(log[i]) + 1
  BY <1>2, <1>3, LenProperties, AppendProperties
<1>5. InRange(i)'
  BY <1>2, <1>4 DEF InRange
<1>6. DurableAt(i)'
  <2>1. log[i] \o <<noop>> = Append(log[i], noop)
    BY <1>3, AppendIsConcat
  <2>2. <<noop>> \in Seq(Entry)
    BY <1>3
  <2>3. /\ AppendTo(d, <<noop>>).term = t
        /\ AppendTo(d, <<noop>>).voted_for = voted_for'[i]
        /\ AppendTo(d, <<noop>>).log = log[i] \o <<noop>>
    BY <2>2, AppendToType
  <2>4. AppendTo(d, <<noop>>).log = log'[i]
    BY <1>2, <2>1, <2>3
  <2>5. QED
    BY <1>2, <2>3, <2>4 DEF DurableAt
<1>7. SendsFresh
  BY <1>1, <1>2, BroadcastIsFresh
<1>8. StandingAt(i)'
  <2>1. \A v \in votes'[i] : VotedFor(v, i, t)'
    BY <1>7, VotedForKept DEF SendsFresh, VotedFor
  <2>2. QED
    BY <1>2, <2>1 DEF StandingAt, VotedFor
<1>9. QED
  BY <1>5, <1>6, <1>7, <1>8

LEMMA CampaignAloneStep ==
  ASSUME ElectionInv, TypeOK', NEW i \in Node, CampaignAlone(i)
  PROVE  LocalStep(i)
<1>1. /\ i \in live /\ live' = live
      /\ term' = [term EXCEPT ![i] = term[i] + 1]
      /\ voted_for' = [voted_for EXCEPT ![i] = i]
      /\ votes' = [votes EXCEPT ![i] = {i}]
      /\ IsQuorum({i})
      /\ BecomeLeader(i, term[i] + 1, SelfVote(i))
  BY DEF CampaignAlone, StartElection
<1>2. TypeOK /\ term[i] \in Nat /\ term[i] + 1 \in Nat
  BY DEF ElectionInv, TypeOK, Term
<1>3. term'[i] = term[i] + 1 /\ voted_for'[i] = i /\ votes'[i] = {i}
  BY <1>1, <1>2 DEF TypeOK
<1>4. /\ SelfVote(i) \in Persistent /\ SelfVote(i).term = term[i] + 1
      /\ SelfVote(i).voted_for = i /\ SelfVote(i).log = log[i]
  BY <1>1, <1>2, SaveType, NodeFacts DEF SelfVote, TypeOK
<1>5. SendsFresh /\ DurableAt(i)' /\ InRange(i)' /\ StandingAt(i)'
  BY <1>1, <1>2, <1>3, <1>4, BecomeLeaderStep
<1>6. ElsewhereUnchanged(i)
  BY <1>1, <1>2 DEF ElsewhereUnchanged, BecomeLeader, TypeOK
<1>7. ForwardAt(i)
  BY <1>1, <1>2, <1>3, <1>5, NodeFacts DEF ForwardAt, DurableAt
<1>8. QED
  BY <1>5, <1>6, <1>7 DEF LocalStep

LEMMA GrantVoteStep ==
  ASSUME ElectionInv, TypeOK', NEW i \in Node, NEW m \in wire, GrantVote(i, m)
  PROVE  LocalStep(i)
<1>1. /\ i \in live /\ live' = live /\ m.from # i
      /\ log' = log /\ votes' = votes
      /\ next_index' = next_index /\ match_index' = match_index
      /\ term' = [term EXCEPT ![i] = TermAfter(i, m)]
      /\ role' = [role EXCEPT ![i] = RoleAfter(i, m)]
      /\ voted_for' = [voted_for EXCEPT ![i] = m.from]
      /\ disk' = [disk EXCEPT ![i] = GrantDisk(i, m)]
      /\ wire' = wire \cup {VoteReply(i, m, TRUE)}
      /\ VoteAfter(i, m) \in {Nil, m.from}
  BY DEF GrantVote, OnRequestVote, Deliverable, cursors, Send, Grantable
<1>2. TypeOK /\ m.from \in Node /\ TermAfter(i, m) \in Nat
  BY MessageFields, PreludeType DEF ElectionInv, TypeOK
<1>3. /\ term'[i] = TermAfter(i, m) /\ role'[i] = RoleAfter(i, m)
      /\ voted_for'[i] = m.from /\ disk'[i] = GrantDisk(i, m)
  BY <1>1, <1>2 DEF TypeOK
<1>4. ElsewhereUnchanged(i)
  BY <1>1, <1>2 DEF ElsewhereUnchanged, TypeOK
<1>5. SendsFresh
  BY <1>1, <1>3 DEF SendsFresh, Fresh, VoteReply, IsGrant, IsAppend
<1>6. /\ disk'[i].term = TermAfter(i, m) /\ disk'[i].voted_for = m.from
      /\ disk'[i].log = log[i]
  BY <1>1, <1>2, <1>3, PreludeKeepsDurable, SaveType DEF GrantDisk
<1>7. DurableAt(i)'
  BY <1>1, <1>3, <1>6 DEF DurableAt
<1>8. ForwardAt(i)
  BY <1>1, <1>6, PreludeKeepsDurable DEF ForwardAt
<1>9. role'[i] = Follower
  <2>1. SUFFICES ASSUME RoleAfter(i, m) \in {Candidate, Leader} PROVE FALSE
    BY <1>1, <1>2, <1>3, WireTyped, PreludeType DEF Role
  <2>2. role[i] \in {Candidate, Leader} /\ VoteAfter(i, m) = voted_for[i]
    BY <2>1, PreludeKeepsStanding
  <2>3. voted_for[i] = i
    BY <1>1, <2>2, NodeFacts
  <2>4. QED
    BY <1>1, <2>2, <2>3, NilAssumption
<1>10. StandingAt(i)' /\ role'[i] # Leader
  BY <1>9 DEF StandingAt, Follower, Candidate, Leader
<1>11. QED
  BY <1>4, <1>5, <1>7, <1>8, <1>10 DEF LocalStep

LEMMA DenyVoteStep ==
  ASSUME ElectionInv, TypeOK', NEW i \in Node, NEW m \in wire, DenyVote(i, m)
  PROVE  LocalStep(i)
<1>1. /\ i \in live /\ live' = live /\ m.from # i
      /\ log' = log /\ votes' = votes
      /\ next_index' = next_index /\ match_index' = match_index
      /\ term' = [term EXCEPT ![i] = TermAfter(i, m)]
      /\ role' = [role EXCEPT ![i] = RoleAfter(i, m)]
      /\ voted_for' = [voted_for EXCEPT ![i] = VoteAfter(i, m)]
      /\ disk' = [disk EXCEPT ![i] = DiskAfter(i, m)]
      /\ wire' = wire \cup {VoteReply(i, m, FALSE)}
  BY DEF DenyVote, OnRequestVote, Deliverable, cursors, Send
<1>2. TypeOK
  BY DEF ElectionInv
<1>3. /\ term'[i] = TermAfter(i, m) /\ role'[i] = RoleAfter(i, m)
      /\ voted_for'[i] = VoteAfter(i, m) /\ disk'[i] = DiskAfter(i, m)
  BY <1>1, <1>2 DEF TypeOK
<1>4. ElsewhereUnchanged(i)
  BY <1>1, <1>2 DEF ElsewhereUnchanged, TypeOK
<1>5. SendsFresh
  BY <1>1, <1>3 DEF SendsFresh, Fresh, VoteReply, IsGrant, IsAppend
<1>6. DurableAt(i)' /\ ForwardAt(i)
  BY <1>1, <1>3, PreludeKeepsDurable DEF DurableAt, ForwardAt
<1>7. role'[i] # Follower => role'[i] \in {Candidate, Leader}
  <2>1. m \in Message /\ role'[i] \in Role
    BY <1>2, <1>3, WireTyped, PreludeType
  <2>2. QED
    BY <2>1 DEF Role
<1>8. role'[i] # Follower => /\ role'[i] = role[i] /\ term'[i] = term[i]
                             /\ voted_for'[i] = voted_for[i]
  BY <1>3, <1>7, PreludeKeepsStanding
<1>9. StandingAt(i)'
  BY <1>1, <1>8, StandingKept
<1>10. role'[i] = Leader => InRange(i)'
  BY <1>1, <1>8, NodeFacts DEF InRange, Follower, Leader
<1>11. QED
  BY <1>4, <1>5, <1>6, <1>9, <1>10 DEF LocalStep

LEMMA StepDownStep ==
  ASSUME ElectionInv, TypeOK', NEW i \in Node, NEW m \in wire, StepDown(i, m)
  PROVE  LocalStep(i)
<1>1. /\ i \in live /\ live' = live /\ Newer(i, m)
      /\ log' = log /\ votes' = votes /\ wire' = wire
      /\ next_index' = next_index /\ match_index' = match_index
      /\ term' = [term EXCEPT ![i] = m.term]
      /\ role' = [role EXCEPT ![i] = Follower]
      /\ voted_for' = [voted_for EXCEPT ![i] = Nil]
      /\ disk' = [disk EXCEPT ![i] = DiskAfter(i, m)]
  BY DEF StepDown, Deliverable, cursors
<1>2. TypeOK
  BY DEF ElectionInv
<1>3. /\ term'[i] = TermAfter(i, m) /\ role'[i] = Follower
      /\ voted_for'[i] = VoteAfter(i, m) /\ disk'[i] = DiskAfter(i, m)
  BY <1>1, <1>2 DEF TypeOK, TermAfter, VoteAfter
<1>4. ElsewhereUnchanged(i)
  BY <1>1, <1>2 DEF ElsewhereUnchanged, TypeOK
<1>5. SendsFresh
  BY <1>1 DEF SendsFresh
<1>6. DurableAt(i)' /\ ForwardAt(i)
  BY <1>1, <1>3, PreludeKeepsDurable DEF DurableAt, ForwardAt
<1>7. StandingAt(i)' /\ role'[i] # Leader
  BY <1>3 DEF StandingAt, Follower, Candidate, Leader
<1>8. QED
  BY <1>4, <1>5, <1>6, <1>7 DEF LocalStep

\* A vote that counts was sent in this term.
LEMMA CountedVote ==
  ASSUME ElectionInv, NEW i \in Node, NEW m \in wire, OnVoteResponse(i, m)
  PROVE  \A v \in votes[i] \cup {m.from} : VotedFor(v, i, term[i])
<1>1. /\ i \in live /\ m.to = i /\ m.kind = "VoteResponse"
      /\ role[i] = Candidate /\ m.term = term[i] /\ m.granted
  BY DEF OnVoteResponse, Deliverable, VoteCounts
<1>2. m.granted = TRUE
  BY <1>1, MessageFields DEF ElectionInv, TypeOK, VoteResponse
<1>3. VotedFor(m.from, i, term[i])
  BY <1>1, <1>2 DEF VotedFor, IsGrant
<1>4. \A v \in votes[i] : VotedFor(v, i, term[i])
  BY <1>1, NodeFacts DEF StandingAt
<1>5. QED
  BY <1>3, <1>4

LEMMA CountVoteStep ==
  ASSUME ElectionInv, TypeOK', NEW i \in Node, NEW m \in wire, CountVote(i, m)
  PROVE  LocalStep(i)
<1>1. /\ i \in live /\ live' = live /\ role[i] = Candidate
      /\ disk' = disk /\ term' = term /\ voted_for' = voted_for /\ log' = log
      /\ role' = role /\ wire' = wire
      /\ next_index' = next_index /\ match_index' = match_index
      /\ votes' = [votes EXCEPT ![i] = votes[i] \cup {m.from}]
      /\ OnVoteResponse(i, m)
  BY DEF CountVote, OnVoteResponse, Deliverable, VoteCounts, cursors
<1>2. TypeOK
  BY DEF ElectionInv
<1>3. votes'[i] = votes[i] \cup {m.from}
  BY <1>1, <1>2 DEF TypeOK
<1>4. ElsewhereUnchanged(i)
  BY <1>1, <1>2 DEF ElsewhereUnchanged, TypeOK
<1>5. SendsFresh /\ DurableAt(i)' /\ ForwardAt(i)
  BY <1>1, NodeFacts DEF SendsFresh, DurableAt, ForwardAt
<1>6. StandingAt(i)'
  <2>1. \A v \in votes'[i] : VotedFor(v, i, term[i])
    BY <1>1, <1>3, CountedVote
  <2>2. \A v \in votes'[i] : VotedFor(v, i, term[i])'
    BY <1>1, <2>1, VotedForKept
  <2>3. voted_for'[i] = i /\ role'[i] # Leader
    BY <1>1, NodeFacts DEF Candidate, Leader
  <2>4. QED
    BY <1>1, <2>2, <2>3 DEF StandingAt
<1>7. role'[i] # Leader
  BY <1>1 DEF Candidate, Leader
<1>8. QED
  BY <1>4, <1>5, <1>6, <1>7 DEF LocalStep

LEMMA WinElectionStep ==
  ASSUME ElectionInv, TypeOK', NEW i \in Node, NEW m \in wire, WinElection(i, m)
  PROVE  LocalStep(i)
<1>1. /\ i \in live /\ live' = live /\ role[i] = Candidate
      /\ term' = term /\ voted_for' = voted_for
      /\ votes' = [votes EXCEPT ![i] = votes[i] \cup {m.from}]
      /\ OnVoteResponse(i, m)
      /\ IsQuorum(votes[i] \cup {m.from})
      /\ BecomeLeader(i, term[i], disk[i])
  BY DEF WinElection, OnVoteResponse, Deliverable, VoteCounts
<1>2. TypeOK /\ term[i] \in Nat /\ disk[i] \in Persistent
  BY DEF ElectionInv, TypeOK, Term
<1>3. votes'[i] = votes[i] \cup {m.from}
  BY <1>1, <1>2 DEF TypeOK
<1>4. ElsewhereUnchanged(i)
  BY <1>1, <1>2 DEF ElsewhereUnchanged, BecomeLeader, TypeOK
<1>5. /\ disk[i].term = term[i] /\ disk[i].voted_for = voted_for[i]
      /\ disk[i].log = log[i] /\ voted_for[i] = i
  BY <1>1, NodeFacts
<1>6. \A v \in votes'[i] : v = i \/ VotedFor(v, i, term[i])
  BY <1>1, <1>3, CountedVote
<1>7. SendsFresh /\ DurableAt(i)' /\ InRange(i)' /\ StandingAt(i)'
  BY <1>1, <1>2, <1>3, <1>5, <1>6, BecomeLeaderStep
<1>8. ForwardAt(i)
  BY <1>1, <1>5, <1>7 DEF ForwardAt, DurableAt
<1>9. QED
  BY <1>4, <1>7, <1>8 DEF LocalStep

-----------------------------------------------------------------------------
(* Replication, action by action *)

LEMMA HeartbeatStep ==
  ASSUME ElectionInv, TypeOK', NEW i \in Node, Heartbeat(i)
  PROVE  LocalStep(i)
<1>1. /\ i \in live /\ live' = live /\ role[i] = Leader
      /\ disk' = disk /\ term' = term /\ voted_for' = voted_for /\ log' = log
      /\ role' = role /\ votes' = votes
      /\ next_index' = next_index /\ match_index' = match_index
      /\ BroadcastAppend(i)
  BY DEF Heartbeat, memory, cursors
<1>2. ElsewhereUnchanged(i)
  BY <1>1 DEF ElsewhereUnchanged
<1>3. SendsFresh
  BY <1>1, BroadcastIsFresh
<1>4. DurableAt(i)' /\ ForwardAt(i) /\ InRange(i)'
  BY <1>1, NodeFacts DEF DurableAt, ForwardAt, InRange
<1>5. StandingAt(i)'
  BY <1>1, <1>3, StandingKept DEF SendsFresh
<1>6. QED
  BY <1>2, <1>3, <1>4, <1>5 DEF LocalStep

LEMMA ProposeStep ==
  ASSUME ElectionInv, TypeOK', NEW i \in Node, NEW c \in Command \cup {Noop},
         Propose(i, c)
  PROVE  LocalStep(i)
<1> DEFINE e == [term |-> term[i], command |-> c]
<1>1. /\ i \in live /\ live' = live /\ role[i] = Leader
      /\ disk' = [disk EXCEPT ![i] = AppendTo(disk[i], <<e>>)]
      /\ log' = [log EXCEPT ![i] = Append(log[i], e)]
      /\ term' = term /\ voted_for' = voted_for
      /\ role' = role /\ votes' = votes
      /\ next_index' = next_index /\ match_index' = match_index
      /\ BroadcastAppend(i)
  BY DEF Propose, cursors
<1>2. TypeOK /\ disk[i] \in Persistent /\ log[i] \in Seq(Entry) /\ e \in Entry
      /\ next_index[i] \in [Node -> Nat]
  BY DEF ElectionInv, TypeOK, Entry, Index
<1>3. /\ Len(log[i]) \in Nat
      /\ Len(Append(log[i], e)) = Len(log[i]) + 1
      /\ log[i] \o <<e>> = Append(log[i], e) /\ <<e>> \in Seq(Entry)
  BY <1>2, LenProperties, AppendProperties, AppendIsConcat
<1>4. log'[i] = Append(log[i], e) /\ disk'[i] = AppendTo(disk[i], <<e>>)
  BY <1>1, <1>2 DEF TypeOK
<1>5. /\ disk'[i].term = disk[i].term /\ disk'[i].voted_for = disk[i].voted_for
      /\ disk'[i].log = disk[i].log \o <<e>>
  BY <1>2, <1>3, <1>4, AppendToType
<1>6. disk[i].log = log[i]
  BY <1>1, NodeFacts
<1>7. disk'[i].log = log'[i]
  BY <1>3, <1>4, <1>5, <1>6
<1>8. ElsewhereUnchanged(i)
  BY <1>1, <1>2 DEF ElsewhereUnchanged, TypeOK
<1>9. SendsFresh
  BY <1>1, BroadcastIsFresh
<1>10. DurableAt(i)' /\ ForwardAt(i)
  BY <1>1, <1>5, <1>7, NodeFacts DEF DurableAt, ForwardAt
<1>11. InRange(i)'
  <2>1. InRange(i) /\ Len(log'[i]) = Len(log[i]) + 1
    BY <1>1, <1>3, <1>4, NodeFacts
  <2>2. QED
    BY <1>1, <1>2, <1>3, <2>1 DEF InRange
<1>12. StandingAt(i)'
  BY <1>1, <1>9, StandingKept DEF SendsFresh
<1>13. QED
  BY <1>8, <1>9, <1>10, <1>11, <1>12 DEF LocalStep

LEMMA TakeCommittedStep ==
  ASSUME ElectionInv, TypeOK', NEW i \in Node, TakeCommitted(i)
  PROVE  LocalStep(i)
<1>1. /\ i \in live /\ live' = live
      /\ disk' = disk /\ term' = term /\ voted_for' = voted_for /\ log' = log
      /\ role' = role /\ votes' = votes /\ wire' = wire
      /\ next_index' = next_index /\ match_index' = match_index
  BY DEF TakeCommitted, memory, cursors
<1>2. ElsewhereUnchanged(i) /\ SendsFresh
  BY <1>1 DEF ElsewhereUnchanged, SendsFresh
<1>3. DurableAt(i)' /\ ForwardAt(i) /\ (role'[i] = Leader => InRange(i)')
  BY <1>1, NodeFacts DEF DurableAt, ForwardAt, InRange
<1>4. StandingAt(i)'
  BY <1>1, StandingKept
<1>5. QED
  BY <1>2, <1>3, <1>4 DEF LocalStep

\* An answer to AppendEntries is neither a vote nor AppendEntries.
LEMMA ReplyIsFresh ==
  ASSUME NEW i \in live', NEW m, NEW success, NEW n, m.from # i,
         term'[i] = TermAfter(i, m), Send({AppendReply(i, m, success, n)})
  PROVE  SendsFresh
  BY DEF Send, SendsFresh, Fresh, AppendReply, IsGrant, IsAppend

LEMMA RejectStaleStep ==
  ASSUME ElectionInv, TypeOK', NEW i \in Node, NEW m \in wire, RejectStale(i, m)
  PROVE  LocalStep(i)
<1>1. /\ i \in live /\ live' = live /\ m.from # i /\ m.term < term[i]
      /\ disk' = disk /\ term' = term /\ voted_for' = voted_for /\ log' = log
      /\ role' = role /\ votes' = votes
      /\ next_index' = next_index /\ match_index' = match_index
      /\ Send({AppendReply(i, m, FALSE, 0)})
  BY DEF RejectStale, Deliverable, memory, cursors
<1>2. term[i] \in Nat /\ m.term \in Nat
  BY MessageFields DEF ElectionInv, TypeOK, Term
<1>3. term'[i] = TermAfter(i, m)
  BY <1>1, <1>2 DEF TermAfter, Newer
<1>4. ElsewhereUnchanged(i) /\ SendsFresh
  BY <1>1, <1>3, ReplyIsFresh DEF ElsewhereUnchanged
<1>5. DurableAt(i)' /\ ForwardAt(i) /\ (role'[i] = Leader => InRange(i)')
  BY <1>1, NodeFacts DEF DurableAt, ForwardAt, InRange
<1>6. StandingAt(i)'
  BY <1>1, <1>4, StandingKept DEF SendsFresh
<1>7. QED
  BY <1>4, <1>5, <1>6 DEF LocalStep

\* A follower's log and disk after AppendEntries are d and its log, whatever
\* the handler did with the entries.
LEMMA FollowStep ==
  ASSUME ElectionInv, TypeOK', NEW i \in Node, NEW m \in wire, FollowLeader(i, m),
         NEW success, NEW n, Send({AppendReply(i, m, success, n)}),
         NEW d, NEW l,
         disk' = [disk EXCEPT ![i] = d], log' = [log EXCEPT ![i] = l],
         d.term = TermAfter(i, m), d.voted_for = VoteAfter(i, m), d.log = l
  PROVE  LocalStep(i)
<1>1. /\ i \in live /\ live' = live /\ m.from # i /\ votes' = votes
      /\ next_index' = next_index /\ match_index' = match_index
      /\ term' = [term EXCEPT ![i] = TermAfter(i, m)]
      /\ voted_for' = [voted_for EXCEPT ![i] = VoteAfter(i, m)]
      /\ role' = [role EXCEPT ![i] = Follower]
  BY DEF FollowLeader, Deliverable, cursors
<1>2. TypeOK
  BY DEF ElectionInv
<1>3. /\ term'[i] = TermAfter(i, m) /\ voted_for'[i] = VoteAfter(i, m)
      /\ role'[i] = Follower /\ disk'[i] = d /\ log'[i] = l
  BY <1>1, <1>2 DEF TypeOK
<1>4. ElsewhereUnchanged(i)
  BY <1>1, <1>2 DEF ElsewhereUnchanged, TypeOK
<1>5. SendsFresh
  BY <1>1, <1>3, ReplyIsFresh
<1>6. DurableAt(i)' /\ ForwardAt(i)
  BY <1>1, <1>3, PreludeKeepsDurable DEF DurableAt, ForwardAt
<1>7. StandingAt(i)' /\ role'[i] # Leader
  BY <1>3 DEF StandingAt, Follower, Candidate, Leader
<1>8. QED
  BY <1>4, <1>5, <1>6, <1>7 DEF LocalStep

LEMMA FollowerSteps ==
  ASSUME ElectionInv, TypeOK', NEW i \in Node, NEW m \in wire
  PROVE  /\ RejectAppend(i, m) => LocalStep(i)
         /\ AcceptKnown(i, m) => LocalStep(i)
         /\ AcceptNew(i, m) => LocalStep(i)
<1>1. FollowLeader(i, m) => i \in live /\ m.kind = "AppendEntries"
  BY DEF FollowLeader, Deliverable
<1>2. TypeOK /\ log = [log EXCEPT ![i] = log[i]]
  BY DEF ElectionInv, TypeOK
<1>3. i \in live =>
        /\ DiskAfter(i, m) \in Persistent
        /\ DiskAfter(i, m).term = TermAfter(i, m)
        /\ DiskAfter(i, m).voted_for = VoteAfter(i, m)
        /\ DiskAfter(i, m).log = log[i]
  BY PreludeKeepsDurable
<1>4. ASSUME RejectAppend(i, m) PROVE LocalStep(i)
  <2>1. /\ FollowLeader(i, m) /\ Send({AppendReply(i, m, FALSE, Hint(i, m))})
        /\ disk' = [disk EXCEPT ![i] = DiskAfter(i, m)] /\ log' = log
    BY <1>4 DEF RejectAppend
  <2>2. QED
    BY <1>1, <1>2, <1>3, <2>1, FollowStep
<1>5. ASSUME AcceptKnown(i, m) PROVE LocalStep(i)
  <2>1. /\ FollowLeader(i, m) /\ Send({AppendReply(i, m, TRUE, Matched(i, m))})
        /\ disk' = [disk EXCEPT ![i] = DiskAfter(i, m)] /\ log' = log
    BY <1>5 DEF AcceptKnown, AcceptAppend
  <2>2. QED
    BY <1>1, <1>2, <1>3, <2>1, FollowStep
<1>6. ASSUME AcceptNew(i, m) PROVE LocalStep(i)
  <2>1. /\ FollowLeader(i, m) /\ Consistent(i, m)
        /\ Send({AppendReply(i, m, TRUE, Matched(i, m))})
    BY <1>6 DEF AcceptNew, AcceptAppend
  <2>2. PICK k \in Lowest(Missing(i, m)) : Splice(i, m, k)
    BY <1>6 DEF AcceptNew
  <2> DEFINE cut == TruncateFrom(DiskAfter(i, m), m.prev_index + k)
  <2>3. /\ m.prev_index \in Nat /\ k \in Nat /\ m.prev_index + k \in Nat \ {0}
        /\ m.prev_index + k <= Len(log[i]) + 1
        /\ Suffix(m, k) \in Seq(Entry)
    BY <1>1, <1>2, <2>1, WireTyped, SuffixType
  <2>4. /\ cut \in Persistent
        /\ cut.term = TermAfter(i, m) /\ cut.voted_for = VoteAfter(i, m)
        /\ cut.log = SubSeq(log[i], 1, m.prev_index + k - 1)
    <3>1. /\ DiskAfter(i, m) \in Persistent
          /\ DiskAfter(i, m).term = TermAfter(i, m)
          /\ DiskAfter(i, m).voted_for = VoteAfter(i, m)
          /\ DiskAfter(i, m).log = log[i]
      BY <1>1, <1>3, <2>1
    <3>2. PICK n \in Nat \ {0} : n = m.prev_index + k
      BY <2>3
    <3>3. n <= Len(DiskAfter(i, m).log) + 1
      BY <2>3, <3>1, <3>2
    <3>4. /\ TruncateFrom(DiskAfter(i, m), n) \in Persistent
          /\ TruncateFrom(DiskAfter(i, m), n).term = TermAfter(i, m)
          /\ TruncateFrom(DiskAfter(i, m), n).voted_for = VoteAfter(i, m)
          /\ TruncateFrom(DiskAfter(i, m), n).log = SubSeq(log[i], 1, n - 1)
      BY <3>1, <3>3, TruncateFromType
    <3>5. QED
      BY <2>3, <3>2, <3>4
  <2>5. /\ AppendTo(cut, Suffix(m, k)).term = TermAfter(i, m)
        /\ AppendTo(cut, Suffix(m, k)).voted_for = VoteAfter(i, m)
        /\ AppendTo(cut, Suffix(m, k)).log = Spliced(i, m, k)
    BY <2>3, <2>4, AppendToType DEF Spliced
  <2>6. /\ disk' = [disk EXCEPT ![i] = AppendTo(cut, Suffix(m, k))]
        /\ log' = [log EXCEPT ![i] = Spliced(i, m, k)]
    BY <2>2 DEF Splice
  <2>7. QED
    BY <2>1, <2>5, <2>6, FollowStep
<1>7. QED
  BY <1>4, <1>5, <1>6

\* An answer to a leader moves the cursors of one peer.
LEMMA AckSteps ==
  ASSUME ElectionInv, TypeOK', NEW i \in Node, NEW m \in wire
  PROVE  /\ AckSuccess(i, m) => LocalStep(i)
         /\ AckFailure(i, m) => LocalStep(i)
<1>1. ASSUME OnAppendResponse(i, m), wire' = wire \/ Send({AppendFor(i, m.from)'}),
             AckSuccess(i, m) \/ AckFailure(i, m),
             \A j \in Node \ {i} : next_index'[j] = next_index[j]
                                   /\ match_index'[j] = match_index[j]
      PROVE  LocalStep(i)
  <2>1. /\ i \in live /\ live' = live /\ role[i] = Leader /\ m.from # i
        /\ disk' = disk /\ term' = term /\ voted_for' = voted_for /\ log' = log
        /\ role' = role /\ votes' = votes
    BY <1>1 DEF OnAppendResponse, Deliverable, memory
  <2>2. ElsewhereUnchanged(i)
    BY <1>1, <2>1 DEF ElsewhereUnchanged
  <2>3. SendsFresh
    <3>1. m.from \in Node \ {i}
      BY <2>1, MessageFields DEF ElectionInv, TypeOK
    <3>2. Fresh(AppendFor(i, m.from)')
      BY <2>1, <3>1, AppendIsFresh DEF Fresh
    <3>3. QED
      BY <1>1, <3>2 DEF Send, SendsFresh
  <2>4. DurableAt(i)' /\ ForwardAt(i)
    BY <2>1, NodeFacts DEF DurableAt, ForwardAt
  <2>5. StandingAt(i)'
    BY <2>1, <2>3, StandingKept DEF SendsFresh
  <2>6. InRange(i)'
    BY <1>1, <2>1, NodeFacts, WireTyped, AckRange DEF ElectionInv
  <2>7. QED
    BY <2>1, <2>2, <2>3, <2>4, <2>5, <2>6 DEF LocalStep
<1>2. match_index \in [Node -> [Node -> Nat]] /\ next_index \in [Node -> [Node -> Nat]]
  BY DEF ElectionInv, TypeOK, Index
<1>3. ASSUME AckSuccess(i, m) PROVE LocalStep(i)
  <2>1. PICK q, n : /\ match_index' = [match_index EXCEPT ![i] = q]
                    /\ next_index' = [next_index EXCEPT ![i][m.from] = n]
    BY <1>3 DEF AckSuccess
  <2>2. OnAppendResponse(i, m) /\ (wire' = wire \/ Send({AppendFor(i, m.from)'}))
    BY <1>3 DEF AckSuccess, Send
  <2>3. \A j \in Node \ {i} : /\ match_index'[j] = match_index[j]
                              /\ next_index'[j] = next_index[j]
    BY <1>2, <2>1
  <2>4. QED
    BY <1>1, <1>3, <2>2, <2>3
<1>4. ASSUME AckFailure(i, m) PROVE LocalStep(i)
  <2>1. /\ OnAppendResponse(i, m) /\ match_index' = match_index
        /\ next_index' = [next_index EXCEPT ![i][m.from] = BackedUp(i, m)]
        /\ Send({AppendFor(i, m.from)'})
    BY <1>4 DEF AckFailure
  <2>2. \A j \in Node \ {i} : next_index'[j] = next_index[j]
    BY <1>2, <2>1
  <2>3. QED
    BY <1>1, <1>4, <2>1, <2>2
<1>5. QED
  BY <1>3, <1>4

-----------------------------------------------------------------------------
(* Crashes and restarts *)

LEMMA CrashWithStep ==
  ASSUME ElectionInv, TypeOK', NEW i \in Node, NEW d, CrashWith(i, d),
         \/ d.term > disk[i].term
         \/ d.term = disk[i].term /\ disk[i].voted_for \in {Nil, d.voted_for}
  PROVE  LocalStep(i)
<1>1. /\ i \notin live' /\ live' = live \ {i} /\ wire' = wire
      /\ disk' = [disk EXCEPT ![i] = d] /\ Remember(i, Blank) /\ FreshVolatile(i)
  BY DEF CrashWith
<1>2. TypeOK
  BY DEF ElectionInv
<1>3. ElsewhereUnchanged(i)
  BY <1>1, <1>2 DEF ElsewhereUnchanged, TypeOK, Remember, FreshVolatile
<1>4. SendsFresh
  BY <1>1 DEF SendsFresh
<1>5. ForwardAt(i)
  BY <1>1, <1>2 DEF ForwardAt, TypeOK
<1>6. QED
  BY <1>1, <1>3, <1>4, <1>5 DEF LocalStep

LEMMA CrashSteps ==
  ASSUME ElectionInv, TypeOK', NEW i \in Node
  PROVE  /\ Crash(i) => LocalStep(i)
         /\ CrashInCampaign(i) => LocalStep(i)
         /\ Restart(i) => LocalStep(i)
<1>1. TypeOK /\ disk[i] \in Persistent /\ term[i] \in Nat /\ term[i] + 1 \in Nat
  BY DEF ElectionInv, TypeOK, Term
<1>2. Crash(i) => LocalStep(i)
  BY <1>1, CrashWithStep DEF Crash
<1>3. ASSUME CrashInCampaign(i) PROVE LocalStep(i)
  <2>1. CrashWith(i, SelfVote(i)) /\ i \in live
    BY <1>3 DEF CrashInCampaign, CrashWith
  <2>2. SelfVote(i).term = term[i] + 1 /\ disk[i].term = term[i]
    BY <1>1, <2>1, SaveType, NodeFacts DEF SelfVote
  <2>3. SelfVote(i).term > disk[i].term
    BY <1>1, <2>2
  <2>4. QED
    BY <2>1, <2>3, CrashWithStep
<1>4. ASSUME Restart(i) PROVE LocalStep(i)
  <2>1. /\ live' = live \cup {i} /\ disk' = disk /\ wire' = wire
        /\ Remember(i, disk[i]) /\ FreshVolatile(i)
    BY <1>4 DEF Restart
  <2>2. ElsewhereUnchanged(i)
    BY <1>1, <2>1 DEF ElsewhereUnchanged, TypeOK, Remember, FreshVolatile
  <2>3. SendsFresh /\ ForwardAt(i)
    BY <2>1 DEF SendsFresh, ForwardAt
  <2>4. DurableAt(i)' /\ role'[i] = Follower
    BY <1>1, <2>1 DEF DurableAt, Remember, FreshVolatile, TypeOK
  <2>5. StandingAt(i)' /\ role'[i] # Leader
    BY <2>4 DEF StandingAt, Follower, Candidate, Leader
  <2>6. QED
    BY <2>2, <2>3, <2>4, <2>5 DEF LocalStep
<1>5. QED
  BY <1>2, <1>3, <1>4

LEMMA CrashInHandlerSteps ==
  ASSUME ElectionInv, TypeOK', NEW i \in Node, NEW m \in wire
  PROVE  /\ CrashInStepDown(i, m) => LocalStep(i)
         /\ CrashInTruncate(i, m) => LocalStep(i)
<1>1. ASSUME i \in live
      PROVE  /\ DiskAfter(i, m) \in Persistent
             /\ \/ DiskAfter(i, m).term > disk[i].term
                \/ /\ DiskAfter(i, m).term = disk[i].term
                   /\ DiskAfter(i, m).voted_for = disk[i].voted_for
  BY <1>1, PreludeKeepsDurable
<1>2. CrashInStepDown(i, m) => LocalStep(i)
  BY <1>1, CrashWithStep DEF CrashInStepDown, Deliverable
<1>3. ASSUME CrashInTruncate(i, m) PROVE LocalStep(i)
  <2>1. i \in live /\ m.kind = "AppendEntries" /\ Consistent(i, m)
    BY <1>3 DEF CrashInTruncate, Deliverable
  <2>2. PICK k \in Lowest(Missing(i, m)) :
          CrashWith(i, TruncateFrom(DiskAfter(i, m), m.prev_index + k))
    BY <1>3 DEF CrashInTruncate
  <2> DEFINE cut == TruncateFrom(DiskAfter(i, m), m.prev_index + k)
  <2>3. m.prev_index \in Nat /\ k \in Nat /\ m.prev_index + k \in Nat \ {0}
    BY <2>1, WireTyped, SuffixType DEF ElectionInv
  <2>4. /\ cut.term = DiskAfter(i, m).term
        /\ cut.voted_for = DiskAfter(i, m).voted_for
    BY <1>1, <2>1, <2>3, TruncateFromType
  <2> HIDE DEF cut
  <2>5. CrashWith(i, cut)
    BY <2>2 DEF cut
  <2>6. QED
    BY <1>1, <2>1, <2>4, <2>5, CrashWithStep
<1>4. QED
  BY <1>2, <1>3

-----------------------------------------------------------------------------
(* The invariant is inductive *)

\* Every step, as far as the nodes are concerned.
LEMMA StepIsGood ==
  ASSUME ElectionInv, TypeOK', Next
  PROVE  GoodStep
<1>1. PICK i \in Node :
        \/ Timeout(i)
        \/ \E command \in Command \cup {Noop} : Propose(i, command)
        \/ TakeCommitted(i)
        \/ Crash(i) \/ CrashInCampaign(i) \/ Restart(i)
        \/ \E m \in wire : Handle(i, m) \/ CrashInHandler(i, m)
  BY DEF Next
<1>2. CASE Timeout(i)
  BY <1>2, CampaignStep, CampaignAloneStep, HeartbeatStep, LocalToGood DEF Timeout
<1>3. CASE \E command \in Command \cup {Noop} : Propose(i, command)
  BY <1>3, ProposeStep, LocalToGood
<1>4. CASE TakeCommitted(i) \/ Crash(i) \/ CrashInCampaign(i) \/ Restart(i)
  BY <1>4, TakeCommittedStep, CrashSteps, LocalToGood
<1>5. CASE \E m \in wire : Handle(i, m) \/ CrashInHandler(i, m)
  <2>1. PICK m \in wire : Handle(i, m) \/ CrashInHandler(i, m)
    BY <1>5
  <2>2. CASE Handle(i, m)
    BY <2>2, GrantVoteStep, DenyVoteStep, StepDownStep, CountVoteStep,
       WinElectionStep, RejectStaleStep, FollowerSteps, AckSteps, LocalToGood
    DEF Handle
  <2>3. CASE CrashInHandler(i, m)
    BY <2>3, CrashInHandlerSteps, LocalToGood DEF CrashInHandler
  <2>4. QED
    BY <2>1, <2>2, <2>3
<1>6. QED
  BY <1>1, <1>2, <1>3, <1>4, <1>5

\* Disks only go forward.
LEMMA DisksForward ==
  ASSUME ElectionInv, TypeOK', GoodStep
  PROVE  \A i \in Node :
           /\ disk[i].term \in Nat /\ disk'[i].term \in Nat
           /\ disk[i].voted_for \in Node \cup {Nil}
           /\ \/ disk'[i].term > disk[i].term
              \/ /\ disk'[i].term = disk[i].term
                 /\ disk[i].voted_for \in {Nil, disk'[i].voted_for}
  BY DEF ElectionInv, TypeOK, Persistent, GoodStep, Forward, ForwardAt, Term

\* A message that was not there before matches what its sender's disk now holds.
LEMMA NewMessage ==
  ASSUME TypeOK', GoodStep, NEW m \in wire', m \notin wire
  PROVE  /\ m.from \in live' /\ m.from # m.to
         /\ m.term = term'[m.from] /\ disk'[m.from].term = m.term
         /\ IsGrant(m) => disk'[m.from].voted_for = m.to
         /\ IsAppend(m) => role'[m.from] = Leader
  BY DEF GoodStep, SendsFresh, Fresh, MemoryIsDurable, DurableAt

\* Who was elected in a term stays elected in it: a node that has voted for
\* itself grants no vote afterwards.
LEMMA ElectedKept ==
  ASSUME ElectionInv, TypeOK', GoodStep, NEW c \in Node, NEW t \in Nat, Elected(c, t)
  PROVE  Elected(c, t)'
<1>1. wire \subseteq wire'
  BY DEF GoodStep, SendsFresh
<1>2. \/ disk'[c].term > t
      \/ disk'[c].term = t /\ disk'[c].voted_for = c
  BY DisksForward, NilAssumption DEF Elected
<1>3. ASSUME NEW m \in wire', IsGrant(m), m.from = c, m.term = t
      PROVE  FALSE
  <2>1. m \notin wire
    BY <1>3 DEF Elected
  <2>2. m.from # m.to /\ disk'[c].term = t /\ disk'[c].voted_for = m.to
    BY <1>3, <2>1, NewMessage
  <2>3. disk'[c].voted_for = c
    BY <1>2, <2>2
  <2>4. QED
    BY <1>3, <2>2, <2>3
<1>4. PICK Q \in SUBSET Node : IsQuorum(Q) /\ \A v \in Q : VotedFor(v, c, t)
  BY DEF Elected
<1>5. \A v \in Q : VotedFor(v, c, t)'
  BY <1>1, <1>4, VotedForKept
<1>6. QED
  BY <1>2, <1>3, <1>4, <1>5 DEF Elected, IsGrant, IsQuorum

\* Messages that were there stay true because disks go forward; a new one is
\* true because its sender's memory is on its disk.
LEMMA WireStep ==
  ASSUME ElectionInv, TypeOK', GoodStep
  PROVE  WireInv'
<1>1. \A m \in wire' : m.from \in Node /\ m.to \in Node /\ m.term \in Nat
  BY MessageFields DEF TypeOK
<1>2. SentIsWritten'
  BY <1>1, DisksForward, NewMessage DEF SentIsWritten, ElectionInv, WireInv
<1>3. \A m \in wire' : IsGrant(m) =>
        \/ disk'[m.from].term > m.term
        \/ disk'[m.from].term = m.term /\ disk'[m.from].voted_for = m.to
  <2>1. SUFFICES ASSUME NEW m \in wire', IsGrant(m), m \in wire
        PROVE  \/ disk'[m.from].term > m.term
               \/ disk'[m.from].term = m.term /\ disk'[m.from].voted_for = m.to
    BY NewMessage
  <2>2. \/ disk[m.from].term > m.term
        \/ disk[m.from].term = m.term /\ disk[m.from].voted_for = m.to
    BY <2>1 DEF ElectionInv, WireInv, GrantsAreDurable, IsGrant
  <2>3. QED
    BY <1>1, <2>2, DisksForward, NilAssumption
<1>4. GrantsAreDurable'
  <2>1. \A m \in wire' : m.kind = "VoteResponse" /\ m.granted => IsGrant(m)
    BY MessageFields DEF TypeOK, VoteResponse, IsGrant
  <2>2. QED
    BY <1>3, <2>1 DEF GrantsAreDurable
<1>5. OneGrantPerTerm'
  <2>1. SUFFICES ASSUME NEW m \in wire', NEW n \in wire', IsGrant(m), IsGrant(n),
                        m.from = n.from, m.term = n.term
                 PROVE  m.to = n.to
    BY DEF OneGrantPerTerm, IsGrant
  <2>2. CASE m \in wire /\ n \in wire
    BY <2>1, <2>2 DEF ElectionInv, WireInv, OneGrantPerTerm
  <2>3. CASE m \notin wire \/ n \notin wire
    <3>1. disk'[m.from].term = m.term
      BY <2>1, <2>3, NewMessage
    <3>2. QED
      BY <1>1, <1>3, <2>1, <3>1
  <2>4. QED
    BY <2>2, <2>3
<1>6. LeadersElected'
  <2>1. SUFFICES ASSUME NEW i \in live', role'[i] = Leader
                 PROVE  Elected(i, term[i])'
    BY DEF LeadersElected
  <2>2. /\ i \in Node /\ term'[i] \in Nat /\ votes'[i] \in SUBSET Node
        /\ disk'[i].term = term'[i] /\ disk'[i].voted_for = i
        /\ IsQuorum(votes'[i])
        /\ \A v \in votes'[i] : VotedFor(v, i, term[i])'
    BY <2>1 DEF TypeOK, Term, GoodStep, MemoryIsDurable, DurableAt, Standing, StandingAt
  <2>3. ASSUME NEW m \in wire', IsGrant(m), m.from = i, m.term = term'[i]
        PROVE  FALSE
    BY <1>2, <1>3, <2>2, <2>3 DEF SentIsWritten
  <2>4. QED
    BY <2>2, <2>3 DEF Elected, IsGrant, IsQuorum
<1>7. SendersElected'
  <2>1. SUFFICES ASSUME NEW m \in wire', IsAppend(m)
                 PROVE  Elected(m.from, m.term)'
    BY DEF SendersElected, IsAppend
  <2>2. CASE m \in wire
    BY <1>1, <2>1, <2>2, ElectedKept DEF ElectionInv, WireInv, SendersElected
  <2>3. CASE m \notin wire
    <3>1. m.from \in live' /\ role'[m.from] = Leader /\ m.term = term'[m.from]
      BY <2>1, <2>3, NewMessage
    <3>2. QED
      BY <1>6, <3>1 DEF LeadersElected
  <2>4. QED
    BY <2>2, <2>3
<1>8. QED
  BY <1>2, <1>4, <1>5, <1>6, <1>7 DEF WireInv

LEMMA InitIsInvariant ==
  ASSUME Init
  PROVE  ElectionInv
<1>1. TypeOK
  BY TypeInit
<1>2. NodeInv
  <2>1. \A i \in Node : DurableAt(i) /\ role[i] = Follower
    BY DEF Init, DurableAt, Blank
  <2>2. \A i \in Node : StandingAt(i) /\ role[i] # Leader
    BY <2>1 DEF StandingAt, Follower, Candidate, Leader
  <2>3. QED
    BY <1>1, <2>1, <2>2
    DEF NodeInv, MemoryIsDurable, CursorsInRange, Standing, TypeOK
<1>3. WireInv
  BY <1>2 DEF Init, WireInv, SentIsWritten, GrantsAreDurable, OneGrantPerTerm,
     LeadersElected, SendersElected, Follower, Leader
<1>4. QED
  BY <1>1, <1>2, <1>3 DEF ElectionInv

LEMMA NextKeepsInvariant ==
  ASSUME ElectionInv, Next
  PROVE  ElectionInv' /\ Forward
<1>1. TypeOK'
  BY TypeStep DEF ElectionInv, NodeInv
<1>2. GoodStep
  BY <1>1, StepIsGood
<1>3. WireInv'
  BY <1>1, <1>2, WireStep
<1>4. QED
  BY <1>1, <1>2, <1>3 DEF ElectionInv, NodeInv, GoodStep

LEMMA StutterKeepsInvariant ==
  ASSUME ElectionInv, UNCHANGED vars
  PROVE  ElectionInv' /\ Forward
<1>1. /\ disk' = disk /\ live' = live /\ wire' = wire
      /\ term' = term /\ voted_for' = voted_for /\ log' = log
      /\ role' = role /\ leader_id' = leader_id /\ votes' = votes
      /\ commit_index' = commit_index /\ applied_index' = applied_index
      /\ next_index' = next_index /\ match_index' = match_index
  BY DEF vars, memory, indices, cursors
<1>2. TypeOK'
  BY <1>1 DEF ElectionInv, TypeOK
<1>3. GoodStep
  <2>1. \A i \in live : DurableAt(i)' /\ (role'[i] = Leader => InRange(i)')
    BY <1>1, NodeFacts DEF DurableAt, InRange
  <2>2. SendsFresh /\ Forward
    BY <1>1 DEF SendsFresh, Forward, ForwardAt
  <2>3. \A i \in live : StandingAt(i)'
    BY <1>1, StandingKept
  <2>4. QED
    BY <1>1, <2>1, <2>2, <2>3 DEF GoodStep, MemoryIsDurable, CursorsInRange, Standing
<1>4. WireInv'
  BY <1>2, <1>3, WireStep
<1>5. QED
  BY <1>2, <1>3, <1>4 DEF ElectionInv, NodeInv, GoodStep

\* Every behaviour of the cluster keeps the election invariant.
THEOREM InvariantHolds == Spec => []ElectionInv
<1>1. Init => ElectionInv
  BY InitIsInvariant
<1>2. ElectionInv /\ [Next]_vars => ElectionInv'
  BY NextKeepsInvariant, StutterKeepsInvariant
<1>3. QED
  BY <1>1, <1>2, PTL DEF Spec

-----------------------------------------------------------------------------
(* What follows for the cluster *)

\* Two majorities share a node.
LEMMA QuorumsMeet ==
  ASSUME NEW P \in SUBSET Node, NEW Q \in SUBSET Node, IsQuorum(P), IsQuorum(Q)
  PROVE  \E v \in Node : v \in P /\ v \in Q
<1>1. IsFiniteSet(Node)
  BY NodeAssumption
<1>2. /\ Cardinality(Node) \in Nat /\ Cardinality(P) \in Nat /\ Cardinality(Q) \in Nat
  BY <1>1, FS_Subset, FS_CardinalityType
<1>3. Cardinality(P) + Cardinality(Q) > Cardinality(Node)
  BY <1>2 DEF IsQuorum
<1>4. P \cap Q # {}
  BY <1>1, <1>3, FS_MajoritiesIntersect
<1>5. QED
  BY <1>4

\* At most one node is elected in a term: the node in both majorities voted for
\* both, which a voter never does, and a candidate never for another.
LEMMA OneIsElected ==
  ASSUME ElectionInv, NEW a \in Node, NEW b \in Node, NEW t \in Nat,
         Elected(a, t), Elected(b, t)
  PROVE  a = b
<1>1. PICK P \in SUBSET Node : IsQuorum(P) /\ \A v \in P : VotedFor(v, a, t)
  BY DEF Elected
<1>2. PICK Q \in SUBSET Node : IsQuorum(Q) /\ \A v \in Q : VotedFor(v, b, t)
  BY DEF Elected
<1>3. PICK v \in Node : VotedFor(v, a, t) /\ VotedFor(v, b, t)
  BY <1>1, <1>2, QuorumsMeet
<1>4. CASE v = a \/ v = b
  BY <1>3, <1>4 DEF VotedFor, Elected
<1>5. CASE v # a /\ v # b
  BY <1>3, <1>5 DEF VotedFor, ElectionInv, WireInv, OneGrantPerTerm
<1>6. QED
  BY <1>4, <1>5

LEMMA InvariantGivesSafety ==
  ASSUME ElectionInv
  PROVE  OneSenderPerTerm /\ NoRivalAppend
<1>1. \A m \in wire : IsAppend(m) => /\ m.from \in Node /\ m.term \in Nat
                                    /\ Elected(m.from, m.term)
  BY MessageFields DEF ElectionInv, TypeOK, WireInv, SendersElected
<1>2. \A i \in live : role[i] = Leader => i \in Node /\ Elected(i, term[i])
  BY DEF ElectionInv, TypeOK, WireInv, LeadersElected
<1>3. OneSenderPerTerm
  BY <1>1, OneIsElected DEF OneSenderPerTerm, IsAppend
<1>4. NoRivalAppend
  BY <1>1, <1>2, OneIsElected DEF NoRivalAppend, IsAppend
<1>5. QED
  BY <1>3, <1>4

\* The state of every node and every message on the wire keep the types the
\* source gives them, whatever the messages, crashes and restarts.
THEOREM TypeCorrect == Spec => []TypeOK
<1>1. ElectionInv => TypeOK
  BY DEF ElectionInv
<1>2. QED
  BY <1>1, InvariantHolds, PTL

\* A vote that was sent is the vote on the voter's disk, for as long as the
\* voter stays in that term (on_request_vote writes before it answers).
THEOREM VotesAreDurable == Spec => []GrantsAreDurable
<1>1. ElectionInv => GrantsAreDurable
  BY DEF ElectionInv, WireInv
<1>2. QED
  BY <1>1, InvariantHolds, PTL

\* No step takes back a term or a vote within a term: not step_down, not
\* start_election, not a crash between two writes, not Node::new.
THEOREM VotesAreFinal == Spec => VoteNeverChanges
<1>1. ElectionInv /\ [Next]_vars =>
        [\A i \in Node :
           \/ disk'[i].term > disk[i].term
           \/ /\ disk'[i].term = disk[i].term
              /\ disk[i].voted_for \in {Nil, disk'[i].voted_for}]_vars
  BY NextKeepsInvariant, StutterKeepsInvariant DEF Forward, ForwardAt
<1>2. QED
  BY <1>1, InvariantHolds, PTL DEF Spec, VoteNeverChanges

\* append_for can always slice: a leader's cursors point into its log or just
\* past it, in whatever order answers, hints and duplicates arrive.
THEOREM CursorsStayInRange == Spec => []CursorsInRange
<1>1. ElectionInv => CursorsInRange
  BY DEF ElectionInv, NodeInv
<1>2. QED
  BY <1>1, InvariantHolds, PTL

\* Election safety: over all time, at most one node sends AppendEntries in any
\* given term.
THEOREM ElectionSafety == Spec => []OneSenderPerTerm
  BY InvariantGivesSafety, InvariantHolds, PTL

\* The debug assertion of on_append_entries ("two leaders in term") never fires.
THEOREM NoTwoLeadersMeet == Spec => []NoRivalAppend
  BY InvariantGivesSafety, InvariantHolds, PTL

=============================================================================
