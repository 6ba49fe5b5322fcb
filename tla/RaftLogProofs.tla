---------------------------- MODULE RaftLogProofs ----------------------------
(***************************************************************************)
(* Log matching, for any cluster and any sequence of elections, crashes,   *)
(* losses and duplicates: every log on a disk and every piece of a log in  *)
(* a message comes from the log of some term's leader.                     *)
(***************************************************************************)
EXTENDS RaftHistory, RaftElectionProofs

-----------------------------------------------------------------------------
(* Prefixes *)

LEMMA PrefixTransitive ==
  ASSUME NEW a, NEW b, NEW c, NEW n, SamePrefix(a, b, n), SamePrefix(b, c, n)
  PROVE  SamePrefix(a, c, n) /\ SamePrefix(b, a, n)
  BY DEF SamePrefix

LEMMA PrefixShorter ==
  ASSUME NEW a \in Seq(Entry), NEW b \in Seq(Entry), NEW n \in Int, NEW k \in Int,
         k <= n, SamePrefix(a, b, n)
  PROVE  SamePrefix(a, b, k) /\ SamePrefix(b, a, k)
<1>1. Len(a) \in Nat /\ Len(b) \in Nat
  BY LenProperties
<1>2. QED
  BY <1>1 DEF SamePrefix

\* Equal up to n, element by element, is equal up to n.
LEMMA PrefixSubSeq ==
  ASSUME NEW a \in Seq(Entry), NEW b \in Seq(Entry), NEW n \in Nat,
         SamePrefix(a, b, n)
  PROVE  SubSeq(a, 1, n) = SubSeq(b, 1, n)
<1>1. Len(a) \in Nat /\ Len(b) \in Nat /\ n <= Len(a) /\ n <= Len(b)
      /\ \A k \in 1 .. n : a[k] = b[k]
  BY LenProperties DEF SamePrefix
<1>2. /\ \A k \in 1 .. n : a[k] \in Entry
      /\ \A k \in 1 .. n : b[k] \in Entry
  BY <1>1, ElementOfSeq
<1>3. /\ SubSeq(a, 1, n) = [k \in 1 .. n |-> a[1 + k - 1]]
      /\ SubSeq(b, 1, n) = [k \in 1 .. n |-> b[1 + k - 1]]
  BY <1>1
<1>4. QED
  BY <1>1, <1>3

\* Two logs made of pieces of the leaders' logs, with an entry of the same term
\* at n, are the same up to n.
LEMMA SameTermSamePrefix ==
  ASSUME NEW led \in [Term -> Seq(Entry)], NEW a \in Seq(Entry), NEW b \in Seq(Entry),
         Fits(a, led), Fits(b, led), NEW n \in Nat, n <= Len(a), n <= Len(b),
         TermAt(a, n) = TermAt(b, n)
  PROVE  SamePrefix(a, b, n)
<1>1. CASE n = 0
  BY <1>1, LenProperties DEF SamePrefix
<1>2. CASE n # 0
  <2>1. n \in 1 .. Len(a) /\ n \in 1 .. Len(b) /\ a[n].term = b[n].term
    BY <1>2, LenProperties DEF TermAt
  <2>2. SamePrefix(a, led[a[n].term], n) /\ SamePrefix(b, led[a[n].term], n)
    BY <2>1 DEF Fits
  <2>3. QED
    BY <2>2 DEF SamePrefix
<1>3. QED
  BY <1>1, <1>2

-----------------------------------------------------------------------------
(* AppendEntries against a follower's log *)

\* What the invariant says of a message and of the log that receives it.
LEMMA MessageFacts ==
  ASSUME ElectionInv, NEW led \in [Term -> Seq(Entry)], LogInv(led),
         NEW m \in wire, IsAppend(m)
  PROVE  /\ m.term \in Nat /\ m.from \in Node
         /\ m.prev_index \in Nat /\ m.entries \in Seq(Entry)
         /\ Len(m.entries) \in Nat
         /\ led[m.term] \in Seq(Entry) /\ Len(led[m.term]) \in Nat
         /\ SliceOf(m, led[m.term])
         /\ Fits(led[m.term], led) /\ BoundedBy(led[m.term], m.term)
<1>1. /\ m.term \in Nat /\ m.from \in Node
      /\ m.prev_index \in Nat /\ m.entries \in Seq(Entry)
  BY MessageFields DEF ElectionInv, TypeOK, IsAppend, AppendEntries, Index
<1>2. led[m.term] \in Seq(Entry) /\ m.term \in DOMAIN led
  BY <1>1 DEF Term
<1>3. QED
  BY <1>1, <1>2, LenProperties DEF LogInv, SentFits, LedFits

LEMMA LogFacts ==
  ASSUME ElectionInv, NEW led \in [Term -> Seq(Entry)], LogInv(led), NEW i \in Node
  PROVE  /\ disk[i].log \in Seq(Entry) /\ Len(disk[i].log) \in Nat
         /\ disk[i].term \in Nat
         /\ Fits(disk[i].log, led) /\ BoundedBy(disk[i].log, disk[i].term)
         /\ i \in live => disk[i].log = log[i] /\ disk[i].term = term[i]
<1>1. disk[i] \in Persistent
  BY DEF ElectionInv, TypeOK
<1>2. QED
  BY <1>1, LenProperties, NodeFacts DEF LogInv, DiskFits, Persistent, Term

\* A log that has the entry a message follows, and then the terms of its first
\* k entries, agrees with the sender's up to there.
LEMMA AgreesUpTo ==
  ASSUME ElectionInv, NEW led \in [Term -> Seq(Entry)], LogInv(led),
         NEW i \in live, NEW m \in wire, IsAppend(m), Consistent(i, m),
         NEW k \in Nat, k <= Len(m.entries), k # 0 => k \notin Missing(i, m)
  PROVE  SamePrefix(log[i], led[m.term], m.prev_index + k)
<1>1. i \in Node /\ log[i] \in Seq(Entry) /\ Len(log[i]) \in Nat /\ Fits(log[i], led)
  BY LogFacts, NodeFacts
<1>2. /\ m.prev_index \in Nat /\ Len(m.entries) \in Nat
      /\ led[m.term] \in Seq(Entry) /\ Len(led[m.term]) \in Nat
      /\ SliceOf(m, led[m.term]) /\ Fits(led[m.term], led)
  BY MessageFacts
<1>3. /\ m.prev_index + k \in Nat
      /\ m.prev_index + k <= Len(log[i])
      /\ m.prev_index + k <= Len(led[m.term])
      /\ TermAt(log[i], m.prev_index + k) = TermAt(led[m.term], m.prev_index + k)
  <2>1. CASE k = 0
    BY <1>1, <1>2, <2>1 DEF Consistent, SliceOf
  <2>2. CASE k # 0
    <3>1. k \in 1 .. Len(m.entries) /\ k \notin Missing(i, m)
      BY <1>2, <2>2
    <3>2. /\ ~(m.prev_index + k > Len(log[i]))
          /\ log[i][m.prev_index + k].term = m.entries[k].term
      BY <3>1 DEF Missing
    <3>3. /\ m.entries[k] = led[m.term][m.prev_index + k]
          /\ m.prev_index + Len(m.entries) <= Len(led[m.term])
      BY <1>2, <3>1 DEF SliceOf
    <3>4. /\ m.prev_index + k # 0 /\ m.prev_index + k \in Nat
          /\ m.prev_index + k <= Len(log[i])
          /\ m.prev_index + k <= Len(led[m.term])
      <4>1. PICK p \in Nat, n \in Nat, a \in Nat, b \in Nat :
              /\ p = m.prev_index /\ n = Len(m.entries)
              /\ a = Len(log[i]) /\ b = Len(led[m.term])
        BY <1>1, <1>2
      <4>2. k \in 1 .. n /\ ~(p + k > a) /\ p + n <= b
        BY <3>1, <3>2, <3>3, <4>1
      <4>3. p + k # 0 /\ p + k \in Nat /\ p + k <= a /\ p + k <= b
        BY <4>2
      <4>4. QED
        BY <4>1, <4>3
    <3>5. log[i][m.prev_index + k].term = led[m.term][m.prev_index + k].term
      BY <3>2, <3>3
    <3>6. QED
      BY <3>4, <3>5 DEF TermAt
  <2>3. QED
    BY <2>1, <2>2
<1>4. QED
  BY <1>1, <1>2, <1>3, SameTermSamePrefix

\* A log cut after entry p + k - 1, followed by b from entry k on.
LEMMA SpliceElements ==
  ASSUME NEW a \in Seq(Entry), NEW b \in Seq(Entry), NEW p \in Nat,
         NEW k \in 1 .. Len(b), p + k <= Len(a) + 1
  PROVE  LET c == SubSeq(a, 1, p + k - 1)
             l == c \o SubSeq(b, k, Len(b))
         IN /\ c \in Seq(Entry) /\ Len(c) = p + k - 1
            /\ \A n \in 1 .. Len(c) : c[n] = a[n]
            /\ l \in Seq(Entry) /\ Len(l) = p + Len(b)
            /\ \A n \in 1 .. Len(l) :
                 l[n] = IF n < p + k THEN a[n] ELSE b[n - p]
<1> DEFINE c == SubSeq(a, 1, p + k - 1)
           d == SubSeq(b, k, Len(b))
           l == c \o d
<1>1. /\ Len(a) \in Nat /\ Len(b) \in Nat /\ k \in Nat
      /\ \A n \in 1 .. Len(a) : a[n] \in Entry
      /\ \A n \in 1 .. Len(b) : b[n] \in Entry
  BY LenProperties, ElementOfSeq
<1>2. /\ c \in Seq(Entry) /\ Len(c) = p + k - 1
      /\ \A n \in 1 .. p + k - 1 : c[n] = a[n]
  <2>1. \A n \in 1 .. p + k - 1 : a[n] \in Entry
    BY <1>1
  <2>2. QED
    BY <1>1, <2>1, SubSeqProperties
<1>3. /\ d \in Seq(Entry) /\ Len(d) = Len(b) - k + 1
      /\ \A n \in 1 .. Len(b) - k + 1 : d[n] = b[k + n - 1]
  <2>1. \A n \in k .. Len(b) : b[n] \in Entry
    BY <1>1
  <2>2. QED
    BY <1>1, <2>1, SubSeqProperties
<1> HIDE DEF c, d
<1>4. /\ l \in Seq(Entry) /\ Len(l) = Len(c) + Len(d)
      /\ \A n \in 1 .. Len(c) + Len(d) :
           l[n] = IF n <= Len(c) THEN c[n] ELSE d[n - Len(c)]
  BY <1>2, <1>3, ConcatProperties
<1> HIDE DEF l
<1>5. /\ Len(c) \in Nat /\ Len(d) \in Nat /\ Len(l) = p + Len(b)
      /\ \A n \in 1 .. p + Len(b) :
           l[n] = IF n <= Len(c) THEN c[n] ELSE d[n - Len(c)]
  <2>1. Len(c) \in Nat /\ Len(d) \in Nat
    BY <1>2, <1>3, LenProperties
  <2>2. Len(c) + Len(d) = p + Len(b)
    BY <1>1, <1>2, <1>3
  <2>3. QED
    BY <1>4, <2>1, <2>2
<1>6. ASSUME NEW n \in 1 .. p + Len(b)
      PROVE  l[n] = IF n < p + k THEN a[n] ELSE b[n - p]
  <2>1. CASE n < p + k
    <3>1. n \in 1 .. p + k - 1 /\ n <= Len(c)
      BY <1>1, <1>2, <2>1
    <3>2. QED
      BY <1>2, <1>5, <2>1, <3>1
  <2>2. CASE ~(n < p + k)
    <3>1. n - Len(c) \in 1 .. Len(b) - k + 1 /\ k + (n - Len(c)) - 1 = n - p
          /\ ~(n <= Len(c))
      BY <1>1, <1>2, <2>2
    <3>2. l[n] = d[n - Len(c)]
      BY <1>5, <3>1
    <3>3. QED
      BY <1>3, <2>2, <3>1, <3>2
  <2>3. QED
    BY <2>1, <2>2
<1>7. QED
  BY <1>2, <1>4, <1>5, <1>6 DEF c, d, l

\* Both come from one log if a and b do.
LEMMA SpliceIsPrefix ==
  ASSUME NEW a \in Seq(Entry), NEW b \in Seq(Entry), NEW r \in Seq(Entry),
         NEW p \in Nat, NEW k \in 1 .. Len(b), p + k <= Len(a) + 1,
         SamePrefix(a, r, p + k - 1), p + Len(b) <= Len(r),
         \A q \in 1 .. Len(b) : b[q] = r[p + q]
  PROVE  LET c == SubSeq(a, 1, p + k - 1)
             l == c \o SubSeq(b, k, Len(b))
         IN /\ c \in Seq(Entry) /\ Len(c) = p + k - 1
            /\ SamePrefix(c, r, p + k - 1)
            /\ l \in Seq(Entry) /\ Len(l) = p + Len(b)
            /\ SamePrefix(l, r, p + Len(b))
<1> DEFINE c == SubSeq(a, 1, p + k - 1)
           l == c \o SubSeq(b, k, Len(b))
<1>1. /\ Len(a) \in Nat /\ Len(b) \in Nat /\ Len(r) \in Nat
  BY LenProperties
<1>2. /\ c \in Seq(Entry) /\ Len(c) = p + k - 1
      /\ \A n \in 1 .. Len(c) : c[n] = a[n]
      /\ l \in Seq(Entry) /\ Len(l) = p + Len(b)
      /\ \A n \in 1 .. Len(l) : l[n] = IF n < p + k THEN a[n] ELSE b[n - p]
  BY SpliceElements
<1> HIDE DEF c, l
<1>3. p + k - 1 <= p + Len(b) /\ p + k - 1 \in Nat
  BY <1>1
<1>4. SamePrefix(c, r, p + k - 1)
  BY <1>1, <1>2, <1>3 DEF SamePrefix
<1>5. ASSUME NEW n \in 1 .. p + Len(b) PROVE l[n] = r[n]
  <2>1. CASE n < p + k
    <3>1. n \in 1 .. p + k - 1
      BY <1>1, <2>1
    <3>2. QED
      BY <1>2, <2>1, <3>1 DEF SamePrefix
  <2>2. CASE ~(n < p + k)
    <3>1. n - p \in 1 .. Len(b) /\ p + (n - p) = n
      BY <1>1, <2>2
    <3>2. QED
      BY <1>2, <2>2, <3>1
  <2>3. QED
    BY <2>1, <2>2
<1>6. SamePrefix(l, r, p + Len(b))
  <2>1. p + Len(b) <= Len(l)
    BY <1>1, <1>2
  <2>2. QED
    BY <1>5, <2>1 DEF SamePrefix
<1>7. QED
  BY <1>2, <1>4, <1>6 DEF c, l

\* Where the message is spliced in, the log stops agreeing with the sender's;
\* the result is the sender's log up to the end of the message.
LEMMA SpliceAgrees ==
  ASSUME ElectionInv, NEW led \in [Term -> Seq(Entry)], LogInv(led),
         NEW i \in live, NEW m \in wire, IsAppend(m), Consistent(i, m),
         NEW k \in Lowest(Missing(i, m))
  PROVE  LET x == m.prev_index + k
             l == Spliced(i, m, k)
             c == SubSeq(log[i], 1, m.prev_index + k - 1)
         IN /\ x \in Nat \ {0} /\ x <= Len(led[m.term])
            /\ x <= Len(log[i]) => log[i][x] # led[m.term][x]
            /\ c \in Seq(Entry) /\ Len(c) = x - 1
            /\ SamePrefix(c, led[m.term], x - 1)
            /\ l \in Seq(Entry) /\ Len(l) = m.prev_index + Len(m.entries)
            /\ x <= Len(l)
            /\ SamePrefix(l, led[m.term], Len(l))
<1> DEFINE l == Spliced(i, m, k)
           c == SubSeq(log[i], 1, m.prev_index + k - 1)
<1>1. i \in Node /\ log[i] \in Seq(Entry) /\ Len(log[i]) \in Nat
  BY LogFacts, NodeFacts
<1>2. /\ m.prev_index \in Nat /\ Len(m.entries) \in Nat /\ m.entries \in Seq(Entry)
      /\ led[m.term] \in Seq(Entry) /\ Len(led[m.term]) \in Nat
      /\ m.prev_index + Len(m.entries) <= Len(led[m.term])
      /\ \A q \in 1 .. Len(m.entries) : m.entries[q] = led[m.term][m.prev_index + q]
  BY MessageFacts DEF SliceOf
<1>3. k \in 1 .. Len(m.entries) /\ k \in Missing(i, m)
      /\ \A q \in Missing(i, m) : k <= q
  BY DEF Lowest, Missing
<1>4. /\ m.prev_index + k \in Nat \ {0} /\ m.prev_index + k <= Len(log[i]) + 1
  BY <1>1, WireTyped, SuffixType DEF ElectionInv, IsAppend
<1>5. SamePrefix(log[i], led[m.term], m.prev_index + k - 1)
  <2>1. k - 1 \in Nat /\ k - 1 <= Len(m.entries) /\ k - 1 \notin Missing(i, m)
    BY <1>2, <1>3
  <2>2. QED
    BY <2>1, AgreesUpTo
<1>6. m.prev_index + k <= Len(led[m.term])
      /\ m.prev_index + k <= m.prev_index + Len(m.entries)
      /\ m.prev_index + k - 1 = (m.prev_index + k) - 1
  BY <1>2, <1>3
<1>7. m.prev_index + k <= Len(log[i]) =>
        log[i][m.prev_index + k] # led[m.term][m.prev_index + k]
  <2>1. m.prev_index + k <= Len(log[i]) =>
          log[i][m.prev_index + k].term # m.entries[k].term
    BY <1>1, <1>2, <1>3 DEF Missing
  <2>2. QED
    BY <1>2, <1>3, <2>1
<1>8. /\ c \in Seq(Entry) /\ Len(c) = m.prev_index + k - 1
      /\ SamePrefix(c, led[m.term], m.prev_index + k - 1)
      /\ l \in Seq(Entry) /\ Len(l) = m.prev_index + Len(m.entries)
      /\ SamePrefix(l, led[m.term], m.prev_index + Len(m.entries))
  BY <1>1, <1>2, <1>3, <1>4, <1>5, SpliceIsPrefix DEF Spliced, Suffix
<1>9. QED
  BY <1>4, <1>6, <1>7, <1>8

-----------------------------------------------------------------------------
(* What each action does to the log of its node *)

\* append_for's slice is a piece of the leader's log.
LEMMA AppendIsSlice ==
  ASSUME TypeOK', NEW i \in Node, NEW p \in Node \ {i}, InRange(i)'
  PROVE  SliceOf(AppendFor(i, p)', log'[i])
<1> DEFINE l == log'[i]
           prev == next_index'[i][p] - 1
           end == Lower(Len(l), prev + MaxBatch)
           s == SubSeq(l, prev + 1, end)
<1>1. /\ l \in Seq(Entry) /\ Len(l) \in Nat
      /\ \A n \in 1 .. Len(l) : l[n] \in Entry
  BY LenProperties, ElementOfSeq DEF TypeOK
<1>2. prev \in Nat /\ prev <= Len(l)
  BY <1>1 DEF TypeOK, Index, InRange
<1>3. AppendFor(i, p)'.prev_index = prev /\ AppendFor(i, p)'.entries = s
      /\ AppendFor(i, p)'.prev_term = TermAt(l, prev)
  BY DEF AppendFor
<1> HIDE DEF l, prev
<1>4. end \in Nat /\ prev <= end /\ end <= Len(l)
  BY <1>1, <1>2, MaxBatchAssumption DEF Lower
<1> HIDE DEF end
<1>5. \A n \in prev + 1 .. end : l[n] \in Entry
  BY <1>1, <1>2, <1>4
<1>6. /\ Len(s) = end - prev
      /\ \A k \in 1 .. Len(s) : s[k] = l[prev + k]
  <2>1. /\ Len(s) = IF prev + 1 <= end THEN end - (prev + 1) + 1 ELSE 0
        /\ \A k \in 1 .. end - (prev + 1) + 1 : s[k] = l[prev + 1 + k - 1]
    BY <1>2, <1>4, <1>5, SubSeqProperties
  <2>2. Len(s) = end - prev /\ end - (prev + 1) + 1 = end - prev
    BY <1>2, <1>4, <2>1
  <2>3. \A k \in 1 .. end - prev : prev + 1 + k - 1 = prev + k
    BY <1>2
  <2>4. QED
    BY <2>1, <2>2, <2>3
<1>7. prev + Len(s) <= Len(l)
  BY <1>2, <1>4, <1>6
<1>8. QED
  BY <1>3, <1>6, <1>7 DEF SliceOf, l

LEMMA BroadcastSends ==
  ASSUME ElectionInv, TypeOK', NEW i \in Node, LocalStep(i),
         i \in live', role'[i] = Leader, BroadcastAppend(i)
  PROVE  LeaderSends(i)
<1>1. InRange(i)'
  BY DEF LocalStep
<1>2. \A p \in Node \ {i} :
        /\ AppendFor(i, p)'.from = i /\ AppendFor(i, p)'.term = term'[i]
        /\ SliceOf(AppendFor(i, p)', log'[i])
  BY <1>1, AppendIsSlice DEF AppendFor
<1>3. QED
  BY <1>2 DEF LeaderSends, BroadcastAppend, Send

LEMMA VotingIsIdle ==
  ASSUME ElectionInv, TypeOK', NEW i \in Node, NEW m \in wire,
         GrantVote(i, m) \/ DenyVote(i, m) \/ StepDown(i, m) \/ CountVote(i, m)
  PROVE  Idle(i)
<1>1. TypeOK /\ i \in live
  BY DEF ElectionInv, GrantVote, DenyVote, OnRequestVote, StepDown, CountVote,
     OnVoteResponse, Deliverable
<1>2. /\ DiskAfter(i, m) \in Persistent /\ DiskAfter(i, m).log = disk[i].log
      /\ m.from \in Node /\ m.term \in Nat /\ TermAfter(i, m) \in Nat
  BY <1>1, WireTyped, PreludeType, MessageFields DEF TypeOK
<1>3. ASSUME GrantVote(i, m) \/ DenyVote(i, m) PROVE Idle(i)
  <2>1. /\ term' = [term EXCEPT ![i] = TermAfter(i, m)]
        /\ role' = [role EXCEPT ![i] = RoleAfter(i, m)] /\ live' = live
    BY <1>3 DEF GrantVote, DenyVote, OnRequestVote
  <2>2. disk'[i].log = disk[i].log
    BY <1>1, <1>2, <1>3, SaveType DEF GrantVote, DenyVote, GrantDisk, TypeOK
  <2>3. LeaderSends(i)
    <3>1. \A granted : ~IsAppend(VoteReply(i, m, granted))
      BY DEF VoteReply, IsAppend
    <3>2. QED
      BY <1>3, <3>1 DEF GrantVote, DenyVote, Send, LeaderSends
  <2>4. role'[i] \in {Leader, Candidate} => role'[i] = role[i] /\ term'[i] = term[i]
    BY <1>1, <2>1, PreludeKeepsStanding DEF TypeOK
  <2>5. QED
    BY <1>1, <2>1, <2>2, <2>3, <2>4 DEF Idle, StandsFor
<1>4. ASSUME StepDown(i, m) PROVE Idle(i)
  <2>1. /\ disk'[i].log = disk[i].log /\ role'[i] = Follower /\ wire' = wire
    BY <1>1, <1>2, <1>4 DEF StepDown, TypeOK
  <2>2. QED
    BY <2>1 DEF Idle, LeaderSends, Follower, Candidate, Leader
<1>5. ASSUME CountVote(i, m) PROVE Idle(i)
  BY <1>1, <1>5 DEF CountVote, OnVoteResponse, Idle, LeaderSends, StandsFor
<1>6. QED
  BY <1>3, <1>4, <1>5

LEMMA LocalIsIdle ==
  ASSUME ElectionInv, TypeOK', NEW i \in Node, LocalStep(i),
         \/ Campaign(i) \/ Heartbeat(i) \/ TakeCommitted(i)
         \/ Crash(i) \/ CrashInCampaign(i) \/ Restart(i)
  PROVE  Idle(i)
<1>1. TypeOK /\ disk[i] \in Persistent /\ term[i] \in Nat /\ term[i] + 1 \in Nat
  BY DEF ElectionInv, TypeOK, Term
<1>2. /\ SelfVote(i) \in Persistent /\ SelfVote(i).log = disk[i].log
  BY <1>1, SaveType DEF SelfVote
<1>3. ASSUME Campaign(i) PROVE Idle(i)
  <2>1. /\ i \in live /\ term'[i] = term[i] + 1 /\ disk[i].term = term[i]
        /\ disk'[i].log = disk[i].log /\ role'[i] = Candidate
    BY <1>1, <1>2, <1>3, NodeFacts DEF Campaign, StartElection, TypeOK
  <2>2. LeaderSends(i)
    BY <1>3 DEF Campaign, Send, LeaderSends, IsAppend
  <2>3. term'[i] > disk[i].term /\ role'[i] # Leader
    BY <1>1, <2>1 DEF Candidate, Leader
  <2>4. QED
    BY <2>1, <2>2, <2>3 DEF Idle
<1>4. ASSUME Heartbeat(i) PROVE Idle(i)
  <2>1. /\ i \in live /\ live' = live /\ disk' = disk /\ term' = term /\ role' = role
        /\ role[i] = Leader /\ BroadcastAppend(i)
    BY <1>4 DEF Heartbeat, memory
  <2>2. LeaderSends(i)
    BY <2>1, BroadcastSends
  <2>3. QED
    BY <2>1, <2>2 DEF Idle, Candidate, Leader
<1>5. ASSUME TakeCommitted(i) PROVE Idle(i)
  BY <1>5 DEF TakeCommitted, Idle, memory, LeaderSends, StandsFor
<1>6. ASSUME Crash(i) \/ CrashInCampaign(i) PROVE Idle(i)
  <2>1. disk'[i].log = disk[i].log /\ i \notin live' /\ wire' = wire
    BY <1>1, <1>2, <1>6 DEF Crash, CrashInCampaign, CrashWith, TypeOK
  <2>2. QED
    BY <2>1 DEF Idle, LeaderSends
<1>7. ASSUME Restart(i) PROVE Idle(i)
  <2>1. disk' = disk /\ wire' = wire /\ role'[i] = Follower
    BY <1>1, <1>7 DEF Restart, FreshVolatile, TypeOK
  <2>2. QED
    BY <2>1 DEF Idle, LeaderSends, Follower, Candidate, Leader
<1>8. QED
  BY <1>3, <1>4, <1>5, <1>6, <1>7

\* Answers to a leader, and AppendEntries that change no log.
LEMMA AnswersAreIdle ==
  ASSUME ElectionInv, TypeOK', NEW i \in Node, NEW m \in wire, LocalStep(i),
         \/ RejectStale(i, m) \/ RejectAppend(i, m) \/ AcceptKnown(i, m)
         \/ AckSuccess(i, m) \/ AckFailure(i, m) \/ CrashInStepDown(i, m)
  PROVE  Idle(i)
<1>1. /\ TypeOK /\ i \in live /\ m.from \in Node \ {i}
      /\ DiskAfter(i, m) \in Persistent /\ DiskAfter(i, m).log = disk[i].log
  BY WireTyped, PreludeType, MessageFields DEF ElectionInv, TypeOK, RejectStale, RejectAppend,
     AcceptKnown, AcceptAppend, FollowLeader, AckSuccess, AckFailure,
     OnAppendResponse, CrashInStepDown, Deliverable
<1>2. ASSUME NEW success, NEW n PROVE ~IsAppend(AppendReply(i, m, success, n))
  BY DEF AppendReply, IsAppend
<1>3. ASSUME RejectStale(i, m) PROVE Idle(i)
  BY <1>1, <1>2, <1>3 DEF RejectStale, Send, memory, Idle, LeaderSends, StandsFor
<1>4. ASSUME RejectAppend(i, m) \/ AcceptKnown(i, m) PROVE Idle(i)
  <2>1. disk'[i].log = disk[i].log /\ role'[i] = Follower
    BY <1>1, <1>4 DEF RejectAppend, AcceptKnown, AcceptAppend, FollowLeader, TypeOK
  <2>2. LeaderSends(i)
    <3>1. PICK reply : ~IsAppend(reply) /\ wire' = wire \cup {reply}
      <4>1. CASE RejectAppend(i, m)
        BY <1>2, <4>1 DEF RejectAppend, Send
      <4>2. CASE AcceptKnown(i, m)
        BY <1>2, <4>2 DEF AcceptKnown, AcceptAppend, Send
      <4>3. QED
        BY <1>4, <4>1, <4>2
    <3>2. QED
      BY <3>1 DEF LeaderSends
  <2>3. QED
    BY <2>1, <2>2 DEF Idle, Follower, Candidate, Leader
<1>5. ASSUME AckSuccess(i, m) \/ AckFailure(i, m) PROVE Idle(i)
  <2>1. /\ live' = live /\ disk' = disk /\ term' = term /\ role' = role
        /\ role[i] = Leader
    BY <1>5 DEF AckSuccess, AckFailure, OnAppendResponse, memory
  <2>2. wire' = wire \/ Send({AppendFor(i, m.from)'})
    BY <1>5 DEF AckSuccess, AckFailure, Send
  <2>3. /\ AppendFor(i, m.from)'.from = i /\ AppendFor(i, m.from)'.term = term'[i]
        /\ SliceOf(AppendFor(i, m.from)', log'[i])
    BY <1>1, <2>1, AppendIsSlice DEF AppendFor, LocalStep
  <2>4. LeaderSends(i)
    BY <1>1, <2>1, <2>2, <2>3 DEF LeaderSends, Send
  <2>5. QED
    BY <1>1, <2>1, <2>4 DEF Idle, Candidate, Leader
<1>6. ASSUME CrashInStepDown(i, m) PROVE Idle(i)
  <2>1. disk'[i].log = disk[i].log /\ i \notin live' /\ wire' = wire
    BY <1>1, <1>6 DEF CrashInStepDown, CrashWith, TypeOK
  <2>2. QED
    BY <2>1 DEF Idle, LeaderSends
<1>7. QED
  BY <1>3, <1>4, <1>5, <1>6

LEMMA AppendOne ==
  ASSUME NEW d \in Persistent, NEW e \in Entry
  PROVE  AppendTo(d, <<e>>).log = Append(d.log, e)
<1>1. d.log \in Seq(Entry) /\ <<e>> \in Seq(Entry)
  BY DEF Persistent
<1>2. AppendTo(d, <<e>>).log = d.log \o <<e>>
  BY <1>1, AppendToType
<1>3. Append(d.log, e) = d.log \o <<e>>
  BY <1>1, AppendIsConcat
<1>4. QED
  BY <1>2, <1>3

LEMMA BecomeLeaderGrows ==
  ASSUME ElectionInv, TypeOK', NEW i \in live, NEW t \in Nat, NEW d \in Persistent,
         BecomeLeader(i, t, d), LocalStep(i), live' = live, term'[i] = t,
         d.log = disk[i].log, StandsFor(i, t) \/ t > disk[i].term
  PROVE  Grow(i)
<1> DEFINE noop == [term |-> t, command |-> Noop]
<1>1. i \in Node /\ TypeOK
  BY NodeFacts DEF ElectionInv
<1>2. /\ role'[i] = Leader /\ BroadcastAppend(i)
      /\ disk'[i] = AppendTo(d, <<noop>>)
  BY <1>1 DEF BecomeLeader, TypeOK
<1>3. noop \in Entry
  BY DEF Entry, Term
<1>4. disk'[i].log = Append(disk[i].log, noop)
  BY <1>2, <1>3, AppendOne
<1>5. LeaderSends(i)
  BY <1>1, <1>2, BroadcastSends
<1>6. QED
  BY <1>2, <1>3, <1>4, <1>5 DEF Grow

LEMMA LeadersGrow ==
  ASSUME ElectionInv, TypeOK', NEW i \in Node, LocalStep(i),
         \/ CampaignAlone(i)
         \/ \E m \in wire : WinElection(i, m)
         \/ \E c \in Command \cup {Noop} : Propose(i, c)
  PROVE  Grow(i)
<1>1. TypeOK /\ disk[i] \in Persistent /\ term[i] \in Nat /\ term[i] + 1 \in Nat
  BY DEF ElectionInv, TypeOK, Term
<1>2. ASSUME CampaignAlone(i) PROVE Grow(i)
  <2>1. /\ i \in live /\ live' = live /\ term'[i] = term[i] + 1
        /\ BecomeLeader(i, term[i] + 1, SelfVote(i))
    BY <1>1, <1>2 DEF CampaignAlone, StartElection, TypeOK
  <2>2. /\ SelfVote(i) \in Persistent /\ SelfVote(i).log = disk[i].log
        /\ term[i] + 1 > disk[i].term
    BY <1>1, <2>1, SaveType, NodeFacts DEF SelfVote
  <2>3. QED
    BY <1>1, <2>1, <2>2, BecomeLeaderGrows
<1>3. ASSUME NEW m \in wire, WinElection(i, m) PROVE Grow(i)
  <2>1. /\ i \in live /\ live' = live /\ term'[i] = term[i] /\ role[i] = Candidate
        /\ BecomeLeader(i, term[i], disk[i])
    BY <1>3 DEF WinElection, OnVoteResponse, Deliverable, VoteCounts
  <2>2. QED
    BY <1>1, <2>1, BecomeLeaderGrows DEF StandsFor
<1>4. ASSUME NEW c \in Command \cup {Noop}, Propose(i, c) PROVE Grow(i)
  <2> DEFINE e == [term |-> term[i], command |-> c]
  <2>1. /\ i \in live /\ live' = live /\ role[i] = Leader /\ role' = role
        /\ term' = term /\ disk'[i] = AppendTo(disk[i], <<e>>)
        /\ BroadcastAppend(i)
    BY <1>1, <1>4 DEF Propose, TypeOK
  <2>2. e \in Entry
    BY <1>1 DEF Entry, Term
  <2>3. disk'[i].log = Append(disk[i].log, e)
    BY <1>1, <2>1, <2>2, AppendOne
  <2>4. LeaderSends(i)
    BY <2>1, BroadcastSends
  <2>5. QED
    BY <2>1, <2>2, <2>3, <2>4 DEF Grow
<1>5. QED
  BY <1>2, <1>3, <1>4

LEMMA FollowersObey ==
  ASSUME ElectionInv, TypeOK', NEW i \in Node, NEW m \in wire, LocalStep(i),
         AcceptNew(i, m) \/ CrashInTruncate(i, m)
  PROVE  Obey(i)
<1>1. /\ TypeOK /\ i \in live /\ m.from # i
      /\ IsAppend(m) /\ Current(i, m) /\ Consistent(i, m)
  BY DEF ElectionInv, AcceptNew, AcceptAppend, FollowLeader, CrashInTruncate,
     Deliverable, IsAppend
<1>2. TermAfter(i, m) = m.term
  BY <1>1, MessageFields DEF TypeOK, Term, Current, TermAfter, Newer
<1>3. ASSUME AcceptNew(i, m) PROVE Obey(i)
  <2>1. PICK k \in Lowest(Missing(i, m)) : Splice(i, m, k)
    BY <1>3 DEF AcceptNew
  <2>2. /\ live' = live /\ role'[i] = Follower /\ term'[i] = TermAfter(i, m)
        /\ Send({AppendReply(i, m, TRUE, Matched(i, m))})
    BY <1>1, <1>3 DEF AcceptNew, AcceptAppend, FollowLeader, TypeOK
  <2>3. log'[i] = Spliced(i, m, k)
    BY <1>1, <2>1 DEF Splice, TypeOK
  <2>4. disk'[i].log = Spliced(i, m, k) /\ disk'[i].term = m.term
    BY <1>1, <1>2, <2>2, <2>3 DEF LocalStep, DurableAt
  <2>5. \A n \in wire' : IsAppend(n) => n \in wire
    BY <2>2 DEF Send, AppendReply, IsAppend
  <2>6. QED
    BY <1>1, <2>1, <2>2, <2>4, <2>5 DEF Obey
<1>4. ASSUME CrashInTruncate(i, m) PROVE Obey(i)
  <2>1. PICK k \in Lowest(Missing(i, m)) :
          CrashWith(i, TruncateFrom(DiskAfter(i, m), m.prev_index + k))
    BY <1>4 DEF CrashInTruncate
  <2>2. PICK n \in Nat \ {0} : n = m.prev_index + k
    BY <1>1, WireTyped, SuffixType DEF IsAppend
  <2>3. n <= Len(DiskAfter(i, m).log) + 1
    BY <1>1, <2>2, WireTyped, SuffixType, PreludeKeepsDurable DEF IsAppend
  <2>4. /\ TruncateFrom(DiskAfter(i, m), n).term = m.term
        /\ TruncateFrom(DiskAfter(i, m), n).log = SubSeq(log[i], 1, n - 1)
    <3>1. PICK d \in Persistent : d = DiskAfter(i, m)
      BY <1>1, PreludeKeepsDurable
    <3>2. d.term = m.term /\ d.log = log[i] /\ n <= Len(d.log) + 1
      BY <1>1, <1>2, <2>3, <3>1, PreludeKeepsDurable
    <3>3. QED
      BY <3>1, <3>2, TruncateFromType
  <2>5. m.prev_index + k - 1 = n - 1
    BY <1>1, <2>2, WireTyped, SuffixType DEF IsAppend
  <2>6. /\ i \notin live' /\ wire' = wire
        /\ disk'[i] = TruncateFrom(DiskAfter(i, m), n)
    BY <1>1, <2>1, <2>2 DEF CrashWith, TypeOK
  <2>7. /\ disk'[i].log = SubSeq(log[i], 1, m.prev_index + k - 1)
        /\ disk'[i].term = m.term
    BY <2>4, <2>5, <2>6
  <2>8. QED
    BY <1>1, <2>6, <2>7 DEF Obey
<1>5. QED
  BY <1>3, <1>4

\* Every step is one of the three.
LEMMA ShapeOfStep ==
  ASSUME ElectionInv, TypeOK', NEW i \in Node, StepOf(i)
  PROVE  LocalStep(i) /\ (Idle(i) \/ Grow(i) \/ Obey(i))
<1>1. ASSUME Timeout(i)
      PROVE  LocalStep(i) /\ (Idle(i) \/ Grow(i))
  <2>1. LocalStep(i)
    BY <1>1, CampaignStep, CampaignAloneStep, HeartbeatStep DEF Timeout
  <2>2. QED
    BY <1>1, <2>1, LocalIsIdle, LeadersGrow DEF Timeout
<1>2. ASSUME NEW c \in Command \cup {Noop}, Propose(i, c)
      PROVE  LocalStep(i) /\ Grow(i)
  BY <1>2, ProposeStep, LeadersGrow
<1>3. ASSUME TakeCommitted(i) \/ Crash(i) \/ CrashInCampaign(i) \/ Restart(i)
      PROVE  LocalStep(i) /\ Idle(i)
  <2>1. LocalStep(i)
    BY <1>3, TakeCommittedStep, CrashSteps
  <2>2. QED
    BY <1>3, <2>1, LocalIsIdle
<1>4. ASSUME NEW m \in wire, Handle(i, m) \/ CrashInHandler(i, m)
      PROVE  LocalStep(i) /\ (Idle(i) \/ Grow(i) \/ Obey(i))
  <2>1. LocalStep(i)
    BY <1>4, GrantVoteStep, DenyVoteStep, StepDownStep, CountVoteStep,
       WinElectionStep, RejectStaleStep, FollowerSteps, AckSteps,
       CrashInHandlerSteps DEF Handle, CrashInHandler
  <2>2. \/ GrantVote(i, m) \/ DenyVote(i, m) \/ StepDown(i, m) \/ CountVote(i, m)
        \/ RejectStale(i, m) \/ RejectAppend(i, m) \/ AcceptKnown(i, m)
        \/ AckSuccess(i, m) \/ AckFailure(i, m) \/ CrashInStepDown(i, m)
        \/ WinElection(i, m) \/ AcceptNew(i, m) \/ CrashInTruncate(i, m)
    BY <1>4 DEF Handle, CrashInHandler
  <2>3. QED
    BY <2>1, <2>2, VotingIsIdle, AnswersAreIdle, LeadersGrow, FollowersObey
<1>5. QED
  BY <1>1, <1>2, <1>3, <1>4 DEF StepOf

-----------------------------------------------------------------------------
(* The invariant is inductive *)

LEMMA WinnerIsOne == ElectionInv => OneWinner
  BY OneIsElected DEF OneWinner, Term

LEMMA WinnerIsOneNext == ElectionInv' => OneWinner'
  BY WinnerIsOne, PTL

LEMMA EntryOf ==
  ASSUME NEW l \in Seq(Entry), NEW n \in 1 .. Len(l)
  PROVE  l[n] \in Entry /\ l[n].term \in Nat /\ l[n].term \in Term /\ n \in Nat
<1>1. l[n] \in Entry /\ Len(l) \in Nat
  BY LenProperties, ElementOfSeq
<1>2. QED
  BY <1>1 DEF Entry, Term

LEMMA FitsExtended ==
  ASSUME NEW led \in [Term -> Seq(Entry)], NEW led2 \in [Term -> Seq(Entry)],
         Extended(led, led2), NEW l \in Seq(Entry), Fits(l, led)
  PROVE  Fits(l, led2)
<1>1. SUFFICES ASSUME NEW n \in 1 .. Len(l)
               PROVE  SamePrefix(l, led2[l[n].term], n)
  BY DEF Fits
<1>2. l[n].term \in Term /\ n \in Nat
  BY EntryOf
<1>3. /\ SamePrefix(l, led[l[n].term], n)
      /\ SamePrefix(led[l[n].term], led2[l[n].term], Len(led[l[n].term]))
  BY <1>2 DEF Fits, Extended
<1>4. /\ Len(led[l[n].term]) \in Nat /\ n <= Len(led[l[n].term])
      /\ led[l[n].term] \in Seq(Entry) /\ led2[l[n].term] \in Seq(Entry)
  BY <1>2, <1>3, LenProperties DEF SamePrefix
<1>5. SamePrefix(led[l[n].term], led2[l[n].term], n)
  BY <1>2, <1>3, <1>4, PrefixShorter
<1>6. QED
  BY <1>3, <1>5, PrefixTransitive

LEMMA SliceExtended ==
  ASSUME NEW a \in Seq(Entry), NEW b \in Seq(Entry), SamePrefix(a, b, Len(a)),
         NEW m, m.prev_index \in Nat, Len(m.entries) \in Nat, SliceOf(m, a)
  PROVE  SliceOf(m, b)
<1>1. Len(a) \in Nat /\ Len(b) \in Nat
  BY LenProperties
<1>2. PICK p \in Nat : p = m.prev_index
  OBVIOUS
<1>3. PICK q \in Nat : q = Len(m.entries)
  OBVIOUS
<1>4. /\ p + q <= Len(a) /\ m.prev_term = TermAt(a, p)
      /\ \A k \in 1 .. q : m.entries[k] = a[p + k]
  BY <1>2, <1>3 DEF SliceOf
<1>5. Len(a) <= Len(b) /\ \A k \in 1 .. Len(a) : a[k] = b[k]
  BY <1>1 DEF SamePrefix
<1>6. TermAt(a, p) = TermAt(b, p)
  BY <1>1, <1>4, <1>5 DEF TermAt
<1>7. \A k \in 1 .. q : p + k \in 1 .. Len(a)
  BY <1>1, <1>4
<1>8. p + q <= Len(b)
  BY <1>1, <1>4, <1>5
<1>9. QED
  BY <1>2, <1>3, <1>4, <1>5, <1>6, <1>7, <1>8 DEF SliceOf

\* A log that is part of one the leaders built is made of their pieces too.
LEMMA PrefixFits ==
  ASSUME NEW led \in [Term -> Seq(Entry)], NEW l \in Seq(Entry), NEW r \in Seq(Entry),
         SamePrefix(l, r, Len(l)), Fits(r, led), NEW t \in Nat, BoundedBy(r, t)
  PROVE  Fits(l, led) /\ BoundedBy(l, t)
<1>1. Len(l) \in Nat /\ Len(r) \in Nat /\ Len(l) <= Len(r)
      /\ \A n \in 1 .. Len(l) : l[n] = r[n]
  BY LenProperties DEF SamePrefix
<1>2. ASSUME NEW n \in 1 .. Len(l)
      PROVE  SamePrefix(l, led[l[n].term], n) /\ l[n].term <= t
  <2>1. n \in 1 .. Len(r) /\ l[n] = r[n]
    BY <1>1
  <2>2. SamePrefix(r, led[r[n].term], n) /\ r[n].term <= t
    BY <2>1 DEF Fits, BoundedBy
  <2>3. \A k \in 1 .. n : k \in 1 .. Len(l)
    BY <1>1
  <2>4. QED
    BY <1>1, <2>1, <2>2, <2>3 DEF SamePrefix
<1>3. QED
  BY <1>2 DEF Fits, BoundedBy

\* Nodes a step does not touch.
LEMMA OthersFit ==
  ASSUME ElectionInv, NEW led \in [Term -> Seq(Entry)], LogInv(led),
         NEW i \in Node, LocalStep(i), NEW j \in Node \ {i}
  PROVE  /\ disk'[j] = disk[j] /\ (j \in live' <=> j \in live)
         /\ term'[j] = term[j] /\ role'[j] = role[j] /\ log'[j] = log[j]
         /\ Fits(disk'[j].log, led) /\ BoundedBy(disk'[j].log, disk'[j].term)
         /\ j \in live' /\ role'[j] = Leader =>
              log'[j] = led[term'[j]] /\ led[term'[j]] # <<>>
         /\ \A t : StandsFor(j, t)' <=> StandsFor(j, t)
  BY DEF LogInv, DiskFits, LeadersLed, LocalStep, ElsewhereUnchanged, StandsFor

LEMMA ElectedTerm ==
  ASSUME NEW c, NEW t, Elected(c, t)
  PROVE  disk[c].term > t \/ disk[c].term = t
  BY DEF Elected

\* Whoever built a term's log is still its winner, and still does not stand.
LEMMA LedElectedKept ==
  ASSUME ElectionInv, TypeOK', NEW led \in [Term -> Seq(Entry)], LogInv(led),
         NEW i \in Node, LocalStep(i), NEW t \in Term, led[t] # <<>>,
         i \in live' /\ role'[i] = Candidate =>
           StandsFor(i, term'[i]) \/ term'[i] > disk[i].term
  PROVE  \E c \in Node : Elected(c, t)' /\ ~StandsFor(c, t)'
<1>1. PICK c \in Node : Elected(c, t) /\ ~StandsFor(c, t)
  BY DEF LogInv, LedElected
<1>2. GoodStep
  BY LocalToGood
<1>3. Elected(c, t)'
  BY <1>1, <1>2, ElectedKept DEF Term
<1>4. ~StandsFor(c, t)'
  <2>1. CASE c # i
    BY <1>1, <2>1, OthersFit
  <2>2. CASE c = i
    <3>1. disk[i].term \in Nat /\ t \in Nat
      BY LogFacts DEF Term
    <3>2. disk[i].term > t \/ disk[i].term = t
      BY <1>1, <2>2, ElectedTerm
    <3>3. ~(t > disk[i].term) /\ ~StandsFor(i, t)
      BY <1>1, <2>2, <3>1, <3>2
    <3>4. StandsFor(i, t)' =>
            i \in live' /\ role'[i] = Candidate /\ term'[i] = t
      BY DEF StandsFor
    <3>5. QED
      BY <2>2, <3>3, <3>4
  <2>3. QED
    BY <2>1, <2>2
<1>5. QED
  BY <1>3, <1>4

LEMMA IdleKeepsLog ==
  ASSUME ElectionInv, ElectionInv', NEW led \in [Term -> Seq(Entry)], LogInv(led),
         NEW i \in Node, LocalStep(i), Idle(i)
  PROVE  LogInv(led)'
<1>1. /\ disk[i].log \in Seq(Entry) /\ disk[i].term \in Nat
      /\ Fits(disk[i].log, led) /\ BoundedBy(disk[i].log, disk[i].term)
      /\ i \in live => disk[i].log = log[i] /\ disk[i].term = term[i]
  BY LogFacts
<1>2. disk'[i].log = disk[i].log /\ disk'[i].term \in Nat
      /\ disk'[i].term >= disk[i].term
  <2>1. GoodStep /\ TypeOK'
    BY LocalToGood DEF ElectionInv
  <2>2. QED
    BY <2>1, DisksForward DEF Idle
<1>3. i \in live' /\ role'[i] = Leader =>
        log'[i] = led[term'[i]] /\ led[term'[i]] # <<>>
  BY <1>1, <1>2 DEF Idle, LocalStep, DurableAt, LogInv, LeadersLed
<1>4. DiskFits(led)'
  <2>1. BoundedBy(disk'[i].log, disk'[i].term)
    <3>1. \A n \in 1 .. Len(disk[i].log) : disk[i].log[n].term \in Nat
      BY <1>1, EntryOf
    <3>2. QED
      BY <1>1, <1>2, <3>1 DEF BoundedBy
  <2>2. QED
    BY <1>1, <1>2, <2>1, OthersFit DEF DiskFits
<1>5. SentFits(led)'
  BY <1>3 DEF Idle, LeaderSends, SentFits, LogInv, IsAppend
<1>6. LeadersLed(led)'
  <2>1. SUFFICES ASSUME NEW j \in live', role'[j] = Leader
                 PROVE  log'[j] = led[term'[j]] /\ led[term'[j]] # <<>>
    BY DEF LeadersLed
  <2>2. j \in Node
    BY DEF ElectionInv, TypeOK
  <2>3. QED
    BY <1>3, <2>1, <2>2, OthersFit
<1>7. LedElected(led)'
  BY LedElectedKept DEF LedElected, Idle, ElectionInv
<1>8. QED
  BY <1>4, <1>5, <1>6, <1>7 DEF LogInv, LedFits

\* What a follower's log becomes is the beginning of its leader's, and at least
\* as much of it as before.
LEMMA ObeyFacts ==
  ASSUME ElectionInv, ElectionInv', NEW led \in [Term -> Seq(Entry)], LogInv(led),
         NEW i \in Node, LocalStep(i), Obey(i)
  PROVE  /\ \E m \in wire : IsAppend(m) /\ m.from # i /\ m.term = disk'[i].term
         /\ led[disk'[i].term] \in Seq(Entry) /\ led[disk'[i].term] # <<>>
         /\ SamePrefix(disk'[i].log, led[disk'[i].term], Len(disk'[i].log))
         /\ \A n \in Nat : SamePrefix(disk[i].log, led[disk'[i].term], n) =>
                            n <= Len(disk'[i].log)
<1>1. PICK m \in wire : \E k \in Lowest(Missing(i, m)) :
         /\ IsAppend(m) /\ m.from # i /\ m.term = disk'[i].term /\ Consistent(i, m)
         /\ \/ disk'[i].log = Spliced(i, m, k)
            \/ disk'[i].log = SubSeq(log[i], 1, m.prev_index + k - 1)
  BY DEF Obey
<1>2. PICK k \in Lowest(Missing(i, m)) :
         /\ IsAppend(m) /\ m.from # i /\ m.term = disk'[i].term /\ Consistent(i, m)
         /\ \/ disk'[i].log = Spliced(i, m, k)
            \/ disk'[i].log = SubSeq(log[i], 1, m.prev_index + k - 1)
  BY <1>1
<1>3. PICK x : x = m.prev_index + k
  OBVIOUS
<1>4. i \in live
  BY DEF Obey
<1>5. LET l == Spliced(i, m, k)
          c == SubSeq(log[i], 1, m.prev_index + k - 1)
      IN /\ x \in Nat \ {0} /\ x <= Len(led[m.term])
         /\ x <= Len(log[i]) => log[i][x] # led[m.term][x]
         /\ c \in Seq(Entry) /\ Len(c) = x - 1
         /\ SamePrefix(c, led[m.term], x - 1)
         /\ l \in Seq(Entry) /\ Len(l) = m.prev_index + Len(m.entries)
         /\ x <= Len(l)
         /\ SamePrefix(l, led[m.term], Len(l))
  BY <1>2, <1>3, <1>4, SpliceAgrees
<1>6. /\ x \in Nat \ {0} /\ x <= Len(led[m.term])
      /\ x <= Len(log[i]) => log[i][x] # led[m.term][x]
      /\ SamePrefix(disk'[i].log, led[m.term], Len(disk'[i].log))
      /\ x - 1 <= Len(disk'[i].log) /\ Len(disk'[i].log) \in Nat
  <2>1. /\ x \in Nat \ {0} /\ x <= Len(led[m.term])
        /\ x <= Len(log[i]) => log[i][x] # led[m.term][x]
    BY <1>5
  <2>2. CASE disk'[i].log = Spliced(i, m, k)
    <3>1. /\ disk'[i].log \in Seq(Entry) /\ x <= Len(disk'[i].log)
          /\ SamePrefix(disk'[i].log, led[m.term], Len(disk'[i].log))
      BY <1>5, <2>2
    <3>2. QED
      BY <2>1, <3>1, LenProperties
  <2>3. CASE disk'[i].log = SubSeq(log[i], 1, m.prev_index + k - 1)
    <3>1. /\ disk'[i].log \in Seq(Entry) /\ Len(disk'[i].log) = x - 1
          /\ SamePrefix(disk'[i].log, led[m.term], x - 1)
      BY <1>5, <2>3
    <3>2. QED
      BY <2>1, <3>1, LenProperties
  <2>4. QED
    BY <1>2, <2>2, <2>3
<1>7. led[m.term] \in Seq(Entry) /\ Len(led[m.term]) \in Nat
  BY <1>2, MessageFacts
<1>8. led[m.term] # <<>>
  BY <1>6, <1>7
<1>9. ASSUME NEW n \in Nat, SamePrefix(disk[i].log, led[m.term], n)
      PROVE  n <= Len(disk'[i].log)
  <2>1. disk[i].log = log[i] /\ Len(log[i]) \in Nat
    BY <1>4, LogFacts
  <2>2. n < x
    BY <1>6, <1>9, <2>1 DEF SamePrefix
  <2>3. QED
    BY <1>6, <2>2
<1>10. QED
  BY <1>2, <1>6, <1>7, <1>8, <1>9

LEMMA ObeyKeepsLog ==
  ASSUME ElectionInv, ElectionInv', NEW led \in [Term -> Seq(Entry)], LogInv(led),
         NEW i \in Node, LocalStep(i), Obey(i)
  PROVE  LogInv(led)'
<1>1. disk'[i].log \in Seq(Entry) /\ disk'[i].term \in Nat
  BY DEF ElectionInv, TypeOK, Persistent, Term
<1>2. /\ led[disk'[i].term] \in Seq(Entry)
      /\ SamePrefix(disk'[i].log, led[disk'[i].term], Len(disk'[i].log))
  BY ObeyFacts
<1>3. Fits(led[disk'[i].term], led) /\ BoundedBy(led[disk'[i].term], disk'[i].term)
  BY <1>1 DEF LogInv, LedFits, Term
<1>4. Fits(disk'[i].log, led) /\ BoundedBy(disk'[i].log, disk'[i].term)
  BY <1>1, <1>2, <1>3, PrefixFits
<1>5. DiskFits(led)'
  BY <1>4, OthersFit DEF DiskFits
<1>6. SentFits(led)'
  BY DEF Obey, SentFits, LogInv, IsAppend
<1>7. i \in live' => role'[i] = Follower
  BY DEF Obey
<1>8. LeadersLed(led)'
  <2>1. SUFFICES ASSUME NEW j \in live', role'[j] = Leader
                 PROVE  log'[j] = led[term'[j]] /\ led[term'[j]] # <<>>
    BY DEF LeadersLed
  <2>2. j \in Node /\ j # i
    BY <1>7, <2>1 DEF ElectionInv, TypeOK, Follower, Leader
  <2>3. QED
    BY <2>1, <2>2, OthersFit
<1>9. LedElected(led)'
  BY <1>7, LedElectedKept DEF LedElected, ElectionInv, Follower, Candidate
<1>10. QED
  BY <1>5, <1>6, <1>8, <1>9 DEF LogInv, LedFits

\* What a log is after an append.
LEMMA AppendPrefix ==
  ASSUME NEW a \in Seq(Entry), NEW e \in Entry, NEW l, l = Append(a, e)
  PROVE  /\ l \in Seq(Entry) /\ Len(l) = Len(a) + 1 /\ Len(a) \in Nat
         /\ SamePrefix(a, l, Len(a)) /\ l[Len(l)] = e
  BY AppendProperties, LenProperties DEF SamePrefix

\* A leader's log extends what its term's leader had built, which is nothing
\* when it has just been elected.
LEMMA GrowFacts ==
  ASSUME ElectionInv, ElectionInv', NEW led \in [Term -> Seq(Entry)], LogInv(led),
         NEW i \in Node, LocalStep(i), Grow(i)
  PROVE  LET t == term'[i]
             a == disk[i].log
             l == disk'[i].log
         IN /\ t \in Nat /\ t \in Term /\ disk'[i].term = t /\ log'[i] = l
            /\ disk[i].term \in Nat /\ disk[i].term <= t
            /\ a \in Seq(Entry) /\ Len(a) \in Nat
            /\ l \in Seq(Entry) /\ Len(l) = Len(a) + 1
            /\ SamePrefix(a, l, Len(a)) /\ l[Len(l)].term = t
            /\ \/ led[t] = a /\ role[i] = Leader /\ term[i] = t
               \/ led[t] = <<>> /\ ~(role[i] = Leader /\ term[i] = t)
<1>1. i \in live /\ i \in live' /\ role'[i] = Leader
  BY DEF Grow
<1>2. /\ disk'[i].term = term'[i] /\ log'[i] = disk'[i].log
      /\ disk[i].term = term[i] /\ disk[i].log = log[i]
  BY <1>1, NodeFacts DEF LocalStep, DurableAt
<1>3. term'[i] \in Nat /\ term[i] \in Nat /\ disk[i].log \in Seq(Entry)
  BY DEF ElectionInv, TypeOK, Persistent, Term
<1>4. disk[i].term <= term'[i]
  <2>1. GoodStep /\ TypeOK'
    BY LocalToGood DEF ElectionInv
  <2>2. QED
    BY <1>2, <1>3, <2>1, DisksForward
<1>5. PICK e \in Entry : e.term = term'[i] /\ disk'[i].log = Append(disk[i].log, e)
  BY DEF Grow
<1>6. /\ disk'[i].log \in Seq(Entry) /\ Len(disk'[i].log) = Len(disk[i].log) + 1
      /\ Len(disk[i].log) \in Nat
      /\ SamePrefix(disk[i].log, disk'[i].log, Len(disk[i].log))
      /\ disk'[i].log[Len(disk'[i].log)].term = term'[i]
  <2>1. PICK a \in Seq(Entry) : a = disk[i].log
    BY <1>3
  <2>2. PICK l : l = disk'[i].log
    OBVIOUS
  <2>3. /\ l \in Seq(Entry) /\ Len(l) = Len(a) + 1 /\ Len(a) \in Nat
        /\ SamePrefix(a, l, Len(a)) /\ l[Len(l)] = e
    <3>1. l = Append(a, e)
      BY <1>5, <2>1, <2>2
    <3>2. QED
      BY <3>1, AppendPrefix, Zenon
  <2>4. l[Len(l)].term = term'[i]
    BY <1>5, <2>3
  <2>5. QED
    BY <2>1, <2>2, <2>3, <2>4
<1>7. Elected(i, term[i])'
  BY <1>1 DEF ElectionInv, WireInv, LeadersElected
<1>8. CASE role[i] = Leader /\ term[i] = term'[i]
  <2>1. led[term'[i]] = disk[i].log
    BY <1>1, <1>2, <1>8 DEF LogInv, LeadersLed
  <2>2. QED
    BY <1>2, <1>3, <1>4, <1>6, <1>8, <2>1 DEF Term
<1>9. CASE ~(role[i] = Leader /\ term[i] = term'[i])
  <2>1. led[term'[i]] = <<>>
    <3>1. SUFFICES ASSUME led[term'[i]] # <<>> PROVE FALSE
      OBVIOUS
    <3>2. PICK c \in Node : Elected(c, term'[i]) /\ ~StandsFor(c, term'[i])
      BY <1>3, <3>1 DEF LogInv, LedElected, Term
    <3>3. PICK t \in Nat : t = term'[i]
      BY <1>3
    <3>4. Elected(c, t)'
      <4>1. GoodStep /\ TypeOK' /\ Elected(c, t)
        BY <3>2, <3>3, LocalToGood DEF ElectionInv
      <4>2. QED
        BY <4>1, ElectedKept
    <3>5. Elected(i, t)'
      BY <1>7, <3>3 DEF Elected
    <3>6. c = i
      BY <3>3, <3>4, <3>5, WinnerIsOneNext DEF OneWinner, Term
    <3>7. \/ disk[i].term > term'[i]
          \/ disk[i].term = term'[i]
      BY <3>2, <3>6, ElectedTerm
    <3>8. ~(term'[i] > disk[i].term)
      BY <1>2, <1>3, <3>7
    <3>9. QED
      BY <1>9, <3>2, <3>6, <3>8 DEF Grow
  <2>2. QED
    BY <1>2, <1>3, <1>4, <1>6, <1>9, <2>1 DEF Term
<1>10. QED
  BY <1>8, <1>9

LEMMA GrowExtends ==
  ASSUME ElectionInv, ElectionInv', NEW led \in [Term -> Seq(Entry)], LogInv(led),
         NEW i \in Node, LocalStep(i), Grow(i)
  PROVE  /\ Built(led, i) \in [Term -> Seq(Entry)]
         /\ Built(led, i)[term'[i]] = disk'[i].log
         /\ \A t \in Term : t # term'[i] => Built(led, i)[t] = led[t]
         /\ Extended(led, Built(led, i))
<1> DEFINE t == term'[i]
           a == disk[i].log
           l == disk'[i].log
<1>1. /\ t \in Term /\ log'[i] = l /\ l \in Seq(Entry) /\ a \in Seq(Entry)
      /\ SamePrefix(a, l, Len(a))
      /\ led[t] = a \/ led[t] = <<>>
  BY GrowFacts
<1>2. /\ Built(led, i) \in [Term -> Seq(Entry)] /\ Built(led, i)[t] = l
      /\ \A u \in Term : u # t => Built(led, i)[u] = led[u]
  BY <1>1 DEF Built
<1>3. SamePrefix(led[t], l, Len(led[t]))
  <2>1. SamePrefix(<<>>, l, 0) /\ Len(<<>>) = 0
    BY <1>1, LenProperties DEF SamePrefix
  <2>2. QED
    BY <1>1, <2>1
<1>4. \A u \in Term : SamePrefix(led[u], led[u], Len(led[u]))
  BY LenProperties DEF SamePrefix
<1>5. QED
  BY <1>2, <1>3, <1>4 DEF Extended

LEMMA GrowKeepsLog ==
  ASSUME ElectionInv, ElectionInv', NEW led \in [Term -> Seq(Entry)], LogInv(led),
         NEW i \in Node, LocalStep(i), Grow(i), NEW led2, led2 = Built(led, i)
  PROVE  LogInv(led2)'
<1>1. PICK t \in Term : t = term'[i]
  BY GrowFacts
<1>2. PICK a \in Seq(Entry) : a = disk[i].log
  BY GrowFacts
<1>3. PICK l \in Seq(Entry) : l = disk'[i].log
  BY GrowFacts
<1>4. /\ t \in Nat /\ disk'[i].term = t /\ log'[i] = l
      /\ disk[i].term \in Nat /\ disk[i].term <= t
      /\ Len(a) \in Nat /\ Len(l) = Len(a) + 1
      /\ SamePrefix(a, l, Len(a)) /\ l[Len(l)].term = t
      /\ Elected(i, t)'
  <2>1. Elected(i, term[i])'
    BY DEF Grow, ElectionInv, WireInv, LeadersElected
  <2>2. Elected(i, t)'
    BY <1>1, <2>1 DEF Elected
  <2>3. QED
    BY <1>1, <1>2, <1>3, <2>2, GrowFacts
<1>5. i \in live' /\ role'[i] = Leader /\ LeaderSends(i)
  BY DEF Grow
<1>6. /\ led2 \in [Term -> Seq(Entry)] /\ led2[t] = l
      /\ \A u \in Term : u # t => led2[u] = led[u]
      /\ Extended(led, led2)
  BY <1>1, <1>3, GrowExtends
<1>7. Fits(l, led2) /\ BoundedBy(l, t)
  <2>1. Fits(a, led2) /\ BoundedBy(a, disk[i].term)
    BY <1>2, <1>6, LogFacts, FitsExtended
  <2>2. ASSUME NEW n \in 1 .. Len(l)
        PROVE  SamePrefix(l, led2[l[n].term], n) /\ l[n].term <= t
    <3>1. CASE n = Len(l)
      BY <1>4, <1>6, <3>1, LenProperties DEF SamePrefix
    <3>2. CASE n # Len(l)
      <4>1. n \in 1 .. Len(a) /\ n \in Nat
        BY <1>4, <3>2
      <4>2. l[n] = a[n] /\ SamePrefix(l, a, n)
        BY <1>4, <4>1, PrefixShorter DEF SamePrefix
      <4>3. SamePrefix(a, led2[a[n].term], n) /\ a[n].term <= disk[i].term
            /\ a[n].term \in Nat
        BY <2>1, <4>1, EntryOf DEF Fits, BoundedBy
      <4>4. SamePrefix(l, led2[a[n].term], n)
        BY <4>2, <4>3, PrefixTransitive
      <4>5. QED
        BY <1>4, <4>2, <4>3, <4>4
    <3>3. QED
      BY <3>1, <3>2
  <2>3. QED
    BY <2>2 DEF Fits, BoundedBy
<1>8. LedFits(led2)
  <2>1. SUFFICES ASSUME NEW u \in Term PROVE BoundedBy(led2[u], u) /\ Fits(led2[u], led2)
    BY <1>6 DEF LedFits
  <2>2. CASE u = t
    BY <1>6, <1>7, <2>2
  <2>3. CASE u # t
    <3>1. BoundedBy(led[u], u) /\ Fits(led[u], led) /\ led[u] \in Seq(Entry)
      BY DEF LogInv, LedFits
    <3>2. QED
      BY <1>6, <2>3, <3>1, FitsExtended
  <2>4. QED
    BY <2>2, <2>3
<1>9. DiskFits(led2)'
  <2>1. SUFFICES ASSUME NEW j \in Node
                 PROVE  BoundedBy(disk'[j].log, disk'[j].term) /\ Fits(disk'[j].log, led2)
    BY DEF DiskFits
  <2>2. CASE j = i
    BY <1>3, <1>4, <1>7, <2>2
  <2>3. CASE j # i
    <3>1. /\ Fits(disk'[j].log, led) /\ BoundedBy(disk'[j].log, disk'[j].term)
      BY <2>3, OthersFit
    <3>2. disk'[j].log \in Seq(Entry)
      BY DEF ElectionInv, TypeOK, Persistent
    <3>3. QED
      BY <1>6, <3>1, <3>2, FitsExtended
  <2>4. QED
    BY <2>2, <2>3
<1>10. SentFits(led2)'
  <2>1. SUFFICES ASSUME NEW m \in wire', IsAppend(m)
                 PROVE  SliceOf(m, led2[m.term])
    BY DEF SentFits, IsAppend
  <2>2. CASE m \in wire
    <3>1. /\ m.term \in Term /\ m.prev_index \in Nat /\ Len(m.entries) \in Nat
          /\ led[m.term] \in Seq(Entry) /\ SliceOf(m, led[m.term])
      BY <2>1, <2>2, MessageFacts DEF Term
    <3>2. SamePrefix(led[m.term], led2[m.term], Len(led[m.term]))
          /\ led2[m.term] \in Seq(Entry)
      BY <1>6, <3>1 DEF Extended
    <3>3. QED
      BY <3>1, <3>2, SliceExtended
  <2>3. CASE m \notin wire
    BY <1>1, <1>4, <1>5, <1>6, <2>1, <2>3 DEF LeaderSends
  <2>4. QED
    BY <2>2, <2>3
<1>11. LeadersLed(led2)'
  <2>1. SUFFICES ASSUME NEW j \in live', role'[j] = Leader
                 PROVE  log'[j] = led2[term'[j]] /\ led2[term'[j]] # <<>>
    BY DEF LeadersLed
  <2>2. CASE j = i
    <3>1. l # <<>>
      BY <1>4
    <3>2. QED
      BY <1>1, <1>4, <1>6, <2>2, <3>1
  <2>3. CASE j # i
    <3>1. j \in Node /\ term'[j] \in Term /\ Elected(j, term[j])'
      BY <2>1 DEF ElectionInv, TypeOK, WireInv, LeadersElected
    <3>2. log'[j] = led[term'[j]] /\ led[term'[j]] # <<>>
      BY <2>1, <2>3, <3>1, OthersFit
    <3>3. term'[j] # t
      <4>1. SUFFICES ASSUME term'[j] = t PROVE FALSE
        OBVIOUS
      <4>2. Elected(j, t)'
        BY <3>1, <4>1 DEF Elected
      <4>3. QED
        BY <1>4, <2>3, <3>1, <4>2, WinnerIsOneNext DEF OneWinner
    <3>4. QED
      BY <1>6, <3>1, <3>2, <3>3
  <2>4. QED
    BY <2>2, <2>3
<1>12. LedElected(led2)'
  <2>1. SUFFICES ASSUME NEW u \in Term, led2[u] # <<>>
                 PROVE  \E c \in Node : Elected(c, u)' /\ ~StandsFor(c, u)'
    BY <1>6 DEF LedElected
  <2>2. role'[i] # Candidate
    BY <1>5 DEF Candidate, Leader
  <2>3. CASE u = t
    BY <1>4, <2>2, <2>3 DEF StandsFor
  <2>4. CASE u # t
    BY <1>6, <2>1, <2>2, <2>4, LedElectedKept DEF ElectionInv
  <2>5. QED
    BY <2>3, <2>4
<1>13. QED
  BY <1>8, <1>9, <1>10, <1>11, <1>12 DEF LogInv, LedFits

LEMMA NothingLed ==
  ASSUME Init, NEW none, none = [t \in Term |-> <<>>]
  PROVE  none \in [Term -> Seq(Entry)] /\ LogInv(none)
<1>1. none \in [Term -> Seq(Entry)] /\ Len(<<>>) = 0
  BY EmptySeq
<1>2. \A i \in Node : disk[i].log = <<>> /\ role[i] = Follower
  BY DEF Init, Blank
<1>3. \A t : BoundedBy(<<>>, t) /\ Fits(<<>>, none)
  BY <1>1 DEF BoundedBy, Fits
<1>4. LedFits(none) /\ LedElected(none)
  BY <1>1, <1>3 DEF LedFits, LedElected
<1>5. DiskFits(none)
  BY <1>2, <1>3 DEF DiskFits
<1>6. SentFits(none) /\ LeadersLed(none)
  BY <1>2 DEF Init, SentFits, LeadersLed, Follower, Leader
<1>7. QED
  BY <1>1, <1>4, <1>5, <1>6 DEF LogInv

LEMMA LogStarts ==
  ASSUME Init
  PROVE  LogHistory
<1>1. PICK none : none = [t \in Term |-> <<>>]
  OBVIOUS
<1>2. QED
  BY <1>1, NothingLed DEF LogHistory

LEMMA LogStep ==
  ASSUME ElectionInv, LogHistory, Next
  PROVE  LogHistory'
<1>1. ElectionInv'
  BY NextKeepsInvariant
<1>2. PICK led \in [Term -> Seq(Entry)] : LogInv(led)
  BY DEF LogHistory
<1>3. PICK i \in Node : LocalStep(i) /\ (Idle(i) \/ Grow(i) \/ Obey(i))
  BY <1>1, ShapeOfStep DEF ElectionInv, Next, StepOf
<1>4. CASE Idle(i) \/ Obey(i)
  BY <1>1, <1>2, <1>3, <1>4, IdleKeepsLog, ObeyKeepsLog DEF LogHistory
<1>5. CASE Grow(i)
  <2>1. PICK led2 : led2 = Built(led, i)
    OBVIOUS
  <2>2. led2 \in [Term -> Seq(Entry)]
    BY <1>1, <1>2, <1>3, <1>5, <2>1, GrowExtends
  <2>3. LogInv(led2)'
    BY <1>1, <1>2, <1>3, <1>5, <2>1, GrowKeepsLog
  <2>4. QED
    BY <2>2, <2>3 DEF LogHistory
<1>6. QED
  BY <1>3, <1>4, <1>5

LEMMA LogInvStutters ==
  ASSUME NEW led \in [Term -> Seq(Entry)], LogInv(led), UNCHANGED vars
  PROVE  LogInv(led)'
<1>1. /\ disk' = disk /\ live' = live /\ wire' = wire
      /\ term' = term /\ log' = log /\ role' = role
  BY DEF vars, memory
<1>2. LedElected(led)'
  <2>1. \A v, c, t : VotedFor(v, c, t)' <=> VotedFor(v, c, t)
    BY <1>1 DEF VotedFor, IsGrant
  <2>2. \A c, t : Elected(c, t)' <=> Elected(c, t)
    BY <1>1, <2>1 DEF Elected, IsGrant, IsQuorum
  <2>3. QED
    BY <1>1, <2>2 DEF LogInv, LedElected, StandsFor
<1>3. QED
  BY <1>1, <1>2 DEF LogInv, LedFits, DiskFits, SentFits, LeadersLed, IsAppend

LEMMA LogStutters ==
  ASSUME LogHistory, UNCHANGED vars
  PROVE  LogHistory'
  BY LogInvStutters DEF LogHistory

\* Every log there ever is comes from the logs of the terms' leaders.
THEOREM LogHistoryHolds == Spec => [](ElectionInv /\ LogHistory)
<1>1. Init => ElectionInv /\ LogHistory
  BY InitIsInvariant, LogStarts
<1>2. ElectionInv /\ LogHistory /\ [Next]_vars => (ElectionInv /\ LogHistory)'
  BY NextKeepsInvariant, StutterKeepsInvariant, LogStep, LogStutters
<1>3. QED
  BY <1>1, <1>2, PTL DEF Spec

-----------------------------------------------------------------------------
(* What follows for the logs *)

LEMMA HistoryGivesMatching ==
  ASSUME ElectionInv, LogHistory
  PROVE  LogMatching
<1>1. PICK led \in [Term -> Seq(Entry)] : LogInv(led)
  BY DEF LogHistory
<1>2. SUFFICES ASSUME NEW i \in Node, NEW j \in Node,
                      NEW n \in 1 .. Lower(Len(disk[i].log), Len(disk[j].log)),
                      disk[i].log[n].term = disk[j].log[n].term
               PROVE  SubSeq(disk[i].log, 1, n) = SubSeq(disk[j].log, 1, n)
  BY DEF LogMatching
<1>3. PICK a \in Seq(Entry) : a = disk[i].log
  BY <1>1, LogFacts
<1>4. PICK b \in Seq(Entry) : b = disk[j].log
  BY <1>1, LogFacts
<1>5. Fits(a, led) /\ Fits(b, led)
  BY <1>1, <1>3, <1>4, LogFacts
<1>6. n \in Nat /\ n # 0 /\ n <= Len(a) /\ n <= Len(b) /\ TermAt(a, n) = TermAt(b, n)
  BY <1>2, <1>3, <1>4, LenProperties DEF Lower, TermAt
<1>7. SamePrefix(a, b, n)
  BY <1>5, <1>6, SameTermSamePrefix
<1>8. QED
  BY <1>3, <1>4, <1>6, <1>7, PrefixSubSeq

LEMMA LeadersOnlyAppend ==
  ASSUME ElectionInv, Next, NEW j \in Node, role[j] = Leader,
         disk'[j].term = disk[j].term
  PROVE  /\ Len(disk[j].log) <= Len(disk'[j].log)
         /\ SubSeq(disk'[j].log, 1, Len(disk[j].log)) = disk[j].log
<1>1. ElectionInv' /\ TypeOK'
  BY NextKeepsInvariant DEF ElectionInv
<1>2. PICK a \in Seq(Entry) : a = disk[j].log
  BY DEF ElectionInv, TypeOK, Persistent
<1>3. Len(a) \in Nat /\ SubSeq(a, 1, Len(a)) = a
  BY LenProperties, SubSeqFull
<1>4. PICK i \in Node : LocalStep(i) /\ (Idle(i) \/ Grow(i) \/ Obey(i))
  BY <1>1, ShapeOfStep DEF Next, StepOf
<1>5. CASE j # i \/ Idle(i)
  <2>1. disk'[j].log = disk[j].log
    BY <1>4, <1>5 DEF LocalStep, ElsewhereUnchanged, Idle
  <2>2. QED
    BY <1>2, <1>3, <2>1
<1>6. CASE j = i /\ Grow(i)
  <2>1. PICK e \in Entry : disk'[j].log = Append(a, e)
    BY <1>2, <1>6 DEF Grow
  <2>2. PICK l : l = Append(a, e)
    OBVIOUS
  <2>3. l \in Seq(Entry) /\ SamePrefix(a, l, Len(a))
    BY <2>2, AppendPrefix, Zenon
  <2>4. SubSeq(a, 1, Len(a)) = SubSeq(l, 1, Len(a))
    BY <1>3, <2>3, PrefixSubSeq
  <2>5. Len(a) <= Len(l)
    BY <2>3 DEF SamePrefix
  <2>6. QED
    BY <1>2, <1>3, <2>1, <2>2, <2>4, <2>5, Zenon
<1>7. CASE j = i /\ Obey(i)
  <2>1. PICK m \in wire : IsAppend(m) /\ m.from # i /\ m.term = disk'[i].term
    BY <1>7 DEF Obey
  <2>2. i \in live /\ m.term = term[i]
    BY <1>7, <2>1, NodeFacts DEF Obey
  <2>3. m.from = i
    BY <1>7, <2>1, <2>2, InvariantGivesSafety DEF NoRivalAppend, IsAppend
  <2>4. QED
    BY <2>1, <2>3
<1>8. QED
  BY <1>4, <1>5, <1>6, <1>7

\* Two disks with an entry of the same term at the same index hold the same log
\* up to there: what on_append_entries checks of one entry says it of all.
THEOREM LogsMatch == Spec => []LogMatching
  BY HistoryGivesMatching, LogHistoryHolds, PTL

\* A leader's log only grows while its term lasts: nothing a leader handles,
\* and no crash, truncates or rewrites it.
THEOREM LeadersAppendOnly == Spec => LeaderAppendOnly
<1>1. ElectionInv /\ [Next]_vars =>
        [\A i \in Node : role[i] = Leader /\ disk'[i].term = disk[i].term =>
           /\ Len(disk[i].log) <= Len(disk'[i].log)
           /\ SubSeq(disk'[i].log, 1, Len(disk[i].log)) = disk[i].log]_vars
  BY LeadersOnlyAppend
<1>2. QED
  BY <1>1, InvariantHolds, PTL DEF Spec, LeaderAppendOnly

-----------------------------------------------------------------------------
(* The hint *)

\* A step sets the hint to nothing, to a leader that has just sent a message,
\* or to the node itself when it leads, or leaves it with the term and role.
LEMMA HintStep ==
  ASSUME ElectionInv, HintIsElected, Next
  PROVE  HintIsElected'
<1> DEFINE Named(j) == leader_id'[j] # Nil =>
             \/ leader_id'[j] = j /\ role'[j] = Leader
             \/ \E m \in wire' : /\ m.kind = "AppendEntries" /\ m.term = term'[j]
                                /\ m.from = leader_id'[j]
<1>1. TypeOK /\ ElectionInv' /\ TypeOK'
  BY NextKeepsInvariant DEF ElectionInv
<1>2. wire \subseteq wire'
  BY <1>1, StepIsGood DEF GoodStep, SendsFresh
<1>3. ASSUME NEW j \in live, leader_id'[j] = leader_id[j],
             role'[j] = role[j], term'[j] = term[j]
      PROVE  Named(j)
  BY <1>2, <1>3 DEF HintIsElected
<1>4. ASSUME NEW i \in Node, NEW l, NEW j \in live', leader_id' = [leader_id EXCEPT ![i] = l],
             LocalStep(i), j # i
      PROVE  Named(j)
  <2>1. /\ j \in live /\ role'[j] = role[j] /\ term'[j] = term[j]
        /\ leader_id'[j] = leader_id[j]
    BY <1>1, <1>4 DEF LocalStep, ElsewhereUnchanged, TypeOK
  <2>2. QED
    BY <1>3, <2>1
<1>5. ASSUME NEW i \in Node, NEW j \in live', leader_id' = leader_id, live' = live,
             role' = role, term' = term
      PROVE  Named(j)
  BY <1>3, <1>5
<1> HIDE DEF Named
<1>6. ASSUME NEW i \in Node,
             Campaign(i) \/ Crash(i) \/ CrashInCampaign(i) \/ Restart(i)
      PROVE  \A j \in live' : Named(j)
  <2>1. leader_id' = [leader_id EXCEPT ![i] = Nil] /\ leader_id'[i] = Nil
    BY <1>1, <1>6 DEF Campaign, Crash, CrashInCampaign, CrashWith, Restart,
       FreshVolatile, TypeOK
  <2>2. LocalStep(i)
    BY <1>1, <1>6, CampaignStep, CrashSteps
  <2>3. QED
    BY <1>4, <2>1, <2>2 DEF Named
<1>7. ASSUME NEW i \in Node,
             \/ CampaignAlone(i)
             \/ \E m \in wire : WinElection(i, m)
      PROVE  \A j \in live' : Named(j)
  <2>1. /\ leader_id' = [leader_id EXCEPT ![i] = i] /\ leader_id'[i] = i
        /\ role'[i] = Leader
    <3>1. PICK t, d : BecomeLeader(i, t, d)
      BY <1>7 DEF CampaignAlone, WinElection
    <3>2. QED
      BY <1>1, <3>1 DEF BecomeLeader, TypeOK
  <2>2. LocalStep(i)
    BY <1>1, <1>7, CampaignAloneStep, WinElectionStep
  <2>3. QED
    BY <1>4, <2>1, <2>2 DEF Named
<1>8. ASSUME NEW i \in Node,
             \/ Heartbeat(i) \/ TakeCommitted(i)
             \/ \E c \in Command \cup {Noop} : Propose(i, c)
             \/ \E m \in wire : \/ CountVote(i, m) \/ RejectStale(i, m)
                               \/ AckSuccess(i, m) \/ AckFailure(i, m)
      PROVE  \A j \in live' : Named(j)
  <2>1. leader_id' = leader_id /\ live' = live /\ role' = role /\ term' = term
    BY <1>8 DEF Heartbeat, TakeCommitted, Propose, CountVote, OnVoteResponse,
       RejectStale, AckSuccess, AckFailure, OnAppendResponse, memory
  <2>2. QED
    BY <1>5, <2>1
<1>9. ASSUME NEW i \in Node, NEW m \in wire, GrantVote(i, m) \/ DenyVote(i, m)
      PROVE  \A j \in live' : Named(j)
  <2>1. /\ i \in live /\ leader_id' = [leader_id EXCEPT ![i] = LeaderAfter(i, m)]
        /\ leader_id'[i] = LeaderAfter(i, m) /\ role'[i] = RoleAfter(i, m)
        /\ term'[i] = TermAfter(i, m)
    BY <1>1, <1>9 DEF GrantVote, DenyVote, OnRequestVote, Deliverable, TypeOK
  <2>2. Named(i)
    <3>1. CASE Newer(i, m)
      BY <2>1, <3>1 DEF LeaderAfter, Named
    <3>2. CASE ~Newer(i, m)
      BY <1>3, <2>1, <3>2 DEF LeaderAfter, RoleAfter, TermAfter
    <3>3. QED
      BY <3>1, <3>2
  <2>3. LocalStep(i)
    BY <1>1, <1>9, GrantVoteStep, DenyVoteStep
  <2>4. QED
    BY <1>4, <2>1, <2>2, <2>3
<1>10. ASSUME NEW i \in Node, NEW m \in wire, StepDown(i, m) \/ CrashInHandler(i, m)
       PROVE  \A j \in live' : Named(j)
  <2>1. leader_id' = [leader_id EXCEPT ![i] = Nil] /\ leader_id'[i] = Nil
    BY <1>1, <1>10 DEF StepDown, CrashInHandler, CrashInStepDown, CrashInTruncate,
       CrashWith, FreshVolatile, TypeOK
  <2>2. LocalStep(i)
    BY <1>1, <1>10, StepDownStep, CrashInHandlerSteps DEF CrashInHandler
  <2>3. QED
    BY <1>4, <2>1, <2>2 DEF Named
<1>11. ASSUME NEW i \in Node, NEW m \in wire,
              RejectAppend(i, m) \/ AcceptKnown(i, m) \/ AcceptNew(i, m)
       PROVE  \A j \in live' : Named(j)
  <2>1. FollowLeader(i, m)
    BY <1>11 DEF RejectAppend, AcceptKnown, AcceptNew, AcceptAppend
  <2>2. /\ leader_id' = [leader_id EXCEPT ![i] = m.from] /\ leader_id'[i] = m.from
        /\ term'[i] = TermAfter(i, m) /\ m.kind = "AppendEntries" /\ Current(i, m)
    BY <1>1, <2>1 DEF FollowLeader, TypeOK
  <2>3. TermAfter(i, m) = m.term
    BY <1>1, <2>2, MessageFields DEF TypeOK, Term, Current, TermAfter, Newer
  <2>4. Named(i)
    BY <1>2, <2>2, <2>3 DEF Named
  <2>5. LocalStep(i)
    BY <1>1, <1>11, FollowerSteps
  <2>6. QED
    BY <1>4, <2>2, <2>4, <2>5
<1>12. \A j \in live' : Named(j)
  <2>1. PICK i \in Node : StepOf(i)
    BY DEF Next, StepOf
  <2>2. CASE \E m \in wire : Handle(i, m) \/ CrashInHandler(i, m)
    <3>1. PICK m \in wire : Handle(i, m) \/ CrashInHandler(i, m)
      BY <2>2
    <3>2. QED
      BY <1>7, <1>8, <1>9, <1>10, <1>11, <3>1 DEF Handle
  <2>3. QED
    BY <1>6, <1>7, <1>8, <2>1, <2>2 DEF StepOf, Timeout
<1>13. QED
  BY <1>12 DEF HintIsElected, Named

\* NotLeader(leader_id) never names a node that was not elected in the term the
\* answering node is in: the hint goes with the term it belongs to.
THEOREM HintsAreElected == Spec => []HintIsElected
<1>1. Init => HintIsElected
  BY DEF Init, HintIsElected
<1>2. ASSUME HintIsElected, UNCHANGED vars PROVE HintIsElected'
  BY <1>2 DEF HintIsElected, vars, memory
<1>3. ElectionInv /\ HintIsElected /\ [Next]_vars => HintIsElected'
  BY <1>2, HintStep
<1>4. QED
  BY <1>1, <1>3, InvariantHolds, PTL DEF Spec

=============================================================================
