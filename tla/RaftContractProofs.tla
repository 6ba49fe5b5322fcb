------------------------- MODULE RaftContractProofs -------------------------
(***************************************************************************)
(* What the checker and the state machines see of the nodes, whatever the  *)
(* cluster's size, the network and the crashes.                            *)
(*                                                                         *)
(* The checker's assertions never fail, and the nodes implement one        *)
(* replicated log: whoever the checker saw leading was elected, whatever   *)
(* it collected was committed, and two decided logs agree.                 *)
(*                                                                         *)
(* The state machines are handed entries of that log, which nobody ever    *)
(* takes back; and, where the logs fit in one batch, each of them once and *)
(* in order.  (Where they do not, take_committed may hand an entry out     *)
(* again: the run delivered_twice.)                                        *)
(***************************************************************************)
EXTENDS RaftContract, RaftApply, RaftCommitProofs

-----------------------------------------------------------------------------
(* Leaders and terms *)

\* Looking at the nodes records nothing that was not decided.
LEMMA ObserveKeepsSeen ==
  ASSUME ElectionInv, ElectionInv', GoodStep, SeenInv, Observe
  PROVE  SeenInv'
<1>1. TypeOK' /\ LeadersElected' /\ MemoryIsDurable'
  BY DEF ElectionInv, NodeInv, WireInv
<1>2. leaders_by_term' =
        leaders_by_term \cup {<<term'[i], i>> : i \in {j \in Node : IsLeader(j)'}}
  BY DEF Observe
<1>3. \A i \in Node : term'[i] \in Nat
  BY <1>1 DEF TypeOK, Term
<1>4. leaders_by_term' \subseteq Term \X Node
  BY <1>2, <1>3 DEF SeenInv, Term
<1>5. ASSUME NEW seen \in leaders_by_term' PROVE Elected(seen[2], seen[1])'
  <2>1. CASE seen \in leaders_by_term
    <3>1. seen[2] \in Node /\ seen[1] \in Nat /\ Elected(seen[2], seen[1])
      BY <2>1 DEF SeenInv, Term
    <3>2. QED
      BY <1>1, <3>1, ElectedKept
  <2>2. CASE seen \notin leaders_by_term
    <3>1. PICK i \in Node : IsLeader(i)' /\ seen = <<term'[i], i>>
      BY <1>2, <1>5, <2>2
    <3>2. seen[2] = i /\ seen[1] = term'[i]
      BY <3>1
    <3>3. QED
      BY <1>1, <3>1, <3>2 DEF LeadersElected, IsLeader
  <2>3. QED
    BY <2>1, <2>2
<1>6. max_term_seen' =
        [i \in Node |-> IF i \in live' THEN Higher(max_term_seen[i], term'[i])
                        ELSE max_term_seen[i]]
  BY DEF Observe
<1>7. ASSUME NEW i \in Node
      PROVE  max_term_seen'[i] \in Nat /\ max_term_seen'[i] <= disk'[i].term
  <2>1. /\ disk[i].term \in Nat /\ disk'[i].term \in Nat
        /\ disk[i].term <= disk'[i].term
    BY <1>1, DisksForward
  <2>2. max_term_seen[i] \in Nat /\ max_term_seen[i] <= disk[i].term
    BY DEF SeenInv, Term
  <2>3. i \in live' => disk'[i].term = term'[i]
    BY <1>1 DEF MemoryIsDurable, DurableAt
  <2>4. max_term_seen'[i] = IF i \in live' THEN Higher(max_term_seen[i], term'[i])
                            ELSE max_term_seen[i]
    BY <1>6
  <2>5. QED
    BY <1>3, <2>1, <2>2, <2>3, <2>4 DEF Higher
<1>8. max_term_seen' \in [Node -> Term]
  BY <1>6, <1>7 DEF Term
<1>9. QED
  BY <1>4, <1>5, <1>7, <1>8 DEF SeenInv

\* Every behaviour of the watched cluster keeps both invariants.
THEOREM CheckedInvariantHolds == CheckedSpec => [](ElectionInv /\ SeenInv)
<1>1. Init /\ CheckerInit => ElectionInv /\ SeenInv
  <2>1. SUFFICES ASSUME Init, CheckerInit PROVE SeenInv
    BY InitIsInvariant
  <2>2. \A i \in Node : max_term_seen[i] = 0 /\ disk[i].term = 0
    BY <2>1 DEF Init, CheckerInit, Blank
  <2>3. max_term_seen \in [Node -> Term] /\ leaders_by_term = {}
    BY <2>1 DEF CheckerInit, Term
  <2>4. QED
    BY <2>2, <2>3 DEF SeenInv
<1>2. ElectionInv /\ SeenInv /\ [Next /\ Observe]_<<vars, checker>>
        => (ElectionInv /\ SeenInv)'
  <2>1. SUFFICES ASSUME ElectionInv, SeenInv, [Next /\ Observe]_<<vars, checker>>
                 PROVE  ElectionInv' /\ SeenInv'
    OBVIOUS
  <2>2. CASE Next /\ Observe
    <3>1. ElectionInv' /\ GoodStep
      BY <2>1, <2>2, NextKeepsInvariant, StepIsGood DEF ElectionInv
    <3>2. QED
      BY <2>1, <2>2, <3>1, ObserveKeepsSeen
  <2>3. CASE UNCHANGED <<vars, checker>>
    <3>1. ElectionInv'
      BY <2>1, <2>3, StutterKeepsInvariant
    <3>2. /\ leaders_by_term' = leaders_by_term /\ max_term_seen' = max_term_seen
          /\ disk' = disk /\ wire' = wire
      BY <2>3 DEF vars, checker
    <3>3. SeenInv'
      BY <2>1, <3>2 DEF SeenInv, Elected, VotedFor, IsGrant, IsQuorum
    <3>4. QED
      BY <3>1, <3>3
  <2>4. QED
    BY <2>1, <2>2, <2>3
<1>3. QED
  BY <1>1, <1>2, PTL DEF CheckedSpec

\* No term has two leaders over the whole execution, even when the first has
\* crashed or stepped down before the second is elected, and even when neither
\* got a message out (check_invariants, "two leaders in term").
THEOREM ElectionSafetyChecked == CheckedSpec => []OneLeaderPerTerm
<1>1. ElectionInv /\ SeenInv => OneLeaderPerTerm
  <2>1. SUFFICES ASSUME ElectionInv, SeenInv,
                        NEW a \in leaders_by_term, NEW b \in leaders_by_term, a[1] = b[1]
                 PROVE  a[2] = b[2]
    BY DEF OneLeaderPerTerm
  <2>2. /\ a[1] \in Nat /\ a[2] \in Node /\ b[2] \in Node
        /\ Elected(a[2], a[1]) /\ Elected(b[2], a[1])
    BY <2>1 DEF SeenInv, Term
  <2>3. QED
    BY <2>1, <2>2, OneIsElected
<1>2. QED
  BY <1>1, CheckedInvariantHolds, PTL

\* No live node is in an earlier term than the checker once saw it in, however
\* often it crashed in between (check_invariants, its first test).
THEOREM TermsGoForward == CheckedSpec => []TermsNeverRegress
<1>1. ElectionInv /\ SeenInv => TermsNeverRegress
  <2>1. SUFFICES ASSUME ElectionInv, SeenInv, NEW i \in live
                 PROVE  term[i] >= max_term_seen[i]
    BY DEF TermsNeverRegress
  <2>2. i \in Node /\ disk[i].term = term[i] /\ term[i] \in Nat
    BY <2>1, NodeFacts DEF ElectionInv, TypeOK, Term
  <2>3. max_term_seen[i] \in Nat /\ max_term_seen[i] <= disk[i].term
    BY <2>1, <2>2 DEF SeenInv, Term
  <2>4. QED
    BY <2>2, <2>3
<1>2. QED
  BY <1>1, CheckedInvariantHolds, PTL

-----------------------------------------------------------------------------
(* Commitment *)

\* A node that goes down forgets its commit index.
LEMMA DownForgets ==
  ASSUME TypeOK, NEW i \in Node, StepOf(i), i \notin live'
  PROVE  commit_index'[i] = 0
<1>1. ASSUME NEW d, CrashWith(i, d) PROVE commit_index'[i] = 0
  BY <1>1 DEF CrashWith, FreshVolatile, TypeOK
<1>2. ASSUME i \in live /\ live' = live PROVE FALSE
  BY <1>2
<1>3. CASE Timeout(i)
  BY <1>2, <1>3 DEF Timeout, Campaign, CampaignAlone, Heartbeat, StartElection
<1>4. CASE \/ TakeCommitted(i)
           \/ \E c \in Command \cup {Noop} : Propose(i, c)
  BY <1>2, <1>4 DEF TakeCommitted, Propose
<1>5. CASE Crash(i) \/ CrashInCampaign(i) \/ Restart(i)
  BY <1>1, <1>5 DEF Crash, CrashInCampaign, Restart
<1>6. ASSUME NEW m \in wire, Handle(i, m) PROVE FALSE
  <2>1. i \in live
    BY <1>6 DEF Handle, GrantVote, DenyVote, OnRequestVote,
       CountVote, WinElection, OnVoteResponse, RejectStale, RejectAppend,
       AcceptKnown, AcceptNew, AcceptAppend, FollowLeader, AckSuccess, AckFailure,
       OnAppendResponse, StepDown, Deliverable
  <2>2. live' = live
    BY <1>6 DEF Handle, GrantVote, DenyVote, OnRequestVote,
       CountVote, WinElection, OnVoteResponse, RejectStale, RejectAppend,
       AcceptKnown, AcceptNew, AcceptAppend, FollowLeader, AckSuccess, AckFailure,
       OnAppendResponse, StepDown
  <2>3. QED
    BY <1>2, <2>1, <2>2
<1>7. ASSUME NEW m \in wire, CrashInHandler(i, m) PROVE commit_index'[i] = 0
  BY <1>1, <1>7 DEF CrashInHandler, CrashInStepDown, CrashInTruncate
<1>8. QED
  BY <1>3, <1>4, <1>5, <1>6, <1>7 DEF StepOf

\* Observe, one node at a time.
LEMMA ObserveFacts ==
  ASSUME TypeOK, TypeOK', NEW led, AgreedInv(led), Observe, NEW j \in Node
  PROVE  /\ commit_index'[j] \in Nat /\ max_commit_seen[j] \in Nat
         /\ max_commit_seen'[j] \in {max_commit_seen[j], commit_index'[j]}
         /\ commit_index'[j] <= max_commit_seen'[j]
         /\ max_commit_seen'[j] \in Nat
         /\ max_commit_seen' \in [Node -> Index]
<1>1. \A p \in Node : commit_index'[p] \in Nat /\ max_commit_seen[p] \in Nat
  BY DEF TypeOK, Index, AgreedInv
<1>2. max_commit_seen' =
        [p \in Node |-> Higher(max_commit_seen[p], commit_index'[p])]
  BY DEF Observe
<1>3. \A p \in Node :
        Higher(max_commit_seen[p], commit_index'[p]) \in Nat
  BY <1>1 DEF Higher
<1>4. QED
  BY <1>1, <1>2, <1>3 DEF Higher, Index

\* What node i commits beyond what the checker has, it has on top of that.
LEMMA CollectedBefore ==
  ASSUME NEW led \in [Term -> Seq(Entry)], NEW led2 \in [Term -> Seq(Entry)],
         NEW i \in Node, StepFrom(led, led2, i), AgreedInv(led),
         NEW l \in Seq(Entry), NEW n \in Nat, NEW t, Decided(led2, l, n, t)',
         Len(committed) <= n
  PROVE  SamePrefix(committed, l, Len(committed))
<1>1. PICK a \in Seq(Entry) : a = committed
  BY DEF AgreedInv
<1>2. Len(a) \in Nat
  BY LenProperties
<1>3. PICK u : Decided(led, a, Len(a), u)
  <2>1. CASE Len(a) = 0
    BY <2>1 DEF Decided
  <2>2. CASE Len(a) # 0
    <3>1. Len(a) \in 1 .. Len(committed)
      BY <1>1, <1>2, <2>2
    <3>2. QED
      BY <1>1, <3>1 DEF AgreedInv
  <2>3. QED
    BY <2>1, <2>2
<1>4. Decided(led2, a, Len(a), u)'
  BY <1>2, <1>3, DecidedForGood
<1>5. LaterLeadersHold(led2)'
  BY CommitInvKept DEF CommitInv
<1>6. SamePrefix(a, l, Len(a))
  BY <1>1, <1>2, <1>4, <1>5, DecidedAgreeNext
<1>7. QED
  BY <1>1, <1>6

\* Appending the rest of l, up to n, to what a shares with it.
LEMMA RestOf ==
  ASSUME NEW a \in Seq(Entry), NEW l \in Seq(Entry), SamePrefix(a, l, Len(a)),
         NEW n \in Nat, Len(a) <= n, n <= Len(l)
  PROVE  \E s \in Seq(Entry), b \in Seq(Entry) :
           /\ s = SubSeq(l, Len(a) + 1, n) /\ b = a \o s
           /\ Len(s) \in Nat /\ Len(a) + Len(s) = n /\ Len(b) = n
           /\ SamePrefix(b, l, n) /\ SamePrefix(a, b, Len(a))
<1> DEFINE s == SubSeq(l, Len(a) + 1, n)
           b == a \o s
<1>1. Len(a) \in Nat /\ Len(l) \in Nat
  BY LenProperties
<1>2. /\ s \in Seq(Entry)
      /\ Len(s) = IF Len(a) + 1 <= n THEN n - Len(a) ELSE 0
      /\ \A k \in 1 .. n - Len(a) : s[k] = l[Len(a) + k]
  <2>1. \A k \in Len(a) + 1 .. n : l[k] \in Entry
    BY <1>1, ElementOfSeq
  <2>2. QED
    BY <1>1, <2>1, SubSeqProperties
<1> HIDE DEF s
<1>3. Len(s) \in Nat /\ Len(a) + Len(s) = n
  BY <1>1, <1>2
<1>4. /\ b \in Seq(Entry) /\ Len(b) = Len(a) + Len(s)
      /\ \A k \in 1 .. Len(a) + Len(s) :
           b[k] = IF k <= Len(a) THEN a[k] ELSE s[k - Len(a)]
  BY <1>2, ConcatProperties
<1> HIDE DEF b
<1>5. ASSUME NEW k \in 1 .. n PROVE b[k] = l[k]
  <2>1. CASE k <= Len(a)
    BY <1>1, <1>3, <1>4, <1>5, <2>1 DEF SamePrefix
  <2>2. CASE ~(k <= Len(a))
    <3>1. k - Len(a) \in 1 .. n - Len(a) /\ Len(a) + (k - Len(a)) = k
      BY <1>1, <1>5, <2>2
    <3>2. QED
      BY <1>2, <1>3, <1>4, <2>2, <3>1
  <2>3. QED
    BY <2>1, <2>2
<1>6. SamePrefix(b, l, n) /\ SamePrefix(a, b, Len(a))
  BY <1>1, <1>3, <1>4, <1>5 DEF SamePrefix
<1>7. Len(b) = n
  BY <1>3, <1>4
<1>8. s = SubSeq(l, Len(a) + 1, n) /\ b = a \o s
  BY DEF s, b
<1>9. QED
  BY <1>2, <1>3, <1>4, <1>6, <1>7, <1>8

\* Appending t, n times.
LEMMA Stamped ==
  ASSUME NEW q \in Seq(Nat), NEW n \in Nat, NEW t \in Nat
  PROVE  \E p \in Seq(Nat) :
           /\ p = q \o [k \in 1 .. n |-> t] /\ Len(p) = Len(q) + n
           /\ \A k \in 1 .. Len(q) : p[k] = q[k]
           /\ \A k \in Len(q) + 1 .. Len(q) + n : p[k] = t
<1>1. PICK r : r = [k \in 1 .. n |-> t]
  OBVIOUS
<1>2. r \in Seq(Nat) /\ Len(r) = n
  BY <1>1
<1>3. Len(q) \in Nat
  BY LenProperties
<1>4. q \o r = q \o [k \in 1 .. n |-> t]
  BY <1>1
<1>5. /\ q \o r \in Seq(Nat) /\ Len(q \o r) = Len(q) + Len(r)
      /\ \A k \in 1 .. Len(q) + Len(r) :
           (q \o r)[k] = IF k <= Len(q) THEN q[k] ELSE r[k - Len(q)]
  BY <1>2, ConcatProperties, Zenon
<1>6. ASSUME NEW k \in Len(q) + 1 .. Len(q) + n PROVE (q \o r)[k] = t
  <2>1. k - Len(q) \in 1 .. n /\ k \in 1 .. Len(q) + n /\ ~(k <= Len(q))
    BY <1>3
  <2>2. r[k - Len(q)] = t
    BY <1>1, <2>1
  <2>3. QED
    BY <1>2, <1>5, <2>1, <2>2
<1>7. \A k \in 1 .. Len(q) : (q \o r)[k] = q[k]
  BY <1>2, <1>3, <1>5
<1>8. QED
  BY <1>2, <1>4, <1>5, <1>6, <1>7

\* The checker collects what node j has committed beyond what it has so far.
Collects(j) ==
  /\ commit_index'[j] > Len(committed)
  /\ LET new == SubSeq(log'[j], Len(committed) + 1, commit_index'[j])
     IN /\ committed' = committed \o new
        /\ committed_in' = committed_in \o [k \in 1 .. Len(new) |-> term'[j]]

\* What a step lets the checker collect.
LEMMA AgreedGrows ==
  ASSUME NEW led \in [Term -> Seq(Entry)], NEW led2 \in [Term -> Seq(Entry)],
         NEW i \in Node, StepFrom(led, led2, i), AgreedInv(led), StepOf(i),
         NEW j \in Node, Collects(j)
  PROVE  /\ j = i /\ i \in live'
         /\ committed' \in Seq(Entry) /\ committed_in' \in Seq(Term)
         /\ Len(committed') = commit_index'[i] /\ Len(committed_in') = Len(committed')
         /\ SamePrefix(committed, committed', Len(committed))
         /\ SamePrefix(committed', log'[i], commit_index'[i])
         /\ \A k \in 1 .. Len(committed') :
              Decided(led2, committed, k, committed_in[k])'
<1>1. PICK n \in Nat : n = commit_index'[j]
  BY StepBasics DEF TypeOK, Index
<1>2. PICK a \in Seq(Entry) : a = committed
  BY DEF AgreedInv
<1>3. PICK q \in Seq(Term) : q = committed_in
  BY DEF AgreedInv
<1>4. Len(a) \in Nat /\ Len(q) = Len(a)
  BY <1>2, <1>3, LenProperties DEF AgreedInv
<1>5. j = i
  <2>1. commit_index[j] \in Nat /\ commit_index[j] <= Len(a)
    <3>1. /\ commit_index[j] <= max_commit_seen[j] /\ max_commit_seen[j] <= Len(a)
          /\ max_commit_seen[j] \in Nat
      BY <1>2 DEF AgreedInv, Index
    <3>2. commit_index[j] \in Nat
      BY StepBasics DEF TypeOK, Index
    <3>3. QED
      BY <1>4, <3>1, <3>2
  <2>2. j # i => n = commit_index[j]
    BY <1>1 DEF StepFrom, Replicates, Commits
  <2>3. QED
    BY <1>1, <1>2, <1>4, <2>1, <2>2 DEF Collects
<1>6. i \in live'
  <2>1. commit_index'[i] # 0
    BY <1>1, <1>2, <1>4, <1>5 DEF Collects
  <2>2. QED
    BY <2>1, StepBasics, DownForgets
<1>7. PICK l \in Seq(Entry) : l = log'[i] /\ l = disk'[i].log
  BY <1>6, StepBasics
<1>8. PICK t \in Nat : t = term'[i] /\ t = disk'[i].term
  BY <1>6, StepBasics
<1>9. Decided(led2, l, n, t)'
  <2>1. Decided(led2, disk[i].log, commit_index[i], disk[i].term)'
    BY CommitsKept DEF CommitsDecided
  <2>2. QED
    BY <1>1, <1>5, <1>7, <1>8, <2>1 DEF Decided
<1>10. Len(a) <= n /\ n <= Len(l)
  <2>1. Len(a) <= n /\ n # 0
    BY <1>1, <1>2, <1>4 DEF Collects
  <2>2. n <= Len(l)
    BY <1>9, <2>1 DEF Decided, SamePrefix
  <2>3. QED
    BY <2>1, <2>2
<1>11. SamePrefix(a, l, Len(a))
  BY <1>2, <1>9, <1>10, CollectedBefore
<1>12. PICK s \in Seq(Entry), b \in Seq(Entry) :
          /\ s = SubSeq(l, Len(a) + 1, n) /\ b = a \o s
          /\ Len(s) \in Nat /\ Len(a) + Len(s) = n /\ Len(b) = n
          /\ SamePrefix(b, l, n) /\ SamePrefix(a, b, Len(a))
  BY <1>10, <1>11, RestOf
<1>13. /\ Len(s) \in Nat /\ Len(a) + Len(s) = n /\ Len(b) = n
       /\ SamePrefix(b, l, n) /\ SamePrefix(a, b, Len(a))
  BY <1>12
<1>14. q \in Seq(Nat)
  BY DEF Term
<1>15. PICK p \in Seq(Nat) :
          /\ p = q \o [k \in 1 .. Len(s) |-> t] /\ Len(p) = Len(q) + Len(s)
          /\ \A k \in 1 .. Len(q) : p[k] = q[k]
          /\ \A k \in Len(q) + 1 .. Len(q) + Len(s) : p[k] = t
  BY <1>13, <1>14, Stamped
<1>16. committed' = b /\ committed_in' = p
  BY <1>1, <1>2, <1>3, <1>5, <1>7, <1>8, <1>12, <1>15 DEF Collects
<1>17. commit_index'[i] = Len(b)
  BY <1>1, <1>5, <1>13
<1>18. Len(p) = n
  BY <1>4, <1>13, <1>15
<1>19. ASSUME NEW k \in 1 .. n PROVE Decided(led2, b, k, p[k])'
  <2>1. k \in Nat /\ k <= n
    BY <1>19
  <2>2. CASE k <= Len(a)
    <3>1. k \in 1 .. Len(a) /\ k \in 1 .. Len(q)
      BY <1>4, <1>19, <2>1, <2>2
    <3>2. PICK u : u = q[k]
      OBVIOUS
    <3>3. Decided(led, a, k, u)
      BY <1>2, <1>3, <3>1, <3>2 DEF AgreedInv
    <3>4. Decided(led2, a, k, u)'
      BY <2>1, <3>3, DecidedForGood
    <3>5. SamePrefix(b, a, k) /\ k <= k
      BY <1>4, <1>13, <2>1, <2>2, PrefixShorter
    <3>6. Decided(led2, b, k, u)'
      BY <2>1, <3>4, <3>5, DecidedShorterNext
    <3>7. p[k] = u
      BY <1>15, <3>1, <3>2
    <3>8. QED
      BY <3>6, <3>7
  <2>3. CASE ~(k <= Len(a))
    <3>1. k \in Len(q) + 1 .. Len(q) + Len(s)
      BY <1>4, <1>13, <1>19, <2>3
    <3>2. p[k] = t
      BY <1>15, <3>1
    <3>3. SamePrefix(b, l, k)
      BY <1>13, <2>1, PrefixShorter
    <3>4. Decided(led2, b, k, t)'
      BY <1>9, <1>13, <2>1, <3>3, DecidedShorterNext
    <3>5. QED
      BY <3>2, <3>4
  <2>4. QED
    BY <2>2, <2>3
<1>20. \A k \in 1 .. Len(committed') : Decided(led2, committed, k, committed_in[k])'
  BY <1>13, <1>16, <1>19 DEF Decided
<1>21. QED
  BY <1>1, <1>2, <1>5, <1>6, <1>7, <1>13, <1>15, <1>16, <1>17, <1>18, <1>20 DEF Term

\* What the checker has collected after a step.
LEMMA CollectedKept ==
  ASSUME NEW led \in [Term -> Seq(Entry)], NEW led2 \in [Term -> Seq(Entry)],
         NEW i \in Node, StepFrom(led, led2, i), AgreedInv(led), StepOf(i), Observe
  PROVE  /\ committed' \in Seq(Entry) /\ committed_in' \in Seq(Term)
         /\ Len(committed_in') = Len(committed')
         /\ Len(committed) <= Len(committed')
         /\ \A p \in Node : commit_index'[p] <= Len(committed')
         /\ \A k \in 1 .. Len(committed') :
              Decided(led2, committed, k, committed_in[k])'
<1>1. PICK a \in Seq(Entry) : a = committed
  BY DEF AgreedInv
<1>2. Len(a) \in Nat
  BY LenProperties
<1>3. CASE /\ \A p \in Node : commit_index'[p] <= Len(committed)
           /\ committed' = committed /\ committed_in' = committed_in
  <2>1. ASSUME NEW k \in 1 .. Len(committed)
        PROVE  Decided(led2, committed, k, committed_in[k])'
    <3>1. PICK u : u = committed_in[k]
      OBVIOUS
    <3>2. k \in Nat
      BY <1>1, <1>2
    <3>3. Decided(led, a, k, u)
      BY <1>1, <3>1 DEF AgreedInv
    <3>4. Decided(led2, a, k, u)'
      BY <3>2, <3>3, DecidedForGood
    <3>5. QED
      BY <1>1, <1>3, <3>1, <3>4 DEF Decided
  <2>2. QED
    BY <1>1, <1>2, <1>3, <2>1 DEF AgreedInv
<1>4. ASSUME NEW j \in Node, Collects(j)
      PROVE  /\ Len(committed) <= Len(committed')
             /\ \A p \in Node : commit_index'[p] <= Len(committed')
  <2>1. j = i /\ Len(committed') = commit_index'[i]
    BY <1>4, AgreedGrows
  <2>2. \A p \in Node : commit_index'[p] \in Nat
    BY StepBasics DEF TypeOK, Index
  <2>3. Len(a) < commit_index'[i]
    BY <1>1, <1>2, <1>4, <2>1, <2>2 DEF Collects
  <2>4. ASSUME NEW p \in Node, p # i PROVE commit_index'[p] <= Len(a)
    <3>1. commit_index'[p] = commit_index[p]
      BY <2>4 DEF StepFrom, Replicates, Commits
    <3>2. /\ commit_index[p] <= max_commit_seen[p] /\ max_commit_seen[p] <= Len(a)
          /\ max_commit_seen[p] \in Nat
      BY <1>1 DEF AgreedInv, Index
    <3>3. QED
      BY <1>2, <2>2, <3>1, <3>2
  <2>5. ASSUME NEW p \in Node PROVE commit_index'[p] <= commit_index'[i]
    <3>1. CASE p = i
      BY <2>2, <3>1
    <3>2. CASE p # i
      BY <1>2, <2>2, <2>3, <2>4, <3>2
    <3>3. QED
      BY <3>1, <3>2
  <2>6. Len(a) <= commit_index'[i]
    BY <1>2, <2>2, <2>3
  <2>7. QED
    BY <1>1, <2>1, <2>5, <2>6
<1>5. (\E j \in Node : Collects(j)) \/
        /\ \A p \in Node : commit_index'[p] <= Len(committed)
        /\ committed' = committed /\ committed_in' = committed_in
  BY DEF Observe, Collects
<1>6. CASE \E j \in Node : Collects(j)
  BY <1>4, <1>6, AgreedGrows
<1>7. QED
  BY <1>3, <1>5, <1>6

LEMMA AgreedKept ==
  ASSUME NEW led \in [Term -> Seq(Entry)], NEW led2 \in [Term -> Seq(Entry)],
         NEW i \in Node, StepFrom(led, led2, i), AgreedInv(led), StepOf(i), Observe
  PROVE  AgreedInv(led2)'
<1>1. PICK n \in Nat : n = Len(committed)
  BY LenProperties DEF AgreedInv
<1>2. PICK k \in Nat : k = Len(committed')
  BY CollectedKept, LenProperties
<1>3. n <= k /\ \A p \in Node : commit_index'[p] <= k
  BY <1>1, <1>2, CollectedKept
<1>4. ASSUME NEW p \in Node
      PROVE  /\ commit_index'[p] <= max_commit_seen'[p]
             /\ max_commit_seen'[p] <= k
  <2>1. /\ max_commit_seen[p] \in Nat /\ max_commit_seen'[p] \in Nat
        /\ max_commit_seen'[p] \in {max_commit_seen[p], commit_index'[p]}
        /\ commit_index'[p] <= max_commit_seen'[p]
    BY StepBasics, ObserveFacts
  <2>2. max_commit_seen[p] <= n
    BY <1>1 DEF AgreedInv
  <2>3. QED
    BY <1>3, <2>1, <2>2
<1>5. ASSUME NEW p \in Node
      PROVE  Decided(led2, disk[p].log, max_commit_seen[p], disk[p].term)'
  <2>1. PICK m \in Nat : m = max_commit_seen'[p]
    BY StepBasics, ObserveFacts
  <2>2. Decided(led2, disk[p].log, m, disk[p].term)'
    <3>1. CASE m = commit_index'[p]
      BY <3>1, CommitsKept DEF CommitsDecided, Decided
    <3>2. CASE m = max_commit_seen[p]
      <4>1. Decided(led, disk[p].log, m, disk[p].term)
        BY <3>2 DEF AgreedInv
      <4>2. QED
        BY <4>1, DecidedStays
    <3>3. QED
      BY <2>1, <3>1, <3>2, StepBasics, ObserveFacts
  <2>3. QED
    BY <2>1, <2>2 DEF Decided
<1>6. ASSUME NEW p \in Node PROVE p \in live' \/ commit_index'[p] = 0
  <2>1. CASE p = i
    BY <2>1, StepBasics, DownForgets
  <2>2. CASE p # i
    <3>1. p \in live' <=> p \in live
      BY <2>2 DEF StepFrom, LocalStep, ElsewhereUnchanged
    <3>2. commit_index'[p] = commit_index[p]
      BY <2>2 DEF StepFrom, Replicates, Commits
    <3>3. QED
      BY <3>1, <3>2 DEF AgreedInv
  <2>3. QED
    BY <2>1, <2>2
<1>7. max_commit_seen' \in [Node -> Index]
  BY StepBasics, ObserveFacts
<1>8. QED
  BY <1>2, <1>4, <1>5, <1>6, <1>7, CollectedKept DEF AgreedInv

LEMMA AgreedStarts ==
  ASSUME Init, CheckerInit
  PROVE  AgreedHistory
<1>1. PICK led \in [Term -> Seq(Entry)] : LogInv(led) /\ CommitInv(led)
  BY HistoryStarts DEF History
<1>2. /\ committed = <<>> /\ committed_in = <<>>
      /\ max_commit_seen = [i \in Node |-> 0]
      /\ \A i \in Node : commit_index[i] = 0
  BY DEF Init, CheckerInit
<1>3. /\ committed \in Seq(Entry) /\ committed_in \in Seq(Term)
      /\ Len(committed) = 0 /\ Len(committed_in) = 0
  BY <1>2, EmptySeq
<1>4. AgreedInv(led)
  BY <1>2, <1>3 DEF AgreedInv, Decided, Index
<1>5. QED
  BY <1>1, <1>4 DEF AgreedHistory

LEMMA AgreedStep ==
  ASSUME ElectionInv, AgreedHistory, Next, Observe
  PROVE  AgreedHistory'
<1>1. PICK led \in [Term -> Seq(Entry)] :
        LogInv(led) /\ CommitInv(led) /\ AgreedInv(led)
  BY DEF AgreedHistory
<1>2. PICK i \in Node, led2 \in [Term -> Seq(Entry)] :
        StepFrom(led, led2, i) /\ StepOf(i)
  BY <1>1, NextIsStepFrom
<1>3. CommitInv(led2)' /\ AgreedInv(led2)'
  BY <1>1, <1>2, CommitInvKept, AgreedKept
<1>4. QED
  BY <1>2, <1>3 DEF StepFrom, AgreedHistory

LEMMA AgreedStutters ==
  ASSUME AgreedHistory, UNCHANGED <<vars, checker>>
  PROVE  AgreedHistory'
<1>1. PICK led \in [Term -> Seq(Entry)] :
        LogInv(led) /\ CommitInv(led) /\ AgreedInv(led)
  BY DEF AgreedHistory
<1>2. /\ disk' = disk /\ live' = live /\ wire' = wire
      /\ commit_index' = commit_index /\ committed' = committed
      /\ committed_in' = committed_in /\ max_commit_seen' = max_commit_seen
  BY DEF vars, checker, indices
<1>3. \A l, n, t : Decided(led, l, n, t)' <=> Decided(led, l, n, t)
  BY <1>2, DecidedStutters
<1>4. AgreedInv(led)'
  BY <1>1, <1>2, <1>3 DEF AgreedInv
<1>5. LogInv(led)' /\ CommitInv(led)'
  BY <1>1, LogInvStutters, CommitInvStutters
<1>6. QED
  BY <1>4, <1>5 DEF AgreedHistory

\* Whatever the checker has collected was decided, and every node's disk holds
\* what it once had committed of it.
THEOREM AgreedHistoryHolds == CheckedSpec => [](ElectionInv /\ AgreedHistory)
<1>1. Init /\ CheckerInit => ElectionInv /\ AgreedHistory
  BY InitIsInvariant, AgreedStarts
<1>2. ElectionInv /\ AgreedHistory /\ [Next /\ Observe]_<<vars, checker>>
        => (ElectionInv /\ AgreedHistory)'
  <2>1. SUFFICES ASSUME ElectionInv, AgreedHistory,
                        [Next /\ Observe]_<<vars, checker>>
                 PROVE  ElectionInv' /\ AgreedHistory'
    OBVIOUS
  <2>2. CASE Next /\ Observe
    BY <2>1, <2>2, NextKeepsInvariant, AgreedStep
  <2>3. CASE UNCHANGED <<vars, checker>>
    BY <2>1, <2>3, StutterKeepsInvariant, AgreedStutters
  <2>4. QED
    BY <2>1, <2>2, <2>3
<1>3. QED
  BY <1>1, <1>2, PTL DEF CheckedSpec

-----------------------------------------------------------------------------
(* The assertions on what is committed *)

\* The checker's log and a decided log agree as far as the decision goes.
LEMMA AgreesWithChecker ==
  ASSUME NEW led \in [Term -> Seq(Entry)], CommitInv(led), AgreedInv(led),
         NEW l \in Seq(Entry), NEW n \in Nat, n <= Len(committed),
         NEW t, Decided(led, l, n, t)
  PROVE  n <= Len(l) /\ SubSeq(l, 1, n) = SubSeq(committed, 1, n)
<1>1. PICK a \in Seq(Entry) : a = committed
  BY DEF AgreedInv
<1>2. CASE n = 0
  <2>1. Len(l) \in Nat /\ SubSeq(l, 1, 0) = SubSeq(committed, 1, 0)
    BY LenProperties, NoEntries
  <2>2. QED
    BY <1>2, <2>1
<1>3. CASE n # 0
  <2>1. Len(a) \in Nat /\ n <= Len(a)
    BY <1>1, LenProperties
  <2>2. Len(a) \in 1 .. Len(a)
    BY <1>3, <2>1
  <2>3. PICK u : Decided(led, a, Len(a), u)
    BY <1>1, <2>2 DEF AgreedInv
  <2>4. SamePrefix(l, a, n)
    BY <2>1, <2>3, DecidedAgree DEF CommitInv
  <2>5. n <= Len(l)
    BY <2>4 DEF SamePrefix
  <2>6. SubSeq(l, 1, n) = SubSeq(a, 1, n)
    BY <2>4, PrefixSubSeq
  <2>7. QED
    BY <1>1, <2>5, <2>6
<1>4. QED
  BY <1>2, <1>3

LEMMA AgreedGivesSafety ==
  ASSUME ElectionInv, AgreedHistory
  PROVE  StateMachineSafety /\ Durability
<1>1. PICK led \in [Term -> Seq(Entry)] :
        LogInv(led) /\ CommitInv(led) /\ AgreedInv(led)
  BY DEF AgreedHistory
<1>2. Len(committed) \in Nat
  BY <1>1, LenProperties DEF AgreedInv
<1>3. ASSUME NEW i \in live
      PROVE  /\ commit_index[i] <= Len(log[i])
             /\ SubSeq(log[i], 1, commit_index[i])
                  = SubSeq(committed, 1, commit_index[i])
  <2>1. i \in Node /\ disk[i].log = log[i]
    BY NodeFacts
  <2>2. PICK n \in Nat : n = commit_index[i]
    BY <2>1 DEF ElectionInv, TypeOK, Index
  <2>3. PICK l \in Seq(Entry) : l = log[i]
    BY <2>1 DEF ElectionInv, TypeOK
  <2>4. n <= Len(committed)
    <3>1. /\ max_commit_seen[i] \in Nat /\ n <= max_commit_seen[i]
          /\ max_commit_seen[i] <= Len(committed)
      BY <1>1, <2>1, <2>2 DEF AgreedInv, Index
    <3>2. QED
      BY <1>2, <3>1
  <2>5. Decided(led, l, n, disk[i].term)
    BY <1>1, <2>1, <2>2, <2>3 DEF CommitInv, CommitsDecided
  <2>6. n <= Len(l) /\ SubSeq(l, 1, n) = SubSeq(committed, 1, n)
    BY <1>1, <2>4, <2>5, AgreesWithChecker
  <2>7. QED
    BY <2>2, <2>3, <2>6
<1>4. ASSUME NEW i \in Node
      PROVE  /\ max_commit_seen[i] <= Len(disk[i].log)
             /\ SubSeq(disk[i].log, 1, max_commit_seen[i])
                  = SubSeq(committed, 1, max_commit_seen[i])
  <2>1. PICK n \in Nat : n = max_commit_seen[i]
    BY <1>1 DEF AgreedInv, Index
  <2>2. PICK l \in Seq(Entry) : l = disk[i].log
    BY <1>1, LogFacts
  <2>3. n <= Len(committed) /\ Decided(led, l, n, disk[i].term)
    BY <1>1, <2>1, <2>2 DEF AgreedInv
  <2>4. n <= Len(l) /\ SubSeq(l, 1, n) = SubSeq(committed, 1, n)
    BY <1>1, <2>3, AgreesWithChecker
  <2>5. QED
    BY <2>1, <2>2, <2>4
<1>5. QED
  BY <1>3, <1>4 DEF StateMachineSafety, Durability

\* State-machine safety: what any two nodes have ever reported as committed is
\* one log, whatever leaders crashed in between (check_invariants, its
\* comparison with the global committed log).
THEOREM CommittedIsOneLog == CheckedSpec => []StateMachineSafety
  BY AgreedGivesSafety, AgreedHistoryHolds, PTL

\* Whatever a node has committed in this life or an earlier one is on its disk
\* at every moment, so that a restart recovers it (Cluster::restart).
THEOREM CommittedIsDurable == CheckedSpec => []Durability
  BY AgreedGivesSafety, AgreedHistoryHolds, PTL

LEMMA AgreedGivesCompleteness ==
  ASSUME ElectionInv, AgreedHistory
  PROVE  LeaderCompleteness
<1>1. PICK led \in [Term -> Seq(Entry)] :
        LogInv(led) /\ CommitInv(led) /\ AgreedInv(led)
  BY DEF AgreedHistory
<1>2. SUFFICES ASSUME NEW i \in live, role[i] = Leader,
                      NEW k \in 1 .. Len(committed), committed_in[k] < term[i]
               PROVE  k <= Len(log[i]) /\ log[i][k] = committed[k]
  BY DEF LeaderCompleteness, Holds
<1>3. k \in Nat \ {0} /\ Len(committed) \in Nat
  BY <1>1, LenProperties DEF AgreedInv
<1>4. PICK s \in Nat : s = committed_in[k]
  <2>1. k \in 1 .. Len(committed_in) /\ committed_in \in Seq(Nat)
    BY <1>1 DEF AgreedInv, Term
  <2>2. committed_in[k] \in Nat
    BY <2>1, ElementOfSeq
  <2>3. QED
    BY <2>2
<1>5. PICK t \in Nat : t = term[i]
  BY DEF ElectionInv, TypeOK, Term
<1>6. Decided(led, committed, k, s)
  BY <1>1, <1>4 DEF AgreedInv
<1>7. PICK u, N :
        /\ u \in Term /\ N \in 1 .. Len(led[u])
        /\ u <= s /\ k <= N /\ Chosen(led, N, u) /\ SamePrefix(committed, led[u], k)
  BY <1>3, <1>6 DEF Decided
<1>8. /\ u \in Nat /\ u < t /\ led[u] \in Seq(Entry)
      /\ N \in Nat /\ MayBeChosen(led, N, u)
  <2>1. u \in Nat /\ u <= s
    BY <1>7 DEF Term
  <2>2. s < t
    BY <1>2, <1>4, <1>5
  <2>3. u < t
    BY <2>1, <2>2
  <2>4. led[u] \in Seq(Entry) /\ N \in Nat
    BY <1>7, LenProperties
  <2>5. QED
    BY <1>7, <2>1, <2>3, <2>4, ChosenMayBe
<1>9. log[i] = led[t] /\ led[t] # <<>>
  BY <1>1, <1>2, <1>5 DEF LogInv, LeadersLed
<1>10. SamePrefix(led[t], led[u], N)
  BY <1>1, <1>5, <1>7, <1>8, <1>9 DEF CommitInv, LaterLeadersHold, Term
<1>11. led[t] \in Seq(Entry)
  BY <1>5 DEF Term
<1>12. SamePrefix(led[t], led[u], k)
  BY <1>3, <1>7, <1>8, <1>10, <1>11, PrefixShorter
<1>13. k <= Len(led[t]) /\ led[t][k] = led[u][k] /\ led[u][k] = committed[k]
  BY <1>3, <1>7, <1>12 DEF SamePrefix
<1>14. QED
  BY <1>9, <1>13

\* A leader's log holds every entry that was committed in an earlier term:
\* what the up-to-date check of on_request_vote is for.
THEOREM LeadersAreComplete == CheckedSpec => []LeaderCompleteness
  BY AgreedGivesCompleteness, AgreedHistoryHolds, PTL


-----------------------------------------------------------------------------
(* The nodes implement the replicated log *)

\* Every node reports a prefix of the log agreed on.
ReportsAgreed ==
  \A p \in Node :
    /\ commit_index[p] \in 0 .. Len(committed)
    /\ Reported[p] = SubSeq(committed, 1, commit_index[p])

LEMMA AgreedGivesReports ==
  ASSUME ElectionInv, AgreedHistory
  PROVE  ReportsAgreed
<1>1. PICK led \in [Term -> Seq(Entry)] : AgreedInv(led)
  BY DEF AgreedHistory
<1>2. Len(committed) \in Nat
  BY <1>1, LenProperties DEF AgreedInv
<1>3. ASSUME NEW p \in Node
      PROVE  /\ commit_index[p] \in 0 .. Len(committed)
             /\ Reported[p] = SubSeq(committed, 1, commit_index[p])
  <2>1. commit_index[p] \in Nat /\ max_commit_seen[p] \in Nat
    BY <1>1 DEF ElectionInv, TypeOK, Index, AgreedInv
  <2>2. commit_index[p] <= max_commit_seen[p] /\ max_commit_seen[p] <= Len(committed)
    BY <1>1 DEF AgreedInv
  <2>3. commit_index[p] \in 0 .. Len(committed)
    BY <1>2, <2>1, <2>2
  <2>4. Reported[p] = SubSeq(log[p], 1, commit_index[p])
    BY DEF Reported
  <2>5. CASE p \in live
    BY <2>3, <2>4, <2>5, AgreedGivesSafety DEF StateMachineSafety
  <2>6. CASE p \notin live
    <3>1. commit_index[p] = 0
      BY <1>1, <2>6 DEF AgreedInv
    <3>2. SubSeq(log[p], 1, 0) = SubSeq(committed, 1, 0)
      BY NoEntries
    <3>3. QED
      BY <2>3, <2>4, <3>1, <3>2
  <2>7. QED
    BY <2>5, <2>6
<1>4. QED
  BY <1>3 DEF ReportsAgreed

LEMMA WholeSeq ==
  ASSUME NEW S, NEW s \in Seq(S)
  PROVE  SubSeq(s, 1, Len(s)) = s
<1>1. Len(s) \in Nat /\ s = [k \in 1 .. Len(s) |-> s[k]]
  BY LenProperties
<1>2. SubSeq(s, 1, Len(s)) = [k \in 1 .. Len(s) |-> s[k]]
  BY <1>1
<1>3. QED
  BY <1>1, <1>2

\* When the log agreed on keeps what it has, only node i's knowledge changes.
LEMMA OnlyStepperLearns ==
  ASSUME NEW i \in Node, Commits(i), ReportsAgreed, ReportsAgreed',
         committed \in Seq(Entry), committed' \in Seq(Entry),
         SamePrefix(committed, committed', Len(committed))
  PROVE  Reported' = [Reported EXCEPT ![i] = SubSeq(committed', 1, commit_index'[i])]
<1>1. PICK a \in Seq(Entry), b \in Seq(Entry) : a = committed /\ b = committed'
  OBVIOUS
<1>2. ASSUME NEW p \in Node, p # i
      PROVE  Reported'[p] = Reported[p]
  <2>1. PICK n \in 0 .. Len(a) : n = commit_index[p]
    BY <1>1 DEF ReportsAgreed
  <2>2. n \in Nat /\ n <= Len(a) /\ SamePrefix(a, b, Len(a)) /\ Len(a) \in Nat
    BY <1>1, <2>1, LenProperties
  <2>3. SamePrefix(a, b, n)
    BY <2>2, PrefixShorter
  <2>4. SubSeq(a, 1, n) = SubSeq(b, 1, n)
    BY <2>2, <2>3, PrefixSubSeq
  <2>5. commit_index'[p] = n
    BY <1>2, <2>1 DEF Commits
  <2>6. Reported[p] = SubSeq(a, 1, n) /\ Reported'[p] = SubSeq(b, 1, n)
    BY <1>1, <2>1, <2>5 DEF ReportsAgreed
  <2>7. QED
    BY <2>4, <2>6
<1>3. Reported'[i] = SubSeq(committed', 1, commit_index'[i])
  BY DEF ReportsAgreed
<1>4. Reported = [p \in Node |-> Reported[p]] /\ Reported' = [p \in Node |-> Reported'[p]]
  BY DEF Reported
<1>5. QED
  BY <1>2, <1>3, <1>4

\* A step that collects nothing teaches one node a prefix of what is agreed on.
LEMMA QuietStepLearns ==
  ASSUME NEW i \in Node, Commits(i), ReportsAgreed, ReportsAgreed',
         committed \in Seq(Entry), committed' = committed
  PROVE  Contract!Learn(i)
<1>1. Len(committed) \in Nat /\ commit_index'[i] \in 0 .. Len(committed)
  BY LenProperties DEF ReportsAgreed
<1>2. SamePrefix(committed, committed', Len(committed))
  BY <1>1 DEF SamePrefix
<1>3. Reported' = [Reported EXCEPT ![i] = SubSeq(committed, 1, commit_index'[i])]
  BY <1>2, OnlyStepperLearns
<1>4. QED
  BY <1>1, <1>3 DEF Contract!Learn, Contract!OnlyKnows

\* One that collects has the node that counted the replicas extend it.
LEMMA CollectingStepAgrees ==
  ASSUME NEW i \in Node, Commits(i), ReportsAgreed, ReportsAgreed',
         committed \in Seq(Entry), committed' \in Seq(Entry),
         SamePrefix(committed, committed', Len(committed)),
         Len(committed') = commit_index'[i], Len(committed) < Len(committed')
  PROVE  Contract!Agree(i)
<1>1. PICK a \in Seq(Entry), b \in Seq(Entry) : a = committed /\ b = committed'
  OBVIOUS
<1>2. Len(a) \in Nat /\ Len(b) \in Nat /\ SamePrefix(a, b, Len(a))
  BY <1>1, LenProperties
<1>3. SubSeq(a, 1, Len(a)) = SubSeq(b, 1, Len(a)) /\ SubSeq(a, 1, Len(a)) = a
  BY <1>2, PrefixSubSeq, WholeSeq
<1>4. SubSeq(b, 1, Len(b)) = b
  BY <1>2, WholeSeq
<1>5. Reported' = [Reported EXCEPT ![i] = committed']
  BY <1>1, <1>4, OnlyStepperLearns
<1>6. QED
  BY <1>1, <1>3, <1>5 DEF Contract!Agree, Contract!OnlyKnows

LEMMA StepImplementsLog ==
  ASSUME ElectionInv, AgreedHistory, ReportsAgreed, ReportsAgreed', Next, Observe
  PROVE  Contract!Next
<1>1. PICK led \in [Term -> Seq(Entry)] :
        LogInv(led) /\ CommitInv(led) /\ AgreedInv(led)
  BY DEF AgreedHistory
<1>2. PICK i \in Node, led2 \in [Term -> Seq(Entry)] :
        StepFrom(led, led2, i) /\ StepOf(i)
  BY <1>1, NextIsStepFrom
<1>3. Commits(i) /\ committed \in Seq(Entry)
  BY <1>1, <1>2 DEF StepFrom, Replicates, AgreedInv
<1>4. CASE UNCHANGED <<committed, committed_in>>
  <2>1. Contract!Learn(i)
    BY <1>3, <1>4, QuietStepLearns
  <2>2. QED
    BY <2>1 DEF Contract!Next
<1>5. CASE \E j \in Node : Collects(j)
  <2>1. PICK j \in Node : Collects(j)
    BY <1>5
  <2>2. /\ j = i /\ committed' \in Seq(Entry) /\ Len(committed') = commit_index'[i]
        /\ SamePrefix(committed, committed', Len(committed))
    BY <1>1, <1>2, <2>1, AgreedGrows
  <2>3. Len(committed) < Len(committed')
    <3>1. commit_index'[i] > Len(committed)
      BY <2>1, <2>2 DEF Collects
    <3>2. Len(committed) \in Nat /\ Len(committed') \in Nat
      BY <1>3, <2>2, LenProperties
    <3>3. QED
      BY <2>2, <3>1, <3>2
  <2>4. Contract!Agree(i)
    BY <1>3, <2>2, <2>3, CollectingStepAgrees
  <2>5. QED
    BY <2>4 DEF Contract!Next
<1>6. QED
  BY <1>4, <1>5 DEF Observe, Collects

\* The nodes implement the replicated log, with the checker's log as the one
\* agreed on: nothing that was ever reported as committed is taken back or
\* reordered, by an election, an overwritten log, a lost message or a crash,
\* and only the node that counts the replicas extends it.
THEOREM NodesImplementLog == CheckedSpec => ImplementsLog
<1>1. Init /\ CheckerInit => Contract!Init
  <2>1. SUFFICES ASSUME Init, CheckerInit PROVE Contract!Init
    OBVIOUS
  <2>2. committed = <<>> /\ \A p \in Node : commit_index[p] = 0
    BY <2>1 DEF Init, CheckerInit
  <2>3. \A p \in Node : SubSeq(log[p], 1, 0) = <<>>
    BY NoEntries
  <2>4. QED
    BY <2>2, <2>3 DEF Contract!Init, Reported
<1>2. ElectionInv /\ AgreedHistory => ReportsAgreed
  BY AgreedGivesReports
<1>3. ElectionInv /\ AgreedHistory /\ ReportsAgreed /\ ReportsAgreed'
        /\ [Next /\ Observe]_<<vars, checker>>
        => [Contract!Next]_<<committed, Reported>>
  <2>1. SUFFICES ASSUME ElectionInv, AgreedHistory, ReportsAgreed, ReportsAgreed',
                        [Next /\ Observe]_<<vars, checker>>
                 PROVE  [Contract!Next]_<<committed, Reported>>
    OBVIOUS
  <2>2. CASE Next /\ Observe
    BY <2>1, <2>2, StepImplementsLog
  <2>3. CASE UNCHANGED <<vars, checker>>
    BY <2>3 DEF vars, checker, indices, memory, Reported
  <2>4. QED
    BY <2>1, <2>2, <2>3
<1>4. QED
  BY <1>1, <1>2, <1>3, AgreedHistoryHolds, PTL
     DEF CheckedSpec, ImplementsLog, Contract!Spec

-----------------------------------------------------------------------------
(* What take_committed hands out *)

\* Handed is a sequence of deliveries, numbered on from applied_index.
LEMMA HandedIsSeq ==
  ASSUME TypeOK, NEW i \in Node, commit_index[i] <= Len(log[i])
  PROVE  \E n \in Nat :
           /\ n = IF applied_index[i] <= commit_index[i]
                  THEN commit_index[i] - applied_index[i] ELSE 0
           /\ Handed(i) \in Seq(Delivery) /\ Len(Handed(i)) = n
           /\ \A k \in 1 .. n :
                /\ applied_index[i] + k \in 1 .. commit_index[i]
                /\ Handed(i)[k].index = applied_index[i] + k
                /\ Handed(i)[k].entry = log[i][applied_index[i] + k]
<1>1. PICK a \in Nat, c \in Nat : a = applied_index[i] /\ c = commit_index[i]
  BY DEF TypeOK, Index
<1>2. PICK l \in Seq(Entry) : l = log[i]
  BY DEF TypeOK
<1>3. PICK n \in Nat : n = IF a <= c THEN c - a ELSE 0
  <2>1. (IF a <= c THEN c - a ELSE 0) \in Nat
    OBVIOUS
  <2>2. QED
    BY <2>1
<1>4. 1 .. (c + 1) - (a + 1) = 1 .. n
  BY <1>3
<1>5. Handed(i) = [k \in 1 .. n |-> [index |-> (a + 1) + k - 1,
                                     entry |-> l[(a + 1) + k - 1]]]
  BY <1>1, <1>2, <1>4 DEF Handed
<1>6. ASSUME NEW k \in 1 .. n
      PROVE  /\ (a + 1) + k - 1 = a + k /\ a + k \in 1 .. c
             /\ a + k \in Index /\ l[a + k] \in Entry
  <2>1. (a + 1) + k - 1 = a + k /\ a + k \in 1 .. c /\ a + k \in Nat
    BY <1>3
  <2>2. c <= Len(l) /\ Len(l) \in Nat
    BY <1>1, <1>2, LenProperties
  <2>3. a + k \in 1 .. Len(l)
    BY <2>1, <2>2
  <2>4. l[a + k] \in Entry
    BY <2>3, ElementOfSeq
  <2>5. QED
    BY <2>1, <2>4 DEF Index
<1>7. PICK h : h = [k \in 1 .. n |-> [index |-> a + k, entry |-> l[a + k]]]
  OBVIOUS
<1>8. h = Handed(i)
  BY <1>5, <1>6, <1>7
<1>9. h \in Seq(Delivery) /\ Len(h) = n
  <2>1. \A k \in 1 .. n : [index |-> a + k, entry |-> l[a + k]] \in Delivery
    BY <1>6 DEF Delivery
  <2>2. h \in [1 .. n -> Delivery]
    BY <1>7, <2>1
  <2>3. QED
    BY <2>2
<1>10. \A k \in 1 .. n : h[k].index = a + k /\ h[k].entry = l[a + k]
  BY <1>7
<1>11. QED
  BY <1>1, <1>2, <1>3, <1>6, <1>8, <1>9, <1>10

LEMMA ConcatFacts ==
  ASSUME NEW S, NEW a \in Seq(S), NEW b \in Seq(S)
  PROVE  /\ a \o b \in Seq(S) /\ Len(a \o b) = Len(a) + Len(b)
         /\ \A k \in 1 .. Len(a) : (a \o b)[k] = a[k]
         /\ \A k \in 1 .. Len(a \o b) : k \notin 1 .. Len(a) =>
              k - Len(a) \in 1 .. Len(b) /\ (a \o b)[k] = b[k - Len(a)]
<1>1. Len(a) \in Nat /\ Len(b) \in Nat
  BY LenProperties
<1>2. a \o b \in Seq(S) /\ Len(a \o b) = Len(a) + Len(b)
  OBVIOUS
<1>3. \A k \in 1 .. Len(a) + Len(b) :
        (a \o b)[k] = IF k <= Len(a) THEN a[k] ELSE b[k - Len(a)]
  OBVIOUS
<1>4. QED
  BY <1>1, <1>2, <1>3

-----------------------------------------------------------------------------
(* What was handed out stays *)

\* What is decided on a disk is on it, entry by entry, after every step.
LEMMA StandsForGood ==
  ASSUME NEW led \in [Term -> Seq(Entry)], NEW led2 \in [Term -> Seq(Entry)],
         NEW i \in Node, StepFrom(led, led2, i), NEW p \in Node, NEW d,
         StandsAt(led, p, d)
  PROVE  StandsAt(led2, p, d)'
<1>1. PICK l \in Seq(Entry), l2 \in Seq(Entry) : l = disk[p].log /\ l2 = disk'[p].log
  BY StepBasics
<1>2. PICK t : t = disk[p].term
  OBVIOUS
<1>3. PICK n \in Nat : n = d.index /\ n # 0
  BY <1>1, LenProperties DEF StandsAt
<1>4. Decided(led, l, n, t) /\ n \in 1 .. Len(l) /\ l[n] = d.entry
  BY <1>1, <1>2, <1>3 DEF StandsAt
<1>5. Decided(led2, disk[p].log, n, disk[p].term)' /\ SamePrefix(l, l2, n)
  BY <1>1, <1>2, <1>4, PrefixForGood
<1>6. n <= Len(l2) /\ l2[n] = l[n] /\ Len(l2) \in Nat
  BY <1>3, <1>5, LenProperties DEF SamePrefix
<1>7. n \in 1 .. Len(l2) /\ l2[n] = d.entry
  BY <1>3, <1>4, <1>6
<1>8. QED
  BY <1>1, <1>3, <1>5, <1>7 DEF StandsAt

\* Whatever take_committed hands out stands.
LEMMA HandedStands ==
  ASSUME ElectionInv, NEW led \in [Term -> Seq(Entry)], LogInv(led), CommitInv(led),
         NEW i \in live, NEW k \in 1 .. Len(Handed(i))
  PROVE  StandsAt(led, i, Handed(i)[k])
<1>1. i \in Node /\ disk[i].log = log[i] /\ TypeOK
  BY NodeFacts DEF ElectionInv
<1>2. PICK l \in Seq(Entry) : l = log[i] /\ l = disk[i].log
  BY <1>1 DEF TypeOK
<1>3. PICK c \in Nat : c = commit_index[i] /\ c <= Len(l)
  BY <1>1, <1>2, CommittedIsInLog DEF CommitInv
<1>4. PICK x \in 1 .. c :
        x = applied_index[i] + k /\ Handed(i)[k].index = x /\ Handed(i)[k].entry = l[x]
  <2>1. commit_index[i] <= Len(log[i])
    BY <1>2, <1>3
  <2>2. QED
    BY <1>1, <1>2, <1>3, <2>1, HandedIsSeq
<1>5. PICK t : t = disk[i].term
  OBVIOUS
<1>6. Decided(led, l, c, t)
  BY <1>1, <1>2, <1>3, <1>5 DEF CommitInv, CommitsDecided
<1>7. x \in Nat /\ x <= c /\ x <= Len(l) /\ x \in 1 .. Len(l)
  BY <1>2, <1>3, <1>4, LenProperties
<1>8. SamePrefix(l, l, x)
  BY <1>7 DEF SamePrefix
<1>9. Decided(led, l, x, t)
  BY <1>6, <1>7, <1>8, DecidedShorter
<1>10. QED
  BY <1>2, <1>4, <1>5, <1>7, <1>9 DEF StandsAt

LEMMA DeliveredKept ==
  ASSUME NEW led \in [Term -> Seq(Entry)], NEW led2 \in [Term -> Seq(Entry)],
         NEW i \in Node, StepFrom(led, led2, i), DeliveredInv(led), ApplyNext
  PROVE  DeliveredInv(led2)'
<1>1. ElectionInv /\ LogInv(led) /\ CommitInv(led)
  BY DEF StepFrom
<1>2. ASSUME NEW p \in Node, NEW k \in 1 .. Len(delivered[p])
      PROVE  StandsAt(led2, p, delivered[p][k])'
               \/ delivered'[p] # delivered[p]
  <2>1. PICK d : d = delivered[p][k]
    OBVIOUS
  <2>2. StandsAt(led2, p, d)'
    BY <2>1, StandsForGood DEF DeliveredInv
  <2>3. QED
    BY <2>1, <2>2 DEF StandsAt, Decided
<1>3. CASE Next /\ KeepApplied
  <2>1. ASSUME NEW p \in Node PROVE delivered'[p] \in {delivered[p], <<>>}
    BY <1>3 DEF KeepApplied
  <2>2. delivered' \in [Node -> Seq(Delivery)]
    <3>1. <<>> \in Seq(Delivery) /\ \A p \in Node : delivered[p] \in Seq(Delivery)
      BY EmptySeq DEF DeliveredInv
    <3>2. QED
      BY <1>3, <3>1 DEF KeepApplied
  <2>3. ASSUME NEW p \in Node, NEW k \in 1 .. Len(delivered'[p])
        PROVE  StandsAt(led2, p, delivered[p][k])'
    <3>1. CASE delivered'[p] = delivered[p]
      BY <1>2, <2>3, <3>1
    <3>2. CASE delivered'[p] = <<>>
      BY <2>3, <3>2, EmptySeq
    <3>3. QED
      BY <2>1, <3>1, <3>2
  <2>4. QED
    BY <2>2, <2>3 DEF DeliveredInv
<1>4. ASSUME NEW j \in Node, Apply(j) PROVE DeliveredInv(led2)'
  <2>1. j \in live /\ TypeOK /\ disk[j].log = log[j]
    BY <1>1, <1>4, NodeFacts DEF Apply, TakeCommitted, ElectionInv
  <2>2. commit_index[j] <= Len(log[j])
    BY <1>1, <2>1, CommittedIsInLog DEF CommitInv
  <2>3. PICK a \in Seq(Delivery), h \in Seq(Delivery) :
          a = delivered[j] /\ h = Handed(j)
    BY <2>1, <2>2, HandedIsSeq DEF DeliveredInv
  <2>4. delivered' = [delivered EXCEPT ![j] = a \o h]
    BY <1>4, <2>3 DEF Apply
  <2>5. delivered \in [Node -> Seq(Delivery)] /\ a \o h \in Seq(Delivery)
    BY ConcatFacts DEF DeliveredInv
  <2>6. delivered' \in [Node -> Seq(Delivery)]
    BY <2>4, <2>5
  <2>7. ASSUME NEW p \in Node, NEW k \in 1 .. Len(delivered'[p])
        PROVE  StandsAt(led2, p, delivered[p][k])'
    <3>1. CASE p # j
      <4>1. delivered'[p] = delivered[p]
        BY <2>4, <2>5, <3>1
      <4>2. QED
        BY <1>2, <2>7, <4>1
    <3>2. CASE p = j
      <4>1. delivered'[j] = a \o h
        BY <2>4, <2>5
      <4>2. PICK d : d = (a \o h)[k]
        OBVIOUS
      <4>3. StandsAt(led, j, d)
        <5>1. CASE k \in 1 .. Len(a)
          BY <2>3, <4>2, <5>1, ConcatFacts DEF DeliveredInv
        <5>2. CASE k \notin 1 .. Len(a)
          <6>1. k - Len(a) \in 1 .. Len(h) /\ d = h[k - Len(a)]
            BY <2>7, <3>2, <4>1, <4>2, <5>2, ConcatFacts
          <6>2. QED
            BY <1>1, <2>1, <2>3, <6>1, HandedStands
        <5>3. QED
          BY <5>1, <5>2
      <4>4. StandsAt(led2, j, d)'
        BY <4>3, StandsForGood
      <4>5. QED
        BY <3>2, <4>1, <4>2, <4>4 DEF StandsAt, Decided
    <3>3. QED
      BY <3>1, <3>2
  <2>8. QED
    BY <2>6, <2>7 DEF DeliveredInv
<1>5. QED
  BY <1>3, <1>4 DEF ApplyNext

LEMMA ApplyNextIsNext ==
  ASSUME ApplyNext
  PROVE  Next
BY DEF ApplyNext, Apply, Next

LEMMA DeliveredStep ==
  ASSUME ElectionInv, DeliveredHistory, ApplyNext
  PROVE  DeliveredHistory'
<1>1. PICK led \in [Term -> Seq(Entry)] :
        LogInv(led) /\ CommitInv(led) /\ DeliveredInv(led)
  BY DEF DeliveredHistory
<1>2. PICK i \in Node, led2 \in [Term -> Seq(Entry)] : StepFrom(led, led2, i)
  BY <1>1, ApplyNextIsNext, NextIsStepFrom
<1>3. CommitInv(led2)' /\ DeliveredInv(led2)'
  BY <1>1, <1>2, CommitInvKept, DeliveredKept
<1>4. QED
  BY <1>2, <1>3 DEF StepFrom, DeliveredHistory

LEMMA DeliveredStutters ==
  ASSUME DeliveredHistory, UNCHANGED <<vars, delivered>>
  PROVE  DeliveredHistory'
<1>1. PICK led \in [Term -> Seq(Entry)] :
        LogInv(led) /\ CommitInv(led) /\ DeliveredInv(led)
  BY DEF DeliveredHistory
<1>2. disk' = disk /\ wire' = wire /\ delivered' = delivered
  BY DEF vars
<1>3. \A l, n, t : Decided(led, l, n, t)' <=> Decided(led, l, n, t)
  BY <1>2, DecidedStutters
<1>4. DeliveredInv(led)'
  BY <1>1, <1>2, <1>3 DEF DeliveredInv, StandsAt
<1>5. LogInv(led)' /\ CommitInv(led)'
  BY <1>1, LogInvStutters, CommitInvStutters
<1>6. QED
  BY <1>4, <1>5 DEF DeliveredHistory

LEMMA NothingDelivered ==
  ASSUME Init, ApplyInit
  PROVE  DeliveredHistory
<1>1. PICK led \in [Term -> Seq(Entry)] : LogInv(led) /\ CommitInv(led)
  BY HistoryStarts DEF History
<1>2. \A i \in Node : delivered[i] = <<>>
  BY DEF ApplyInit
<1>3. <<>> \in Seq(Delivery) /\ Len(<<>>) = 0
  BY EmptySeq
<1>4. DeliveredInv(led)
  BY <1>2, <1>3 DEF DeliveredInv, ApplyInit
<1>5. QED
  BY <1>1, <1>4 DEF DeliveredHistory

\* Whatever a state machine was handed was decided, and is still on the disk of
\* the node that handed it out.
THEOREM DeliveredHistoryHolds == ApplySpec => [](ElectionInv /\ DeliveredHistory)
<1>1. Init /\ ApplyInit => ElectionInv /\ DeliveredHistory
  BY InitIsInvariant, NothingDelivered
<1>2. ElectionInv /\ DeliveredHistory /\ [ApplyNext]_<<vars, delivered>>
        => (ElectionInv /\ DeliveredHistory)'
  <2>1. SUFFICES ASSUME ElectionInv, DeliveredHistory,
                        [ApplyNext]_<<vars, delivered>>
                 PROVE  ElectionInv' /\ DeliveredHistory'
    OBVIOUS
  <2>2. CASE ApplyNext
    BY <2>1, <2>2, ApplyNextIsNext, NextKeepsInvariant, DeliveredStep
  <2>3. CASE UNCHANGED <<vars, delivered>>
    BY <2>1, <2>3, StutterKeepsInvariant, DeliveredStutters
  <2>4. QED
    BY <2>1, <2>2, <2>3
<1>3. QED
  BY <1>1, <1>2, PTL DEF ApplySpec

\* An entry that i was handed is in the log of whoever has got as far.
LEMMA DeliveredGivesAgreement ==
  ASSUME ElectionInv, DeliveredHistory
  PROVE  DeliveredIsAgreed
<1>1. PICK led \in [Term -> Seq(Entry)] :
        LogInv(led) /\ CommitInv(led) /\ DeliveredInv(led)
  BY DEF DeliveredHistory
<1>2. ASSUME NEW i \in Node, NEW j \in Node, NEW k \in 1 .. Len(delivered[i]),
             Reached(j, delivered[i][k].index)
      PROVE  /\ delivered[i][k].index <= Len(disk[j].log)
             /\ disk[j].log[delivered[i][k].index] = delivered[i][k].entry
  <2>1. PICK d : d = delivered[i][k]
    OBVIOUS
  <2>2. PICK a \in Seq(Entry), b \in Seq(Entry) : a = disk[i].log /\ b = disk[j].log
    BY <1>1, LogFacts
  <2>3. PICK t, u : t = disk[i].term /\ u = disk[j].term
    OBVIOUS
  <2>4. PICK n \in Nat : n = d.index /\ n # 0
    BY <1>1, <2>1, <2>2, LenProperties DEF DeliveredInv, StandsAt
  <2>5. n \in 1 .. Len(a) /\ a[n] = d.entry /\ Decided(led, a, n, t)
    BY <1>1, <2>1, <2>2, <2>3, <2>4 DEF DeliveredInv, StandsAt
  <2>6. PICK q \in Nat : n <= q /\ Decided(led, b, q, u)
    <3>1. CASE n <= commit_index[j]
      <4>1. PICK q \in Nat : q = commit_index[j]
        BY DEF ElectionInv, TypeOK, Index
      <4>2. Decided(led, b, q, u)
        BY <1>1, <2>2, <2>3, <4>1 DEF CommitInv, CommitsDecided
      <4>3. QED
        BY <3>1, <4>1, <4>2
    <3>2. CASE \E x \in 1 .. Len(delivered[j]) : n <= delivered[j][x].index
      <4>1. PICK x \in 1 .. Len(delivered[j]) : n <= delivered[j][x].index
        BY <3>2
      <4>2. PICK e : e = delivered[j][x]
        OBVIOUS
      <4>3. PICK q \in Nat : q = e.index
        BY <1>1, <2>2, <4>1, <4>2, LenProperties DEF DeliveredInv, StandsAt
      <4>4. Decided(led, b, q, u)
        BY <1>1, <2>2, <2>3, <4>1, <4>2, <4>3 DEF DeliveredInv, StandsAt
      <4>5. QED
        BY <4>1, <4>2, <4>3, <4>4
    <3>3. QED
      BY <1>2, <2>1, <2>4, <3>1, <3>2 DEF Reached
  <2>7. SamePrefix(a, b, n)
    BY <1>1, <2>5, <2>6, DecidedAgree DEF CommitInv
  <2>8. n <= Len(b) /\ b[n] = a[n]
    BY <2>4, <2>7 DEF SamePrefix
  <2>9. QED
    BY <2>1, <2>2, <2>4, <2>5, <2>8
<1>3. QED
  BY <1>2 DEF DeliveredIsAgreed

\* No two state machines are ever handed different entries for one index, and
\* what was handed out is never overwritten, whatever leaders come and whoever
\* crashes: what take_committed promises even where it repeats itself.
THEOREM StateMachinesAgree == ApplySpec => []DeliveredIsAgreed
  BY DeliveredGivesAgreement, DeliveredHistoryHolds, PTL

-----------------------------------------------------------------------------
(* Logs that fit in one batch *)

LEMMA SendsAppendFor ==
  ASSUME TypeOK, NEW i \in Node, StepOf(i), NEW a \in wire' \ wire, IsAppend(a)
  PROVE  \E p \in Node \ {i} : a = AppendFor(i, p)'
<1>1. CASE wire' = wire
  BY <1>1
<1>2. CASE BroadcastAppend(i)
  BY <1>2 DEF BroadcastAppend, Send
<1>3. ASSUME NEW r, r.kind # "AppendEntries", wire' = wire \cup {r} PROVE FALSE
  BY <1>3 DEF IsAppend
<1>4. CASE Campaign(i)
  BY <1>4 DEF Campaign, Send, IsAppend
<1>5. CASE CampaignAlone(i) \/ Heartbeat(i) \/ \E c \in Command \cup {Noop} : Propose(i, c)
  BY <1>2, <1>5 DEF CampaignAlone, BecomeLeader, Heartbeat, Propose
<1>6. CASE TakeCommitted(i) \/ Crash(i) \/ CrashInCampaign(i) \/ Restart(i)
  BY <1>1, <1>6 DEF TakeCommitted, Crash, CrashInCampaign, CrashWith, Restart
<1>7. ASSUME NEW m \in wire, CrashInHandler(i, m) PROVE wire' = wire
  BY <1>7 DEF CrashInHandler, CrashInStepDown, CrashInTruncate, CrashWith
<1>8. ASSUME NEW m \in wire, Handle(i, m)
      PROVE  \E p \in Node \ {i} : a = AppendFor(i, p)'
  <2>1. CASE GrantVote(i, m) \/ DenyVote(i, m)
    <3>1. \A g : VoteReply(i, m, g).kind # "AppendEntries"
      BY DEF VoteReply
    <3>2. QED
      BY <1>3, <2>1, <3>1 DEF GrantVote, DenyVote, Send
  <2>2. CASE StepDown(i, m) \/ CountVote(i, m)
    BY <1>1, <2>2 DEF StepDown, CountVote
  <2>3. CASE WinElection(i, m)
    BY <1>2, <2>3 DEF WinElection, BecomeLeader
  <2>4. CASE \/ RejectStale(i, m) \/ RejectAppend(i, m)
             \/ AcceptKnown(i, m) \/ AcceptNew(i, m)
    <3>1. \A s, n : AppendReply(i, m, s, n).kind # "AppendEntries"
      BY DEF AppendReply
    <3>2. QED
      BY <1>3, <2>4, <3>1 DEF RejectStale, RejectAppend, AcceptKnown, AcceptNew,
         AcceptAppend, Send
  <2>5. CASE AckSuccess(i, m) \/ AckFailure(i, m)
    <3>1. m.from \in Node \ {i}
      BY <2>5, MessageFields DEF TypeOK, AckSuccess, AckFailure, OnAppendResponse,
         Deliverable
    <3>2. a = AppendFor(i, m.from)'
      BY <2>5 DEF AckSuccess, AckFailure, Send
    <3>3. QED
      BY <3>1, <3>2
  <2>6. QED
    BY <1>8, <2>1, <2>2, <2>3, <2>4, <2>5 DEF Handle
<1>9. QED
  BY <1>1, <1>4, <1>5, <1>6, <1>7, <1>8 DEF StepOf, Timeout, Heartbeat

\* A message to a peer ends with the log when the log fits in one batch.
LEMMA AppendReachesEnd ==
  ASSUME TypeOK', NEW i \in Node, NEW p \in Node \ {i}, InRange(i)',
         Len(log'[i]) <= MaxBatch
  PROVE  LET m == AppendFor(i, p)'
         IN /\ m.prev_index + Len(m.entries) = Len(log'[i])
            /\ m.leader_commit = commit_index'[i]
<1>1. PICK l \in Seq(Entry) : l = log'[i]
  BY DEF TypeOK
<1>2. PICK x \in Nat, y \in Nat : x = next_index'[i][p] /\ y = match_index'[i][p]
  BY DEF TypeOK, Index
<1>3. y < x /\ x <= Len(l) + 1 /\ Len(l) \in Nat
  BY <1>1, <1>2, LenProperties DEF InRange
<1>4. PICK v \in Nat : v = x - 1
  BY <1>3
<1>5. Lower(Len(l), v + MaxBatch) = Len(l)
  BY <1>1, <1>3, <1>4, MaxBatchAssumption DEF Lower
<1>6. /\ AppendFor(i, p)'.prev_index = v
      /\ AppendFor(i, p)'.entries = SubSeq(l, v + 1, Len(l))
      /\ AppendFor(i, p)'.leader_commit = commit_index'[i]
  BY <1>1, <1>2, <1>4, <1>5 DEF AppendFor
<1>7. Len(SubSeq(l, v + 1, Len(l))) = Len(l) - v
  BY <1>3, <1>4
<1>8. v + (Len(l) - v) = Len(l)
  BY <1>3
<1>9. QED
  BY <1>1, <1>6, <1>7, <1>8

CommitsInLogs ==
  \A i \in Node :
    commit_index[i] \in Nat /\ commit_index[i] <= Len(disk[i].log)

LEMMA HistoryGivesCommits ==
  ASSUME ElectionInv, History
  PROVE  CommitsInLogs
<1>1. PICK led \in [Term -> Seq(Entry)] : LogInv(led) /\ CommitsDecided(led)
  BY DEF History, CommitInv
<1>2. QED
  BY <1>1, CommittedIsInLog DEF CommitsInLogs

LEMMA SentWholeKept ==
  ASSUME ElectionInv, ElectionInv', Next, SentWhole, CommitsInLogs', LogsFit'
  PROVE  SentWhole'
<1>1. PICK i \in Node : StepOf(i)
  BY DEF Next, StepOf
<1>2. TypeOK /\ TypeOK'
  BY DEF ElectionInv
<1>3. LocalStep(i) /\ (Idle(i) \/ Grow(i) \/ Obey(i))
  BY <1>1, <1>2, ShapeOfStep
<1>4. ASSUME NEW a \in wire' \ wire, IsAppend(a)
      PROVE  a.leader_commit <= Matched(a.to, a)
  <2>1. i \in live' /\ role'[i] = Leader
    BY <1>3, <1>4 DEF Idle, Grow, Obey, LeaderSends
  <2>2. InRange(i)' /\ DurableAt(i)'
    BY <1>3, <2>1 DEF LocalStep
  <2>3. disk'[i].log = log'[i]
    BY <2>2 DEF DurableAt
  <2>4. Len(log'[i]) <= MaxBatch /\ commit_index'[i] <= Len(log'[i])
    BY <2>3 DEF LogsFit, CommitsInLogs
  <2>5. PICK p \in Node \ {i} : a = AppendFor(i, p)'
    BY <1>1, <1>2, <1>4, SendsAppendFor
  <2>6. /\ a.prev_index + Len(a.entries) = Len(log'[i])
        /\ a.leader_commit = commit_index'[i]
    BY <1>2, <2>2, <2>4, <2>5, AppendReachesEnd
  <2>7. QED
    BY <2>4, <2>6 DEF Matched
<1>5. QED
  BY <1>4 DEF SentWhole, IsAppend, Matched

\* The commit index of a node that stays up goes back only on a message that
\* says more is committed than it matches.
LEMMA CommitGoesUp ==
  ASSUME TypeOK, NEW i \in Node, StepOf(i), i \in live, i \in live'
  PROVE  \/ commit_index[i] <= commit_index'[i]
         \/ \E m \in wire :
              /\ IsAppend(m) /\ m.leader_commit > commit_index[i]
              /\ commit_index'[i] = Lower(m.leader_commit, Matched(i, m))
<1>1. commit_index[i] \in Nat
  BY DEF TypeOK, Index
<1>2. ASSUME NEW t, NEW l, NEW q, AdvanceCommit(i, t, l, q), Len(l) \in Nat
      PROVE  commit_index[i] <= commit_index'[i]
  <2>1. \/ commit_index'[i] = commit_index[i]
        \/ commit_index'[i] \in Committable(i, t, l, q)
    BY <1>2, AdvanceIsCommit
  <2>2. Committable(i, t, l, q) \subseteq commit_index[i] + 1 .. Len(l)
    BY DEF Committable
  <2>3. QED
    BY <1>1, <1>2, <2>1, <2>2
<1>3. CASE commit_index' = commit_index
  BY <1>1, <1>3
<1>4. ASSUME NEW d PROVE ~CrashWith(i, d)
  BY DEF CrashWith
<1>5. ASSUME NEW e, Len(Append(log[i], e)) \notin Nat PROVE FALSE
  <2>1. log[i] \in Seq(Entry)
    BY DEF TypeOK
  <2>2. Len(log[i]) \in Nat /\ Len(Append(log[i], e)) = Len(log[i]) + 1
    BY <2>1
  <2>3. QED
    BY <1>5, <2>2
<1>6. ASSUME NEW t, NEW d, BecomeLeader(i, t, d)
      PROVE  commit_index[i] <= commit_index'[i]
  BY <1>2, <1>5, <1>6 DEF BecomeLeader
<1>7. CASE Timeout(i)
  BY <1>3, <1>6, <1>7 DEF Timeout, Campaign, CampaignAlone, Heartbeat, indices
<1>8. CASE \E c \in Command \cup {Noop} : Propose(i, c)
  BY <1>2, <1>5, <1>8 DEF Propose
<1>9. CASE TakeCommitted(i) \/ Crash(i) \/ CrashInCampaign(i) \/ Restart(i)
  BY <1>3, <1>4, <1>9 DEF TakeCommitted, Crash, CrashInCampaign, Restart
<1>10. ASSUME NEW m \in wire, Handle(i, m) \/ CrashInHandler(i, m)
       PROVE  \/ commit_index[i] <= commit_index'[i]
              \/ /\ IsAppend(m) /\ m.leader_commit > commit_index[i]
                 /\ commit_index'[i] = Lower(m.leader_commit, Matched(i, m))
  <2>1. ~CrashInHandler(i, m)
    BY <1>4 DEF CrashInHandler, CrashInStepDown, CrashInTruncate
  <2>2. CASE \/ GrantVote(i, m) \/ DenyVote(i, m) \/ CountVote(i, m)
             \/ RejectStale(i, m) \/ RejectAppend(i, m)
             \/ StepDown(i, m) \/ AckFailure(i, m)
    <3>1. commit_index' = commit_index
      BY <2>2 DEF GrantVote, DenyVote, OnRequestVote, CountVote, RejectStale,
         RejectAppend, StepDown, AckFailure, indices
    <3>2. QED
      BY <1>1, <3>1
  <2>3. CASE WinElection(i, m)
    BY <1>6, <2>3 DEF WinElection
  <2>4. CASE AckSuccess(i, m)
    <3>1. Len(log[i]) \in Nat
      BY LenProperties DEF TypeOK
    <3>2. QED
      BY <1>2, <2>4, <3>1 DEF AckSuccess
  <2>5. CASE AcceptKnown(i, m) \/ AcceptNew(i, m)
    <3>1. AcceptAppend(i, m)
      BY <2>5 DEF AcceptKnown, AcceptNew
    <3>2. IsAppend(m) /\ commit_index'[i] = CommitAfter(i, m)
      BY <3>1 DEF AcceptAppend, FollowLeader, IsAppend, TypeOK
    <3>3. QED
      BY <1>1, <3>2 DEF CommitAfter
  <2>6. QED
    BY <1>10, <2>1, <2>2, <2>3, <2>4, <2>5 DEF Handle
<1>11. QED
  BY <1>7, <1>8, <1>9, <1>10 DEF StepOf

LEMMA CommitsStayUp ==
  ASSUME ElectionInv, ElectionInv', Next, SentWhole
  PROVE  \A i \in live \cap live' : commit_index[i] <= commit_index'[i]
<1>1. PICK i \in Node : StepOf(i)
  BY DEF Next, StepOf
<1>2. TypeOK /\ TypeOK'
  BY DEF ElectionInv
<1>3. Commits(i)
  BY <1>1, <1>2, ReplicationOfStep DEF Replicates
<1>4. ASSUME NEW j \in live \cap live', j # i
      PROVE  commit_index[j] <= commit_index'[j]
  <2>1. j \in Node /\ commit_index[j] \in Nat
    BY <1>2 DEF TypeOK, Index
  <2>2. QED
    BY <1>3, <1>4, <2>1 DEF Commits
<1>5. ASSUME i \in live, i \in live' PROVE commit_index[i] <= commit_index'[i]
  <2>1. CASE \E m \in wire :
               /\ IsAppend(m) /\ m.leader_commit > commit_index[i]
               /\ commit_index'[i] = Lower(m.leader_commit, Matched(i, m))
    <3>1. PICK m \in wire :
            /\ IsAppend(m) /\ m.leader_commit > commit_index[i]
            /\ commit_index'[i] = Lower(m.leader_commit, Matched(i, m))
      BY <2>1
    <3>2. m.leader_commit <= Matched(i, m)
      BY <3>1 DEF SentWhole, Matched
    <3>3. m.leader_commit \in Nat /\ commit_index[i] \in Nat
      BY <1>2, <3>1, MessageFields DEF TypeOK, IsAppend, AppendEntries, Index
    <3>4. commit_index'[i] = m.leader_commit
      BY <3>1, <3>2 DEF Lower
    <3>5. QED
      BY <3>1, <3>3, <3>4
  <2>2. QED
    BY <1>1, <1>2, <1>5, <2>1, CommitGoesUp
<1>6. QED
  BY <1>4, <1>5

\* As long as every log fits in one batch, the commit index of a node never goes
\* back while the node is up: each AppendEntries then holds whatever it says is
\* committed, however late it arrives (on_append_entries; crates/raft/tests/
\* node.rs asserts it).
THEOREM FittingCommitsGoForward == Spec /\ []LogsFit => CommitNeverRegresses
<1>1. Init => SentWhole
  BY DEF Init, SentWhole
<1>2. ElectionInv /\ History => CommitsInLogs
  BY HistoryGivesCommits
<1>3. ElectionInv /\ ElectionInv' /\ SentWhole /\ CommitsInLogs' /\ LogsFit'
        /\ [Next]_vars => SentWhole'
  <2>1. UNCHANGED vars /\ SentWhole => SentWhole'
    BY DEF vars, SentWhole, IsAppend, Matched
  <2>2. QED
    BY <2>1, SentWholeKept
<1>4. ElectionInv /\ ElectionInv' /\ SentWhole /\ [Next]_vars
        => [\A i \in live \cap live' : commit_index[i] <= commit_index'[i]]_vars
  BY CommitsStayUp
<1>5. QED
  BY <1>1, <1>2, <1>3, <1>4, HistoryHolds, PTL DEF Spec, CommitNeverRegresses

\* A step that hands out nothing.
LEMMA InOrderElsewhere ==
  ASSUME ElectionInv, ElectionInv', Next, KeepApplied, SentWhole, InOrder
  PROVE  InOrder'
<1>1. PICK i \in Node : StepOf(i)
  BY DEF Next, StepOf
<1>2. TypeOK /\ TypeOK' /\ live \subseteq Node /\ live' \subseteq Node
  BY DEF ElectionInv, TypeOK
<1>3. ASSUME NEW p \in live'
      PROVE  /\ applied_index'[p] <= commit_index'[p]
             /\ Len(delivered'[p]) = applied_index'[p]
             /\ \A k \in 1 .. Len(delivered'[p]) : delivered'[p][k].index = k
  <2>1. applied_index'[p] = applied_index[p] /\ delivered'[p] = delivered[p]
    BY <1>2, <1>3 DEF KeepApplied
  <2>2. CASE p \in live
    <3>1. commit_index[p] <= commit_index'[p]
      BY <1>3, <2>2, CommitsStayUp
    <3>2. /\ applied_index[p] \in Nat
          /\ commit_index[p] \in Nat /\ commit_index'[p] \in Nat
      BY <1>2, <1>3 DEF TypeOK, Index
    <3>3. applied_index'[p] <= commit_index'[p]
      BY <2>1, <2>2, <3>1, <3>2 DEF InOrder
    <3>4. QED
      BY <2>1, <2>2, <3>3 DEF InOrder
  <2>3. CASE p \notin live
    <3>1. applied_index'[p] = 0
      BY <1>1, <1>2, <1>3, <2>3, RestartForgets
    <3>2. delivered'[p] = <<>>
      BY <1>2, <1>3, <2>1, <2>3 DEF InOrder
    <3>3. commit_index'[p] \in Nat
      BY <1>2, <1>3 DEF TypeOK, Index
    <3>4. Len(delivered'[p]) = 0
      BY <3>2
    <3>5. QED
      BY <3>1, <3>3, <3>4
  <2>4. QED
    BY <2>2, <2>3
<1>4. \A p \in Node \ live' : delivered'[p] = <<>>
  BY DEF KeepApplied
<1>5. QED
  BY <1>3, <1>4 DEF InOrder

\* take_committed hands out what follows what it has handed out.
LEMMA InOrderAfterApply ==
  ASSUME ElectionInv, NEW j \in Node, Apply(j), CommitsInLogs, InOrder,
         delivered \in [Node -> Seq(Delivery)]
  PROVE  InOrder'
<1>1. /\ j \in live /\ live' = live /\ commit_index' = commit_index
      /\ applied_index' = [applied_index EXCEPT ![j] = commit_index[j]]
      /\ delivered' = [delivered EXCEPT ![j] = @ \o Handed(j)]
  BY DEF Apply, TakeCommitted
<1>2. TypeOK /\ disk[j].log = log[j] /\ live \subseteq Node
  BY <1>1, NodeFacts DEF ElectionInv, TypeOK
<1>3. PICK a \in Nat, c \in Nat : a = applied_index[j] /\ c = commit_index[j]
  BY <1>2 DEF TypeOK, Index
<1>4. commit_index[j] <= Len(log[j]) /\ a <= c
  BY <1>1, <1>2, <1>3 DEF CommitsInLogs, InOrder
<1>5. PICK h \in Seq(Delivery) :
        /\ h = Handed(j) /\ Len(h) = c - a
        /\ \A k \in 1 .. Len(h) : h[k].index = a + k
  BY <1>2, <1>3, <1>4, HandedIsSeq
<1>6. PICK b \in Seq(Delivery) :
        /\ b = delivered[j] /\ Len(b) = a
        /\ \A k \in 1 .. Len(b) : b[k].index = k
  BY <1>1, <1>3 DEF InOrder
<1>7. PICK s \in Seq(Delivery) :
        /\ s = b \o h /\ Len(s) = Len(b) + Len(h)
        /\ \A k \in 1 .. Len(b) : s[k] = b[k]
        /\ \A k \in 1 .. Len(s) : k \notin 1 .. Len(b) =>
             k - Len(b) \in 1 .. Len(h) /\ s[k] = h[k - Len(b)]
  <2>1. PICK s : s = b \o h
    OBVIOUS
  <2>2. /\ b \o h \in Seq(Delivery) /\ Len(b \o h) = Len(b) + Len(h)
        /\ \A k \in 1 .. Len(b) : (b \o h)[k] = b[k]
        /\ \A k \in 1 .. Len(b \o h) : k \notin 1 .. Len(b) =>
             k - Len(b) \in 1 .. Len(h) /\ (b \o h)[k] = h[k - Len(b)]
    BY ConcatFacts
  <2>3. QED
    BY <2>1, <2>2
<1>8. Len(s) = c
  BY <1>3, <1>5, <1>6, <1>7
<1>9. \A k \in 1 .. Len(s) : s[k].index = k
  <2>1. ASSUME NEW k \in 1 .. Len(s) PROVE s[k].index = k
    <3>1. CASE k \in 1 .. Len(b)
      BY <1>6, <1>7, <3>1
    <3>2. CASE k \notin 1 .. Len(b)
      <4>1. k - Len(b) \in 1 .. Len(h) /\ s[k] = h[k - Len(b)]
        BY <1>7, <3>2
      <4>2. s[k].index = a + (k - Len(b))
        BY <1>5, <4>1
      <4>3. k \in Int /\ Len(b) = a
        BY <1>6
      <4>4. QED
        BY <1>3, <4>2, <4>3
    <3>3. QED
      BY <3>1, <3>2
  <2>2. QED
    BY <2>1
<1>10. delivered'[j] = s /\ applied_index'[j] = c /\ commit_index'[j] = c
  BY <1>1, <1>2, <1>3, <1>5, <1>6, <1>7 DEF TypeOK
<1>11. \A p \in Node \ {j} :
         delivered'[p] = delivered[p] /\ applied_index'[p] = applied_index[p]
  BY <1>1, <1>2 DEF TypeOK
<1>12. ASSUME NEW p \in live
       PROVE  /\ applied_index'[p] <= commit_index'[p]
              /\ Len(delivered'[p]) = applied_index'[p]
              /\ \A k \in 1 .. Len(delivered'[p]) : delivered'[p][k].index = k
  <2>1. CASE p = j
    BY <1>3, <1>8, <1>9, <1>10, <2>1
  <2>2. CASE p # j
    <3>1. p \in Node \ {j} /\ commit_index'[p] = commit_index[p]
      BY <1>1, <1>2, <2>2
    <3>2. QED
      BY <1>11, <3>1 DEF InOrder
  <2>3. QED
    BY <2>1, <2>2
<1>13. \A p \in Node \ live : delivered'[p] = <<>>
  BY <1>1, <1>11 DEF InOrder
<1>14. QED
  BY <1>1, <1>12, <1>13 DEF InOrder

LEMMA InOrderKept ==
  ASSUME ElectionInv, ElectionInv', DeliveredHistory, SentWhole, InOrder,
         [ApplyNext]_<<vars, delivered>>
  PROVE  InOrder'
<1>1. CommitsInLogs /\ delivered \in [Node -> Seq(Delivery)]
  BY HistoryGivesCommits DEF DeliveredHistory, DeliveredInv, History
<1>2. CASE Next /\ KeepApplied
  BY <1>2, InOrderElsewhere
<1>3. ASSUME NEW j \in Node, Apply(j) PROVE InOrder'
  BY <1>1, <1>3, InOrderAfterApply
<1>4. CASE UNCHANGED <<vars, delivered>>
  BY <1>4 DEF vars, indices, memory, InOrder
<1>5. QED
  BY <1>2, <1>3, <1>4 DEF ApplyNext

LEMMA InOrderGivesOnce ==
  ASSUME ElectionInv, DeliveredHistory, InOrder
  PROVE  DeliveredOnce
<1>1. PICK led \in [Term -> Seq(Entry)] : LogInv(led) /\ DeliveredInv(led)
  BY DEF DeliveredHistory
<1>2. ASSUME NEW i \in live, NEW k \in 1 .. Len(delivered[i])
      PROVE  /\ delivered[i][k].index = k
             /\ k <= Len(log[i]) /\ delivered[i][k].entry = log[i][k]
  <2>1. i \in Node /\ disk[i].log = log[i]
    BY NodeFacts
  <2>2. delivered[i][k].index = k
    BY <1>2 DEF InOrder
  <2>3. k \in 1 .. Len(log[i]) /\ log[i][k] = delivered[i][k].entry
    BY <1>1, <1>2, <2>1, <2>2 DEF DeliveredInv, StandsAt
  <2>4. Len(log[i]) \in Nat
    BY <2>1, LogFacts, <1>1
  <2>5. QED
    BY <2>2, <2>3, <2>4
<1>3. QED
  BY <1>2 DEF DeliveredOnce

\* As long as every log fits in one batch, a state machine is handed the entries
\* of its log once each and in order (take_committed; crates/raft/tests/node.rs,
\* "each committed entry is delivered once").  Where the logs do not fit this
\* is false: see the run delivered_twice.
THEOREM FittingDeliveriesAreOnce == ApplySpec /\ []LogsFit => []DeliveredOnce
<1>1. Init /\ ApplyInit => SentWhole /\ InOrder
  <2>1. SUFFICES ASSUME Init, ApplyInit PROVE SentWhole /\ InOrder
    OBVIOUS
  <2>2. SentWhole
    BY <2>1 DEF Init, SentWhole
  <2>3. \A i \in Node : delivered[i] = <<>> /\ Len(delivered[i]) = 0
    BY <2>1 DEF ApplyInit
  <2>4. live = Node /\ \A i \in Node : applied_index[i] = 0 /\ commit_index[i] = 0
    BY <2>1 DEF Init
  <2>5. InOrder
    BY <2>3, <2>4 DEF InOrder
  <2>6. QED
    BY <2>2, <2>5
<1>2. ElectionInv /\ DeliveredHistory => CommitsInLogs
  BY HistoryGivesCommits DEF DeliveredHistory, History
<1>3. ElectionInv /\ ElectionInv' /\ SentWhole /\ CommitsInLogs' /\ LogsFit'
        /\ [ApplyNext]_<<vars, delivered>> => SentWhole'
  <2>1. UNCHANGED vars /\ SentWhole => SentWhole'
    BY DEF vars, SentWhole, IsAppend, Matched
  <2>2. QED
    BY <2>1, ApplyNextIsNext, SentWholeKept
<1>4. ElectionInv /\ ElectionInv' /\ DeliveredHistory /\ SentWhole /\ InOrder
        /\ [ApplyNext]_<<vars, delivered>> => InOrder'
  BY InOrderKept
<1>5. ElectionInv /\ DeliveredHistory /\ InOrder => DeliveredOnce
  BY InOrderGivesOnce
<1>6. QED
  BY <1>1, <1>2, <1>3, <1>4, <1>5, DeliveredHistoryHolds, PTL DEF ApplySpec

=============================================================================
