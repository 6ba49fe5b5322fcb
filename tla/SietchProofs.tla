---------------------------- MODULE SietchProofs ----------------------------
(***************************************************************************)
(* The store on disk is the record the Storage trait promises, for any     *)
(* calls and restarts: the log has no gap and last_index is its length     *)
(* whenever a node has the store open, and what load returns changes by a  *)
(* call exactly as StorageContract says.                                   *)
(***************************************************************************)
EXTENDS SietchStorage, FiniteSetTheorems, SequenceTheorems, TLAPS

\* The number of keys 1 .. n is n.
LEMMA CountOfKeys ==
  ASSUME NEW f, NEW n \in Nat, DOMAIN f = 1 .. n
  PROVE  Cardinality(DOMAIN f) = n
  BY FS_Interval

\* A vote is read back as it was written: no id is the code of no vote.
LEMMA VoteReadBack ==
  ASSUME NEW v \in Node \cup {Nil}
  PROVE  VoteCode(v) \in Nat /\ VoteOf(VoteCode(v)) = v
  BY IdsBelowNoVote, NilAssumption DEF VoteCode, VoteOf

\* Deleting a suffix of the keys leaves a prefix, of the length last_index gets.
LEMMA KeysLeft ==
  ASSUME NEW last \in Nat, NEW index \in Nat
  PROVE  LET left == IF index > last THEN last
                     ELSE IF index = 0 THEN 0 ELSE index - 1
         IN left \in Nat /\ (1 .. last) \ (index .. last) = 1 .. left
  OBVIOUS

-----------------------------------------------------------------------------
(* The invariant *)

LEMMA InitIsWhole == SietchInit => SietchInv
<1>1. SUFFICES ASSUME SietchInit PROVE SietchInv
  OBVIOUS
<1>2. DOMAIN entries = 1 .. 0 /\ 0 \in Nat
  BY <1>1 DEF SietchInit
<1>3. Count = 0
  BY <1>2, CountOfKeys DEF Count
<1>4. QED
  BY <1>1, <1>2, <1>3 DEF SietchInit, SietchInv, SietchTypeOK, LogIsWhole, Index

LEMMA SaveKeepsInv ==
  ASSUME SietchInv, NEW t \in Terms, NEW v \in Node \cup {Nil}, Save(t, v)
  PROVE  SietchInv'
<1>1. t \in Term
  BY SietchRequestAssumption
<1>2. /\ hard' = [term |-> t, vote |-> VoteCode(v)]
      /\ UNCHANGED <<entries, last_index, open>>
  BY DEF Save
<1>3. hard' \in HardState /\ VoteOf(hard'.vote) = v
  BY <1>1, <1>2, VoteReadBack DEF HardState
<1>4. SietchTypeOK'
  BY <1>2, <1>3 DEF SietchInv, SietchTypeOK
<1>5. LogIsWhole'
  BY <1>2 DEF SietchInv, LogIsWhole, Count
<1>6. QED
  BY <1>4, <1>5 DEF SietchInv

\* An append extends the keys to those of the longer log.
LEMMA AppendKeys ==
  ASSUME SietchInv, NEW es \in Batches, AppendBatch(es)
  PROVE  /\ es \in Seq(Entry) /\ Len(es) \in Nat /\ last_index \in Nat
         /\ Count = last_index /\ DOMAIN entries = 1 .. last_index
         /\ last_index' = last_index + Len(es)
         /\ DOMAIN entries' = 1 .. last_index + Len(es)
         /\ Count' = last_index + Len(es)
         /\ \A n \in 1 .. last_index : entries'[n] = entries[n]
         /\ \A k \in 1 .. Len(es) : entries'[last_index + k] = es[k]
<1>1. es \in Seq(Entry) /\ Len(es) \in Nat /\ last_index \in Nat
  BY SietchRequestAssumption, LenProperties DEF SietchInv, SietchTypeOK, Index
<1>2. DOMAIN entries = 1 .. last_index
  BY DEF AppendBatch, SietchInv, LogIsWhole
<1>3. entries' = [n \in 1 .. last_index + Len(es) |->
                    IF n \in NewKeys(es) THEN es[n - last_index] ELSE entries[n]]
  <2>1. (1 .. last_index) \cup NewKeys(es) = 1 .. last_index + Len(es)
    BY <1>1 DEF NewKeys
  <2>2. QED
    BY <1>2, <2>1 DEF AppendBatch
<1>4. DOMAIN entries' = 1 .. last_index + Len(es)
  BY <1>3
<1>5. \A n \in 1 .. last_index : n \notin NewKeys(es) /\ n \in 1 .. last_index + Len(es)
  BY <1>1 DEF NewKeys
<1>6. \A k \in 1 .. Len(es) : /\ last_index + k \in NewKeys(es)
                              /\ last_index + k \in 1 .. last_index + Len(es)
                              /\ (last_index + k) - last_index = k
  BY <1>1 DEF NewKeys
<1>7. \A n \in 1 .. last_index : entries'[n] = entries[n]
  BY <1>3, <1>5
<1>8. \A k \in 1 .. Len(es) : entries'[last_index + k] = es[k]
  BY <1>3, <1>6
<1>9. Count = last_index
  BY <1>1, <1>2, CountOfKeys DEF Count
<1>10. Count' = last_index + Len(es)
  BY <1>1, <1>4, CountOfKeys DEF Count
<1>11. QED
  BY <1>1, <1>2, <1>4, <1>7, <1>8, <1>9, <1>10 DEF AppendBatch

LEMMA AppendKeepsInv ==
  ASSUME SietchInv, NEW es \in Batches, AppendBatch(es)
  PROVE  SietchInv'
<1>1. \A k \in 1 .. Len(es) : es[k] \in Entry
  BY AppendKeys, ElementOfSeq
<1>2. ASSUME NEW n \in 1 .. last_index + Len(es) PROVE entries'[n] \in Entry
  <2>1. CASE n \in 1 .. last_index
    BY <2>1, AppendKeys DEF SietchInv, SietchTypeOK
  <2>2. CASE n \notin 1 .. last_index
    <3>1. n - last_index \in 1 .. Len(es) /\ n = last_index + (n - last_index)
      BY <1>2, <2>2, AppendKeys
    <3>2. QED
      BY <1>1, <3>1, AppendKeys
  <2>3. QED
    BY <2>1, <2>2
<1>3. SietchTypeOK'
  <2>1. DOMAIN entries' \subseteq Index /\ last_index' \in Index
    BY AppendKeys DEF Index
  <2>2. hard' = hard /\ open' = open
    BY DEF AppendBatch
  <2>3. QED
    BY <1>2, <2>1, <2>2, AppendKeys DEF SietchInv, SietchTypeOK
<1>4. LogIsWhole'
  BY AppendKeys DEF LogIsWhole
<1>5. QED
  BY <1>3, <1>4 DEF SietchInv

\* A truncation leaves the keys of the shorter log.
LEMMA TruncateKeys ==
  ASSUME SietchInv, NEW index \in Cuts, Truncate(index)
  PROVE  /\ index \in Nat /\ last_index \in Nat /\ last_index' \in Nat
         /\ Count = last_index /\ DOMAIN entries = 1 .. last_index
         /\ last_index' = IF index > last_index THEN last_index
                          ELSE IF index = 0 THEN 0 ELSE index - 1
         /\ DOMAIN entries' = 1 .. last_index'
         /\ Count' = last_index'
         /\ \A n \in 1 .. last_index' : entries'[n] = entries[n]
<1>1. index \in Nat /\ last_index \in Nat
  BY SietchRequestAssumption DEF SietchInv, SietchTypeOK, Index
<1>2. DOMAIN entries = 1 .. last_index
  BY DEF Truncate, SietchInv, LogIsWhole
<1>3. /\ last_index' = IF index > last_index THEN last_index
                       ELSE IF index = 0 THEN 0 ELSE index - 1
      /\ entries' = [n \in DOMAIN entries \ CutKeys(index) |-> entries[n]]
  BY DEF Truncate
<1>4. last_index' \in Nat /\ DOMAIN entries \ CutKeys(index) = 1 .. last_index'
  BY <1>1, <1>2, <1>3, KeysLeft DEF CutKeys
<1>5. DOMAIN entries' = 1 .. last_index'
  BY <1>3, <1>4
<1>6. \A n \in 1 .. last_index' : entries'[n] = entries[n]
  BY <1>3, <1>4
<1>7. Count = last_index
  BY <1>1, <1>2, CountOfKeys DEF Count
<1>8. Count' = last_index'
  BY <1>4, <1>5, CountOfKeys DEF Count
<1>9. QED
  BY <1>1, <1>2, <1>3, <1>4, <1>5, <1>6, <1>7, <1>8

LEMMA TruncateKeepsInv ==
  ASSUME SietchInv, NEW index \in Cuts, Truncate(index)
  PROVE  SietchInv'
<1>1. 1 .. last_index' \subseteq 1 .. last_index
  BY TruncateKeys
<1>2. SietchTypeOK'
  <2>1. hard' = hard /\ open' = open
    BY DEF Truncate
  <2>2. DOMAIN entries' \subseteq Index /\ last_index' \in Index
    BY TruncateKeys DEF Index
  <2>3. \A n \in DOMAIN entries' : entries'[n] \in Entry
    BY <1>1, TruncateKeys DEF SietchInv, SietchTypeOK
  <2>4. QED
    BY <2>1, <2>2, <2>3 DEF SietchInv, SietchTypeOK
<1>3. LogIsWhole'
  BY TruncateKeys DEF LogIsWhole
<1>4. QED
  BY <1>2, <1>3 DEF SietchInv

LEMMA CloseKeepsInv == ASSUME SietchInv, Close PROVE SietchInv'
  BY DEF SietchInv, SietchTypeOK, LogIsWhole, Close, Count, Index

LEMMA ReopenKeepsInv == ASSUME SietchInv, Reopen PROVE SietchInv'
  BY DEF SietchInv, SietchTypeOK, LogIsWhole, Reopen, Count, Index

\* The keys on disk are those of a log without a gap, and last_index is its
\* length, through any appends, truncations and restarts: load's assertion
\* "raft log has a gap or misordered entry" cannot fail.
THEOREM LogStaysWhole == SietchSpec => []SietchInv
<1>1. SietchInv /\ [SietchNext]_sietch => SietchInv'
  <2>1. SUFFICES ASSUME SietchInv, [SietchNext]_sietch PROVE SietchInv'
    OBVIOUS
  <2>2. CASE \E t \in Terms, v \in Node \cup {Nil} : Save(t, v)
    BY <2>1, <2>2, SaveKeepsInv
  <2>3. CASE \E es \in Batches : AppendBatch(es)
    BY <2>1, <2>3, AppendKeepsInv
  <2>4. CASE \E index \in Cuts : Truncate(index)
    BY <2>1, <2>4, TruncateKeepsInv
  <2>5. CASE Close
    BY <2>1, <2>5, CloseKeepsInv
  <2>6. CASE Reopen
    BY <2>1, <2>6, ReopenKeepsInv
  <2>7. CASE UNCHANGED sietch
    BY <2>1, <2>7 DEF sietch, SietchInv, SietchTypeOK, LogIsWhole, Count
  <2>8. QED
    BY <2>1, <2>2, <2>3, <2>4, <2>5, <2>6, <2>7 DEF SietchNext
<1>2. QED
  BY <1>1, InitIsWhole, PTL DEF SietchSpec
-----------------------------------------------------------------------------
(* The refinement *)

LEMMA FunctionIsSeq ==
  ASSUME NEW S, NEW n \in Nat, NEW f \in [1 .. n -> S]
  PROVE  f \in Seq(S) /\ Len(f) = n
<1>1. f \in Seq(S)
  BY SeqDef
<1>2. Len(f) \in Nat /\ 1 .. Len(f) = 1 .. n
  BY <1>1, LenProperties
<1>3. QED
  BY <1>1, <1>2

\* The values of the keys 1 .. n, in order, are a log.
LEMMA LogOfKeys ==
  ASSUME NEW f, NEW n \in Nat, \A k \in 1 .. n : f[k] \in Entry,
         NEW l, l = [k \in 1 .. n |-> f[k]]
  PROVE  l \in Seq(Entry) /\ Len(l) = n /\ \A k \in 1 .. n : l[k] = f[k]
<1>1. l \in [1 .. n -> Entry]
  OBVIOUS
<1>2. QED
  BY <1>1, FunctionIsSeq

LEMMA LoadedRecord ==
  ASSUME SietchInv
  PROVE  /\ Loaded \in Persistent
         /\ Len(Loaded.log) = Count /\ Count \in Nat
         /\ \A n \in 1 .. Count : Loaded.log[n] = entries[n]
<1>1. Count \in Nat /\ \A n \in 1 .. Count : entries[n] \in Entry
  BY DEF SietchInv, SietchTypeOK, LogIsWhole
<1>2. Loaded.log = [n \in 1 .. Count |-> entries[n]]
  BY DEF Loaded
<1>3. /\ Loaded.log \in Seq(Entry) /\ Len(Loaded.log) = Count
      /\ \A n \in 1 .. Count : Loaded.log[n] = entries[n]
  BY <1>1, <1>2, LogOfKeys
<1>4. /\ hard # Nil => hard.term \in Term /\ VoteOf(hard.vote) \in Node \cup {Nil}
      /\ 0 \in Term
  BY DEF SietchInv, SietchTypeOK, HardState, Term
<1>5. Loaded \in [term : Term, voted_for : Node \cup {Nil}, log : Seq(Entry)]
  BY <1>2, <1>3, <1>4 DEF Loaded
<1>6. QED
  BY <1>1, <1>3, <1>5 DEF Persistent

LEMMA LoadedRecordNext ==
  ASSUME SietchInv'
  PROVE  /\ Loaded' \in Persistent
         /\ Len(Loaded'.log) = Count' /\ Count' \in Nat
         /\ \A n \in 1 .. Count' : Loaded'.log[n] = entries'[n]
<1>1. Count' \in Nat /\ \A n \in 1 .. Count' : entries'[n] \in Entry
  BY DEF SietchInv, SietchTypeOK, LogIsWhole
<1>2. Loaded'.log = [n \in 1 .. Count' |-> entries'[n]]
  BY DEF Loaded
<1>3. /\ Loaded'.log \in Seq(Entry) /\ Len(Loaded'.log) = Count'
      /\ \A n \in 1 .. Count' : Loaded'.log[n] = entries'[n]
  BY <1>1, <1>2, LogOfKeys
<1>4. /\ hard' # Nil => hard'.term \in Term /\ VoteOf(hard'.vote) \in Node \cup {Nil}
      /\ 0 \in Term
  BY DEF SietchInv, SietchTypeOK, HardState, Term
<1>5. Loaded' \in [term : Term, voted_for : Node \cup {Nil}, log : Seq(Entry)]
  BY <1>2, <1>3, <1>4 DEF Loaded
<1>6. QED
  BY <1>1, <1>3, <1>5 DEF Persistent

LEMMA InitIsBlank == SietchInit => Contract!ContractInit
<1>1. SUFFICES ASSUME SietchInit PROVE Loaded = Blank
  BY DEF Contract!ContractInit, Contract!Blank, Blank, SietchInit
<1>2. 0 \in Nat /\ DOMAIN entries = 1 .. 0
  BY <1>1 DEF SietchInit
<1>3. Count = 0
  BY <1>2, CountOfKeys DEF Count
<1>4. [n \in 1 .. 0 |-> entries[n]] = <<>>
  OBVIOUS
<1>5. QED
  BY <1>1, <1>3, <1>4 DEF Loaded, Blank, SietchInit

\* Two records with the same fields are the same; what the contract's operators
\* leave in them.
LEMMA SameRecord ==
  ASSUME NEW p \in Persistent, NEW q \in Persistent,
         p.term = q.term, p.voted_for = q.voted_for, p.log = q.log
  PROVE  p = q
  BY DEF Persistent

LEMMA SavedRecord ==
  ASSUME NEW p \in Persistent, NEW t \in Term, NEW v \in Node \cup {Nil}
  PROVE  /\ SaveHardState(p, t, v) \in Persistent
         /\ SaveHardState(p, t, v).term = t
         /\ SaveHardState(p, t, v).voted_for = v
         /\ SaveHardState(p, t, v).log = p.log
  BY DEF SaveHardState, Persistent

LEMMA AppendedRecord ==
  ASSUME NEW p \in Persistent, NEW s \in Seq(Entry)
  PROVE  /\ AppendTo(p, s) \in Persistent
         /\ AppendTo(p, s).term = p.term
         /\ AppendTo(p, s).voted_for = p.voted_for
         /\ AppendTo(p, s).log = p.log \o s
<1>1. p.log \o s \in Seq(Entry)
  BY ConcatProperties DEF Persistent
<1>2. QED
  BY <1>1 DEF AppendTo, Persistent

LEMMA TruncatedRecord ==
  ASSUME NEW p \in Persistent, NEW n \in Nat, n <= Len(p.log),
         NEW l \in Seq(Entry), l = SubSeq(p.log, 1, n - 1)
  PROVE  /\ TruncateFrom(p, n) \in Persistent
         /\ TruncateFrom(p, n).term = p.term
         /\ TruncateFrom(p, n).voted_for = p.voted_for
         /\ TruncateFrom(p, n).log = l
<1>1. ~(n > Len(p.log))
  BY LenProperties DEF Persistent
<1>2. QED
  BY <1>1 DEF TruncateFrom, Persistent

\* What load reads is not changed by what is not written.
LEMMA SameHardState ==
  ASSUME hard' = hard
  PROVE  Loaded'.term = Loaded.term /\ Loaded'.voted_for = Loaded.voted_for
  BY DEF Loaded

\* Each call changes what load would return as the contract says it changes.
LEMMA SaveRefines ==
  ASSUME SietchInv, NEW t \in Terms, NEW v \in Node \cup {Nil}, Save(t, v)
  PROVE  Loaded' = SaveHardState(Loaded, t, v)
<1>1. hard' = [term |-> t, vote |-> VoteCode(v)] /\ entries' = entries
  BY DEF Save
<1>2. VoteCode(v) \in Nat /\ VoteOf(VoteCode(v)) = v /\ t \in Term
  BY VoteReadBack, SietchRequestAssumption
<1>3. hard' \in HardState /\ hard'.term = t /\ hard'.vote = VoteCode(v)
  BY <1>1, <1>2 DEF HardState
<1>4. hard' # Nil
  BY <1>3, AbsentAssumption
<1>5. Loaded'.term = t /\ Loaded'.voted_for = v /\ Loaded'.log = Loaded.log
  BY <1>1, <1>2, <1>3, <1>4 DEF Loaded, Count
<1>6. Loaded \in Persistent /\ Loaded' \in Persistent
  BY SaveKeepsInv, LoadedRecord, LoadedRecordNext
<1>7. QED
  BY <1>2, <1>5, <1>6, SavedRecord, SameRecord

LEMMA AppendRefines ==
  ASSUME SietchInv, NEW es \in Batches, AppendBatch(es)
  PROVE  Loaded' = AppendTo(Loaded, es)
<1>1. SietchInv'
  BY AppendKeepsInv
<1>2. /\ Loaded'.log \in Seq(Entry) /\ Len(Loaded'.log) = last_index + Len(es)
      /\ \A n \in 1 .. last_index + Len(es) : Loaded'.log[n] = entries'[n]
  BY <1>1, LoadedRecordNext, AppendKeys DEF Persistent
<1>3. /\ Loaded.log \in Seq(Entry) /\ Len(Loaded.log) = last_index
      /\ \A n \in 1 .. last_index : Loaded.log[n] = entries[n]
  BY LoadedRecord, AppendKeys DEF Persistent
<1>4. /\ Loaded.log \o es \in Seq(Entry)
      /\ Len(Loaded.log \o es) = last_index + Len(es)
      /\ \A n \in 1 .. last_index + Len(es) : (Loaded.log \o es)[n] =
           IF n <= last_index THEN Loaded.log[n] ELSE es[n - last_index]
  BY <1>3, AppendKeys, ConcatProperties
<1>5. ASSUME NEW n \in 1 .. last_index + Len(es)
      PROVE  Loaded'.log[n] = (Loaded.log \o es)[n]
  <2>1. CASE n <= last_index
    BY <1>2, <1>3, <1>4, <2>1, AppendKeys
  <2>2. CASE ~(n <= last_index)
    <3>1. n - last_index \in 1 .. Len(es) /\ n = last_index + (n - last_index)
      BY <2>2, AppendKeys
    <3>2. QED
      BY <1>2, <1>4, <2>2, <3>1, AppendKeys
  <2>3. QED
    BY <2>1, <2>2
<1>6. Loaded'.log = Loaded.log \o es
  BY <1>2, <1>4, <1>5, SeqEqual
<1>7. hard' = hard
  BY DEF AppendBatch
<1>8. Loaded \in Persistent /\ Loaded' \in Persistent /\ es \in Seq(Entry)
  BY <1>1, LoadedRecord, LoadedRecordNext, AppendKeys
<1>9. Loaded'.term = Loaded.term /\ Loaded'.voted_for = Loaded.voted_for
  BY <1>7, SameHardState
<1> DEFINE q == AppendTo(Loaded, es)
<1>10. /\ q \in Persistent /\ q.term = Loaded.term
       /\ q.voted_for = Loaded.voted_for /\ q.log = Loaded.log \o es
  BY <1>8, AppendedRecord
<1> HIDE DEF q
<1>11. Loaded' = q
  BY <1>6, <1>8, <1>9, <1>10, SameRecord
<1>12. QED
  BY <1>11 DEF q

LEMMA TruncateRefines ==
  ASSUME SietchInv, NEW index \in Cuts, Truncate(index)
  PROVE  Loaded' = TruncateFrom(Loaded, index)
<1>1. SietchInv'
  BY TruncateKeepsInv
<1>2. /\ Loaded'.log \in Seq(Entry) /\ Len(Loaded'.log) = last_index'
      /\ \A n \in 1 .. last_index' : Loaded'.log[n] = entries'[n]
  BY <1>1, LoadedRecordNext, TruncateKeys DEF Persistent
<1>3. /\ Loaded.log \in Seq(Entry) /\ Len(Loaded.log) = last_index
      /\ \A n \in 1 .. last_index : Loaded.log[n] = entries[n]
  BY LoadedRecord, TruncateKeys DEF Persistent
<1>4. /\ Loaded \in Persistent /\ Loaded' \in Persistent
      /\ Loaded'.term = Loaded.term /\ Loaded'.voted_for = Loaded.voted_for
  <2>1. hard' = hard
    BY DEF Truncate
  <2>2. QED
    BY <1>1, <2>1, LoadedRecord, LoadedRecordNext, SameHardState
<1>5. \A n \in 1 .. last_index' : n \in 1 .. last_index
  BY TruncateKeys
<1>6. \A n \in 1 .. last_index' : Loaded'.log[n] = Loaded.log[n]
  BY <1>2, <1>3, <1>5, TruncateKeys
<1>7. CASE index > last_index
  <2>1. Loaded'.log = Loaded.log
    BY <1>2, <1>3, <1>6, <1>7, TruncateKeys, SeqEqual
  <2>2. Loaded' = Loaded
    BY <1>4, <2>1, SameRecord
  <2>3. QED
    BY <1>3, <1>7, <2>2 DEF TruncateFrom
<1>8. CASE ~(index > last_index)
  <2>1. index - 1 \in Int /\ index - 1 <= last_index
    BY <1>8, TruncateKeys
  <2>2. \A n \in 1 .. index - 1 : Loaded.log[n] \in Entry
    BY <1>3, <2>1, ElementOfSeq, TruncateKeys
  <2>3. /\ SubSeq(Loaded.log, 1, index - 1) \in Seq(Entry)
        /\ Len(SubSeq(Loaded.log, 1, index - 1)) =
              IF 1 <= index - 1 THEN (index - 1) - 1 + 1 ELSE 0
        /\ \A n \in 1 .. (index - 1) - 1 + 1 :
              SubSeq(Loaded.log, 1, index - 1)[n] = Loaded.log[1 + n - 1]
    BY <2>1, <2>2, SubSeqProperties
  <2>4. Len(SubSeq(Loaded.log, 1, index - 1)) = last_index'
    BY <1>8, <2>3, TruncateKeys
  <2>5. \A n \in 1 .. last_index' :
          /\ n \in 1 .. (index - 1) - 1 + 1
          /\ 1 + n - 1 = n
    BY <1>8, TruncateKeys
  <2>6. \A n \in 1 .. last_index' :
          SubSeq(Loaded.log, 1, index - 1)[n] = Loaded'.log[n]
    BY <1>6, <2>3, <2>5
  <2>7. Loaded'.log = SubSeq(Loaded.log, 1, index - 1)
    BY <1>2, <2>3, <2>4, <2>6, SeqEqual
  <2>8. index <= Len(Loaded.log) /\ index \in Nat /\ Loaded'.log \in Seq(Entry)
    BY <1>2, <1>3, <1>8, TruncateKeys
  <2>9. QED
    BY <1>4, <2>7, <2>8, TruncatedRecord, SameRecord
<1>9. QED
  BY <1>7, <1>8

\* SietchStorage keeps the promise of the Storage trait: whatever a node asked of
\* it, and however often it was closed and opened again, load returns the record
\* those calls define (open, load, save_hard_state, append, truncate_from).
THEOREM SietchKeepsContract == SietchSpec => ImplementsContract
<1>1. SietchInv /\ [SietchNext]_sietch
        => [Contract!ContractNext]_<<Loaded, call>>
  <2>1. SUFFICES ASSUME SietchInv, [SietchNext]_sietch
                 PROVE  [Contract!ContractNext]_<<Loaded, call>>
    OBVIOUS
  <2>2. ASSUME NEW t \in Terms, NEW v \in Node \cup {Nil}, Save(t, v)
        PROVE  Contract!ContractNext
    <3>1. call' = [op |-> "save", term |-> t, voted_for |-> v]
      BY <2>2 DEF Save
    <3>2. call' \in Contract!Calls
      BY <3>1 DEF Contract!Calls
    <3>3. Loaded' = Contract!After(call', Loaded)
      BY <2>1, <2>2, <3>1, SaveRefines
         DEF Contract!After, Contract!SaveHardState, SaveHardState
    <3>4. QED
      BY <3>2, <3>3 DEF Contract!ContractNext
  <2>3. ASSUME NEW es \in Batches, AppendBatch(es) PROVE Contract!ContractNext
    <3>1. call' = [op |-> "append", entries |-> es]
      BY <2>3 DEF AppendBatch
    <3>2. call' \in Contract!Calls
      BY <3>1 DEF Contract!Calls
    <3>3. Loaded' = Contract!After(call', Loaded)
      BY <2>1, <2>3, <3>1, AppendRefines
         DEF Contract!After, Contract!AppendTo, AppendTo
    <3>4. QED
      BY <3>2, <3>3 DEF Contract!ContractNext
  <2>4. ASSUME NEW index \in Cuts, Truncate(index) PROVE Contract!ContractNext
    <3>1. call' = [op |-> "truncate", index |-> index]
      BY <2>4 DEF Truncate
    <3>2. call' \in Contract!Calls
      BY <3>1 DEF Contract!Calls
    <3>3. Loaded' = Contract!After(call', Loaded)
      BY <2>1, <2>4, <3>1, TruncateRefines
         DEF Contract!After, Contract!TruncateFrom, TruncateFrom
    <3>4. QED
      BY <3>2, <3>3 DEF Contract!ContractNext
  <2>5. CASE Close \/ Reopen \/ UNCHANGED sietch
    BY <2>5 DEF Close, Reopen, sietch, Loaded, Count
  <2>6. QED
    BY <2>1, <2>2, <2>3, <2>4, <2>5 DEF SietchNext
<1>2. QED
  BY <1>1, InitIsBlank, LogStaysWhole, PTL
     DEF SietchSpec, ImplementsContract, Contract!ContractSpec

=============================================================================
