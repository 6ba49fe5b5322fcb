---------------------------- MODULE SietchStorage ----------------------------
(***************************************************************************)
(* SietchStorage (crates/raft/src/storage.rs): a node's persistent state   *)
(* in a key-value store on disk.  The hard state is one value; the entry   *)
(* at index n has a key of its own, whose order is that of the indices     *)
(* (big-endian), so that the key is represented by n and a scan returns    *)
(* the entries by index.  The store (the sietch crate, not part of the     *)
(* repository) makes each put and each batch durable at once, or not at    *)
(* all: a mutation that fails panics with the old or the new state on      *)
(* disk, which is a crash before or after it.                              *)
(*                                                                         *)
(* A vote is written as a u64, of which the largest value means no vote.   *)
(***************************************************************************)
EXTENDS Storage

CONSTANTS Terms, Batches, Cuts,   \* what nodes ask for: see StorageContract
          NoVote                  \* NO_VOTE, the largest u64

ASSUME SietchRequestAssumption ==
  Terms \subseteq Term /\ Batches \subseteq Seq(Entry) /\ Cuts \subseteq Index

\* Config.id < cluster_size, which is a usize: no id is NO_VOTE.
ASSUME IdsBelowNoVote == NoVote \in Nat /\ Node \subseteq 0 .. NoVote - 1

HardState == [term : Term, vote : Nat]

\* An absent value is not a value.
ASSUME AbsentAssumption == Nil \notin HardState

VARIABLES
  hard,         \* value of HARD_STATE_KEY, Nil before the first save
  entries,      \* values of the entry keys
  last_index,   \* in memory
  open,         \* whether a node has the store open
  call          \* the last call of the trait, as StorageContract records it

sietch == <<hard, entries, last_index, open, call>>

\* Mutant of VoteCode: no vote is written as an id.
VoteCodeZero(v) == IF v = Nil THEN 0 ELSE v

VoteCode(v) == IF v = Nil THEN NoVote ELSE v

VoteOf(code) == IF code = NoVote THEN Nil ELSE code

Count == Cardinality(DOMAIN entries)

\* What load returns: the hard state, and the values a scan finds.
Loaded ==
  [term      |-> IF hard = Nil THEN 0 ELSE hard.term,
   voted_for |-> IF hard = Nil THEN Nil ELSE VoteOf(hard.vote),
   log       |-> [n \in 1 .. Count |-> entries[n]]]

-----------------------------------------------------------------------------

SietchInit ==
  /\ hard = Nil
  /\ entries = <<>>
  /\ last_index = 0
  /\ open = TRUE
  /\ call = Nil

Save(t, v) ==
  /\ open
  /\ call' = [op |-> "save", term |-> t, voted_for |-> v]
  /\ hard' = [term |-> t, vote |-> VoteCode(v)]
  /\ UNCHANGED <<entries, last_index, open>>

\* The keys one append writes.
NewKeys(es) == last_index + 1 .. last_index + Len(es)

\* One batch; an empty one changes nothing.
AppendBatch(es) ==
  /\ open
  /\ call' = [op |-> "append", entries |-> es]
  /\ entries' = [n \in DOMAIN entries \cup NewKeys(es) |->
                   IF n \in NewKeys(es) THEN es[n - last_index] ELSE entries[n]]
  /\ last_index' = last_index + Len(es)
  /\ UNCHANGED <<hard, open>>

\* Mutant of CutKeys: the last entry stays.
CutKeysBeforeLast(index) == index .. last_index - 1

\* The keys one truncation deletes.
CutKeys(index) == index .. last_index

\* One batch of deletions, unless the index is beyond the log.
Truncate(index) ==
  /\ open
  /\ call' = [op |-> "truncate", index |-> index]
  /\ entries' = [n \in DOMAIN entries \ CutKeys(index) |-> entries[n]]
  /\ last_index' = IF index > last_index THEN last_index
                   ELSE IF index = 0 THEN 0 ELSE index - 1
  /\ UNCHANGED <<hard, open>>

\* The node is gone, and with it last_index.
Close ==
  /\ open
  /\ open' = FALSE
  /\ last_index' = 0
  /\ UNCHANGED <<hard, entries, call>>

\* open() counts the entry keys; load(), which Node::new calls next, counts
\* the entries it read.
Reopen ==
  /\ ~open
  /\ open' = TRUE
  /\ last_index' = Count
  /\ UNCHANGED <<hard, entries, call>>

SietchNext ==
  \/ \E t \in Terms, v \in Node \cup {Nil} : Save(t, v)
  \/ \E es \in Batches : AppendBatch(es)
  \/ \E index \in Cuts : Truncate(index)
  \/ Close
  \/ Reopen

SietchSpec == SietchInit /\ [][SietchNext]_sietch

-----------------------------------------------------------------------------

SietchTypeOK ==
  /\ hard \in HardState \cup {Nil}
  /\ hard # Nil => VoteOf(hard.vote) \in Node \cup {Nil}
  /\ DOMAIN entries \subseteq Index
  /\ \A n \in DOMAIN entries : entries[n] \in Entry
  /\ last_index \in Index
  /\ open \in BOOLEAN

\* load's assertion "raft log has a gap or misordered entry" never fails, after
\* any sequence of appends, truncations and crashes; and the index from which
\* the next append numbers its keys is that of the last entry on disk.
LogIsWhole ==
  /\ Count \in Nat /\ DOMAIN entries = 1 .. Count
  /\ open => DOMAIN entries = 1 .. last_index

SietchInv == SietchTypeOK /\ LogIsWhole

\* What a node reads back is what the trait promises for the calls it made: the
\* keys, batches and counts behave as the record of StorageContract, restarts
\* included, so that no vote is misread and no entry lost, kept or moved.
Contract == INSTANCE StorageContract WITH stored <- Loaded

ImplementsContract == Contract!ContractSpec

=============================================================================
