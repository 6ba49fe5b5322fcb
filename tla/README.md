# Landsraad in TLA+

Landsraad is a Raft-style replicated log: a deterministic consensus node without
I/O (`crates/raft`), a simulated cluster that drives several of them over faulty
links with partitions and crashes and checks invariants after every tick
(`crates/sim`), and a key-value state machine (`crates/kv`).  This directory
holds its TLA+ model, the TLC runs that check it on small clusters, and TLAPS
proofs, for every cluster: of election safety, log matching, state-machine safety,
durability and leader completeness, hence that the nodes implement one replicated
log; of what the state machines are handed, and that the maps made of it are equal;
of both codecs; of the store on disk; and that the simulated cluster is an instance
of the model of the nodes.

- [The system](#the-system): components, state, operations, interactions
- [The modules](#the-modules): what models what
- [The runs](#the-runs): what TLC checks, in which bounds, and what it shows
- [The proofs](#the-proofs): what holds for every cluster, and why
- [Findings](#findings): where the code and its tests or comments disagree
- [What is not covered](#what-is-not-covered)

## The system

| Component | Source | State | Operations |
|---|---|---|---|
| Node | `raft/src/node.rs` | term, vote, log (copies of what is stored); role, leader hint, commit and applied index; votes received; `next_index`/`match_index` per peer; two deadlines | `new`, `tick`, `handle` (four messages), `propose`, `take_committed` |
| Messages | `raft/src/message.rs` | none | `encode_message`, `decode_message` |
| Storage | `raft/src/storage.rs` | term, vote, log; in memory or in a `sietch` store | `load`, `save_hard_state`, `append`, `truncate_from` |
| Cluster | `sim/src/cluster.rs` | the nodes that are up, their disks, a link per pair, cut links, the checker's memory | `step`, `crash`, `restart`, `partition`, `isolate`, `heal`, `quiesce`, `propose`, `check_invariants` |
| Key-value store | `kv/src/lib.rs` | a map | `apply`, `replay`, the command codec |
| Chaos runner | `sim/src/bin/landsraad-chaos.rs` | a sweep over seeds | argument parsing, reporting |

**How they interact.**  The cluster calls one node at a time: `handle` for a
datagram that arrived, then, at the end of the tick, `tick` for every node that
is up.  A call runs to completion, writes to its storage on the way, and returns
the messages to send, which `route` puts on the links.  Nodes share nothing else.
There are no threads: what interleaves is the order in which messages arrive,
timers fire and nodes crash.  A crash drops the node and what it had returned but
not sent; a restart builds a new one from the storage.

**What is hard.**

- *Messages* are lost, duplicated, delayed and reordered, so a handler sees votes
  of earlier elections, batches it already has, failure hints that a later success
  has outdated, and commit indices newer than the entries beside them.
- *Crashes* fall between any two events, between the return of a handler and the
  sending of its messages, and, as a failed write panics, between two writes of one
  handler.  The promise is that "a crash can lose a message but never a promise"
  (the header of `node.rs`).
- *Elections* overlap: a deposed leader that was cut off does not know it, and
  goes on counting and sending.
- *Commitment* of an entry of an earlier term (Figure 8 of the Raft paper).
- *Boundaries*: a cluster of one, empty logs, `next_index - 1`, batch limits.
- *Time*: deadlines that pass as a message arrives, links whose clocks must move on
  before anything is handled, partitions that cut what is sent but not what flies.
- *Encodings*: damaged datagrams, keys and counts at the edge of their integers, a
  vote written as a number of which one value means none.
- *Liveness*: colliding candidates, lost heartbeats, recovery after `quiesce`.

**What makes each component correct.**

- *Node*: one vote per term, durably; at most one leader per term; logs that agree
  on an entry agree on everything before it; a leader never rewrites its own log;
  what it counts as replicated is replicated; committed entries survive every later
  leader; the commit index and what is handed to the state machine only grow.
- *Messages*: what is sent is what is read, and nothing else is accepted.
- *Storage*: every mutation is one durable write; after a crash `load` returns the
  state before or after it, from the keys of a store as from a record in memory.
- *Cluster*: it only schedules, and does nothing to a node that a network could not;
  to its clients it is one log that only grows; after the faults end a leader
  emerges and commands commit.
- *Checker*: no correct execution is reported, and it records what was decided.
- *Key-value store*: nodes that applied the same log hold the same map.

## The modules

| Module | Models | Extends |
|---|---|---|
| `RaftMessages` | message and entry types of `message.rs` | – |
| `MessageCodec` | `encode_message`, `decode_message` | – |
| `Storage` | `storage.rs`: the durable record and its mutations | `RaftMessages` |
| `StorageContract` | what the `Storage` trait promises (abstract) | `Storage` |
| `SietchStorage` | the store on disk, implementing `StorageContract` | `Storage` |
| `Raft` | `node.rs`, all nodes, with an unrestricted network and crashes | `Storage` |
| `RaftInvariants` | the inductive invariant of elections | `Raft` |
| `RaftHistory` | the inductive invariants of logs and commitment, over the logs leaders built | `RaftInvariants` |
| `RaftChecker` | `check_invariants` and the durability check of `restart` | `RaftHistory` |
| `ReplicatedLog` | what the cluster promises its clients (abstract) | – |
| `RaftContract` | nodes and checker, implementing `ReplicatedLog` | `RaftChecker` |
| `RaftApply` | what `take_committed` has handed to each state machine | `RaftHistory` |
| `KvStore` | `kv/src/lib.rs`: the command codec and the map | – |
| `KvApply` | a store on every node, fed by `take_committed`, and its inductive invariant | `RaftHistory`, `KvStore` |
| `SimCluster` | `step()`: ticks, timers, channels, partitions, injected events | `Raft` |
| `SimAdversary` | the simulated cluster, implementing `Raft` | `SimCluster` |
| `SimLiveness` | `quiesce()` and the driver of `tests/liveness.rs`, with fairness | `SimCluster` |
| `MCRaft`, `MCHistory`, `MCApply`, `MCKv`, `MCSietch`, `MCCodecs`, `MCSim`, `MCLiveness` | bounds, inputs and initial states for TLC | the above |
| `RaftElectionProofs` | proofs: every action keeps the types; the invariant of elections, and what follows | `RaftInvariants` |
| `RaftLogProofs` | proofs: logs match, leaders append only | `RaftHistory`, `RaftElectionProofs` |
| `RaftCommitProofs` | proofs: what may be committed is kept by every later leader | `RaftLogProofs` |
| `RaftContractProofs` | proofs: the checker's assertions never fail; the nodes implement `ReplicatedLog`; what the state machines are handed | `RaftContract`, `RaftApply`, `RaftCommitProofs` |
| `KvProofs` | proofs: stores that applied as much are equal | `KvApply`, `RaftCommitProofs` |
| `CodecProofs` | proofs: both codecs, for integers of any width | `MCCodecs` |
| `SietchProofs` | proofs: the store implements the trait | `SietchStorage` |
| `SimProofs` | proof: the simulated cluster implements `Raft`; what a tick and a cut do | `SimAdversary`, `RaftElectionProofs` |

Three abstract specifications are implemented: `SietchStorage` implements
`StorageContract`, `SimAdversary` implements `Raft`, and `RaftContract` implements
`ReplicatedLog`.  Each is model-checked and proved.

**State.**  `term`, `voted_for`, `log`, `role`, `leader_id`, `commit_index`,
`applied_index`, `votes`, `next_index` and `match_index` are the fields of `Node`,
as functions of the node; `disk[i]` is what node i's storage would `load`, and
`live` is the set of nodes that are up (`Cluster::nodes`).  Memory and disk are
separate variables so that "written before the message is returned" is something
a property can see violated.  A node that is down has no memory; it is given the
memory of a blank node, so that states differ only in what matters.

**Actions.**  Each path through a handler is an action that performs all of it,
from the step-down that precedes dispatch to the last write and the messages
returned:

| Code | Actions |
|---|---|
| `tick`: election deadline, `start_election`, `become_leader` | `Campaign`, `CampaignAlone` (cluster of one) |
| `tick`: heartbeat deadline | `Heartbeat` |
| `on_request_vote` | `GrantVote`, `DenyVote` |
| `on_vote_response` | `CountVote`, `WinElection` |
| `on_append_entries` | `RejectStale`, `RejectAppend`, `AcceptKnown`, `AcceptNew` |
| `on_append_response` | `AckSuccess`, `AckFailure` |
| a response of a newer term | `StepDown` |
| `propose`, `take_committed` | `Propose`, `TakeCommitted` |
| `crash` | `Crash`; `CrashInStepDown`, `CrashInTruncate`, `CrashInCampaign` between two writes |
| `restart`, `Node::new` | `Restart` |

A call that changes nothing and sends nothing (a vote that does not count, a reply
nobody waits for, a proposal at a follower) is a stuttering step.

**The network of `Raft`** is `wire`, the set of every message ever returned.  Nothing is
removed from it and any message in it may be handled at any time.  Thus a loss is
a message never handled, a duplicate one handled again, a delay or reordering one
handled late, and a partition an interval in which some are not handled.  A
corrupted or truncated datagram is rejected by the codec's frame check and is a
loss.  A crash right after a handler (`crash_after_event`) is the handler's action
followed by `Crash`, and the messages it returned are among those not handled.
`Outgoing` and the link's sender become the fields `to` and `from`.

**Time.**  In `Raft` any node may time out at any moment: for safety this allows more
executions than the code.  `SimCluster` has the clock.

**The simulated cluster.**  `SimCluster` reuses the actions of `Raft` for what a node
does and adds where and when: `stage` and `ticked` are the position within `step()`,
`election_in` and `heartbeat_in` the time left to the two deadlines (relative, so
that time itself need not be counted), `flying` the datagrams in the channels with
their remaining delays, `blocked` the links that are cut.  A deadline counts from the clock
its node was called with: one that boots between two calls of `step()`, at the start or
in `quiesce()`, draws its timeout before the clock moves on (`DrawnBefore`).  Injected events come in the
order of the code, each at most once a tick; then `AdvanceLinks`, the arrivals by
sender and receiver (`Arrive`), and `Tick` for each node by id.  A handler leaves what
it returned in `wire`, and `Route` is a second action, so that `CrashAfterEvent` has
its place between the two.  `Lose` and `Repeat` are the channel's faults; the channel
crate is not part of the repository, and a fault is chosen when the datagram is due,
which no node can tell from an earlier choice.  Copies of a message due in the same
tick are one.

`SimAdversary` maps it to `Raft` by a history variable, `sent`: every message ever
returned.  `wire <- sent` is then what the adversary may deliver.

**After the storm.**  `SimLiveness` is `tests/liveness.rs`: chaos (`Storm`), `quiesce()`
between two ticks (`Quiesce`, then a `Boot` for each node that is down), and from then
on the loop that steps the cluster, and proposes a marker command whenever no log
holds it and there is a leader.

**Storage.**  `SietchStorage` keeps the value of the hard-state key, the values of the
entry keys (a key is its index: big-endian keys sort as numbers), and `last_index` in
memory.  `Loaded` is what `load` would return, and the refinement mapping.  A put or a
batch of the store is durable at once or not at all, as the comment in `storage.rs`
says of that crate.

**Codecs.**  `MessageCodec` and `KvStore` encode to sequences of bytes and read them
field by field with the code's errors and checks.  Integers keep their wrap-around at
a scaled width: `Base`, `Wide` and `Narrow` for messages, `LenLimit` for the key's
length.  A datagram is a frame type and a payload; the frame's own layout and checksum
belong to another crate.

**Key-value stores.**  `KvApply` gives each node a map, applies to it what
`take_committed` hands out (twice, where it does: finding 1), and loses it in a crash.
`LastWrites` is the reference definition: each key's last command in the log.

**The checker.**  `RaftChecker` adds the simulator's own variables as history and
updates them after every event (`Observe`), where the simulator does so after every
tick; its assertions are the properties `TermsNeverRegress`, `OneLeaderPerTerm`,
`StateMachineSafety`, `Durability` and `LeaderCompleteness`.  `committed_in` is not
in the simulator: it records the term in which an entry was committed, which the
simulator's comment on leader completeness speaks of and its code does not have.

**Simplifications.**  Terms and indices are unbounded naturals; a `u64` does not
overflow by counting.  A command is an opaque value.  `max_batch` is the constant
`MaxBatch`.  The debug assertion in `on_append_entries` is the property
`NoRivalAppend`; the action goes on as a release build does.

## The runs

All runs of clusters use three nodes (one in `single_node`).  The bounds of the runs on
`MCRaft`, `MCHistory`, `MCApply` and `MCKv` are constants of `MCRaft`: `Campaigns` (which node may
campaign for which term), `Crashers` (who may crash, any number of times), `Cut` (links
that never deliver in a term),
`Delivered` (message kinds that are delivered), `Beating` (who sends heartbeats),
`MaxLog` (the length at which clients stop proposing).  Within them, every order,
loss, duplication and repetition is explored.  A bounded execution really ends when
nothing is left to campaign or propose, so deadlock is not an error.

| Run | Question | Properties | Distinct states |
|---|---|---|---|
| `election` | Two rivals, two terms each, a rival and a voter crash anywhere: are votes and terms ever taken back, can a term get two leaders? | `GrantsAreDurable`, `VoteNeverChanges`, `OneSenderPerTerm`, `OneLeaderPerTerm`, `TermsNeverRegress` | 92 058 |
| `replication` | A leader that could not reach n3 and its successor n2, any batch: do acknowledgements, the leader's log and cursors stay consistent, is every committed entry delivered once and in order, and the same to all? | `AckedIsDurable`, `CursorsInRange`, `LeaderAppendOnly`, `DeliveredOnce`, `DeliveredIsAgreed`, `CommitNeverRegresses` | 143 307 |
| `recovery` | A like succession, one entry per message, the first leader crashing anywhere, between two writes too, and coming back as a follower: do the inductive invariants of the proofs hold, with the leaders' logs recorded? | `NoRivalAppend`, `HintIsElected`, `CommittedOnMajority`, `ElectionInv`, `SeenInv`, `SuccessionInv`, `AgreementInv` | 60 704 |
| `figure8` | Figure 8 of the Raft paper: is an entry of an old term, on a majority, committed too early, is anything committed lost, are logs that start apart ever joined, and do clients see one log that only grows? | `TypeOK`, `StateMachineSafety`, `Durability`, `LeaderCompleteness`, `LogMatching`, `ImplementsLog` | 71 970 |
| `single_node` | A cluster of one with crashes: does it commit alone, in every life? | `LoneLeaderCommits` | 191 |
| `kv` | Puts, a delete, a malformed command, one entry per batch, a follower that crashes: are maps equal where logs are? | `CaughtUpStores`, `SameStores` | 38 360 |
| `codecs` | Keys up to 4 bytes, values up to 3, every kind of message with up to 2 entries, up to 2 changes of a datagram | `RoundTrips`, `DecodesOnlyEncodings`, `MessagesRoundTrip`, `AcceptsOnlyEncodings`, `NoMessageIsAPrefix` | 165 623 |
| `sietch` | Logs up to 3 entries, any call, closing and reopening | `SietchInv`, `ImplementsContract` | 1 212 |
| `sim` | 8 ticks, 2 injected events, 1 lost or repeated datagram | `SimulatesRaft`, `CutOffNodeStalls`, `NothingArrivesMidTick` | 730 602 |
| `liveness` | A leader cut off with a command, deposed, crashed, restarted, `quiesce()` between any two of 14 ticks; or any one datagram lost or repeated, `quiesce()` within 3 ticks | `ElectionsEnd`, `MarkerCommits`, `LeaderEmerges` | 267 821 |
| `delivered_twice` | With one entry per batch, is an entry delivered twice? **violated** | `DeliveredOnce` | – |
| `checker_alarm` | the checker's form of leader completeness: **violated** | `CheckerLeaderCompleteness` | – |

Why these bounds are enough for the cases they are for:

- *election*: two nodes that both campaign for terms 1 and 2 compete for the third
  vote and for each other's, with votes of term 1 still in flight in term 2; a voter
  that crashes and restarts between two requests is where a forgotten vote would be
  given twice.  Only votes are delivered, because AppendEntries would add only
  followers that are told of the leader.
- *replication* and *recovery*: the first leader cannot reach n3, so that its
  entries are on one or two nodes when n2 takes over; depending on what n2 had
  received, n2's log conflicts with n1's or extends it, and truncation, hints, back-up
  and overlapping resends all happen.  In *recovery* one entry per message makes every
  replication a sequence of messages that can overtake each other, with crashes
  between them; its logs (two no-ops) are too short for the commit index to go back.
  `MCHistory` records as `led` what the proofs only say exists (see below), so that
  TLC checks the very formulas that are proved inductive.
  In *replication* `MaxBatch` is at least the longest log, three entries, which is what
  keeps an old message from carrying an early batch and a late commit index;
  `delivered_twice` shows what happens otherwise.
- *figure8*: reaching Figure 8 from empty disks takes four elections, too many to
  explore freely.  The run starts all nodes from the disks of its third step, after a
  power cut (nothing in flight).  That state is reachable: n1 wins term 1 with n2's
  vote and crashes before its no-op leaves; n3 wins term 2 with n2's vote and
  crashes likewise; n1, restarted, steps down to term 2 on a message of n3's; then
  the cluster restarts.  From there n1 leads term 3 and n3 term 4, heartbeats
  included, while n2 crashes at will.
- *single_node*: three elections, a crash anywhere between them.
- *kv*: one key is enough to tell orders of commands apart, and `MaxBatch` 1 is what
  makes `take_committed` hand out entries twice.  Between the two deliveries a store
  may hold older values; the properties speak of stores that have caught up.
- *codecs*: lengths pass the limits of their integers (keys of 3 and 4 bytes with
  `LenLimit` 3, the numbers 1 and 8 with two bytes of base 3, whose largest value
  is 8), and there is a byte that is no command tag and one that is no boolean.
- *sietch*: node ids up to the one below `NoVote`, truncations at 0, inside and beyond
  the log, empty batches.
- *sim*: the first election, the no-op, a proposal, and then a crash with its restart,
  a partition with its heal, or a crash after a handler, in any two of the ticks.  The
  proof covers every other length and size; the run is where the mutants are found.
- *liveness*: 14 ticks are an election, a partition, the election on the other side,
  and the return; 3 ticks reach the first election, and the datagram that fails may be
  any of the votes, no-ops, commands and heartbeats that follow.  After `quiesce()`
  nothing is bounded: the graph is finite because elections end (`ElectionsEnd` bounds
  the terms) and the driver stops proposing.

Deadlock is checked in `sietch` and `liveness`: the simulated cluster can
always go on, or step() would hang.  The other bounded runs really end.

**Fairness.**  `LivenessSpec` states one conjunct, weak fairness of `Calm`: what the
driver does next after the storm.  The driver is a loop over `step()`, which runs to
its end; nothing else is assumed of the order of events within it, and nothing of the
storm, which may last for ever (the properties then say nothing).  Two constants stand
for probabilities that are below one.  At most `MaxMischief` datagrams are lost or
repeated (one, in the second scenario of `liveness`, in the storm or after it): a
network that loses every message delivers nothing.  From `LuckyTerm` on
the timeouts drawn are favourable: the better a node's log, the sooner its election,
`LuckySpread` apart, so that one candidate's requests arrive before the next one's
deadline; timeouts that collide for ever have probability zero.  Both are what the
header of `tests/liveness.rs` means by liveness that "can honestly be" stated.  Until
`LuckyTerm` every timeout of the range is tried, collisions included.  The driver's
retry after every fiftieth tick is one at every tick: a retry is a proposal while no
log holds the marker, and waiting for the next one changes nothing but when it comes.

Each property of a passing run has a mutant in `PROJECT.json`: a definition of the
model changed the way a bug would change the code (a vote answered before it is
written, a vote counted in the wrong term, the term of the preceding entry not
compared, a stale batch taken for new, an entry of any term committed by counting).
TLC finds each property violated under its mutant.  The mutated definitions stand
next to the originals and are marked as mutants.

## The proofs

TLAPS checks them for every set of nodes, every command set, every batch size, any
number of elections, messages, crashes, restarts, ticks and faults.

| Theorem | Statement |
|---|---|
| `InvariantHolds` | `Spec => []ElectionInv` |
| `TypeCorrect` | `Spec => []TypeOK` |
| `VotesAreDurable` | `Spec => []GrantsAreDurable` |
| `VotesAreFinal` | `Spec => VoteNeverChanges` |
| `CursorsStayInRange` | `Spec => []CursorsInRange` |
| `ElectionSafety` | `Spec => []OneSenderPerTerm` |
| `NoTwoLeadersMeet` | `Spec => []NoRivalAppend` |
| `LogHistoryHolds` | `Spec => [](ElectionInv /\ LogHistory)` |
| `LogsMatch` | `Spec => []LogMatching` |
| `LeadersAppendOnly` | `Spec => LeaderAppendOnly` |
| `HintsAreElected` | `Spec => []HintIsElected` |
| `HistoryHolds` | `Spec => [](ElectionInv /\ History)` |
| `AckedStaysDurable` | `Spec => []AckedIsDurable` |
| `CommitsOnMajority` | `Spec => []CommittedOnMajority` |
| `LoneLeadersCommit` | `Spec => []LoneLeaderCommits` |
| `CheckedInvariantHolds` | `CheckedSpec => [](ElectionInv /\ SeenInv)` |
| `ElectionSafetyChecked` | `CheckedSpec => []OneLeaderPerTerm` |
| `TermsGoForward` | `CheckedSpec => []TermsNeverRegress` |
| `AgreedHistoryHolds` | `CheckedSpec => [](ElectionInv /\ AgreedHistory)` |
| `CommittedIsOneLog` | `CheckedSpec => []StateMachineSafety` |
| `CommittedIsDurable` | `CheckedSpec => []Durability` |
| `LeadersAreComplete` | `CheckedSpec => []LeaderCompleteness` |
| `NodesImplementLog` | `CheckedSpec => ImplementsLog` |
| `DeliveredHistoryHolds` | `ApplySpec => [](ElectionInv /\ DeliveredHistory)` |
| `StateMachinesAgree` | `ApplySpec => []DeliveredIsAgreed` |
| `FittingCommitsGoForward` | `Spec /\ []LogsFit => CommitNeverRegresses` |
| `FittingDeliveriesAreOnce` | `ApplySpec /\ []LogsFit => []DeliveredOnce` |
| `ReplayIsLastWrites` | applying any log to the empty map gives `LastWrites` of it |
| `StoreHistoryHolds` | `KvSpec => [](ElectionInv /\ StoreHistory)` |
| `StoresCatchUp` | `KvSpec => []CaughtUpStores` |
| `StoresAgree` | `KvSpec => []SameStores` |
| `CommandsRoundTrip` | `Spec => []RoundTrips` (of `MCCodecs`, as the next four) |
| `CommandsDecodeOnlyEncodings` | `Spec => []DecodesOnlyEncodings` |
| `SentMessagesRoundTrip` | `Spec => []MessagesRoundTrip` |
| `OnlyEncodingsAccepted` | `Spec => []AcceptsOnlyEncodings` |
| `MessagesArePrefixFree` | `Spec => []NoMessageIsAPrefix` |
| `SimulationRefinesRaft` | `WatchedSpec => SimulatesRaft` |
| `RoundTripsTakeTime` | `WatchedSpec => NothingArrivesMidTick` |
| `LinkInvHolds` | `WatchedSpec => []LinkInv` |
| `CutOffNodesStall` | `WatchedSpec => CutOffNodeStalls` |
| `LogStaysWhole` | `SietchSpec => []SietchInv` |
| `SietchKeepsContract` | `SietchSpec => ImplementsContract` |

**Assumptions**: the set of nodes is finite and not empty (`NodeAssumption`), no
node is called `Nil` (`NilAssumption`), the batch size is a natural number
(`MaxBatchAssumption`).  For the simulated cluster: node ids are integers
(`IdAssumption`), timeouts and delays are positive (`ClockAssumption`).  For the store:
requests have the types of the trait (`SietchRequestAssumption`), no node id is
`u64::MAX` (`IdsBelowNoVote`; ids are below `cluster_size`), and an absent value is not
a value (`AbsentAssumption`).  For the codecs: there are at least three bytes and no
integer is empty (`WidthAssumption`; 256, eight and four in the code), some length of
a key fits its field (`LenLimitAssumption`), and a byte is below that limit, as are
the numbers, lengths and counts that are sent below their own (`InputsAssumption`).
The last is the range of the types: a term is a `u64`; that no command and no batch
reaches 2^32 bytes or entries is what the casts to `u32` in `message.rs` take for
granted.

**The inductive invariant of elections.**  None of the properties is inductive alone: that the
grants on the wire name one candidate per voter and term is preserved only if a
voter's memory is its disk, and that a leader is unique only if the votes it counted
can be found on the wire.  `ElectionInv` is the conjunction of

- `TypeOK`;
- `NodeInv`, what live nodes hold between two handlers: memory equals disk
  (`MemoryIsDurable`); a leader's cursors are in range (`CursorsInRange`), without
  which the entries of a message need not be entries; a candidate or leader has voted
  for itself, everyone it counts voted for it in this term, and a leader counts a
  majority (`Standing`);
- `WireInv`, what messages prove: they are of a term their sender has written
  (`SentIsWritten`); a grant is backed by the voter's disk (`GrantsAreDurable`); a
  voter granted one candidate per term (`OneGrantPerTerm`); whoever leads or sent
  AppendEntries was elected in that term (`LeadersElected`, `SendersElected`), where
  `Elected(c, t)` says that c voted for itself, granted nobody else, and has the
  votes of a majority.

**Its argument.**  An action touches one node.  For each action `LocalStep` is
proved: everything else is unchanged, the messages it adds are of the term the node
is then in, a grant is the vote it then holds, its disk has not gone back, and it is
left as `NodeInv` wants it.  `LocalToGood` lifts that to all nodes, and `WireStep`
derives `WireInv` from it without looking at the action again: old messages
stay true because disks go forward, new ones are true because the sender's memory
is on its disk.  Two nodes elected in one term share a voter (`QuorumsMeet`), who
would have voted for both (`OneIsElected`): election safety for senders, for
leaders, and for whatever the checker has seen.

**Log matching.**  `LogMatching` speaks of pairs of logs, and is not inductive: it does
not say where an entry comes from.  `RaftHistory` gives every term t the log `led[t]`
that its leader had built when it last appended, which stays after the leader has
crashed and its log been overwritten.  `LogInv(led)` says that each entry of a log, on
a disk or in `led`, follows what it followed in the log of its term's leader (`Fits`),
that an AppendEntries carries a slice of its sender's `led`, and that only an elected
leader built a non-empty one.  `led` is no variable of `Raft`: the invariant
`LogHistory` is that *some* `led` explains the state, and the step lemma takes the one
that explains the state before and builds the one after, changed at most at the term
of the node that stepped.  The step itself is seen through three shapes, proved action
by action (`ShapeOfStep`): `Idle` leaves the log, `Grow` appends to a leader's, `Obey`
cuts a follower's and appends what the leader sent, or crashes in between.

**Commitment.**  What has a majority of acknowledgements is `Chosen`; but to find it in
the log of a later leader, one must have held to it before the majority was complete.
So `CommitInv(led)` is about entries that `MayBeChosen`: a majority has backed them
or is not yet past their term.  Those who backed one still hold it (`BackersHold`), as
does every later leader (`LaterLeadersHold`), because a candidate does as soon as one
backer votes for it (`CandidatesHold`), which is where the comparison of logs in
`on_request_vote` enters; only a leader's own entries are counted (`Own`), which is
where Figure 8 does.  Entries stop being choosable as nodes move on, and never start
again, so the conjuncts are kept.  A commit index, on a node or in a message, is that
of a `Decided` prefix.  Two decided prefixes agree (`DecidedAgree`), and what is
decided stays so after every step (`DecidedForGood`).

**The checker's assertions and the replicated log.**  `AgreedInv(led)` ties the
simulator's history to this: each prefix it collected was decided by the term it was
committed in, and whatever a node has had committed is decided on the disk it has.
State-machine safety, durability and leader completeness follow without another
induction.  For `ImplementsLog`, each step either leaves every commit index, or changes
that of one node: to one that extends what was collected (`Agree`) or within it
(`Learn`, a restart and finding 1 included).

**What state machines are handed.**  `DeliveredInv(led)` says that what was handed out is
decided and still on the disk of its node; `StateMachinesAgree` follows whether or not
entries are handed out again.  That the commit index only goes forward and that
entries are handed out once is false in general (finding 1).  The two theorems on it
assume `[]LogsFit`, that every log fits in one batch: then an AppendEntries reaches to
the end of its sender's log, so it holds whatever it says is committed (`SentWhole`),
and deliveries are counted by `applied_index` (`InOrder`).  The condition is stated in
the theorem and not as an assumption on constants, since no constant bounds a log.

**Equal maps.**  A store that is handed entries twice passes through states that are no
prefix of the log (finding 1), so "the map is that of the log" is not inductive.
`StoreInv(led)` says how far off it is: what a node has ever applied, up to `reached`,
is decided and on its disk, and *replaying what follows `applied_index` up to
`reached`* turns its map into that of the log (`Replays`).  Handing out goes on from
`applied_index`, whether new entries or old ones, and replays part of that; a commit
index that falls back only lengthens what is to be replayed, and a key's last write
in it hides all that came before (`Quiet`, `LeftBy`).  A store that has caught up has
nothing to replay, so its map is `LastWrites` of its log, and two logs that are decided
up to the same index agree there (`DecidedAgree`).

**Codecs.**  The loops of the code are functions over `0 .. n` here, the value after each
turn (`Shifted`, `Values`, `Encoded`, `EntriesTaken`).  `Loop` says once that such a
function exists and `LoopStays` that it keeps its type; the induction under them is
over a *set* of naturals (`NatInd`), by counting, because the library's induction
theorem takes an operator.  For each field three facts are then proved: what is written
is read, with the rest left (`NumberRead`); what is read was written (`NumberTaken`);
and what is cut short within or before it is missed (`NumberShorter`).  They hold of an
integer of any width because its bytes and its value are each other's inverse
(`ValueOfNumber`, `NumberOfValue`), and compose to an entry, to any number of entries
(`EntriesRead`, `EntriesTakenBack`, `EntriesShorter`; `CountJustified` is the check of
the declared count against the bytes left, which refuses no encoding), to each of the
four messages, and to a datagram of any type and payload.  The run's specification only
says which bytes are looked at: `CodecTypeInv` with arbitrary bounds covers any
command, message and damage.

**The simulated cluster implements `Raft`.**  The invariant `InFlight` says that what is
in `wire` or flying was sent.  For each action of `Raft` a lemma (`GrantVoteMaps`, ...)
says that performed with the simulator's `wire` it is the same action with `sent`, as
handlers only add to the network; `Deliverable` asks for nothing but `m.to` and
`live`, and that the message was sent is where `InFlight` is used.  Then every step of the
simulation is one node step or none (`StepIsNodeStep`, `StepMaps`).  With
the theorems of `Raft!Spec` above, this says what the simulator's assertions check in
each run.  The last step is made by the reader: `tlapm` cannot cite a theorem of an
instance, so that `WatchedSpec => []Adversary!LogMatching` is not a theorem here.

**Ticks and cuts.**  `RoundTripsTakeTime` needs only that delays are positive and that
`AdvanceLinks` comes before the arrivals.  `CutOffNodesStall` is about a step of any
node: if it is another one's, the node that is cut off is as it was; if it is its
own, it is no arrival, a vote of its own is no majority (`NotAlone`), and what is
proposed to it is not committed (`ProposeStalls`).  The last is where an invariant is
needed: nothing is committable for a leader with the match indices it has
(`LeadersSettled`), so that whatever an append commits must be the new entry, which
no peer has acknowledged (`CursorsInRange`).  `LinkInv` is these two, the types, and
that no message is addressed to its sender, which would not be on a cut link; it is
checked action by action (`OwnStep`), and lifted to all nodes in `LinkInvStep`.

**The store implements the trait.**  `SietchInv` is inductive: the keys are exactly
1 .. `last_index` while the store is open.  Then each mutation of the keys is the
mutation of the record, and closing and reopening are stuttering steps; `NO_VOTE` is
told from every id by `IdsBelowNoVote`.

**Only model-checked.**

- *Liveness* (`ElectionsEnd`, `MarkerCommits`, `LeaderEmerges`): the prover does not do
  `ENABLED`, nor what follows from fairness; `ElectionsEnd`, an invariant, holds
  within the luck and mischief of the run.
- *`SuccessionInv` and `AgreementInv`*: they speak of the `led` that `MCHistory` records,
  a variable that only TLC needs.  That some `led` satisfies the same formulas is what
  `HistoryHolds` and `AgreedHistoryHolds` prove of every cluster; the run exhibits one.
- *`DeliveredOnce` and `CommitNeverRegresses` where a log exceeds a batch*: false.

## Findings

1. *A follower's commit index can go backwards, and entries are then delivered twice*
   (`delivered_twice`).  `on_append_entries` sets the commit index to the smaller of
   `leader_commit` and what the message matched whenever `leader_commit` is larger than
   the current one (`node.rs:439`).  A message with an early batch and a late commit
   index, handled after the batches that follow it, lowers it.  `take_committed` moves
   `applied_index` back with it (`node.rs:491`), and hands the same entries out again
   when the index recovers.  The node test asserts that "commit index never moves
   backwards" and that "each committed entry is delivered once" (`tests/node.rs:327`,
   `:337`).  Committed entries themselves stay safe, and the run `kv` shows that a map
   that has caught up is right again; in between it may show older values.
2. *The checker's leader completeness is stronger than its comment*
   (`checker_alarm`).  It requires of a leader every committed entry *created* in an
   earlier term (`cluster.rs:442`), while the comment, like Raft, speaks of entries
   *committed* in an earlier term (`cluster.rs:432`).  A leader of term 2 that was cut
   off and has not noticed is reported when an entry of term 1 is committed in term 3.

## What is not covered

- *The random number generator* (`rng.rs`) and the one in `node.rs`: every choice they
  drive is nondeterministic here, except that the liveness runs assume luck from
  `LuckyTerm` on.  That a seed reproduces a run is not stated.
- *The chaos runner* (`landsraad-chaos.rs`): it derives configurations, parses
  arguments, measures and prints; what its cluster does is `SimCluster`.
- *The library roots*, which re-export.
- *Statistics* of the cluster and the text of violations.
- *The frame, channel and store crates*, which are not part of this repository; they
  are modelled by how the code uses them: an intact frame or an error, datagrams lost,
  repeated and delayed, batches durable at once.
- *A disk that lies*: `load`'s panics on values of a wrong length are out of reach of
  the calls that write them, and nothing else writes.
- *Terms and indices near 2^64*, which counting does not reach.

## What could come next

- A theorem of `Raft!Spec` carried over to the simulated cluster inside TLAPS, once the
  prover can cite theorems of an instance.
- The layout of frames and of the store's values, if those crates join the repository.
- Liveness after `quiesce` for every cluster size, by a ranking on terms and timeouts,
  once `ENABLED` can be proved about.
