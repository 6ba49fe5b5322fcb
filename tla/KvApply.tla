------------------------------- MODULE KvApply -------------------------------
(***************************************************************************)
(* Replicated stores: every node applies what take_committed hands it to a *)
(* Store of its own (crates/kv/src/lib.rs over crates/raft/src/node.rs).   *)
(* A command is the bytes in the log, the no-op the empty sequence.  A     *)
(* restarted node starts again from an empty store.                        *)
(***************************************************************************)
EXTENDS RaftHistory, KvStore

VARIABLES
  store,     \* per node: its map
  reached    \* per node: the highest applied_index since it was started

KvInit ==
  /\ store = [i \in Node |-> EmptyStore]
  /\ reached = [i \in Node |-> 0]

EntriesHanded(i) ==
  [k \in DOMAIN Handed(i) |-> Handed(i)[k].entry]

Apply(i) ==
  /\ TakeCommitted(i)
  /\ store' = [store EXCEPT ![i] = ApplyAll(@, EntriesHanded(i))]
  /\ reached' = [reached EXCEPT ![i] = Higher(@, commit_index[i])]

\* After any other step, the store of a node that is down is gone.
KeepStores ==
  /\ store' = [i \in Node |-> IF i \in live' THEN store[i] ELSE EmptyStore]
  /\ reached' = [i \in Node |-> IF i \in live' THEN reached[i] ELSE 0]
  /\ \A i \in live' : applied_index'[i] = applied_index[i]

KvNext ==
  \/ Next /\ KeepStores
  \/ \E i \in Node : Apply(i)

KvSpec == Init /\ KvInit /\ [][KvNext]_<<vars, store, reached>>

-----------------------------------------------------------------------------
(* Inductive with LogInv and CommitInv *)

IsMap(f) == f = [k \in DOMAIN f |-> f[k]]

Meaning(l, n) == LastWrites(SubSeq(l, 1, n))

\* Applying what follows a up to r once more makes of the map what the log says:
\* a store that fell behind its own commit index is only that far off.
Replays(map, l, a, r) == ApplyAll(map, SubSeq(l, a + 1, r)) = Meaning(l, r)

StoreInv(led) ==
  /\ IsMap(store) /\ DOMAIN store = Node /\ reached \in [Node -> Nat]
  /\ \A i \in live :
       /\ applied_index[i] <= reached[i]
       /\ Decided(led, disk[i].log, reached[i], disk[i].term)
       /\ IsMap(store[i])
       /\ Replays(store[i], disk[i].log, applied_index[i], reached[i])
  /\ \A i \in Node \ live : store[i] = EmptyStore /\ reached[i] = 0

StoreHistory ==
  \E led \in [Term -> Seq(Entry)] : LogInv(led) /\ CommitInv(led) /\ StoreInv(led)

-----------------------------------------------------------------------------

CaughtUp(i) == i \in live /\ applied_index[i] = reached[i]

\* A store that has caught up maps each key to the last value put in the prefix
\* applied, and no deleted key, although take_committed may have handed out some
\* of its entries twice: replaying a suffix changes nothing at its end.
CaughtUpStores ==
  \A i \in Node : CaughtUp(i) =>
    store[i] = LastWrites(SubSeq(log[i], 1, applied_index[i]))

\* Nodes that have applied as much hold the same map (kv/src/lib.rs, "Applying
\* the same committed log always yields the same map, on every node").
SameStores ==
  \A i, j \in Node :
    CaughtUp(i) /\ CaughtUp(j) /\ reached[i] = reached[j] => store[i] = store[j]

=============================================================================
