------------------------------- MODULE Storage -------------------------------
(***************************************************************************)
(* What a node keeps across a crash (crates/raft/src/storage.rs): the      *)
(* current term, the vote cast in it and the log.  The three mutations of  *)
(* the Storage trait are operators from one Persistent record to the next; *)
(* each is one durable write, so a crash leaves the record before it or    *)
(* the record after it, never a mixture.                                   *)
(***************************************************************************)
EXTENDS RaftMessages

Persistent == [term : Term, voted_for : Node \cup {Nil}, log : Seq(Entry)]

\* Persistent::default(), what a store that was never written to loads.
Blank == [term |-> 0, voted_for |-> Nil, log |-> <<>>]

\* Mutant of AppendTo: the entries stay in a buffer.
AppendUnflushed(p, entries) == p

SaveHardState(p, t, v) == [p EXCEPT !.term = t, !.voted_for = v]

AppendTo(p, entries) == [p EXCEPT !.log = @ \o entries]

\* Mutant of TruncateFrom: the entry at index stays.
TruncateAfter(p, index) ==
  IF index > Len(p.log) THEN p
  ELSE [p EXCEPT !.log = SubSeq(@, 1, index)]

\* Removes the entry at index and everything after it; an index beyond the
\* log removes nothing.
TruncateFrom(p, index) ==
  IF index > Len(p.log) THEN p
  ELSE [p EXCEPT !.log = SubSeq(@, 1, index - 1)]

=============================================================================
