---------------------------- MODULE MessageCodec ----------------------------
(***************************************************************************)
(* The wire codec of crates/raft/src/message.rs.  A datagram is a frame    *)
(* with a type and a payload; the frame's own layout and checksum belong   *)
(* to the frame crate, which is not part of the repository.                *)
(*                                                                         *)
(* A byte is a number below Base.  The widths of the two integer formats   *)
(* are scaled: a u64 is Wide bytes and a u32 is Narrow bytes, both little- *)
(* endian, and wrap around beyond.                                         *)
(***************************************************************************)
EXTENDS Naturals, Sequences

CONSTANTS Base, Wide, Narrow

\* There are bytes that are no boolean, and no number is empty.
ASSUME WidthAssumption ==
  Base \in Nat \ (0 .. 2) /\ Wide \in Nat \ {0} /\ Narrow \in Nat \ {0}

Byte == 0 .. Base - 1

\* What is left of n above its lowest k bytes, for k up to width.
Shifted(n, width) ==
  LET high[k \in 0 .. width] == IF k = 0 THEN n ELSE high[k - 1] \div Base
  IN high

Fits(n, width) == Shifted(n, width)[width] = 0

\* to_le_bytes and from_le_bytes.
Number(n, width) == [k \in 1 .. width |-> Shifted(n, width)[k - 1] % Base]

\* The numbers that the last k bytes stand for.
Values(bytes) ==
  LET last[k \in 0 .. Len(bytes)] ==
        IF k = 0 THEN 0 ELSE bytes[Len(bytes) - k + 1] + Base * last[k - 1]
  IN last

Value(bytes) == Values(bytes)[Len(bytes)]

U64(n)  == Number(n, Wide)
U32(n)  == Number(n, Narrow)
Bool(b) == <<IF b THEN 1 ELSE 0>>

\* Mutant of EncodeEntry: the length goes first.
EncodeLengthFirst(e) == U32(Len(e.command)) \o U64(e.term) \o e.command

EncodeEntry(e) == U64(e.term) \o U32(Len(e.command)) \o e.command

\* The first k entries, one after the other.
Encoded(entries) ==
  LET bytes[k \in 0 .. Len(entries)] ==
        IF k = 0 THEN <<>> ELSE bytes[k - 1] \o EncodeEntry(entries[k])
  IN bytes

EncodeEntries(entries) == Encoded(entries)[Len(entries)]

FrameType ==
  [RequestVote |-> 1, VoteResponse |-> 2, AppendEntries |-> 3, AppendResponse |-> 4]

Payload(m) ==
  CASE m.kind = "RequestVote" ->
         U64(m.term) \o U64(m.last_log_index) \o U64(m.last_log_term)
    [] m.kind = "VoteResponse" ->
         U64(m.term) \o Bool(m.granted)
    [] m.kind = "AppendEntries" ->
         U64(m.term) \o U64(m.prev_index) \o U64(m.prev_term)
           \o U64(m.leader_commit) \o U32(Len(m.entries)) \o EncodeEntries(m.entries)
    [] m.kind = "AppendResponse" ->
         U64(m.term) \o Bool(m.success) \o U64(m.match_index)

\* encode_message.
EncodeMessage(m) == [type |-> FrameType[m.kind], payload |-> Payload(m)]

-----------------------------------------------------------------------------
(* Reader: the bytes left, the value just read, and the first error, after  *)
(* which nothing more is read.                                              *)

Reader(bytes) == [rest |-> bytes, value |-> 0, error |-> "none"]

Failed(r, error) == [r EXCEPT !.error = error]

\* Reader::take: the next n bytes are read as value.
Take(r, n, value) ==
  IF r.error # "none" THEN r
  ELSE IF Len(r.rest) < n THEN Failed(r, "Truncated")
  ELSE [rest |-> SubSeq(r.rest, n + 1, Len(r.rest)), value |-> value, error |-> "none"]

TakeBytes(r, n)  == Take(r, n, SubSeq(r.rest, 1, n))
TakeNumber(r, n) == Take(r, n, Value(SubSeq(r.rest, 1, n)))

TakeU64(r) == TakeNumber(r, Wide)
TakeU32(r) == TakeNumber(r, Narrow)

\* Mutant of TakeBool: whatever is not 1 is false.
TakeAnyBool(r) == Take(r, 1, r.rest[1] = 1)

TakeBool(r) ==
  LET b == Take(r, 1, r.rest[1] = 1)
  IN IF b.error = "none" /\ r.rest[1] > 1 THEN Failed(b, "BadBool") ELSE b

\* One more entry, after those in r.value.
TakeEntry(r) ==
  LET term    == TakeU64(r)
      length  == TakeU32(term)
      command == TakeBytes(length, length.value)
  IN IF command.error # "none" THEN Failed(r, command.error)
     ELSE [command EXCEPT !.value = Append(r.value, [term    |-> term.value,
                                                     command |-> command.value])]

\* After the first k of n entries.
EntriesTaken(r, n) ==
  LET after[k \in 0 .. n] ==
        IF k = 0 THEN [r EXCEPT !.value = <<>>] ELSE TakeEntry(after[k - 1])
  IN after

\* As many entries as the number just read.  A count that the bytes left cannot
\* justify is not believed.
TakeEntries(r) ==
  IF r.error # "none" THEN r
  ELSE IF r.value > Len(r.rest) \div (Wide + Narrow) THEN Failed(r, "Truncated")
  ELSE EntriesTaken(r, r.value)[r.value]

ReadRequestVote(bytes) ==
  LET term  == TakeU64(Reader(bytes))
      index == TakeU64(term)
      last  == TakeU64(index)
  IN [last EXCEPT !.value = [kind |-> "RequestVote", term |-> term.value,
                             last_log_index |-> index.value,
                             last_log_term |-> last.value]]

ReadVoteResponse(bytes) ==
  LET term    == TakeU64(Reader(bytes))
      granted == TakeBool(term)
  IN [granted EXCEPT !.value = [kind |-> "VoteResponse", term |-> term.value,
                                granted |-> granted.value]]

ReadAppendEntries(bytes) ==
  LET term    == TakeU64(Reader(bytes))
      index   == TakeU64(term)
      prev    == TakeU64(index)
      commit  == TakeU64(prev)
      entries == TakeEntries(TakeU32(commit))
  IN [entries EXCEPT !.value = [kind |-> "AppendEntries", term |-> term.value,
                                prev_index |-> index.value, prev_term |-> prev.value,
                                leader_commit |-> commit.value,
                                entries |-> entries.value]]

ReadAppendResponse(bytes) ==
  LET term    == TakeU64(Reader(bytes))
      success == TakeBool(term)
      match   == TakeU64(success)
  IN [match EXCEPT !.value = [kind |-> "AppendResponse", term |-> term.value,
                              success |-> success.value, match_index |-> match.value]]

ReadMessage(f) ==
  CASE f.type = 1 -> ReadRequestVote(f.payload)
    [] f.type = 2 -> ReadVoteResponse(f.payload)
    [] f.type = 3 -> ReadAppendEntries(f.payload)
    [] f.type = 4 -> ReadAppendResponse(f.payload)
    [] OTHER -> Failed(Reader(f.payload), "UnknownType")

\* Mutant of Finish: what follows the message is not looked at.
FinishAnywhere(r) == r

\* The message must be the whole payload.
Finish(r) ==
  IF r.error = "none" /\ r.rest # <<>> THEN Failed(r, "TrailingBytes") ELSE r

\* decode_message, of a datagram whose frame is intact: an error or a message.
DecodeMessage(f) ==
  LET r == Finish(ReadMessage(f))
  IN IF r.error # "none" THEN [error |-> r.error]
     ELSE [error |-> "none", message |-> r.value]

=============================================================================
