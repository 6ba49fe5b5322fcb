------------------------------- MODULE KvStore -------------------------------
(***************************************************************************)
(* The key-value state machine (crates/kv/src/lib.rs): what a committed    *)
(* command means.  A command is a sequence of bytes; so are keys and       *)
(* values.  The four bytes of a key's length are one byte here, and hold   *)
(* the length modulo LenLimit (2^32 in the code).                          *)
(***************************************************************************)
EXTENDS Naturals, Sequences, SequencesExt

CONSTANT LenLimit

\* Some key fits.
ASSUME LenLimitAssumption == LenLimit \in Nat \ {0}

Put(key, value) == [op |-> "Put", key |-> key, value |-> value]
Delete(key)     == [op |-> "Delete", key |-> key]
NoCommand       == [op |-> "None"]

\* Mutant of EncodeCommand: the length of the value is written.
EncodeValueLength(c) ==
  IF c.op = "Put" THEN <<1, Len(c.value) % LenLimit>> \o c.key \o c.value
  ELSE <<2>> \o c.key

EncodeCommand(c) ==
  IF c.op = "Put" THEN <<1, Len(c.key) % LenLimit>> \o c.key \o c.value
  ELSE <<2>> \o c.key

\* What is decoded as a Put: the length is there, and so is the key.
IsPut(bytes) ==
  Len(bytes) >= 2 /\ bytes[1] = 1 /\ bytes[2] <= Len(bytes) - 2

\* Mutant of DecodeCommand: a key that is cut short is taken as it is.
DecodeShortKey(bytes) ==
  LET key == Min({bytes[2] + 2, Len(bytes)})
  IN CASE Len(bytes) >= 2 /\ bytes[1] = 1 ->
            Put(SubSeq(bytes, 3, key), SubSeq(bytes, key + 1, Len(bytes)))
       [] bytes # <<>> /\ bytes[1] = 2 -> Delete(Tail(bytes))
       [] OTHER -> NoCommand

\* Anything else, the empty no-op included, is no command.
DecodeCommand(bytes) ==
  CASE IsPut(bytes) -> Put(SubSeq(bytes, 3, bytes[2] + 2),
                           SubSeq(bytes, bytes[2] + 3, Len(bytes)))
    [] bytes # <<>> /\ bytes[1] = 2 -> Delete(Tail(bytes))
    [] OTHER -> NoCommand

EmptyStore == <<>>

\* BTreeMap::insert and BTreeMap::remove.
InsertKey(map, key, value) ==
  [k \in DOMAIN map \cup {key} |-> IF k = key THEN value ELSE map[k]]

RemoveKey(map, key) == Restrict(map, DOMAIN map \ {key})

\* Mutant of Execute: the first value of a key stays.
ExecuteFirst(c, map) ==
  CASE c.op = "Put"    -> IF c.key \in DOMAIN map THEN map
                          ELSE InsertKey(map, c.key, c.value)
    [] c.op = "Delete" -> RemoveKey(map, c.key)
    [] c.op = "None"   -> map

\* What a command does to the map.
Execute(c, map) ==
  CASE c.op = "Put"    -> InsertKey(map, c.key, c.value)
    [] c.op = "Delete" -> RemoveKey(map, c.key)
    [] c.op = "None"   -> map

ApplyEntry(map, entry) == Execute(DecodeCommand(entry.command), map)

\* The map after Store::apply of each of the first n entries in turn.
Applied(map, entries) ==
  LET after[n \in 0 .. Len(entries)] ==
        IF n = 0 THEN map ELSE ApplyEntry(after[n - 1], entries[n])
  IN after

ApplyAll(map, entries) == Applied(map, entries)[Len(entries)]

-----------------------------------------------------------------------------

\* What a log says about a key, whatever order it is applied in: its last
\* command on that key, if that is a Put.
Writers(entries, key) ==
  {n \in 1 .. Len(entries) :
     LET c == DecodeCommand(entries[n].command) IN c.op # "None" /\ c.key = key}

LastWrite(entries, key) == DecodeCommand(entries[Max(Writers(entries, key))].command)

LastWrites(entries) ==
  LET commands == {DecodeCommand(entries[n].command) : n \in 1 .. Len(entries)}
      keys     == {c.key : c \in {d \in commands : d.op # "None"}}
      present  == {k \in keys : LastWrite(entries, k).op = "Put"}
  IN [k \in present |-> LastWrite(entries, k).value]

=============================================================================
