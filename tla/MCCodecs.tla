------------------------------ MODULE MCCodecs ------------------------------
(***************************************************************************)
(* The two codecs over small inputs: the commands of every short key and   *)
(* value, one byte after the other, which are also arbitrary bytes to      *)
(* decode; and the encoding of every small message, with what up to        *)
(* MaxDamage changes of a byte, of the frame type or of the length make of *)
(* it.  MaxKey, MaxValue and MaxEntries bound the lengths.                 *)
(***************************************************************************)
EXTENDS KvStore, MessageCodec

CONSTANTS MaxKey, MaxValue, Numbers, Commands, MaxEntries, MaxDamage

\* The numbers, lengths and counts fit the fields they are written to, and a
\* byte holds nothing that the length of a key does not.
ASSUME InputsAssumption ==
  /\ \A n \in Numbers \cup {0} : n \in Nat /\ Fits(n, Wide)
  /\ \A c \in Commands : c \in Seq(Byte) /\ Fits(Len(c), Narrow)
  /\ MaxEntries \in Nat /\ \A n \in 0 .. MaxEntries : Fits(n, Narrow)
  /\ Base <= LenLimit

VARIABLES key, value, message, datagram, damage

command == <<key, value>>
wire    == <<message, datagram, damage>>

SmallCommands == {<<>>, <<2>>, <<0, 1>>}

Entries == [term : Numbers, command : Commands]

Messages ==
  [kind : {"RequestVote"}, term : Numbers, last_log_index : Numbers,
   last_log_term : Numbers]
    \cup [kind : {"VoteResponse"}, term : Numbers, granted : BOOLEAN]
    \cup [kind : {"AppendEntries"}, term : Numbers, prev_index : Numbers,
          prev_term : {0}, leader_commit : {0}, entries : BoundedSeq(Entries, MaxEntries)]
    \cup [kind : {"AppendResponse"}, term : Numbers, success : BOOLEAN,
          match_index : Numbers]

\* The message beside which commands are looked at.
AnyMessage == CHOOSE m \in Messages : m.kind = "VoteResponse"

Init ==
  /\ key = <<>> /\ value = <<>>
  /\ message \in Messages
  /\ datagram = EncodeMessage(message)
  /\ damage = 0

Grow ==
  /\ message = AnyMessage /\ damage = 0
  /\ \E b \in Byte :
       \/ Len(key) < MaxKey /\ key' = Append(key, b) /\ UNCHANGED value
       \/ Len(value) < MaxValue /\ value' = Append(value, b) /\ UNCHANGED key
  /\ UNCHANGED wire

ChangeByte ==
  \E k \in DOMAIN datagram.payload, b \in Byte :
    datagram' = [datagram EXCEPT !.payload[k] = b]

ChangeType == \E t \in 0 .. 5 : datagram' = [datagram EXCEPT !.type = t]

ChangeLength ==
  \/ \E b \in Byte : datagram' = [datagram EXCEPT !.payload = Append(@, b)]
  \/ /\ datagram.payload # <<>>
     /\ datagram' = [datagram EXCEPT !.payload = Front(@)]

Damage ==
  /\ key = <<>> /\ value = <<>>
  /\ damage < MaxDamage
  /\ damage' = damage + 1
  /\ ChangeByte \/ ChangeType \/ ChangeLength
  /\ UNCHANGED <<command, message>>

Next == Grow \/ Damage

Spec == Init /\ [][Next]_<<command, wire>>

-----------------------------------------------------------------------------

\* Every command whose key's length fits the length field is decoded as it was
\* encoded, whatever bytes its key and value are made of (kv/tests/property.rs);
\* a longer key is cut, which is the limit of the u32.
RoundTrips ==
  \A c \in {Put(key, value), Delete(key)} :
    Len(key) < LenLimit => DecodeCommand(EncodeCommand(c)) = c

\* Arbitrary bytes are a command only if they are its encoding: no two byte
\* strings mean the same command, and malformed ones, a key shorter than its
\* length says included, mean none (Command::decode).
DecodesOnlyEncodings ==
  LET c == DecodeCommand(key \o value)
  IN c # NoCommand => EncodeCommand(c) = key \o value

\* What is sent is what is read, at the ends of every field's range too.
MessagesRoundTrip ==
  damage = 0 => DecodeMessage(datagram) = [error |-> "none", message |-> message]

\* Whatever arrives, an accepted datagram is the encoding of the message it is
\* taken for: no two datagrams mean the same message, and no byte of one goes
\* unread (decode_message).
AcceptsOnlyEncodings ==
  LET d == DecodeMessage(datagram)
  IN d.error = "none" => EncodeMessage(d.message) = datagram

\* No message is the beginning of another one: every shorter payload is reported
\* as truncated and every longer one as having trailing bytes, inside an entry
\* and in the middle of a count too.
NoMessageIsAPrefix ==
  damage = 0 =>
    /\ \A n \in 0 .. Len(datagram.payload) - 1 :
         DecodeMessage([datagram EXCEPT !.payload = SubSeq(@, 1, n)]).error = "Truncated"
    /\ \A b \in Byte :
         DecodeMessage([datagram EXCEPT !.payload = Append(@, b)]).error = "TrailingBytes"

=============================================================================
