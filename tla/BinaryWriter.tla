---------------------------- MODULE BinaryWriter ----------------------------
(***************************************************************************)
(* jspb.BinaryWriter (src/binary/writer.js) under generated serializers.   *)
(* Bytes collect in the encoder and move into a list of blocks when a      *)
(* message begins or raw bytes follow.  The block in front of an embedded  *)
(* message is its bookmark: until the message ends it carries, as a last   *)
(* element, the total length at its begin, and then the message's length.  *)
(* A write or a callback may throw, and whoever catches the exception may  *)
(* go on with the same writer.                                             *)
(***************************************************************************)
EXTENDS WireFormat, FiniteSets

CONSTANTS
  Ints,      \* values of int32 fields
  Payloads,  \* byte strings for a bytes field of number BytesField
  BytesField,
  Raw,       \* bytes of serialized fields, for writeSerializedMessage
  MaxCalls   \* bound on the calls made between two resets

MaxInt32 == 2147483647
MaxField == 536870911  \* its tags are below 2^32
Int32 == {i \in Int : -MaxInt32 - 1 <= i /\ i <= MaxInt32}
FieldNumbers == {f \in Nat : 1 <= f /\ f <= MaxField}

ASSUME WriterAssumption ==
  /\ Ints \subseteq Int32
  /\ Payloads \subseteq Seq(0..255)
  /\ Raw \subseteq Seq(0..255)
  /\ BytesField \notin KnownFields \union {MESSAGE_SET_GROUP_NUMBER}
  /\ KnownFields \union {BytesField} \subseteq FieldNumbers
  /\ MaxCalls \in Nat

VARIABLES
  blocks,       \* blocks_
  totalLength,  \* totalLength_
  encoder,      \* encoder_.buffer_
  open,         \* the write calls in progress, innermost last: their field and the
                \* place of their bookmark in blocks (0 for a group)
  out,          \* what the last call of getResultBuffer returned; [ok |-> FALSE] if it threw
  said          \* the calls made since the last reset, as the events a reader reports;
                \* "lost" is a bookmark that an exception left behind

vars == <<blocks, totalLength, encoder, open, out, said>>

None == [ok |-> FALSE, bytes |-> <<>>]

\* encoder_.writeUnsignedVarint32: seven bits a byte, all but the last with the high
\* bit set.
Weight == <<1, 128, 16384, 2097152, 268435456>>

\* A slip the runs must notice: what is left for the bytes that follow is not masked off.
VarintUnmasked(n) ==
  LET size == CHOOSE k \in 1..5 : /\ k = 5 \/ n < Weight[k + 1]
                                  /\ \A j \in 2..k : n >= Weight[j]
  IN  [i \in 1..size |-> (n \div Weight[i]) + (IF i < size THEN 128 ELSE 0)]

Varint(n) ==
  LET size == CHOOSE k \in 1..5 : /\ k = 5 \/ n < Weight[k + 1]
                                  /\ \A j \in 2..k : n >= Weight[j]
  IN  [i \in 1..size |-> ((n \div Weight[i]) % 128) + (IF i < size THEN 128 ELSE 0)]

\* encoder_.writeSignedVarint32: a negative value takes ten bytes, the sign repeated.
SignedVarint(v) ==
  IF v >= 0 THEN Varint(v)
  ELSE [i \in 1..10 |-> IF i = 10 THEN 1
                        ELSE IF i <= 5 THEN 128 + ((v \div Weight[i]) % 128) ELSE 255]

\* writeFieldHeader_.
Header(field, wireType) == Varint(MakeTag(field, wireType))

\* What the blocks bs hold, one after the other.
Joined(bs) ==
  LET upTo[i \in 0..Len(bs)] == IF i = 0 THEN <<>> ELSE upTo[i - 1] \o bs[i]
  IN  upTo[Len(bs)]

\* pushBlock, which leaves empty blocks out.
Push(bs, block) == IF block = <<>> THEN bs ELSE Append(bs, block)

Init ==
  /\ blocks = <<>>
  /\ totalLength = 0
  /\ encoder = <<>>
  /\ open = <<>>
  /\ out = None
  /\ said = <<>>

Says(events) ==
  /\ Len(said) < MaxCalls
  /\ said' = said \o events
  /\ out' = None

\* A field whose header and value go to the encoder: writeInt32 and its like.
WriteInt32(v) ==
  /\ Says(<<<<"int", v>>>>)
  /\ encoder' = encoder \o Header(IntField, VARINT) \o SignedVarint(v)
  /\ UNCHANGED <<blocks, totalLength, open>>

\* appendUint8Array_, with bytes before it in the encoder.
AppendUint8Array(before, arr) ==
  /\ blocks' = Push(Push(blocks, encoder \o before), arr)
  /\ totalLength' = totalLength + Len(encoder \o before) + Len(arr)
  /\ encoder' = <<>>
  /\ UNCHANGED open

\* writeUint8Array: strings and bytes.
WriteUint8Array(p) ==
  /\ Says(<<<<"unknown">>>>)
  /\ AppendUint8Array(Header(BytesField, DELIMITED) \o Varint(Len(p)), p)

WriteSerializedMessage(r) ==
  /\ Says(<<<<"unknown">>>>)
  /\ AppendUint8Array(<<>>, r)

\* A slip the runs must notice: the header in the bookmark is not counted.
BeginDelimitedUncounted(before, field) ==
  /\ blocks' = Append(blocks, encoder \o before \o Header(field, DELIMITED) \o <<totalLength>>)
  /\ totalLength' = totalLength + Len(encoder \o before)
  /\ encoder' = <<>>

\* beginDelimited_, with bytes before it in the encoder: the bookmark becomes a block,
\* and the total length with it is noted in it.
BeginDelimited(before, field) ==
  LET header == encoder \o before \o Header(field, DELIMITED)
  IN  /\ blocks' = Append(blocks, Append(header, totalLength + Len(header)))
      /\ totalLength' = totalLength + Len(header)
      /\ encoder' = <<>>

\* A slip: the length leaves out what is still in the encoder.
SealedWithoutEncoder(b, total, pending) ==
  LET bookmark == blocks[b]
      messageLength == Varint(total - bookmark[Len(bookmark)])
  IN  [bookmark |-> SubSeq(bookmark, 1, Len(bookmark) - 1) \o messageLength,
       total |-> total + Len(messageLength)]

\* endDelimited_ of the bookmark b, with pending bytes in the encoder.
Sealed(b, total, pending) ==
  LET bookmark == blocks[b]
      messageLength == Varint(total + pending - bookmark[Len(bookmark)])
  IN  [bookmark |-> SubSeq(bookmark, 1, Len(bookmark) - 1) \o messageLength,
       total |-> total + Len(messageLength)]

WriteMessageBegins ==
  /\ Says(<<<<"open", MsgField>>>>)
  /\ BeginDelimited(<<>>, MsgField)
  /\ open' = Append(open, [field |-> MsgField, bookmark |-> Len(blocks) + 1])

\* writeMessageSet: an item of a message set, for the extension of number id.
WriteMessageSetBegins(id) ==
  /\ Says(<<<<"set", id>>>>)
  /\ BeginDelimited(<<MESSAGE_SET_START_GROUP_TAG, MESSAGE_SET_TYPE_ID_TAG>> \o SignedVarint(id),
                    MESSAGE_SET_MESSAGE_FIELD_NUMBER)
  /\ open' = Append(open, [field |-> MESSAGE_SET_GROUP_NUMBER,
                           bookmark |-> Len(blocks) + 1])

Innermost == open[Len(open)]
Close == open' = SubSeq(open, 1, Len(open) - 1)

\* endDelimited_ of the innermost bookmark.
EndDelimited ==
  LET b == Innermost.bookmark
      s == Sealed(b, totalLength, Len(encoder))
  IN  /\ Says(<<<<"close">>>>)
      /\ blocks' = [blocks EXCEPT ![b] = s.bookmark]
      /\ totalLength' = s.total
      /\ Close

WriteMessageEnds ==
  /\ open # <<>>
  /\ Innermost.field = MsgField
  /\ EndDelimited
  /\ UNCHANGED encoder

WriteMessageSetEnds ==
  /\ open # <<>>
  /\ Innermost.field = MESSAGE_SET_GROUP_NUMBER
  /\ EndDelimited
  /\ encoder' = Append(encoder, MESSAGE_SET_END_TAG)

WriteGroupBegins ==
  /\ Says(<<<<"open", GroupField>>>>)
  /\ encoder' = encoder \o Header(GroupField, START_GROUP)
  /\ open' = Append(open, [field |-> GroupField, bookmark |-> 0])
  /\ UNCHANGED <<blocks, totalLength>>

WriteGroupEnds ==
  /\ open # <<>>
  /\ Innermost.field = GroupField
  /\ Says(<<<<"close">>>>)
  /\ encoder' = encoder \o Header(Innermost.field, END_GROUP)
  /\ Close
  /\ UNCHANGED <<blocks, totalLength>>

\* A delimited field whose content goes to the encoder and ends at once.
Delimited(field, content) ==
  LET header == encoder \o Header(field, DELIMITED)
      length == Varint(Len(content))
  IN  /\ blocks' = Append(blocks, header \o length)
      /\ totalLength' = totalLength + Len(header) + Len(length)
      /\ encoder' = content
      /\ UNCHANGED open

\* writePackedInt32; no values, no field.
WritePackedInt32(values) ==
  /\ values # <<>>
  /\ Says([i \in 1..Len(values) |-> <<"int", values[i]>>])
  /\ Delimited(IntField, Joined([i \in 1..Len(values) |-> SignedVarint(values[i])]))

\* One round of serializeMapToBinary: an entry of key and value.
WriteMapEntry(k, v) ==
  /\ Says(<<<<"entry", k, v>>>>)
  /\ Delimited(MapField, Header(1, VARINT) \o SignedVarint(k)
                           \o Header(2, VARINT) \o SignedVarint(v))

\* An exception ends the write calls in progress above the level that catches it;
\* the bookmarks of those, and lost more, stay as they are.
Caught(level, lost) ==
  LET ended == {i \in level + 1 .. Len(open) : open[i].bookmark # 0}
  IN  /\ open' = SubSeq(open, 1, level)
      /\ Says(<<<<"throw">>>> \o [i \in 1 .. lost + Cardinality(ended) |-> <<"lost">>])

CallbackThrows(level) ==
  /\ level < Len(open)
  /\ Caught(level, 0)
  /\ UNCHANGED <<blocks, totalLength, encoder>>

\* A value the encoder refuses once the header is written (writeFloat of a number
\* out of range, writeUint32 of a fraction).
WriteInt32Throws(level) ==
  /\ encoder' = encoder \o Header(IntField, VARINT)
  /\ Caught(level, 0)
  /\ UNCHANGED <<blocks, totalLength>>

\* writePackedInt32 of a list whose second value is out of range.
WritePackedInt32Throws(v, level) ==
  LET header == encoder \o Header(IntField, DELIMITED)
  IN  /\ blocks' = Append(blocks, Append(header, totalLength + Len(header)))
      /\ totalLength' = totalLength + Len(header)
      /\ encoder' = SignedVarint(v)
      /\ Caught(level, 1)

\* A slip: the length of the result is not compared with what was copied into it.
GetResultBufferTruncated ==
  LET flushed == Push(blocks, encoder)
      total == totalLength + Len(encoder)
      bytes == SubSeq(Joined(flushed), 1, total)
  IN  /\ encoder' = <<>>
      /\ totalLength' = total
      /\ blocks' = <<bytes>>
      /\ out' = [ok |-> TRUE, bytes |-> bytes]
      /\ UNCHANGED <<open, said>>

\* getResultBuffer flushes the encoder and lays the blocks out in an array of
\* totalLength bytes: more do not fit in, fewer fail the assertion; it keeps the
\* result as the only block.
GetResultBuffer ==
  LET flushed == Push(blocks, encoder)
      total == totalLength + Len(encoder)
      bytes == Joined(flushed)
  IN  /\ encoder' = <<>>
      /\ totalLength' = total
      /\ IF Len(bytes) = total
           THEN blocks' = <<bytes>> /\ out' = [ok |-> TRUE, bytes |-> bytes]
           ELSE blocks' = flushed /\ out' = None
      /\ UNCHANGED <<open, said>>

\* reset(), which nobody calls inside a callback.
Reset ==
  /\ open = <<>>
  /\ blocks' = <<>>
  /\ encoder' = <<>>
  /\ totalLength' = 0
  /\ said' = <<>>
  /\ out' = None
  /\ UNCHANGED open

Next ==
  \/ \E v \in Ints : WriteInt32(v)
  \/ \E p \in Payloads : WriteUint8Array(p)
  \/ \E r \in Raw : WriteSerializedMessage(r)
  \/ WriteMessageBegins
  \/ WriteMessageEnds
  \/ \E id \in {i \in Ints : i > 0} : WriteMessageSetBegins(id)
  \/ WriteMessageSetEnds
  \/ WriteGroupBegins
  \/ WriteGroupEnds
  \/ \E v, w \in Ints : WritePackedInt32(<<v, w>>)
  \/ \E k, v \in Ints : WriteMapEntry(k, v)
  \/ \E level \in 0..Len(open) :
       \/ CallbackThrows(level)
       \/ WriteInt32Throws(level)
       \/ \E v \in Ints : WritePackedInt32Throws(v, level)
  \/ GetResultBuffer
  \/ Reset

Spec == Init /\ [][Next]_vars
-----------------------------------------------------------------------------
TypeOK ==
  /\ blocks \in Seq(Seq(Nat))
  /\ totalLength \in Nat
  /\ encoder \in Seq(0..255)
  /\ open \in Seq([field : {MsgField, GroupField, MESSAGE_SET_GROUP_NUMBER}, bookmark : Nat])
  /\ out.bytes \in Seq(0..255)

Clean == \A i \in 1..Len(said) : said[i] # <<"throw">>

\* A writer no call of which threw gives, once every message is closed, bytes that
\* parse back to exactly the calls made, however the bytes were spread over blocks
\* and however often the result was taken before (getResultBuffer, writer.js:191).
ResultSaysWhatWasSaid ==
  out.ok /\ Clean /\ open = <<>> =>
    Parses(out.bytes, FALSE, FALSE) =
      {SelectSeq(said, LAMBDA e : e # <<"unknown">>)}

Unsealed == {i \in 1..Len(open) : open[i].bookmark # 0}
Lost == {i \in 1..Len(said) : said[i] = <<"lost">>}

\* totalLength_ is the number of bytes in the blocks ("Total number of bytes in the
\* blocks_ array", writer.js:69), but for the note in every bookmark whose message has
\* not ended.
LengthsAgree ==
  Len(Joined(blocks)) = totalLength + Cardinality(Unsealed) + Cardinality(Lost)

\* No result holds a message or packed field that an exception cut short, or one still
\* being written: the note in its bookmark makes getResultBuffer throw.
NothingUnsealedIsReturned == out.ok => Unsealed = {} /\ Lost = {}
=============================================================================
