----------------------------- MODULE FieldIndex -----------------------------
(***************************************************************************)
(* Finding the fields in the bytes of a message without reading them: the  *)
(* kernel's lazy index (src/experimental/runtime/kernel/indexer.js, tag.js)*)
(* over a BufferDecoder, and the count functions of src/binary/utils.js.   *)
(*                                                                         *)
(* A decoder is a buffer and the end of the part it is over.  Fail stands  *)
(* for every exception: the checks of checks.js, at the level that keeps   *)
(* the critical ones and no others (CRITICAL, which checks.js:59 gives a   *)
(* build without goog.DEBUG), and the RangeError of a DataView or a view.  *)
(***************************************************************************)
EXTENDS WireBytes, SequencesExt

VARINT == 0
FIXED64 == 1
DELIMITED == 2
START_GROUP == 3
END_GROUP == 4
FIXED32 == 5

MakeTag(num, wire) == num * 8 + wire
TagToWireType(tag) == tag % 8
TagToFieldNumber(tag) == tag \div 8

(* get32BitVarintLength *)
VarintLength[v \in Nat] == IF v >= Group THEN 1 + VarintLength[UShr(v, Group)] ELSE 1

To(cursor) == [ok |-> TRUE, cursor |-> cursor]
\* A slip: a field that is skipped may end past the decoder.
SkipUnchecked(c, amount, end) == To(c + amount)

Skip(c, amount, end) == IF c + amount <= end THEN To(c + amount) ELSE Fail

(* The cases of skipField that are no group: only the value of a varint is  *)
(* not held against the end of the decoder.                                 *)
SkipScalar(b, c, end, wire) ==
    LET SkipDelimited(length) ==
            IF length.ok THEN Skip(length.cursor, length.lo, end) ELSE Fail
    IN  CASE wire = VARINT /\ c < end    -> SkipVarint(b, c)
          [] wire = FIXED64              -> Skip(c, 2 * BytesPerHalf, end)
          [] wire = FIXED32              -> Skip(c, BytesPerHalf, end)
          [] wire = DELIMITED /\ c < end -> SkipDelimited(GetUnsignedVarint32(b, c))
          [] OTHER -> Fail

(* skipGroup_ of the group num from c on: fields, groups in it included, up *)
(* to an end group tag, which must be the group's own.                      *)
SkipGroup(b, end) ==
    LET From[c \in Nat, num \in Nat] ==
            LET After(field) == IF field.ok THEN From[field.cursor, num] ELSE Fail
                Next(tag, wire, inner) ==
                    CASE wire = END_GROUP   -> IF inner = num THEN To(tag.cursor) ELSE Fail
                      [] wire = START_GROUP -> After(From[tag.cursor, inner])
                      [] OTHER              -> After(SkipScalar(b, tag.cursor, end, wire))
                Tagged(tag) ==
                    IF tag.ok THEN Next(tag, TagToWireType(tag.lo), TagToFieldNumber(tag.lo))
                    ELSE Fail
            IN  IF c < end THEN Tagged(GetUnsignedVarint32(b, c)) ELSE Fail
    IN  From

SkipField(b, c, end, wire, num) ==
    IF wire = START_GROUP THEN SkipGroup(b, end)[c, num] ELSE SkipScalar(b, c, end, wire)

(* buildIndex: the fields in the order they come, each with where its value *)
(* starts and, for the properties, where skipping it ended.                 *)
Entries(b, start, end) ==
    LET From[c \in Nat] ==
            LET Before(entry, rest) ==
                    IF rest.ok THEN [rest EXCEPT !.entries = <<entry>> \o @] ELSE Fail
                Entry(tag, stop) ==
                    [num |-> TagToFieldNumber(tag.lo), wire |-> TagToWireType(tag.lo),
                     at |-> c, start |-> tag.cursor, stop |-> stop.cursor]
                Indexed(tag, stop) ==
                    IF stop.ok THEN Before(Entry(tag, stop), From[stop.cursor]) ELSE Fail
                Tagged(tag) ==
                    IF tag.ok /\ TagToFieldNumber(tag.lo) # 0
                    THEN Indexed(tag, SkipField(b, tag.cursor, end, TagToWireType(tag.lo),
                                                TagToFieldNumber(tag.lo)))
                    ELSE Fail
            IN  IF c < end THEN Tagged(GetUnsignedVarint32(b, c))
                ELSE [ok |-> TRUE, entries |-> <<>>]
    IN  From[start]

(* addIndexEntry: the entries of a field number, in order *)
IndexOf(entries, num) == SelectSeq(entries, LAMBDA e : e.num = num)

LengthTo(r, start) == IF r.ok THEN r.cursor - start ELSE -1
\* A slip: the header of the field counts as well.
TagLengthWithHeader(b, end, e) == LengthTo(SkipField(b, e.start, end, e.wire, e.num), e.at)

(* getTagLength *)
TagLength(b, end, e) == LengthTo(SkipField(b, e.start, end, e.wire, e.num), e.start)

(* subBufferDecoder: that the part lies within the decoder is a checkState, *)
(* which only a debug build makes.                                          *)
SubBufferDecoder(start, length) == [ok |-> TRUE, from |-> start, to |-> start + length]

(* writeBufferDecoder copies the part as a view of the buffer.              *)
WriteBufferDecoder(b, end, e) ==
    LET length == TagLength(b, end, e)
        Copy(d) == IF d.to <= Len(b) THEN [ok |-> TRUE, bytes |-> SubSeq(b, d.from + 1, d.to)]
                                     ELSE Fail
    IN  IF length < 0 THEN Fail ELSE Copy(SubBufferDecoder(e.start, length))

(* The decoders of children: readDelimited, of what a length says follows   *)
(* it, and doReadGroup, of a group up to a tag as long as the shortest that *)
(* can end it.                                                              *)
ReadDelimited(b, end, e) ==
    LET Of(length) ==
            IF length.ok THEN SubBufferDecoder(length.cursor, length.lo) ELSE Fail
    IN  Of(GetUnsignedVarint32(b, e.start))

DoReadGroup(b, end, e) ==
    LET Of(length) ==
            IF length < 0 THEN Fail
            ELSE SubBufferDecoder(e.start, length - VarintLength[MakeTag(e.num, START_GROUP)])
    IN  Of(TagLength(b, end, e))

Child(b, end, e) ==
    IF e.wire = START_GROUP THEN DoReadGroup(b, end, e) ELSE ReadDelimited(b, end, e)

----------------------------------------------------------------------------
(* The count functions scan a buffer for fields of one tag, and stop at the *)
(* first other one.                                                         *)

(* Where the bytes of tag end, or Fail.  A rest of Group is taken for the     *)
(* last byte of the tag.                                                    *)
MatchTag(b, c, tag) ==
    LET From[i \in Nat, temp \in Nat] ==
            CASE temp > Group -> IF At(b, i) # Flagged(temp) THEN Fail
                                 ELSE From[i + 1, temp \div Group]
              [] OTHER        -> IF At(b, i) # temp THEN Fail ELSE To(i + 1)
    IN  From[c, tag]

(* while (cursor < end) { match the tag; count++; skip the value }, where    *)
(* After(i) is the cursor after a value that starts at i                    *)
CountFields(b, start, end, tag, After(_)) ==
    LET From[c \in Nat] ==
            LET m == MatchTag(b, c, tag)
            IN  IF c < end /\ m.ok THEN 1 + From[After(m.cursor)] ELSE 0
    IN  From[start]

(* One byte is read after the other until one has no continuation bit.      *)
AfterVarint(b, i) == i + Span(b, i, Len(b) + 1)

CountVarintFields(b, start, end, num) ==
    CountFields(b, start, end, MakeTag(num, VARINT), LAMBDA i : AfterVarint(b, i))

(* countFixed32Fields and countFixed64Fields, whose stride is the value's   *)
CountFixedFields(b, start, end, num, wire, stride) ==
    CountFields(b, start, end, MakeTag(num, wire), LAMBDA i : i + stride)

CountDelimitedFields(b, start, end, num) ==
    LET After(i) ==
            LET past == AfterVarint(b, i)
                Sum[k \in Nat] == IF k >= past THEN 0
                                  ELSE Bits(At(b, k)) * Group ^ (k - i) + Sum[k + 1]
            IN  past + Sum[i]
    IN  CountFields(b, start, end, MakeTag(num, DELIMITED), After)

(* Every byte but a varint's last has the high bit set. *)
CountVarints(b, start, end) ==
    (end - start) - Cardinality({i \in start .. end - 1 : More(b, i)})
=============================================================================
