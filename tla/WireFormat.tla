----------------------------- MODULE WireFormat -----------------------------
(***************************************************************************)
(* The wire format as BinaryReader meets it: varints, tags, and the        *)
(* grammar of a message of one schema, with what a parser has to deliver   *)
(* for it.  Positions in a buffer count from 1; a position just after the  *)
(* last byte read is where the next thing starts.                          *)
(*                                                                         *)
(* The schema has a repeated packable int32 IntField, a message field      *)
(* MsgField and a group field GroupField of the same message type, and a   *)
(* map<int32, int32> MapField; any other field number is unknown.  Every   *)
(* message is also a message set, as hand-written callbacks read one: an   *)
(* item of it is a group with a type id and a message.                     *)
(***************************************************************************)
EXTENDS Integers, Sequences

CONSTANTS IntField, MsgField, GroupField, MapField

KnownFields == {IntField, MsgField, GroupField, MapField}

MESSAGE_SET_GROUP_NUMBER == 1
MESSAGE_SET_TYPE_ID_FIELD_NUMBER == 2
MESSAGE_SET_MESSAGE_FIELD_NUMBER == 3

ASSUME SchemaAssumption ==
  /\ KnownFields \subseteq Nat \ {0, MESSAGE_SET_GROUP_NUMBER}
  /\ IntField \notin {MsgField, GroupField, MapField}
  /\ MsgField \notin {GroupField, MapField}
  /\ GroupField # MapField

VARINT == 0
FIXED64 == 1
DELIMITED == 2
START_GROUP == 3
END_GROUP == 4
FIXED32 == 5

Field(tag) == tag \div 8
WireType(tag) == tag % 8
MakeTag(field, wireType) == field * 8 + wireType
MESSAGE_SET_START_GROUP_TAG == MakeTag(MESSAGE_SET_GROUP_NUMBER, START_GROUP)
MESSAGE_SET_TYPE_ID_TAG == MakeTag(MESSAGE_SET_TYPE_ID_FIELD_NUMBER, VARINT)
MESSAGE_SET_MESSAGE_TAG == MakeTag(MESSAGE_SET_MESSAGE_FIELD_NUMBER, DELIMITED)
MESSAGE_SET_END_TAG == MakeTag(MESSAGE_SET_GROUP_NUMBER, END_GROUP)
ValidTag(tag) == WireType(tag) \in 0..5 /\ Field(tag) >= 1

\* What a typed array reads past its end is undefined, and counts as 0.
Byte(b, i) == IF i \in 1..Len(b) THEN b[i] ELSE 0

\* The position after the varint at i; 0 if it has more than ten bytes.
VarintEnd(b, i) ==
  LET last == {k \in i .. i + 9 : Byte(b, k) < 128}
  IN  IF last = {} THEN 0 ELSE 1 + CHOOSE k \in last : \A j \in last : k <= j

\* Its value, for varints of up to four bytes; the buffers checked hold no longer tag or
\* length.
Digit(b, i, k) ==
  IF \A j \in 0 .. k - 1 : Byte(b, i + j) >= 128 THEN Byte(b, i + k) % 128 ELSE 0

VarintValue(b, i) ==
  Digit(b, i, 0) + 128 * (Digit(b, i, 1) + 128 * (Digit(b, i, 2) + 128 * Digit(b, i, 3)))

\* Its value as an int32: the fifth byte has the sign and the bits next to it.
Int32Value(b, i) ==
  LET top == Digit(b, i, 4) % 16
  IN  VarintValue(b, i) + 268435456 * (IF top < 8 THEN top ELSE top - 16)
-----------------------------------------------------------------------------
(***************************************************************************)
(* The reference.  Parses(b, lenient, keep) is the set of logs (it has at  *)
(* most one) a parser may deliver for b: {} if b is no message.  lenient   *)
(* admits a packed field whose last element runs over the field's length   *)
(* and any bytes in a map entry; keep says if unknown fields are reported. *)
(***************************************************************************)
Then(S, T) == {s \o t : s \in S, t \in T}

Parses(b, lenient, keep) ==
  LET n == Len(b) + 1
      \* "fields": a message's fields; "field": one of them; "pairs", "pair": the fields
      \* of a map entry; "packed": elements; "skips", "skip": fields of an unknown group;
      \* "items", "item": type ids and messages (where they are) in an item of a message set.
      P[k \in {"fields", "field", "pairs", "pair", "packed", "skips", "skip", "items", "item"},
        i \in 1 .. n + 1, j \in 1 .. n + 1] ==
        LET v == VarintEnd(b, i)          \* after the tag, or the element
            t == VarintValue(b, i)
            w == VarintEnd(b, v)          \* after the value, or the length
            x == VarintValue(b, v)
            y == Int32Value(b, v)
            tagged == v \in i + 1 .. j - 1 /\ ValidTag(t)
            delimited == tagged /\ WireType(t) = DELIMITED /\ w + x = j
            number == tagged /\ WireType(t) = VARINT /\ w = j
            \* an END_GROUP tag of the field t closes the group in front of j
            inner == {m \in v .. j - 1 : VarintEnd(b, m) = j
                                         /\ VarintValue(b, m) = 8 * Field(t) + END_GROUP}
            group == tagged /\ WireType(t) = START_GROUP
            some(c, S) == IF c THEN S ELSE {}
            \* the first type id and the first message count, whichever comes first
            set(items) ==
              LET ids == SelectSeq(items, LAMBDA e : e[1] = "id" /\ e[2] # 0)
                  messages == SelectSeq(items, LAMBDA e : e[1] = "message")
              IN  some(ids # <<>> /\ messages # <<>>,
                       Then(Then({<<<<"set", Head(ids)[2]>>>>},
                                 P["fields", Head(messages)[2], Head(messages)[3]]),
                            {<<<<"close">>>>}))
            rest(one, many) ==
              IF i = j THEN {<<>>}
              ELSE UNION {Then(P[one, i, m], P[many, m, j]) : m \in
                            {m \in i + 1 .. j : P[one, i, m] # {}}}
        IN  CASE k = "fields" -> rest("field", "fields")
              [] k = "skips" -> rest("skip", "skips")
              [] k = "pairs" -> rest("pair", "pairs")
              [] k = "pair" -> some(number /\ Field(t) \in {1, 2}, {<<<<Field(t), y>>>>})
              [] k = "items" -> rest("item", "items")
              [] k = "item" ->
                   some(P["skip", i, j] # {},
                        CASE t = MESSAGE_SET_TYPE_ID_TAG -> {<<<<"id", y>>>>}
                          [] t = MESSAGE_SET_MESSAGE_TAG -> {<<<<"message", w, j>>>>}
                          [] OTHER -> {<<>>})
              [] k = "packed" ->
                   IF i = j THEN {<<>>}
                   ELSE IF v \in i + 1 .. j THEN Then({<<<<"int", Int32Value(b, i)>>>>}, P["packed", v, j])
                   ELSE {}
              [] k = "skip" ->
                   some(\/ number
                        \/ delimited
                        \/ tagged /\ WireType(t) = FIXED64 /\ v + 8 = j
                        \/ tagged /\ WireType(t) = FIXED32 /\ v + 4 = j
                        \/ group /\ \E m \in inner : P["skips", v, m] # {}, {<<>>})
              [] k = "field" ->
                   CASE t = MESSAGE_SET_START_GROUP_TAG ->
                          some(group, UNION {set(items) : items \in
                                               UNION {P["items", v, m] : m \in inner}})
                     [] Field(t) = IntField ->
                          some(number, {<<<<"int", y>>>>})
                          \union some(delimited, P["packed", w, j])
                          \union some(/\ lenient /\ tagged /\ WireType(t) = DELIMITED
                                      /\ w + x < j /\ x > 0
                                      /\ \E m \in w .. w + x - 1 : VarintEnd(b, m) = j,
                                      P["packed", w, j])
                     [] Field(t) = MsgField ->
                          some(delimited, Then(Then({<<<<"open", MsgField>>>>},
                                                    P["fields", w, j]), {<<<<"close">>>>}))
                     [] Field(t) = GroupField ->
                          some(group, UNION {Then(Then({<<<<"open", GroupField>>>>},
                                                       P["fields", v, m]), {<<<<"close">>>>})
                                              : m \in inner})
                     [] Field(t) = MapField ->
                          LET last(pairs, f) ==  \* the last value of the key or value field
                                LET values == SelectSeq(pairs, LAMBDA p : p[1] = f)
                                IN  IF values = <<>> THEN 0 ELSE values[Len(values)][2]
                              entries == IF delimited THEN P["pairs", w, j] ELSE {}
                          IN  {<<<<"entry", last(pairs, 1), last(pairs, 2)>>>> :
                                 pairs \in entries}
                              \union some(delimited /\ lenient /\ entries = {},
                                          {<<<<"entry">>>>})
                     [] OTHER ->
                          some(P["skip", i, j] # {},
                               IF keep THEN {<<<<"unknown", i, j>>>>} ELSE {<<>>})
  IN  P["fields", 1, n]
=============================================================================
