------------------------- MODULE BinaryReaderProofs -------------------------
(***************************************************************************)
(* For every schema and every set of buffers: the reader's state is of its *)
(* type, and until a read throws nothing is read beyond the end of the     *)
(* message it belongs to.                                                  *)
(***************************************************************************)
EXTENDS BinaryReader, SequenceTheorems, TLAPS

\* What the control point says about the read calls in progress.
PcOK ==
  /\ pc = "field" => tag # NoTag /\ ValidTag(tag) /\ fieldCursor <= cursor
  /\ pc = "done" => stack = <<>>
  /\ pc = "packed" => stack # <<>> /\ stack[1].kind = "packed"

\* Ten positions at most: the first byte that ends the varint is one of them.
LEMMA VarintEndType ==
  ASSUME NEW b, NEW i \in Nat
  PROVE  VarintEnd(b, i) \in Nat
<1> DEFINE last == {k \in i .. i + 9 : Byte(b, k) < 128}
<1>1. CASE last = {}
  BY <1>1 DEF VarintEnd
<1>2. CASE last # {}
  <2>1. \E k \in last : \A j \in last : k <= j
    <3> DEFINE E(k) == i + k \in last
               First(k) == \A j \in last : i + k <= j
    <3>1. \A j \in last : j \in i .. i + 9 /\ j \in Nat
      OBVIOUS
    <3>2. E(0) \/ E(1) \/ E(2) \/ E(3) \/ E(4) \/ E(5) \/ E(6) \/ E(7) \/ E(8) \/ E(9)
      <4>1. PICK j \in last : TRUE
        BY <1>2
      <4>2. j = i \/ j = i + 1 \/ j = i + 2 \/ j = i + 3 \/ j = i + 4 \/ j = i + 5
            \/ j = i + 6 \/ j = i + 7 \/ j = i + 8 \/ j = i + 9
        BY <3>1, <4>1
      <4>3. i = i + 0
        OBVIOUS
      <4> HIDE DEF last
      <4>4. QED
        BY <4>1, <4>2, <4>3
    <3>3. \E k \in 0..9 : E(k) /\ \A j \in 0..9 : j < k => ~E(j)
      <4> HIDE DEF E
      <4>1. QED
        BY <3>2
    <3>4. PICK k \in 0..9 : E(k) /\ \A j \in 0..9 : j < k => ~E(j)
      BY <3>3
    <3>5. ASSUME NEW j \in last PROVE i + k <= j
      <4>1. j - i \in 0..9 /\ j = i + (j - i)
        BY <3>1
      <4>2. E(j - i)
        BY <4>1
      <4>3. ~(j - i < k)
        BY <3>4, <4>1, <4>2
      <4>4. QED
        BY <4>1, <4>3
    <3>6. QED
      BY <3>4, <3>5
  <2> DEFINE first == CHOOSE k \in last : \A j \in last : k <= j
  <2>2. first \in last
    BY <2>1
  <2>3. VarintEnd(b, i) = 1 + first
    BY <1>2 DEF VarintEnd
  <2>4. QED
    BY <2>2, <2>3
<1>3. QED
  BY <1>1, <1>2

LEMMA ByteType ==
  ASSUME NEW b \in Seq(0..255), NEW i \in Int
  PROVE  Byte(b, i) \in Nat
<1>1. CASE i \in 1..Len(b)
  <2>1. b[i] \in 0..255
    BY <1>1, ElementOfSeq
  <2>2. Byte(b, i) = b[i]
    BY <1>1, Zenon DEF Byte
  <2>3. \A x \in 0..255 : x \in Nat
    OBVIOUS
  <2>4. QED
    BY <2>1, <2>2, <2>3, Zenon
<1>2. CASE i \notin 1..Len(b)
  BY <1>2 DEF Byte
<1>3. QED
  BY <1>1, <1>2

LEMMA VarintValueType ==
  ASSUME NEW b \in Seq(0..255), NEW i \in Nat
  PROVE  VarintValue(b, i) \in Nat
<1>1. ASSUME NEW k \in Nat PROVE Digit(b, i, k) \in Nat
  <2>1. i + k \in Int
    OBVIOUS
  <2>2. Byte(b, i + k) \in Nat
    BY <2>1, ByteType
  <2>3. Byte(b, i + k) % 128 \in Nat
    BY <2>2
  <2> DEFINE D == Byte(b, i + k) % 128
  <2>4. Digit(b, i, k) = D \/ Digit(b, i, k) = 0
    BY DEF Digit
  <2>5. QED
    BY <2>3, <2>4
<1>2. /\ Digit(b, i, 0) \in Nat /\ Digit(b, i, 1) \in Nat
      /\ Digit(b, i, 2) \in Nat /\ Digit(b, i, 3) \in Nat
  <2>1. 0 \in Nat /\ 1 \in Nat /\ 2 \in Nat /\ 3 \in Nat
    OBVIOUS
  <2>2. QED
    BY <1>1, <2>1, Zenon
<1>3. QED
  BY <1>2, SMTT(30) DEF VarintValue

LEMMA BufType == TypeOK => buf \in Seq(0..255)
BY BuffersAssumption DEF TypeOK

\* What a read call pushes is a frame, and what it pops leaves frames.
LEMMA PushFrame ==
  ASSUME NEW F, NEW s \in Seq(F), NEW f \in F
  PROVE  /\ <<f>> \o s \in Seq(F)
         /\ <<f>> \o s # <<>>
         /\ Len(<<f>> \o s) = Len(s) + 1
         /\ (<<f>> \o s)[1] = f
         /\ \A i \in 1..Len(s) : (<<f>> \o s)[i + 1] = s[i]
<1>1. <<f>> \in Seq(F) /\ Len(<<f>>) = 1 /\ <<f>>[1] = f
  OBVIOUS
<1>2. /\ <<f>> \o s \in Seq(F)
      /\ Len(<<f>> \o s) = Len(s) + 1
      /\ \A i \in 1 .. Len(s) + 1 : (<<f>> \o s)[i] = IF i <= 1 THEN <<f>>[i] ELSE s[i - 1]
  BY <1>1, ConcatProperties
<1>3. Len(s) \in Nat
  OBVIOUS
<1>4. (<<f>> \o s)[1] = f
  BY <1>1, <1>2, <1>3
<1>5. ASSUME NEW i \in 1..Len(s) PROVE (<<f>> \o s)[i + 1] = s[i]
  <2>1. i + 1 \in 1 .. Len(s) + 1 /\ ~(i + 1 <= 1) /\ (i + 1) - 1 = i
    BY <1>3
  <2>2. QED
    BY <1>2, <2>1
<1>6. <<f>> \o s # <<>>
  BY <1>2, <1>3
<1>7. QED
  BY <1>2, <1>4, <1>5, <1>6

LEMMA FrameType ==
  ASSUME TypeOK, tag # NoTag, NEW newEnd \in Positions,
         NEW kind \in {"msg", "entry", "group", "skip", "packed", "set"}
  PROVE  Frame(kind, newEnd) \in Frames
<1>1. Field(tag) \in Nat
  BY DEF TypeOK, Field
<1>2. QED
  BY <1>1 DEF TypeOK, Frame, Frames

\* The positions and values every read starts from.
LEMMA ReadTypes ==
  ASSUME TypeOK
  PROVE  /\ VarintEnd(buf, cursor) \in Nat
         /\ VarintValue(buf, cursor) \in Nat
         /\ VarintEnd(buf, fieldCursor) \in Nat
<1>1. buf \in Seq(0..255) /\ cursor \in Nat /\ fieldCursor \in Nat
  BY BufType DEF TypeOK, Positions
<1>2. QED
  BY <1>1, VarintEndType, VarintValueType

LEMMA EventTypes ==
  /\ <<"close">> \in Events
  /\ \A v \in Nat : <<"int", v>> \in Events /\ <<"open", v>> \in Events
                  /\ <<"set", v>> \in Events
  /\ \A v, w \in Nat : <<"entry", v, w>> \in Events /\ <<"unknown", v, w>> \in Events
BY DEF Events

LEMMA SchemaTypes == MsgField \in Nat /\ GroupField \in Nat
BY SchemaAssumption DEF KnownFields

LEMMA UnknownType ==
  ASSUME NEW b \in Nat, NEW c \in Nat
  PROVE  Unknown(b, c) \in Seq(Events)
<1>1. <<"unknown", b, c>> \in Events
  BY EventTypes
<1>2. QED
  BY <1>1 DEF Unknown
-----------------------------------------------------------------------------
TypeInv == TypeOK /\ PcOK

LEMMA ThrowType ==
  ASSUME TypeInv, NEW c \in Nat, Throw(c)
  PROVE  TypeInv'
<1>1. cursor' \in Positions
  BY DEF TypeInv, TypeOK, Throw, Stopped, Positions
<1>2. QED
  BY <1>1 DEF TypeInv, TypeOK, PcOK, Throw

LEMMA ReadToType ==
  ASSUME TypeInv, NEW c \in Nat, NEW events \in Seq(Events), ReadTo(c, events)
  PROVE  TypeInv'
<1>1. CASE c \in cursor .. end
  <2>1. cursor' \in Positions
    BY <1>1 DEF TypeInv, TypeOK, ReadTo, Positions
  <2>2. log' \in Seq(Events)
    BY <1>1, ConcatProperties DEF TypeInv, TypeOK, ReadTo
  <2>3. QED
    BY <1>1, <2>1, <2>2 DEF TypeInv, TypeOK, PcOK, ReadTo
<1>2. CASE c \notin cursor .. end
  BY <1>2, ThrowType DEF ReadTo
<1>3. QED
  BY <1>1, <1>2

\* A read call that begins at c: f is its frame.
LEMMA CallOntoType ==
  ASSUME TypeInv, NEW f \in Frames, NEW s \in Seq(Frames), stack' = <<f>> \o s,
         cursor' \in Positions, end' \in Positions, log' \in Seq(Events),
         pc' \in {"loop", "packed"},
         pc' = "packed" => f.kind = "packed",
         UNCHANGED <<buf, fieldCursor, tag, discard>>
  PROVE  TypeInv'
<1>1. stack' \in Seq(Frames) /\ stack' # <<>> /\ stack'[1] = f
  BY PushFrame
<1>2. QED
  BY <1>1 DEF TypeInv, TypeOK, PcOK

LEMMA CallType ==
  ASSUME TypeInv, NEW f \in Frames, stack' = <<f>> \o stack, cursor' \in Positions,
         end' \in Positions, log' \in Seq(Events), pc' \in {"loop", "packed"},
         pc' = "packed" => f.kind = "packed",
         UNCHANGED <<buf, fieldCursor, tag, discard>>
  PROVE  TypeInv'
<1>1. stack \in Seq(Frames)
  BY DEF TypeInv, TypeOK
<1>2. QED
  BY <1>1, CallOntoType

\* A read call in progress changes its locals.
LEMMA UpdateFrame ==
  ASSUME NEW F, NEW s \in Seq(F), s # <<>>, NEW g \in F
  PROVE  /\ [s EXCEPT ![1] = g] \in Seq(F)
         /\ Len([s EXCEPT ![1] = g]) = Len(s)
         /\ [s EXCEPT ![1] = g] # <<>>
         /\ [s EXCEPT ![1] = g][1] = g
         /\ \A i \in 2 .. Len(s) : [s EXCEPT ![1] = g][i] = s[i]
<1>1. 1 \in 1 .. Len(s)
  OBVIOUS
<1>2. [s EXCEPT ![1] = g] \in Seq(F) /\ Len([s EXCEPT ![1] = g]) = Len(s)
  BY <1>1, ExceptSeq
<1>3. QED
  BY <1>1, <1>2

LEMMA UpdateType ==
  ASSUME TypeInv, stack # <<>>, NEW g \in Frames, stack' = [stack EXCEPT ![1] = g],
         cursor' \in Positions, tag' \in Nat \union {NoTag}, pc' = "loop",
         UNCHANGED <<buf, end, fieldCursor, discard, log>>
  PROVE  TypeInv'
<1>1. stack' \in Seq(Frames)
  BY UpdateFrame DEF TypeInv, TypeOK
<1>2. QED
  BY <1>1 DEF TypeInv, TypeOK, PcOK

\* A read call that returns.
LEMMA ReturnType ==
  ASSUME TypeInv, stack # <<>>, stack' = Tail(stack), end' \in Positions,
         log' \in Seq(Events), pc' = "loop",
         UNCHANGED <<buf, cursor, fieldCursor, tag, discard>>
  PROVE  TypeInv'
<1>1. stack' \in Seq(Frames)
  BY HeadTailProperties DEF TypeInv, TypeOK
<1>2. QED
  BY <1>1 DEF TypeInv, TypeOK, PcOK

\* What skipping a field comes to: a read, an exception, or a group to skip.
Delivered(to) == IF InMessage THEN Unknown(fieldCursor, to) ELSE <<>>

SkipsGroup ==
  /\ stack' = <<Frame("skip", end)>> \o stack
  /\ pc' = "loop"
  /\ UNCHANGED <<buf, cursor, end, fieldCursor, tag, discard, log>>

LEMMA SkipCases ==
  ASSUME TypeInv, SkipField
  PROVE  /\ pc = "field" /\ tag # NoTag
         /\ \/ \E to \in {VarintEnd(buf, cursor), cursor + 4, cursor + 8,
                          VarintEnd(buf, cursor) + VarintValue(buf, cursor)} :
                 ReadTo(to, Delivered(to))
            \/ Throw(VarintEnd(buf, cursor))
            \/ SkipsGroup
<1> DEFINE c == VarintEnd(buf, cursor)
           v == VarintValue(buf, cursor)
           w == WireType(tag)
<1>1. pc = "field" /\ tag # NoTag
  BY DEF SkipField, At, TypeInv, PcOK
<1>2. w \in {VARINT, FIXED64, DELIMITED, START_GROUP, FIXED32}
  <2>1. w \in 0..5 /\ w # END_GROUP
    BY <1>1 DEF SkipField, At, TypeInv, PcOK, ValidTag
  <2>2. QED
    BY <2>1 DEF VARINT, FIXED64, DELIMITED, START_GROUP, END_GROUP, FIXED32
<1>3. \/ ReadTo(c, Delivered(c))
      \/ ReadTo(cursor + 8, Delivered(cursor + 8))
      \/ ReadTo(cursor + 4, Delivered(cursor + 4))
      \/ ReadTo(c + v, Delivered(c + v))
      \/ Throw(c)
      \/ SkipsGroup
  BY <1>2, Zenon DEF SkipField, SkipsGroup, Delivered
<1>4. QED
  BY <1>1, <1>3

LEMMA InitType == Init => TypeInv
<1> SUFFICES ASSUME Init PROVE TypeInv
  OBVIOUS
<1>1. Len(buf) \in Nat
  BY BuffersAssumption DEF Init
<1>2. end \in Positions /\ cursor \in Positions /\ fieldCursor \in Positions
  BY <1>1 DEF Init, Positions
<1>3. stack \in Seq(Frames) /\ log \in Seq(Events)
  BY DEF Init
<1>4. QED
  BY <1>2, <1>3 DEF TypeInv, TypeOK, PcOK, Init, NoTag

LEMMA StepType == TypeInv /\ [Next]_vars => TypeInv'
<1> SUFFICES ASSUME TypeInv, [Next]_vars PROVE TypeInv'
  OBVIOUS
<1> DEFINE c == VarintEnd(buf, cursor)
           v == VarintValue(buf, cursor)
<1>0. /\ c \in Nat /\ v \in Nat /\ cursor \in Nat /\ c + v \in Nat
      /\ cursor + 4 \in Nat /\ cursor + 8 \in Nat
      /\ c \in cursor .. end => c \in Positions /\ c + v \in Positions
  BY ReadTypes DEF TypeInv, TypeOK, Positions
<1> HIDE DEF c, v
<1>1. CASE NextField
  <2>1. CASE PriorFieldWasRead
    <3>1. cursor' \in Positions
      BY <1>0, <1>1, <2>1 DEF NextField, c, TypeInv, TypeOK, Positions, Stopped
    <3>2. /\ tag' \in Nat \union {NoTag}
          /\ pc' = "field" => tag' # NoTag /\ ValidTag(tag') /\ fieldCursor' <= cursor'
      BY <1>0, <1>1, <2>1 DEF NextField, c, v, TypeInv, TypeOK, NoTag
    <3>3. QED
      BY <1>1, <2>1, <3>1, <3>2 DEF NextField, TypeInv, TypeOK, PcOK
  <2>2. CASE ~PriorFieldWasRead
    <3>1. Throw(VarintEnd(buf, fieldCursor))
      BY <1>1, <2>2 DEF NextField
    <3>2. QED
      BY <3>1, ReadTypes, ThrowType DEF TypeInv
  <2>3. QED
    BY <2>1, <2>2
<1>2. CASE NoNextField
  <2>1. CASE In("skip")
    BY <1>0, <1>2, <2>1, ThrowType DEF NoNextField
  <2>2. CASE ~In("skip")
    BY <1>2, <2>2 DEF NoNextField, TypeInv, TypeOK, PcOK
  <2>3. QED
    BY <2>1, <2>2
<1>3. CASE BreakAtEndGroup
  BY <1>3 DEF BreakAtEndGroup, TypeInv, TypeOK, PcOK
<1>4. CASE ReadPackableInt32Into
  <2>0. pc = "field" /\ tag # NoTag
    BY <1>4 DEF ReadPackableInt32Into, At, TypeInv, PcOK
  <2>1. CASE WireType(tag) = VARINT
    <3>1. <<<<"int", v>>>> \in Seq(Events)
      <4>1. <<"int", v>> \in Events
        BY <1>0, EventTypes
      <4> DEFINE event == <<"int", v>>
      <4> HIDE DEF event
      <4>2. event \in Events => <<event>> \in Seq(Events)
        OBVIOUS
      <4>3. QED
        BY <4>1, <4>2 DEF event
    <3>2. ReadTo(c, <<<<"int", v>>>>)
      <4>1. WireType(tag) # DELIMITED
        BY <2>1 DEF VARINT, DELIMITED
      <4>2. QED
        BY <1>4, <2>1, <4>1, Zenon DEF ReadPackableInt32Into, c, v
    <3>3. QED
      BY <1>0, <3>1, <3>2, ReadToType
  <2>2. CASE WireType(tag) = DELIMITED /\ c \in cursor .. end
    <3>1. Frame("packed", c + v) \in Frames
      BY <1>0, <2>0, <2>2, FrameType DEF TypeInv
    <3>2. Frame("packed", c + v).kind = "packed"
      BY DEF Frame
    <3>3. /\ stack' = <<Frame("packed", c + v)>> \o stack
          /\ cursor' = c /\ pc' = "packed"
          /\ UNCHANGED <<buf, end, fieldCursor, tag, discard, log>>
      BY <1>4, <2>2 DEF ReadPackableInt32Into, c, v, VARINT, DELIMITED
    <3>4. end' \in Positions /\ log' \in Seq(Events) /\ cursor' \in Positions
      BY <1>0, <2>2, <3>3 DEF TypeInv, TypeOK
    <3>5. QED
      BY <3>1, <3>2, <3>3, <3>4, CallType
  <2>3. CASE WireType(tag) = DELIMITED /\ c \notin cursor .. end
    <3>1. Throw(c)
      BY <1>4, <2>3 DEF ReadPackableInt32Into, c, VARINT, DELIMITED
    <3>2. QED
      BY <1>0, <3>1, ThrowType
  <2>4. CASE WireType(tag) \notin {VARINT, DELIMITED}
    <3>1. Throw(cursor)
      BY <1>4, <2>4 DEF ReadPackableInt32Into
    <3>2. QED
      BY <1>0, <3>1, ThrowType
  <2>5. QED
    BY <2>1, <2>2, <2>3, <2>4
<1>5. CASE ReadPackedElement
  <2>1. CASE c \in cursor .. end
    <3>1. log' \in Seq(Events)
      <4>1. <<"int", v>> \in Events
        BY <1>0, EventTypes
      <4>2. log' = Append(log, <<"int", v>>)
        BY <1>5, <2>1 DEF ReadPackedElement, c, v
      <4>3. QED
        BY <4>1, <4>2, AppendProperties DEF TypeInv, TypeOK
    <3>2. cursor' \in Positions
      BY <1>0, <1>5, <2>1 DEF ReadPackedElement, c
    <3>3. QED
      BY <1>5, <2>1, <3>1, <3>2 DEF ReadPackedElement, c, TypeInv, TypeOK, PcOK
  <2>2. CASE c \notin cursor .. end
    <3>1. Throw(c)
      BY <1>5, <2>2 DEF ReadPackedElement, c
    <3>2. QED
      BY <1>0, <3>1, ThrowType
  <2>3. QED
    BY <2>1, <2>2
<1>6. CASE PackedFieldEnds
  BY <1>6, ReturnType DEF PackedFieldEnds, TypeInv, TypeOK, PcOK
<1>7. CASE ReadMessage
  <2> DEFINE kind == IF Field(tag) = MsgField THEN "msg" ELSE "entry"
  <2>0. pc = "field" /\ tag # NoTag
    BY <1>7 DEF ReadMessage, At, TypeInv, PcOK
  <2>1. CASE WireType(tag) # DELIMITED
    <3>1. Throw(cursor)
      BY <1>7, <2>1 DEF ReadMessage
    <3>2. QED
      BY <1>0, <3>1, ThrowType
  <2>2. CASE WireType(tag) = DELIMITED /\ c \in cursor .. end /\ c + v <= end
    <3>1. /\ stack' = <<Frame(kind, c + v)>> \o stack
          /\ cursor' = c /\ end' = c + v /\ pc' = "loop"
          /\ log' = IF Field(tag) = MsgField THEN Append(log, <<"open", MsgField>>) ELSE log
          /\ UNCHANGED <<buf, fieldCursor, tag, discard>>
      BY <1>7, <2>2 DEF ReadMessage, c, v
    <3>2. Frame(kind, c + v) \in Frames
      BY <1>0, <2>0, <2>2, FrameType DEF TypeInv
    <3>3. log' \in Seq(Events)
      <4>1. <<"open", MsgField>> \in Events
        BY EventTypes, SchemaTypes
      <4>2. QED
        BY <3>1, <4>1, AppendProperties DEF TypeInv, TypeOK
    <3>4. cursor' \in Positions /\ end' \in Positions
      BY <1>0, <2>2, <3>1
    <3>5. QED
      BY <3>1, <3>2, <3>3, <3>4, CallType
  <2>3. CASE WireType(tag) = DELIMITED /\ ~(c \in cursor .. end /\ c + v <= end)
    <3>1. Throw(c)
      BY <1>7, <2>3 DEF ReadMessage, c, v
    <3>2. QED
      BY <1>0, <3>1, ThrowType
  <2>4. QED
    BY <2>1, <2>2, <2>3
<1>8. CASE ReadGroup
  <2>0. pc = "field" /\ tag # NoTag
    BY <1>8 DEF ReadGroup, At, TypeInv, PcOK
  <2>1. CASE WireType(tag) # START_GROUP
    <3>1. Throw(cursor)
      BY <1>8, <2>1 DEF ReadGroup
    <3>2. QED
      BY <1>0, <3>1, ThrowType
  <2>2. CASE WireType(tag) = START_GROUP
    <3>1. /\ stack' = <<Frame("group", end)>> \o stack
          /\ log' = Append(log, <<"open", GroupField>>)
          /\ pc' = "loop"
          /\ UNCHANGED <<buf, cursor, end, fieldCursor, tag, discard>>
      BY <1>8, <2>2 DEF ReadGroup
    <3>2. Frame("group", end) \in Frames
      BY <2>0, FrameType DEF TypeInv, TypeOK
    <3>3. log' \in Seq(Events)
      <4>1. <<"open", GroupField>> \in Events
        BY EventTypes, SchemaTypes
      <4>2. QED
        BY <3>1, <4>1, AppendProperties DEF TypeInv, TypeOK
    <3>4. cursor' \in Positions /\ end' \in Positions
      BY <3>1 DEF TypeInv, TypeOK
    <3>5. QED
      BY <3>1, <3>2, <3>3, <3>4, CallType
  <2>3. QED
    BY <2>1, <2>2
<1>9. CASE ReadEntryField
  <2>1. CASE Field(tag) \notin {1, 2}
    <3>1. ReadTo(cursor, <<>>)
      BY <1>9, <2>1 DEF ReadEntryField
    <3>2. <<>> \in Seq(Events)
      OBVIOUS
    <3>3. QED
      BY <1>0, <3>1, <3>2, ReadToType
  <2>2. CASE Field(tag) \in {1, 2} /\ WireType(tag) # VARINT
    <3>1. Throw(cursor)
      BY <1>9, <2>2 DEF ReadEntryField
    <3>2. QED
      BY <1>0, <3>1, ThrowType
  <2>3. CASE Field(tag) \in {1, 2} /\ WireType(tag) = VARINT /\ c \notin cursor .. end
    <3>1. Throw(c)
      BY <1>9, <2>3 DEF ReadEntryField, c
    <3>2. QED
      BY <1>0, <3>1, ThrowType
  <2>4. CASE Field(tag) \in {1, 2} /\ WireType(tag) = VARINT /\ c \in cursor .. end
    <3>1. /\ cursor' = c /\ pc' = "loop"
          /\ \/ stack' = [stack EXCEPT ![1].key = v]
             \/ stack' = [stack EXCEPT ![1].value = v]
          /\ UNCHANGED <<buf, end, fieldCursor, tag, discard, log>>
      BY <1>9, <2>4 DEF ReadEntryField, c, v
    <3>2. stack \in Seq(Frames) /\ stack # <<>>
      BY <1>9 DEF ReadEntryField, In, TypeInv, TypeOK
    <3>3. stack[1] \in Frames
      BY <3>2
    <3>4. [stack[1] EXCEPT !.key = v] \in Frames /\ [stack[1] EXCEPT !.value = v] \in Frames
      BY <1>0, <3>3 DEF Frames
    <3>5. PICK g \in Frames : stack' = [stack EXCEPT ![1] = g]
      BY <3>1, <3>4
    <3>6. cursor' \in Positions /\ tag' \in Nat \union {NoTag}
      BY <1>0, <2>4, <3>1 DEF TypeInv, TypeOK
    <3>7. QED
      BY <3>1, <3>2, <3>5, <3>6, UpdateType
  <2>5. QED
    BY <2>1, <2>2, <2>3, <2>4
<1>10. CASE SkipField
  <2>0. /\ pc = "field" /\ tag # NoTag
        /\ fieldCursor \in Nat /\ <<>> \in Seq(Events)
    BY <1>10, SkipCases DEF TypeInv, TypeOK, Positions
  <2>1. ASSUME NEW to \in Nat, ReadTo(to, Delivered(to)) PROVE TypeInv'
    <3>1. Delivered(to) \in Seq(Events)
      BY <2>0, UnknownType DEF Delivered
    <3>2. QED
      BY <2>1, <3>1, ReadToType
  <2>2. CASE Throw(c)
    BY <1>0, <2>2, ThrowType
  <2>3. CASE SkipsGroup
    <3>1. Frame("skip", end) \in Frames
      BY <2>0, FrameType DEF TypeInv, TypeOK
    <3>2. cursor' \in Positions /\ end' \in Positions /\ log' \in Seq(Events)
      BY <2>3 DEF SkipsGroup, TypeInv, TypeOK
    <3>3. QED
      BY <2>3, <3>1, <3>2, CallType DEF SkipsGroup
  <2>4. QED
    BY <1>0, <1>10, <2>1, <2>2, <2>3, SkipCases DEF c, v
<1>11. CASE SkipGroupEnds
  <2>0. stack # <<>> /\ stack \in Seq(Frames) /\ cursor \in Nat /\ log \in Seq(Events)
    BY <1>0, <1>11 DEF SkipGroupEnds, In, TypeInv, TypeOK
  <2>1. CASE Field(tag) # Head(stack).field
    <3>1. Throw(cursor)
      BY <1>11, <2>1 DEF SkipGroupEnds
    <3>2. QED
      BY <1>0, <3>1, ThrowType
  <2>2. CASE Field(tag) = Head(stack).field
    <3>1. Head(stack).begin \in Nat
      <4>1. Head(stack) \in Frames
        BY <2>0
      <4>2. QED
        BY <4>1 DEF Frames, Positions
    <3>2. Unknown(Head(stack).begin, cursor) \in Seq(Events)
      BY <2>0, <3>1, UnknownType
    <3>3. log' \in Seq(Events)
      <4>1. log' = log \/ log' = log \o Unknown(Head(stack).begin, cursor)
        BY <1>11, <2>2 DEF SkipGroupEnds
      <4>2. QED
        BY <2>0, <3>2, <4>1, ConcatProperties
    <3>4. /\ stack' = Tail(stack) /\ pc' = "loop"
          /\ UNCHANGED <<buf, cursor, end, fieldCursor, tag, discard>>
      BY <1>11, <2>2 DEF SkipGroupEnds
    <3>5. end' \in Positions
      BY <3>4 DEF TypeInv, TypeOK
    <3>6. QED
      BY <2>0, <3>3, <3>4, <3>5, ReturnType
  <2>3. QED
    BY <2>1, <2>2
<1>12. CASE Return
  BY <1>12 DEF Return, TypeInv, TypeOK, PcOK
<1>13. CASE ReturnToReadMessage
  <2>0. stack # <<>> /\ stack \in Seq(Frames) /\ log \in Seq(Events) /\ Head(stack) \in Frames
    BY <1>13 DEF ReturnToReadMessage, In, TypeInv, TypeOK
  <2>1. CASE cursor # Head(stack).newEnd
    <3>1. Throw(cursor)
      BY <1>13, <2>1 DEF ReturnToReadMessage
    <3>2. QED
      BY <1>0, <3>1, ThrowType
  <2>2. CASE cursor = Head(stack).newEnd
    <3>1. /\ end' = Head(stack).oldEnd /\ stack' = Tail(stack) /\ pc' = "loop"
          /\ log' = Append(log, IF Head(stack).kind = "msg" THEN <<"close">>
                                ELSE <<"entry", Head(stack).key, Head(stack).value>>)
          /\ UNCHANGED <<buf, cursor, fieldCursor, tag, discard>>
      BY <1>13, <2>2 DEF ReturnToReadMessage
    <3>2. /\ <<"close">> \in Events
          /\ <<"entry", Head(stack).key, Head(stack).value>> \in Events
      BY <2>0, EventTypes DEF Frames
    <3>3. log' \in Seq(Events) /\ end' \in Positions
      BY <2>0, <3>1, <3>2, AppendProperties DEF Frames
    <3>4. QED
      BY <2>0, <3>1, <3>3, ReturnType
  <2>3. QED
    BY <2>1, <2>2
<1>14. CASE ReturnToReadGroup
  <2>0. stack # <<>> /\ log \in Seq(Events)
    BY <1>14 DEF ReturnToReadGroup, In, TypeInv, TypeOK
  <2>1. CASE Throw(cursor)
    BY <1>0, <2>1, ThrowType
  <2>2. CASE /\ stack' = Tail(stack)
             /\ log' = Append(log, <<"close">>)
             /\ pc' = "loop"
             /\ UNCHANGED <<buf, cursor, end, fieldCursor, tag, discard>>
    <3>1. log' \in Seq(Events)
      BY <2>0, <2>2, EventTypes, AppendProperties
    <3>2. end' \in Positions
      BY <2>2 DEF TypeInv, TypeOK
    <3>3. QED
      BY <2>0, <2>2, <3>1, <3>2, ReturnType
  <2>3. QED
    BY <1>14, <2>1, <2>2 DEF ReturnToReadGroup
<1>15. CASE Reset
  BY <1>15 DEF Reset, TypeInv, TypeOK, PcOK, NoTag, Positions
<1>16. ASSUME NEW b \in Reused, FreeAndAlloc(b) PROVE TypeInv'
  <2>1. b \in Buffers /\ Len(b) \in Nat
    BY BuffersAssumption
  <2>2. end' \in Positions /\ cursor' \in Positions
    BY <1>16, <2>1 DEF FreeAndAlloc, Positions
  <2>3. QED
    BY <1>16, <2>1, <2>2 DEF FreeAndAlloc, TypeInv, TypeOK, PcOK, NoTag
<1>17. CASE UNCHANGED vars
  BY <1>17 DEF vars, TypeInv, TypeOK, PcOK
<1>18. CASE ReadMessageSetGroup
  <2>1. /\ pc = "field" /\ tag # NoTag
        /\ stack' = <<Frame("set", end)>> \o stack
        /\ pc' = "loop"
        /\ UNCHANGED <<buf, cursor, end, fieldCursor, tag, discard, log>>
    BY <1>18 DEF ReadMessageSetGroup, TypeInv, PcOK
  <2>2. Frame("set", end) \in Frames
    BY <2>1, FrameType DEF TypeInv, TypeOK
  <2>3. cursor' \in Positions /\ end' \in Positions /\ log' \in Seq(Events)
    BY <2>1 DEF TypeInv, TypeOK
  <2>4. QED
    BY <2>1, <2>2, <2>3, CallType
<1>19. CASE ReadTypeId
  <2>0. /\ stack # <<>> /\ stack[1] \in Frames /\ tag \in Nat \union {NoTag}
        /\ Head(stack) = stack[1]
    BY <1>19 DEF ReadTypeId, AtTypeId, In, TypeInv, TypeOK
  <2>1. CASE Throw(c)
    BY <1>0, <2>1, ThrowType
  <2>2. CASE ~Throw(c)
    <3> DEFINE g == [stack[1] EXCEPT !.typeId = v, !.messageCursor = 0]
    <3>1. /\ c \in cursor .. end /\ stack[1].messageCursor # Consumed
          /\ stack' = [stack EXCEPT ![1] = g]
          /\ \/ cursor' = c /\ tag' = tag
             \/ /\ cursor' = stack[1].messageCursor /\ tag' = NoTag
                /\ stack[1].messageCursor # 0
          /\ pc' = "loop"
          /\ UNCHANGED <<buf, end, fieldCursor, discard, log>>
      BY <1>19, <2>0, <2>2 DEF ReadTypeId, c, v
    <3>2. g \in Frames
      BY <1>0, <2>0 DEF Frames
    <3>3. stack[1].messageCursor \in Nat \union {Consumed}
      BY <2>0 DEF Frames
    <3>4. cursor' \in Positions /\ tag' \in Nat \union {NoTag}
      BY <1>0, <2>0, <3>1, <3>3 DEF Positions
    <3> HIDE DEF g
    <3>5. QED
      BY <2>0, <3>1, <3>2, <3>4, UpdateType
  <2>3. QED
    BY <2>1, <2>2
<1>20. CASE ReadSetMessage
  <2>0. /\ stack # <<>> /\ stack \in Seq(Frames) /\ stack[1] \in Frames /\ tag # NoTag
        /\ Head(stack) = stack[1]
    BY <1>20 DEF ReadSetMessage, AtSetMessage, In, TypeInv, TypeOK, PcOK
  <2>1. CASE Throw(c)
    BY <1>0, <2>1, ThrowType
  <2>2. CASE ~Throw(c)
    <3> DEFINE f == Frame("msg", c + v)
               g == [stack[1] EXCEPT !.messageCursor = Consumed]
               s == [stack EXCEPT ![1] = g]
    <3>1. /\ c \in cursor .. end
          /\ stack' = <<f>> \o s
          /\ cursor' = c /\ end' = c + v /\ pc' = "loop"
          /\ log' = Append(log, <<"set", stack[1].typeId>>)
          /\ UNCHANGED <<buf, fieldCursor, tag, discard>>
      BY <1>20, <2>0, <2>2 DEF ReadSetMessage, c, v
    <3>2. f \in Frames
      BY <1>0, <2>0, <3>1, FrameType DEF TypeInv
    <3>3. s \in Seq(Frames)
      <4>1. g \in Frames
        BY <2>0 DEF Frames
      <4> HIDE DEF g
      <4>2. QED
        BY <2>0, <4>1, UpdateFrame
    <3>4. log' \in Seq(Events)
      <4>1. <<"set", stack[1].typeId>> \in Events
        BY <2>0, EventTypes DEF Frames
      <4>2. QED
        BY <3>1, <4>1, AppendProperties DEF TypeInv, TypeOK
    <3>5. cursor' \in Positions /\ end' \in Positions
      BY <1>0, <3>1
    <3> HIDE DEF f, s
    <3>6. QED
      BY <3>1, <3>2, <3>3, <3>4, <3>5, CallOntoType
  <2>3. QED
    BY <2>1, <2>2
<1>21. CASE SaveMessageCursor
  <2>0. stack # <<>> /\ stack[1] \in Frames /\ tag \in Nat \union {NoTag}
    BY <1>21 DEF SaveMessageCursor, AtSetMessage, In, TypeInv, TypeOK
  <2>1. CASE Throw(c) \/ Throw(c + v)
    BY <1>0, <2>1, ThrowType
  <2>2. CASE ~(Throw(c) \/ Throw(c + v))
    <3> DEFINE g == [stack[1] EXCEPT !.messageCursor = fieldCursor]
    <3>1. /\ c \in cursor .. end
          /\ cursor' = c + v /\ stack' = [stack EXCEPT ![1] = g] /\ pc' = "loop"
          /\ UNCHANGED <<buf, end, fieldCursor, tag, discard, log>>
      BY <1>21, <2>2 DEF SaveMessageCursor, c, v
    <3>2. g \in Frames
      BY <2>0 DEF Frames, TypeInv, TypeOK, Positions
    <3>3. cursor' \in Positions /\ tag' \in Nat \union {NoTag}
      BY <1>0, <2>0, <3>1
    <3> HIDE DEF g
    <3>4. QED
      BY <2>0, <3>1, <3>2, <3>3, UpdateType
  <2>3. QED
    BY <2>1, <2>2
<1>22. CASE MessageSetGroupEnds
  <2>1. CASE Throw(cursor)
    BY <1>0, <2>1, ThrowType
  <2>2. CASE ~Throw(cursor)
    <3>1. /\ stack # <<>> /\ stack' = Tail(stack) /\ pc' = "loop"
          /\ UNCHANGED <<buf, cursor, end, fieldCursor, tag, discard, log>>
      BY <1>22, <2>2 DEF MessageSetGroupEnds, In
    <3>2. end' \in Positions /\ log' \in Seq(Events)
      BY <3>1 DEF TypeInv, TypeOK
    <3>3. QED
      BY <3>1, <3>2, ReturnType
  <2>3. QED
    BY <2>1, <2>2
<1>23. QED
  BY <1>1, <1>2, <1>3, <1>4, <1>5, <1>6, <1>7, <1>8, <1>9, <1>10, <1>11, <1>12, <1>13,
     <1>14, <1>15, <1>16, <1>17, <1>18, <1>19, <1>20, <1>21, <1>22 DEF Next, Parse

\* The variables of the reader always hold values of their types (TypeOK), and its
\* control point and the read calls in progress agree.
THEOREM TypeCorrect == Spec => [](TypeOK /\ PcOK)
<1>1. Init => TypeInv
  BY InitType
<1>2. TypeInv /\ [Next]_vars => TypeInv'
  BY StepType
<1>3. TypeInv => TypeOK /\ PcOK
  BY DEF TypeInv
<1>4. QED
  BY <1>1, <1>2, <1>3, PTL DEF Spec
-----------------------------------------------------------------------------
\* Where readMessageSetGroup will go back to is no further than the end it had found.
SavedFrames == {f \in Frames : f.messageCursor <= f.oldEnd}
SavedOK == stack \in Seq(SavedFrames)

ConfinedInv == TypeInv /\ SavedOK /\ Confined

\* What Confined says of read calls s with the decoder's end at e.
Chain(s, e) ==
  /\ e = IF s = <<>> THEN Len(buf) + 1 ELSE Inside(s[1])
  /\ \A i \in 1 .. Len(s) :
       /\ Inside(s[i]) <= s[i].oldEnd
       /\ s[i].oldEnd = IF i = Len(s) THEN Len(buf) + 1 ELSE Inside(s[i + 1])

LEMMA UpdateChain ==
  ASSUME NEW s \in Seq(Frames), s # <<>>, NEW e, Chain(s, e),
         NEW g \in Frames, g.oldEnd = s[1].oldEnd, Inside(g) = Inside(s[1])
  PROVE  Chain([s EXCEPT ![1] = g], e)
<1> DEFINE t == [s EXCEPT ![1] = g]
<1>1. /\ Len(t) = Len(s) /\ t # <<>> /\ t[1] = g
      /\ \A i \in 2 .. Len(s) : t[i] = s[i]
  BY UpdateFrame
<1>2. \A i \in 1 .. Len(s) : t[i].oldEnd = s[i].oldEnd /\ Inside(t[i]) = Inside(s[i])
  <2> HIDE DEF t
  <2>1. \A i \in 1 .. Len(s) : i = 1 \/ i \in 2 .. Len(s)
    OBVIOUS
  <2>2. QED
    BY <1>1, <2>1
<1>3. 1 \in 1 .. Len(s) /\ \A i \in 1 .. Len(s) : i # Len(s) => i + 1 \in 1 .. Len(s)
  OBVIOUS
<1> HIDE DEF t
<1>4. Chain(t, e)
  BY <1>1, <1>2, <1>3 DEF Chain
<1>5. QED
  BY <1>4 DEF t

LEMMA ThrowConfined ==
  ASSUME NEW c, Throw(c)
  PROVE  Confined'
BY DEF Throw, Confined

\* A step that enters and leaves no read call.
LEMMA StayConfined ==
  ASSUME Confined, pc # "error", UNCHANGED <<buf, end, stack>>, cursor' <= end
  PROVE  Confined'
<1> USE DEF Confined
<1>1. stack' = stack /\ end' = end /\ buf' = buf /\ cursor' <= end'
  OBVIOUS
<1>2. \A i \in 1 .. Len(stack) : Inside(stack[i])' = Inside(stack[i])
  BY <1>1 DEF Inside
<1>3. QED
  BY <1>1, <1>2 DEF Inside

LEMMA ReadToConfined ==
  ASSUME ConfinedInv, NEW c \in Nat, NEW events, ReadTo(c, events), pc # "error"
  PROVE  Confined'
<1>1. CASE c \in cursor .. end
  <2>1. UNCHANGED <<buf, end, stack>> /\ cursor' = c
    BY <1>1 DEF ReadTo
  <2>2. cursor' <= end
    BY <1>1, <2>1
  <2>3. QED
    BY <2>1, <2>2, StayConfined DEF ConfinedInv
<1>2. CASE c \notin cursor .. end
  BY <1>2, ThrowConfined DEF ReadTo
<1>3. QED
  BY <1>1, <1>2

\* A read call begins, with s the calls around it: it keeps the end that was, and sets
\* one that is no further.
LEMMA CallOntoConfined ==
  ASSUME pc # "error", NEW f \in Frames, f.oldEnd = end, Inside(f) <= end,
         NEW s \in Seq(Frames), Chain(s, end), stack' = <<f>> \o s,
         end' = Inside(f), cursor' <= Inside(f), buf' = buf
  PROVE  Confined'
<1>1. /\ stack' # <<>> /\ Len(stack') = Len(s) + 1 /\ stack'[1] = f
      /\ \A i \in 1..Len(s) : stack'[i + 1] = s[i]
  BY PushFrame
<1>2. Len(s) \in Nat
  OBVIOUS
<1>3. ASSUME NEW i \in 1..Len(stack')
      PROVE  /\ Inside(stack'[i]) <= stack'[i].oldEnd
             /\ stack'[i].oldEnd = IF i = Len(stack') THEN Len(buf) + 1
                                   ELSE Inside(stack'[i + 1])
  <2>1. CASE i = 1
    <3>1. CASE s = <<>>
      BY <1>1, <2>1, <3>1 DEF Chain
    <3>2. CASE s # <<>>
      <4>1. 1 \in 1..Len(s) /\ end = Inside(s[1])
        BY <1>2, <3>2 DEF Chain
      <4>2. stack'[2] = s[1] /\ Len(stack') # 1
        BY <1>1, <1>2, <4>1
      <4>3. QED
        BY <1>1, <2>1, <4>1, <4>2
    <3>3. QED
      BY <3>1, <3>2
  <2>2. CASE i # 1
    <3> DEFINE j == i - 1
    <3>1. j \in 1..Len(s) /\ i = j + 1
      BY <1>1, <1>2, <2>2
    <3>2. stack'[i] = s[j]
      BY <1>1, <3>1
    <3>3. /\ Inside(s[j]) <= s[j].oldEnd
          /\ s[j].oldEnd = IF j = Len(s) THEN Len(buf) + 1 ELSE Inside(s[j + 1])
      BY <3>1 DEF Chain
    <3>4. CASE j = Len(s)
      BY <1>1, <1>2, <3>1, <3>2, <3>3, <3>4
    <3>5. CASE j # Len(s)
      <4>1. i \in 1..Len(s) /\ i # Len(stack')
        BY <1>1, <1>2, <3>1, <3>5
      <4>2. stack'[i + 1] = s[i]
        BY <1>1, <4>1
      <4>3. QED
        BY <3>1, <3>2, <3>3, <3>5, <4>1, <4>2
    <3>6. QED
      BY <3>4, <3>5
  <2>3. QED
    BY <2>1, <2>2
<1>4. QED
  BY <1>1, <1>3 DEF Confined, Inside

LEMMA CallConfined ==
  ASSUME ConfinedInv, pc # "error", NEW f \in Frames, f.oldEnd = end, Inside(f) <= end,
         stack' = <<f>> \o stack, end' = Inside(f), cursor' <= Inside(f), buf' = buf
  PROVE  Confined'
<1>1. stack \in Seq(Frames) /\ Chain(stack, end)
  BY DEF ConfinedInv, TypeInv, TypeOK, Confined, Chain
<1>2. QED
  BY <1>1, CallOntoConfined

\* The innermost read call changes its locals, but for the ends.
LEMMA UpdateConfined ==
  ASSUME ConfinedInv, pc # "error", stack # <<>>, NEW g \in Frames,
         g.oldEnd = stack[1].oldEnd, Inside(g) = Inside(stack[1]),
         stack' = [stack EXCEPT ![1] = g], UNCHANGED <<buf, end>>, cursor' <= end
  PROVE  Confined'
<1>1. stack \in Seq(Frames) /\ Chain(stack, end)
  BY DEF ConfinedInv, TypeInv, TypeOK, Confined, Chain
<1>2. Chain(stack', end)
  BY <1>1, UpdateChain
<1>3. QED
  BY <1>2 DEF Chain, Confined, Inside

\* A read call returns: the end it had found is back.
LEMMA ReturnConfined ==
  ASSUME ConfinedInv, pc # "error", stack # <<>>, stack' = Tail(stack),
         end' = stack[1].oldEnd, UNCHANGED <<buf, cursor>>
  PROVE  Confined'
<1>1. stack \in Seq(Frames) /\ Len(stack) \in Nat /\ 1 \in 1..Len(stack)
  BY DEF ConfinedInv, TypeInv, TypeOK
<1>2. /\ Len(stack') = Len(stack) - 1 /\ Len(stack') \in Nat /\ stack' \in Seq(Frames)
      /\ \A i \in 1..Len(stack') : stack'[i] = stack[i + 1]
  BY <1>1, HeadTailProperties
<1>3. ASSUME NEW i \in 1..Len(stack)
      PROVE  /\ Inside(stack[i]) <= stack[i].oldEnd
             /\ stack[i].oldEnd = IF i = Len(stack) THEN Len(buf) + 1
                                  ELSE Inside(stack[i + 1])
  BY DEF ConfinedInv, Confined
<1>4. cursor' <= end'
  <2>1. cursor <= end /\ end = Inside(stack[1]) /\ Inside(stack[1]) <= stack[1].oldEnd
    BY <1>1, <1>3 DEF ConfinedInv, Confined
  <2>2. stack[1] \in Frames
    BY <1>1
  <2>3. cursor \in Nat /\ end \in Nat /\ stack[1].oldEnd \in Nat
    BY <2>2 DEF ConfinedInv, TypeInv, TypeOK, Frames, Positions
  <2>4. QED
    BY <2>1, <2>3
<1>5. end' = IF stack' = <<>> THEN Len(buf') + 1 ELSE Inside(stack'[1])
  <2>1. CASE Len(stack) = 1
    BY <1>1, <1>2, <1>3, <2>1
  <2>2. CASE Len(stack) # 1
    <3> DEFINE n == Len(stack)
               m == Len(stack')
    <3>0. n \in Nat /\ 1 \in 1..n /\ n # 1 /\ m = n - 1
      BY <1>1, <1>2, <2>2
    <3>1. stack' # <<>> /\ stack'[1] = stack[2]
      <4>1. 1 \in 1..m /\ 1 + 1 = 2
        <5> HIDE DEF n, m
        <5>1. QED
          BY <3>0
      <4>2. stack'[1] = stack[1 + 1]
        BY <1>2, <4>1
      <4>3. stack'[1] = stack[2]
        BY <4>1, <4>2, Zenon
      <4>4. m # 0
        <5> HIDE DEF n, m
        <5>1. QED
          BY <3>0
      <4>5. Len(<<>>) = 0
        OBVIOUS
      <4>6. QED
        BY <4>3, <4>4, <4>5, Zenon
    <3>2. QED
      BY <1>1, <1>3, <2>2, <3>1
  <2>3. QED
    BY <2>1, <2>2
<1>6. ASSUME NEW i \in 1..Len(stack')
      PROVE  /\ Inside(stack'[i]) <= stack'[i].oldEnd
             /\ stack'[i].oldEnd = IF i = Len(stack') THEN Len(buf') + 1
                                   ELSE Inside(stack'[i + 1])
  <2>1. i + 1 \in 1..Len(stack) /\ stack'[i] = stack[i + 1]
    BY <1>1, <1>2
  <2>2. CASE i = Len(stack')
    <3>1. i + 1 = Len(stack) /\ buf' = buf
      BY <1>1, <1>2, <2>2
    <3>2. QED
      BY <1>3, <2>1, <2>2, <3>1
  <2>3. CASE i # Len(stack')
    <3> DEFINE n == Len(stack)
               m == Len(stack')
    <3>0. n \in Nat /\ m = n - 1 /\ i \in 1..m /\ i # m
      BY <1>1, <1>2, <2>3
    <3>1. i + 1 \in 1..m /\ i + 1 # n
      <4> HIDE DEF n, m
      <4>1. QED
        BY <3>0
    <3>2. stack'[i + 1] = stack[(i + 1) + 1]
      BY <1>2, <3>1
    <3>3. QED
      BY <1>3, <2>1, <2>3, <3>1, <3>2
  <2>4. QED
    BY <2>2, <2>3
<1>7. QED
  BY <1>4, <1>5, <1>6 DEF Confined, Inside

LEMMA InitConfined == Init => Confined
BY BuffersAssumption DEF Init, Confined

LEMMA StepConfined ==
  ASSUME ~ResetAfterError
  PROVE  ConfinedInv /\ [Next]_vars => Confined'
<1> SUFFICES ASSUME ConfinedInv, [Next]_vars PROVE Confined'
  OBVIOUS
<1> DEFINE c == VarintEnd(buf, cursor)
           v == VarintValue(buf, cursor)
<1>0. /\ c \in Nat /\ v \in Nat /\ cursor \in Nat /\ end \in Nat /\ c + v \in Nat
      /\ cursor + 4 \in Nat /\ cursor + 8 \in Nat
      /\ end \in Positions
      /\ c \in cursor .. end => c + v \in Positions
      /\ pc # "error" => cursor <= end
  BY ReadTypes DEF ConfinedInv, TypeInv, TypeOK, Confined, Positions
<1> HIDE DEF c, v
<1>1. CASE NextField
  <2>1. CASE pc' = "error"
    BY <2>1 DEF Confined
  <2>2. CASE pc' # "error"
    <3>1. UNCHANGED <<buf, end, stack>> /\ pc = "loop" /\ cursor' = c /\ c \in cursor .. end
      BY <1>1, <2>2 DEF NextField, Throw, c
    <3>2. cursor' <= end
      BY <1>0, <3>1
    <3>3. QED
      BY <3>1, <3>2, StayConfined DEF ConfinedInv
  <2>3. QED
    BY <2>1, <2>2
<1>2. CASE NoNextField
  <2>1. CASE In("skip")
    BY <1>0, <1>2, <2>1, ThrowConfined DEF NoNextField
  <2>2. CASE ~In("skip")
    BY <1>0, <1>2, <2>2, StayConfined DEF NoNextField, ConfinedInv
  <2>3. QED
    BY <2>1, <2>2
<1>3. CASE BreakAtEndGroup
  BY <1>0, <1>3, StayConfined DEF BreakAtEndGroup, ConfinedInv
<1>4. CASE ReadPackableInt32Into
  <2>0. pc = "field" /\ tag # NoTag
    BY <1>4 DEF ReadPackableInt32Into, At, ConfinedInv, TypeInv, PcOK
  <2>1. CASE WireType(tag) = VARINT
    <3>1. ReadTo(c, <<<<"int", v>>>>)
      <4>1. WireType(tag) # DELIMITED
        BY <2>1 DEF VARINT, DELIMITED
      <4>2. QED
        BY <1>4, <2>1, <4>1, Zenon DEF ReadPackableInt32Into, c, v
    <3>2. QED
      BY <1>0, <2>0, <3>1, ReadToConfined
  <2>2. CASE WireType(tag) = DELIMITED /\ c \in cursor .. end
    <3> DEFINE f == Frame("packed", c + v)
    <3>1. f \in Frames
      BY <1>0, <2>0, <2>2, FrameType DEF ConfinedInv, TypeInv
    <3>2. f.oldEnd = end /\ Inside(f) = end
      BY DEF Frame, Inside
    <3>3. stack' = <<f>> \o stack /\ cursor' = c /\ buf' = buf /\ end' = end
      BY <1>4, <2>2 DEF ReadPackableInt32Into, c, v, VARINT, DELIMITED
    <3>4. cursor' <= Inside(f) /\ Inside(f) <= end
      BY <1>0, <2>2, <3>2, <3>3
    <3>5. QED
      BY <2>0, <3>1, <3>2, <3>3, <3>4, CallConfined
  <2>3. CASE WireType(tag) = DELIMITED /\ c \notin cursor .. end
    <3>1. Throw(c)
      BY <1>4, <2>3 DEF ReadPackableInt32Into, c, VARINT, DELIMITED
    <3>2. QED
      BY <3>1, ThrowConfined
  <2>4. CASE WireType(tag) \notin {VARINT, DELIMITED}
    <3>1. Throw(cursor)
      BY <1>4, <2>4 DEF ReadPackableInt32Into
    <3>2. QED
      BY <3>1, ThrowConfined
  <2>5. QED
    BY <2>1, <2>2, <2>3, <2>4
<1>5. CASE ReadPackedElement
  <2>1. CASE c \in cursor .. end
    <3>1. UNCHANGED <<buf, end, stack>> /\ pc = "packed" /\ cursor' = c
      BY <1>5, <2>1 DEF ReadPackedElement, c
    <3>2. cursor' <= end
      BY <1>0, <2>1, <3>1
    <3>3. QED
      BY <3>1, <3>2, StayConfined DEF ConfinedInv
  <2>2. CASE c \notin cursor .. end
    <3>1. Throw(c)
      BY <1>5, <2>2 DEF ReadPackedElement, c
    <3>2. QED
      BY <3>1, ThrowConfined
  <2>3. QED
    BY <2>1, <2>2
<1>6. CASE PackedFieldEnds
  <2>1. /\ pc = "packed" /\ stack # <<>> /\ stack[1].kind = "packed"
        /\ stack' = Tail(stack) /\ end' = end /\ UNCHANGED <<buf, cursor>>
    BY <1>6 DEF PackedFieldEnds, ConfinedInv, TypeInv, PcOK
  <2>2. end = stack[1].oldEnd
    BY <2>1 DEF ConfinedInv, Confined, Inside
  <2>3. QED
    BY <2>1, <2>2, ReturnConfined
<1>7. CASE ReadMessage
  <2> DEFINE kind == IF Field(tag) = MsgField THEN "msg" ELSE "entry"
             f == Frame(kind, c + v)
  <2>0. pc = "field" /\ tag # NoTag
    BY <1>7 DEF ReadMessage, At, ConfinedInv, TypeInv, PcOK
  <2>1. CASE WireType(tag) = DELIMITED /\ c \in cursor .. end /\ c + v <= end
    <3>1. stack' = <<f>> \o stack /\ cursor' = c /\ end' = c + v /\ buf' = buf
      BY <1>7, <2>1 DEF ReadMessage, c, v
    <3>2. f \in Frames
      BY <1>0, <2>0, <2>1, FrameType DEF ConfinedInv, TypeInv
    <3>3. f.oldEnd = end /\ Inside(f) = c + v
      BY DEF Frame, Inside
    <3>4. c <= c + v
      BY <1>0
    <3>5. QED
      BY <2>0, <2>1, <3>1, <3>2, <3>3, <3>4, CallConfined
  <2>2. CASE ~(WireType(tag) = DELIMITED /\ c \in cursor .. end /\ c + v <= end)
    <3>1. Throw(c) \/ Throw(cursor)
      BY <1>7, <2>2 DEF ReadMessage, c, v
    <3>2. QED
      BY <3>1, ThrowConfined
  <2>3. QED
    BY <2>1, <2>2
<1>8. CASE ReadGroup
  <2>0. pc = "field" /\ tag # NoTag
    BY <1>8 DEF ReadGroup, At, ConfinedInv, TypeInv, PcOK
  <2>1. CASE WireType(tag) # START_GROUP
    BY <1>8, <2>1, ThrowConfined DEF ReadGroup
  <2>2. CASE WireType(tag) = START_GROUP
    <3>1. Frame("group", end) \in Frames
      BY <1>0, <2>0, FrameType DEF ConfinedInv, TypeInv
    <3>2. Frame("group", end).oldEnd = end /\ Inside(Frame("group", end)) = end
      BY DEF Frame, Inside
    <3>3. /\ stack' = <<Frame("group", end)>> \o stack
          /\ UNCHANGED <<buf, cursor, end>>
      BY <1>8, <2>2 DEF ReadGroup
    <3>4. cursor' <= end
      BY <1>0, <2>0, <3>3
    <3>5. QED
      BY <1>0, <2>0, <3>1, <3>2, <3>3, <3>4, CallConfined
  <2>3. QED
    BY <2>1, <2>2
<1>9. CASE ReadEntryField
  <2>0. pc = "field" /\ stack # <<>> /\ stack[1].kind = "entry" /\ stack \in Seq(Frames)
    BY <1>9 DEF ReadEntryField, In, ConfinedInv, TypeInv, TypeOK
  <2>1. CASE ReadTo(cursor, <<>>)
    BY <1>0, <2>0, <2>1, ReadToConfined
  <2>2. CASE Throw(cursor) \/ Throw(c)
    BY <2>2, ThrowConfined
  <2>3. CASE /\ c \in cursor .. end /\ cursor' = c
             /\ \/ stack' = [stack EXCEPT ![1].key = v]
                \/ stack' = [stack EXCEPT ![1].value = v]
             /\ UNCHANGED <<buf, end>>
    <3>1. PICK g \in Frames : /\ stack' = [stack EXCEPT ![1] = g]
                              /\ g.oldEnd = stack[1].oldEnd
                              /\ Inside(g) = Inside(stack[1])
      <4> DEFINE g == [stack[1] EXCEPT !.key = v]
                 h == [stack[1] EXCEPT !.value = v]
      <4>1. stack[1] \in Frames
        BY <2>0
      <4>2. g \in Frames /\ g.oldEnd = stack[1].oldEnd /\ Inside(g) = Inside(stack[1])
        BY <1>0, <4>1 DEF Frames, Inside
      <4>3. h \in Frames /\ h.oldEnd = stack[1].oldEnd /\ Inside(h) = Inside(stack[1])
        BY <1>0, <4>1 DEF Frames, Inside
      <4>4. stack' = [stack EXCEPT ![1] = g] \/ stack' = [stack EXCEPT ![1] = h]
        BY <2>3
      <4> HIDE DEF g, h
      <4>5. QED
        BY <4>2, <4>3, <4>4
    <3>2. cursor' <= end
      BY <1>0, <2>3
    <3>3. QED
      BY <2>0, <2>3, <3>1, <3>2, UpdateConfined
  <2>4. QED
    BY <1>9, <2>1, <2>2, <2>3 DEF ReadEntryField, c, v
<1>10. CASE SkipField
  <2>1. pc = "field" /\ tag # NoTag
    BY <1>10, SkipCases DEF ConfinedInv
  <2>2. ASSUME NEW to \in Nat, ReadTo(to, Delivered(to)) PROVE Confined'
    BY <2>1, <2>2, ReadToConfined
  <2>3. CASE Throw(c)
    BY <2>3, ThrowConfined
  <2>4. CASE SkipsGroup
    <3> DEFINE f == Frame("skip", end)
    <3>1. f \in Frames
      BY <1>0, <2>1, FrameType DEF ConfinedInv, TypeInv
    <3>2. f.oldEnd = end /\ Inside(f) = end
      BY DEF Frame, Inside
    <3>3. stack' = <<f>> \o stack /\ UNCHANGED <<buf, cursor, end>>
      BY <2>4 DEF SkipsGroup
    <3>4. cursor' <= end
      BY <1>0, <2>1, <3>3
    <3>5. QED
      BY <1>0, <2>1, <3>1, <3>2, <3>3, <3>4, CallConfined
  <2>5. QED
    BY <1>0, <1>10, <2>2, <2>3, <2>4, SkipCases DEF c, v, ConfinedInv
<1>11. CASE SkipGroupEnds
  <2>1. CASE Throw(cursor)
    BY <2>1, ThrowConfined
  <2>2. CASE stack' = Tail(stack) /\ UNCHANGED <<buf, cursor, end>>
    <3>1. pc = "field" /\ stack # <<>> /\ stack[1].kind = "skip"
      BY <1>11 DEF SkipGroupEnds, In, ConfinedInv, TypeInv, TypeOK
    <3>2. end' = stack[1].oldEnd
      BY <2>2, <3>1 DEF ConfinedInv, Confined, Inside
    <3>3. QED
      BY <2>2, <3>1, <3>2, ReturnConfined
  <2>3. QED
    BY <1>11, <2>1, <2>2 DEF SkipGroupEnds
<1>12. CASE Return
  BY <1>0, <1>12, StayConfined DEF Return, ConfinedInv
<1>13. CASE ReturnToReadMessage
  <2>1. CASE Throw(cursor)
    BY <2>1, ThrowConfined
  <2>2. CASE /\ end' = Head(stack).oldEnd /\ stack' = Tail(stack)
             /\ UNCHANGED <<buf, cursor>>
    <3>1. pc = "leave" /\ stack # <<>> /\ Head(stack) = stack[1]
      BY <1>13 DEF ReturnToReadMessage, In, ConfinedInv, TypeInv, TypeOK
    <3>2. QED
      BY <2>2, <3>1, ReturnConfined
  <2>3. QED
    BY <1>13, <2>1, <2>2 DEF ReturnToReadMessage
<1>14. CASE ReturnToReadGroup
  <2>1. CASE Throw(cursor)
    BY <2>1, ThrowConfined
  <2>2. CASE stack' = Tail(stack) /\ UNCHANGED <<buf, cursor, end>>
    <3>1. pc = "leave" /\ stack # <<>> /\ stack[1].kind = "group"
      BY <1>14 DEF ReturnToReadGroup, In, ConfinedInv, TypeInv, TypeOK
    <3>2. end' = stack[1].oldEnd
      BY <2>2, <3>1 DEF ConfinedInv, Confined, Inside
    <3>3. QED
      BY <2>2, <3>1, <3>2, ReturnConfined
  <2>3. QED
    BY <1>14, <2>1, <2>2 DEF ReturnToReadGroup
<1>15. CASE Reset
  <2>1. pc = "done" /\ stack = <<>>
    BY <1>15 DEF Reset, ConfinedInv, TypeInv, PcOK
  <2>2. end' = Len(buf') + 1 /\ cursor' = 1 /\ stack' = <<>> /\ 1 <= end
    BY <1>0, <1>15, <2>1 DEF Reset, ConfinedInv, Confined, Positions
  <2>3. QED
    BY <1>15, <2>2 DEF Reset, Confined
<1>16. ASSUME NEW b \in Reused, FreeAndAlloc(b) PROVE Confined'
  <2>1. Len(b) \in Nat
    BY BuffersAssumption
  <2>2. QED
    BY <1>16, <2>1 DEF FreeAndAlloc, Confined
<1>17. CASE UNCHANGED vars
  <2>1. CASE pc = "error"
    BY <1>17, <2>1 DEF vars, Confined
  <2>2. CASE pc # "error"
    BY <1>0, <1>17, <2>2, StayConfined DEF vars, ConfinedInv
  <2>3. QED
    BY <2>1, <2>2
<1>18. CASE ReadMessageSetGroup
  <2> DEFINE f == Frame("set", end)
  <2>1. /\ pc = "field" /\ tag # NoTag
        /\ stack' = <<f>> \o stack
        /\ UNCHANGED <<buf, cursor, end>>
    BY <1>18 DEF ReadMessageSetGroup, ConfinedInv, TypeInv, PcOK
  <2>2. f \in Frames
    BY <1>0, <2>1, FrameType DEF ConfinedInv, TypeInv
  <2>3. f.oldEnd = end /\ Inside(f) = end
    BY DEF Frame, Inside
  <2>4. cursor' <= end
    BY <1>0, <2>1
  <2>5. QED
    BY <1>0, <2>1, <2>2, <2>3, <2>4, CallConfined
<1>19. CASE ReadTypeId
  <2>0. /\ pc = "field" /\ stack # <<>> /\ stack[1] \in SavedFrames /\ stack[1].kind = "set"
        /\ Head(stack) = stack[1]
    BY <1>19 DEF ReadTypeId, AtTypeId, In, ConfinedInv, SavedOK
  <2>1. CASE Throw(c)
    BY <2>1, ThrowConfined
  <2>2. CASE ~Throw(c)
    <3> DEFINE g == [stack[1] EXCEPT !.typeId = v, !.messageCursor = 0]
    <3>1. /\ c \in cursor .. end
          /\ stack' = [stack EXCEPT ![1] = g]
          /\ cursor' = c \/ cursor' = stack[1].messageCursor
          /\ UNCHANGED <<buf, end>>
      BY <1>19, <2>0, <2>2 DEF ReadTypeId, c, v
    <3>2. g \in Frames /\ g.oldEnd = stack[1].oldEnd /\ Inside(g) = Inside(stack[1])
      BY <1>0, <2>0 DEF SavedFrames, Frames, Inside
    <3>3. end = stack[1].oldEnd
      BY <2>0 DEF ConfinedInv, Confined, Inside
    <3>4. cursor' <= end
      BY <1>0, <2>0, <3>1, <3>3 DEF SavedFrames
    <3> HIDE DEF g
    <3>5. QED
      BY <2>0, <3>1, <3>2, <3>4, UpdateConfined
  <2>3. QED
    BY <2>1, <2>2
<1>20. CASE ReadSetMessage
  <2>0. /\ pc = "field" /\ tag # NoTag
        /\ stack # <<>> /\ stack[1] \in Frames
    BY <1>20 DEF ReadSetMessage, AtSetMessage, In, ConfinedInv, TypeInv, TypeOK, PcOK
  <2>1. CASE Throw(c)
    BY <2>1, ThrowConfined
  <2>2. CASE ~Throw(c)
    <3> DEFINE f == Frame("msg", c + v)
               g == [stack[1] EXCEPT !.messageCursor = Consumed]
               s == [stack EXCEPT ![1] = g]
    <3>1. /\ c \in cursor .. end /\ c + v <= end
          /\ stack' = <<f>> \o s
          /\ cursor' = c /\ end' = c + v /\ buf' = buf
      BY <1>20, <2>0, <2>2 DEF ReadSetMessage, c, v
    <3>2. f \in Frames
      BY <1>0, <2>0, <3>1, FrameType DEF ConfinedInv, TypeInv
    <3>3. f.oldEnd = end /\ Inside(f) = c + v
      BY DEF Frame, Inside
    <3>4. g \in Frames /\ g.oldEnd = stack[1].oldEnd /\ Inside(g) = Inside(stack[1])
      BY <2>0 DEF Frames, Inside
    <3>5. s \in Seq(Frames) /\ Chain(s, end)
      <4> HIDE DEF g
      <4>1. stack \in Seq(Frames) /\ Chain(stack, end)
        BY <2>0 DEF ConfinedInv, TypeInv, TypeOK, Confined, Chain
      <4>2. QED
        BY <2>0, <3>4, <4>1, UpdateChain, UpdateFrame
    <3>6. c <= c + v
      BY <1>0
    <3> HIDE DEF f, s
    <3>7. QED
      BY <2>0, <3>1, <3>2, <3>3, <3>5, <3>6, CallOntoConfined
  <2>3. QED
    BY <2>1, <2>2
<1>21. CASE SaveMessageCursor
  <2>0. pc = "field" /\ stack # <<>> /\ stack[1] \in Frames
    BY <1>21 DEF SaveMessageCursor, AtSetMessage, In, ConfinedInv, TypeInv, TypeOK
  <2>1. CASE Throw(c) \/ Throw(c + v)
    BY <2>1, ThrowConfined
  <2>2. CASE ~(Throw(c) \/ Throw(c + v))
    <3> DEFINE g == [stack[1] EXCEPT !.messageCursor = fieldCursor]
    <3>1. /\ c + v <= end
          /\ cursor' = c + v /\ stack' = [stack EXCEPT ![1] = g]
          /\ UNCHANGED <<buf, end>>
      BY <1>21, <2>2 DEF SaveMessageCursor, c, v
    <3>2. g \in Frames /\ g.oldEnd = stack[1].oldEnd /\ Inside(g) = Inside(stack[1])
      BY <2>0 DEF Frames, Inside, ConfinedInv, TypeInv, TypeOK, Positions
    <3> HIDE DEF g
    <3>3. QED
      BY <2>0, <3>1, <3>2, UpdateConfined
  <2>3. QED
    BY <2>1, <2>2
<1>22. CASE MessageSetGroupEnds
  <2>1. CASE Throw(cursor)
    BY <2>1, ThrowConfined
  <2>2. CASE ~Throw(cursor)
    <3>1. /\ pc = "leave" /\ stack # <<>> /\ stack[1].kind = "set"
          /\ stack' = Tail(stack) /\ UNCHANGED <<buf, cursor, end>>
      BY <1>22, <2>2 DEF MessageSetGroupEnds, In
    <3>2. end' = stack[1].oldEnd
      BY <3>1 DEF ConfinedInv, Confined, Inside
    <3>3. QED
      BY <3>1, <3>2, ReturnConfined
  <2>3. QED
    BY <2>1, <2>2
<1>23. QED
  BY <1>1, <1>2, <1>3, <1>4, <1>5, <1>6, <1>7, <1>8, <1>9, <1>10, <1>11, <1>12, <1>13,
     <1>14, <1>15, <1>16, <1>17, <1>18, <1>19, <1>20, <1>21, <1>22 DEF Next, Parse

LEMMA SavedStep ==
  ASSUME ConfinedInv, [Next]_vars
  PROVE  SavedOK'
<1> DEFINE c == VarintEnd(buf, cursor)
           v == VarintValue(buf, cursor)
<1>0. /\ stack \in Seq(SavedFrames)
      /\ c \in Nat /\ v \in Nat
      /\ end \in Positions
      /\ c \in cursor .. end => c + v \in Positions
  BY ReadTypes DEF ConfinedInv, SavedOK, TypeInv, TypeOK, Positions
<1> HIDE DEF c, v
\* A step keeps the read calls, begins or ends one, or changes the locals of one.
<1>1. ASSUME UNCHANGED stack \/ stack' = <<>> PROVE SavedOK'
  <2>1. CASE UNCHANGED stack
    BY <1>0, <2>1, Zenon DEF SavedOK, SavedFrames, Frames, Consumed, Positions
  <2>2. CASE stack' = <<>>
    BY <2>2 DEF SavedOK
  <2>3. QED
    BY <1>1, <2>1, <2>2
<1>2. ASSUME stack # <<>>, stack' = Tail(stack) PROVE SavedOK'
  BY <1>0, <1>2, HeadTailProperties DEF SavedOK, SavedFrames, Frames
<1>3. ASSUME NEW s \in Seq(SavedFrames), NEW newEnd \in Positions, tag # NoTag,
             NEW kind \in {"msg", "entry", "group", "skip", "packed", "set"},
             stack' = <<Frame(kind, newEnd)>> \o s
      PROVE  SavedOK'
  <2>1. Frame(kind, newEnd) \in SavedFrames
    <3>1. Frame(kind, newEnd) \in Frames
      BY <1>3, FrameType DEF ConfinedInv, TypeInv
    <3>2. Frame(kind, newEnd).messageCursor = 0 /\ Frame(kind, newEnd).oldEnd = end
      BY DEF Frame
    <3>3. QED
      BY <1>0, <3>1, <3>2 DEF SavedFrames, Positions
  <2>2. stack' \in Seq(SavedFrames)
    BY <1>3, <2>1, PushFrame
  <2>3. QED
    BY <2>2 DEF SavedOK, SavedFrames, Frames
<1>4. ASSUME stack # <<>>, NEW g \in SavedFrames
      PROVE  [stack EXCEPT ![1] = g] \in Seq(SavedFrames)
  BY <1>0, <1>4, UpdateFrame
<1>5. ASSUME stack # <<>>, NEW g \in SavedFrames, stack' = [stack EXCEPT ![1] = g]
      PROVE  SavedOK'
  BY <1>4, <1>5 DEF SavedOK, SavedFrames, Frames
<1>6. pc = "field" => tag # NoTag
  BY DEF ConfinedInv, TypeInv, PcOK
<1>7. stack # <<>> => stack[1] \in SavedFrames /\ stack[1] = Head(stack)
  BY <1>0
<1>8. CASE ReadPackableInt32Into
  <2>1. \/ UNCHANGED stack
        \/ c \in cursor .. end /\ stack' = <<Frame("packed", c + v)>> \o stack
    BY <1>8 DEF ReadPackableInt32Into, ReadTo, Throw, VARINT, DELIMITED, c, v
  <2>2. tag # NoTag
    BY <1>6, <1>8 DEF ReadPackableInt32Into, At
  <2>3. QED
    BY <1>0, <1>1, <1>3, <2>1, <2>2
<1>9. CASE ReadMessage
  <2> DEFINE kind == IF Field(tag) = MsgField THEN "msg" ELSE "entry"
  <2>1. \/ UNCHANGED stack
        \/ c \in cursor .. end /\ stack' = <<Frame(kind, c + v)>> \o stack
    BY <1>9 DEF ReadMessage, Throw, c, v
  <2>2. tag # NoTag
    BY <1>6, <1>9 DEF ReadMessage, At
  <2>3. kind \in {"msg", "entry"}
    OBVIOUS
  <2> HIDE DEF kind
  <2>4. QED
    BY <1>0, <1>1, <1>3, <2>1, <2>2, <2>3
<1>10. CASE ReadGroup
  <2>1. UNCHANGED stack \/ stack' = <<Frame("group", end)>> \o stack
    BY <1>10 DEF ReadGroup, Throw
  <2>2. tag # NoTag
    BY <1>6, <1>10 DEF ReadGroup, At
  <2>3. QED
    BY <1>0, <1>1, <1>3, <2>1, <2>2
<1>11. CASE ReadEntryField
  <2>1. stack # <<>>
    BY <1>11 DEF ReadEntryField, In
  <2>2. \/ UNCHANGED stack
        \/ stack' = [stack EXCEPT ![1] = [stack[1] EXCEPT !.key = v]]
        \/ stack' = [stack EXCEPT ![1] = [stack[1] EXCEPT !.value = v]]
    BY <1>11 DEF ReadEntryField, ReadTo, Throw, v
  <2>3. /\ [stack[1] EXCEPT !.key = v] \in SavedFrames
        /\ [stack[1] EXCEPT !.value = v] \in SavedFrames
    BY <1>0, <1>7, <2>1 DEF SavedFrames, Frames
  <2>4. QED
    BY <1>1, <1>5, <2>1, <2>2, <2>3
<1>12. CASE SkipField
  <2>1. UNCHANGED stack \/ stack' = <<Frame("skip", end)>> \o stack
    BY <1>12, SkipCases DEF ConfinedInv, ReadTo, Throw, SkipsGroup
  <2>2. tag # NoTag
    BY <1>12, SkipCases DEF ConfinedInv
  <2>3. QED
    BY <1>0, <1>1, <1>3, <2>1, <2>2
<1>13. CASE ReadMessageSetGroup
  <2>1. stack' = <<Frame("set", end)>> \o stack /\ tag # NoTag
    BY <1>6, <1>13 DEF ReadMessageSetGroup
  <2>2. QED
    BY <1>0, <1>3, <2>1
<1>14. CASE ReadTypeId
  <2> DEFINE g == [stack[1] EXCEPT !.typeId = v, !.messageCursor = 0]
  <2>1. stack # <<>>
    BY <1>14 DEF ReadTypeId, AtTypeId, In
  <2>2. UNCHANGED stack \/ stack' = [stack EXCEPT ![1] = g]
    BY <1>14 DEF ReadTypeId, Throw, v
  <2>3. g \in SavedFrames
    <3>1. stack[1] \in Frames /\ stack[1].oldEnd \in Nat
      BY <1>7, <2>1 DEF SavedFrames, Frames, Positions
    <3>2. g \in Frames /\ g.messageCursor = 0 /\ g.oldEnd = stack[1].oldEnd
      BY <1>0, <3>1 DEF Frames
    <3> HIDE DEF g
    <3>3. QED
      BY <3>1, <3>2 DEF SavedFrames
  <2> HIDE DEF g
  <2>4. QED
    BY <1>1, <1>5, <2>1, <2>2, <2>3
<1>15. CASE ReadSetMessage
  <2> DEFINE g == [stack[1] EXCEPT !.messageCursor = Consumed]
             s == [stack EXCEPT ![1] = g]
  <2>1. stack # <<>> /\ tag # NoTag
    BY <1>6, <1>15 DEF ReadSetMessage, AtSetMessage, In
  <2>2. \/ UNCHANGED stack
        \/ c \in cursor .. end /\ stack' = <<Frame("msg", c + v)>> \o s
    BY <1>15 DEF ReadSetMessage, Throw, c, v
  <2>3. g \in SavedFrames
    <3>1. stack[1] \in Frames /\ stack[1].oldEnd \in Nat
      BY <1>7, <2>1 DEF SavedFrames, Frames, Positions
    <3>2. g \in Frames /\ g.messageCursor = Consumed /\ g.oldEnd = stack[1].oldEnd
      BY <3>1 DEF Frames
    <3>3. Consumed <= stack[1].oldEnd
      BY <3>1 DEF Consumed
    <3> HIDE DEF g
    <3>4. QED
      BY <3>2, <3>3 DEF SavedFrames
  <2> HIDE DEF g
  <2>4. s \in Seq(SavedFrames)
    BY <1>4, <2>1, <2>3
  <2> HIDE DEF s
  <2>5. QED
    BY <1>0, <1>1, <1>3, <2>1, <2>2, <2>4
<1>16. CASE SaveMessageCursor
  <2> DEFINE g == [stack[1] EXCEPT !.messageCursor = fieldCursor]
  <2>1. pc = "field" /\ stack # <<>> /\ stack[1].kind = "set"
    BY <1>7, <1>16 DEF SaveMessageCursor, AtSetMessage, In
  <2>2. UNCHANGED stack \/ stack' = [stack EXCEPT ![1] = g]
    BY <1>16 DEF SaveMessageCursor, Throw
  <2>3. fieldCursor <= stack[1].oldEnd
    <3>1. fieldCursor <= cursor /\ cursor <= end /\ end = stack[1].oldEnd
      BY <2>1 DEF ConfinedInv, TypeInv, PcOK, Confined, Inside
    <3>2. fieldCursor \in Nat /\ cursor \in Nat /\ end \in Nat
      BY DEF ConfinedInv, TypeInv, TypeOK, Positions
    <3>3. QED
      BY <3>1, <3>2
  <2>4. g \in SavedFrames
    BY <1>7, <2>1, <2>3 DEF SavedFrames, Frames, ConfinedInv, TypeInv, TypeOK, Positions
  <2> HIDE DEF g
  <2>5. QED
    BY <1>1, <1>5, <2>1, <2>2, <2>4
<1>17. CASE \/ NextField \/ NoNextField \/ BreakAtEndGroup \/ ReadPackedElement \/ Return
            \/ UNCHANGED vars
  <2>1. UNCHANGED stack
    BY <1>17 DEF NextField, NoNextField, BreakAtEndGroup, ReadPackedElement, Return, Throw,
       vars
  <2>2. QED
    BY <1>1, <2>1
<1>18. CASE \/ PackedFieldEnds \/ SkipGroupEnds \/ ReturnToReadMessage \/ ReturnToReadGroup
            \/ MessageSetGroupEnds
  <2>1. \/ UNCHANGED stack
        \/ stack # <<>> /\ stack' = Tail(stack)
    BY <1>18 DEF PackedFieldEnds, SkipGroupEnds, ReturnToReadMessage, ReturnToReadGroup,
       MessageSetGroupEnds, Throw, In, ConfinedInv, TypeInv, PcOK
  <2>2. QED
    BY <1>1, <1>2, <2>1
<1>19. CASE Reset \/ \E b \in Reused : FreeAndAlloc(b)
  <2>1. stack' = <<>>
    BY <1>19 DEF Reset, FreeAndAlloc
  <2>2. QED
    BY <1>1, <2>1
<1>20. QED
  BY <1>8, <1>9, <1>10, <1>11, <1>12, <1>13, <1>14, <1>15, <1>16, <1>17, <1>18, <1>19
     DEF Next, Parse

\* If reset() is called only after parses that did not throw, then until a read throws
\* no level of a parse reads beyond the end of its message, and every readMessage gives
\* its caller the end back (Confined), for every schema and every set of buffers.
THEOREM ConfinedCorrect ==
  ASSUME ~ResetAfterError
  PROVE  Spec => []Confined
<1>1. Init => ConfinedInv
  <2>1. Init => SavedOK
    BY DEF Init, SavedOK
  <2>2. QED
    BY <2>1, InitType, InitConfined DEF ConfinedInv
<1>2. ConfinedInv /\ [Next]_vars => ConfinedInv'
  BY StepType, StepConfined, SavedStep DEF ConfinedInv
<1>3. ConfinedInv => Confined
  BY DEF ConfinedInv
<1>4. QED
  BY <1>1, <1>2, <1>3, PTL DEF Spec
=============================================================================
