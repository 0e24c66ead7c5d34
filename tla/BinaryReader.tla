---------------------------- MODULE BinaryReader ----------------------------
(***************************************************************************)
(* jspb.BinaryReader and its BinaryDecoder (src/binary/reader.js,          *)
(* decoder.js) driven by generated deserializers: a loop of nextField()    *)
(* and read calls, nested by readMessage and readGroup, which hand the     *)
(* same reader to the callback of the embedded message.  There is one      *)
(* cursor, one end and one current tag for all levels; what a level must   *)
(* get back it keeps in a local variable of its read call, here a frame of *)
(* stack (innermost first).                                                *)
(***************************************************************************)
EXTENDS WireFormat

CONSTANTS
  Buffers,         \* the byte sequences to parse
  Reused,          \* those a pooled reader may be given next
  ResetAfterError  \* may reset() follow a parse that threw?

ASSUME BuffersAssumption ==
  /\ Buffers \subseteq Seq(0..255)
  /\ Reused \subseteq Buffers

VARIABLES
  buf,          \* bytes_
  cursor, end,  \* cursor_, end_
  fieldCursor,  \* fieldCursor_
  tag,          \* nextTag_, which determines nextField_ and nextWireType_
  stack,        \* the read calls in progress
  pc,           \* what runs next
  discard,      \* discardUnknownFields
  log           \* what the callbacks received

vars == <<buf, cursor, end, fieldCursor, tag, stack, pc, discard, log>>

NoTag == -1  \* INVALID_TAG

\* kind: "msg", "entry" (readMessage), "group" (readGroup), "skip" (skipGroup),
\* "packed" (readPackedFieldInto_) or "set" (readMessageSetGroup); field: the group's
\* number; oldEnd, newEnd, begin: the locals of those names; key, value: those of
\* Map.deserializeBinary; typeId, messageCursor: those of readMessageSetGroup.
Frame(kind, newEnd) ==
  [kind |-> kind, field |-> Field(tag), oldEnd |-> end, newEnd |-> newEnd,
   begin |-> fieldCursor, key |-> 0, value |-> 0, typeId |-> 0, messageCursor |-> 0]

Consumed == -1  \* messageCursor, once the message is read

In(kind) == stack # <<>> /\ Head(stack).kind = kind

Init ==
  /\ buf \in Buffers
  /\ cursor = 1
  /\ end = Len(buf) + 1
  /\ fieldCursor = 1
  /\ tag = NoTag
  /\ stack = <<>>
  /\ pc = "loop"
  /\ discard \in BOOLEAN
  /\ log = <<>>

\* A slip the runs must notice: the cursor moves even if the varint does not end.
MovedTo(c) == c

\* Where a read that fails leaves the cursor: an overrun is noticed after the
\* cursor has moved, a varint without end (0) before.
Stopped(c) == IF c = 0 THEN cursor ELSE c

\* An exception leaves every read call; the reader stays as it is.
Throw(c) ==
  /\ pc' = "error"
  /\ cursor' = Stopped(c)
  /\ UNCHANGED <<buf, end, fieldCursor, tag, stack, discard, log>>

\* setCursorAndCheck, after the read of something that ends at c; events is what
\* the callback receives for it.
ReadTo(c, events) ==
  IF c \in cursor .. end
    THEN /\ cursor' = c
         /\ log' = log \o events
         /\ pc' = "loop"
         /\ UNCHANGED <<buf, end, fieldCursor, tag, stack, discard>>
    ELSE Throw(c)

\* assertPriorFieldWasRead goes back to the last header, to see if the cursor is past
\* it; a group's tags have no value of their own.
PriorFieldWasRead ==
  LET c == VarintEnd(buf, fieldCursor)
  IN  CASE tag = NoTag -> TRUE
        [] tag # NoTag /\ WireType(tag) \in {START_GROUP, END_GROUP} -> cursor = c
        [] OTHER -> cursor > c

NextField ==
  LET c == VarintEnd(buf, cursor)
      header == VarintValue(buf, cursor)
  IN  /\ pc = "loop"
      /\ cursor # end
      /\ IF PriorFieldWasRead
           THEN /\ fieldCursor' = cursor
                /\ IF c \in cursor .. end /\ ValidTag(header)
                     THEN cursor' = c /\ tag' = header /\ pc' = "field"
                     ELSE cursor' = Stopped(c) /\ tag' = tag /\ pc' = "error"
                /\ UNCHANGED <<buf, end, stack, discard, log>>
           ELSE Throw(VarintEnd(buf, fieldCursor))

\* A slip: skipGroup goes on when there is no next field.
NoNextFieldUnnoticed ==
  /\ pc = "loop"
  /\ cursor = end
  /\ pc' = IF In("skip") THEN pc ELSE "leave"
  /\ UNCHANGED <<buf, cursor, end, fieldCursor, tag, stack, discard, log>>

\* nextField() returns false: the callback returns, skipGroup throws.
NoNextField ==
  /\ pc = "loop"
  /\ cursor = end
  /\ IF In("skip") THEN Throw(cursor)
     ELSE /\ pc' = "leave"
          /\ UNCHANGED <<buf, cursor, end, fieldCursor, tag, stack, discard, log>>

\* "if (reader.isEndGroup()) break" in every generated loop.
BreakAtEndGroup ==
  /\ pc = "field"
  /\ WireType(tag) = END_GROUP
  /\ ~In("skip")
  /\ pc' = "leave"
  /\ UNCHANGED <<buf, cursor, end, fieldCursor, tag, stack, discard, log>>

\* The generated switch reaches the case of field f, or, for an f that is not a
\* known field, its default; a message set's loop looks for isMessageSetGroup() first.
InMessage == ~In("skip") /\ ~In("entry") /\ ~In("set")
At(f) ==
  /\ pc = "field"
  /\ WireType(tag) # END_GROUP
  /\ InMessage
  /\ tag # MESSAGE_SET_START_GROUP_TAG
  /\ Field(tag) = f

ReadPackableInt32Into ==
  LET c == VarintEnd(buf, cursor)
      v == VarintValue(buf, cursor)
  IN  /\ At(IntField)
      /\ CASE WireType(tag) = VARINT -> ReadTo(c, <<<<"int", v>>>>)
           [] WireType(tag) = DELIMITED ->
                IF c \in cursor .. end
                  THEN /\ cursor' = c
                       /\ stack' = <<Frame("packed", c + v)>> \o stack
                       /\ pc' = "packed"
                       /\ UNCHANGED <<buf, end, fieldCursor, tag, discard, log>>
                  ELSE Throw(c)
           [] OTHER -> Throw(cursor)

\* The loop of readPackedFieldInto_: each element is checked against the end of the
\* message only, so the last one may run over the field's own length.
ReadPackedElement ==
  /\ pc = "packed"
  /\ cursor < Head(stack).newEnd
  /\ LET c == VarintEnd(buf, cursor)
     IN  IF c \in cursor .. end
           THEN /\ cursor' = c
                /\ log' = Append(log, <<"int", VarintValue(buf, cursor)>>)
                /\ UNCHANGED <<buf, end, fieldCursor, tag, stack, pc, discard>>
           ELSE Throw(c)

PackedFieldEnds ==
  /\ pc = "packed"
  /\ cursor >= Head(stack).newEnd
  /\ stack' = Tail(stack)
  /\ pc' = "loop"
  /\ UNCHANGED <<buf, cursor, end, fieldCursor, tag, discard, log>>

\* A slip: the embedded message is not compared with its parent's end.
ReadMessageUnchecked ==
  LET c == VarintEnd(buf, cursor)
      newEnd == c + VarintValue(buf, cursor)
  IN  /\ At(MsgField) \/ At(MapField)
      /\ IF WireType(tag) = DELIMITED /\ c \in cursor .. end
           THEN /\ cursor' = c
                /\ end' = newEnd
                /\ stack' = <<Frame(IF Field(tag) = MsgField THEN "msg" ELSE "entry",
                                    newEnd)>> \o stack
                /\ log' = IF Field(tag) = MsgField THEN Append(log, <<"open", MsgField>>)
                                                   ELSE log
                /\ pc' = "loop"
                /\ UNCHANGED <<buf, fieldCursor, tag, discard>>
           ELSE Throw(c)

\* readMessage up to the call of its callback, for an embedded message or a map entry.
ReadMessage ==
  LET c == VarintEnd(buf, cursor)
      newEnd == c + VarintValue(buf, cursor)
  IN  /\ At(MsgField) \/ At(MapField)
      /\ IF WireType(tag) # DELIMITED THEN Throw(cursor)
         ELSE IF c \in cursor .. end /\ newEnd <= end
           THEN /\ cursor' = c
                /\ end' = newEnd
                /\ stack' = <<Frame(IF Field(tag) = MsgField THEN "msg" ELSE "entry",
                                    newEnd)>> \o stack
                /\ log' = IF Field(tag) = MsgField THEN Append(log, <<"open", MsgField>>)
                                                   ELSE log
                /\ pc' = "loop"
                /\ UNCHANGED <<buf, fieldCursor, tag, discard>>
           ELSE Throw(c)

ReadGroup ==
  /\ At(GroupField)
  /\ IF WireType(tag) # START_GROUP THEN Throw(cursor)
     ELSE /\ stack' = <<Frame("group", end)>> \o stack
          /\ log' = Append(log, <<"open", GroupField>>)
          /\ pc' = "loop"
          /\ UNCHANGED <<buf, cursor, end, fieldCursor, tag, discard>>

\* Map.deserializeBinary: a key, a value, or a field it neither reads nor skips.
ReadEntryField ==
  LET c == VarintEnd(buf, cursor)
      v == VarintValue(buf, cursor)
  IN  /\ pc = "field"
      /\ In("entry")
      /\ WireType(tag) # END_GROUP
      /\ IF Field(tag) \notin {1, 2} THEN ReadTo(cursor, <<>>)
         ELSE IF WireType(tag) # VARINT THEN Throw(cursor)
         ELSE IF c \in cursor .. end
           THEN /\ cursor' = c
                /\ stack' = IF Field(tag) = 1 THEN [stack EXCEPT ![1].key = v]
                                              ELSE [stack EXCEPT ![1].value = v]
                /\ pc' = "loop"
                /\ UNCHANGED <<buf, end, fieldCursor, tag, discard, log>>
           ELSE Throw(c)

\* readMessageSetGroup, up to its loop.
ReadMessageSetGroup ==
  /\ pc = "field"
  /\ InMessage
  /\ tag = MESSAGE_SET_START_GROUP_TAG
  /\ stack' = <<Frame("set", end)>> \o stack
  /\ pc' = "loop"
  /\ UNCHANGED <<buf, cursor, end, fieldCursor, tag, discard, log>>

AtTypeId ==
  pc = "field" /\ In("set") /\ tag = MESSAGE_SET_TYPE_ID_TAG /\ Head(stack).typeId = 0
AtSetMessage ==
  pc = "field" /\ In("set") /\ tag = MESSAGE_SET_MESSAGE_TAG /\ Head(stack).messageCursor = 0

\* The first type id; if the message came before it, back to the message.
ReadTypeId ==
  LET c == VarintEnd(buf, cursor)
      messageCursor == Head(stack).messageCursor
  IN  /\ AtTypeId
      /\ IF c \in cursor .. end /\ messageCursor # Consumed
           THEN /\ stack' = [stack EXCEPT ![1] = [@ EXCEPT !.typeId = VarintValue(buf, cursor),
                                                           !.messageCursor = 0]]
                /\ IF messageCursor = 0 THEN cursor' = c /\ tag' = tag
                                        ELSE cursor' = messageCursor /\ tag' = NoTag
                /\ pc' = "loop"
                /\ UNCHANGED <<buf, end, fieldCursor, discard, log>>
           ELSE Throw(c)

\* The first message, with its type id known: readMessage up to its callback.
ReadSetMessage ==
  LET c == VarintEnd(buf, cursor)
      newEnd == c + VarintValue(buf, cursor)
  IN  /\ AtSetMessage
      /\ Head(stack).typeId # 0
      /\ IF c \in cursor .. end /\ newEnd <= end
           THEN /\ cursor' = c
                /\ end' = newEnd
                /\ stack' = <<Frame("msg", newEnd)>> \o [stack EXCEPT ![1].messageCursor = Consumed]
                /\ log' = Append(log, <<"set", Head(stack).typeId>>)
                /\ pc' = "loop"
                /\ UNCHANGED <<buf, fieldCursor, tag, discard>>
           ELSE Throw(c)

\* The first message, with its type id to come: it is skipped.
SaveMessageCursor ==
  LET c == VarintEnd(buf, cursor)
      next == c + VarintValue(buf, cursor)
  IN  /\ AtSetMessage
      /\ Head(stack).typeId = 0
      /\ IF c \in cursor .. end /\ next <= end
           THEN /\ cursor' = next
                /\ stack' = [stack EXCEPT ![1].messageCursor = fieldCursor]
                /\ pc' = "loop"
                /\ UNCHANGED <<buf, end, fieldCursor, tag, discard, log>>
           ELSE Throw(IF c \in cursor .. end THEN next ELSE c)

\* A slip the runs must notice: the field is taken to begin at fieldCursor, which
\* the skipping of a group has moved.
UnknownFromFieldCursor(begin, c) ==
  IF discard THEN <<>> ELSE <<<<"unknown", fieldCursor, c>>>>

\* What readUnknownField delivers for the bytes from begin to c.
Unknown(begin, c) == IF discard THEN <<>> ELSE <<<<"unknown", begin, c>>>>

\* readUnknownField of an unknown field (skipField, if unknown fields are
\* discarded), and skipField of a field in an unknown group or a message set's item.
SkipField ==
  LET c == VarintEnd(buf, cursor)
      v == VarintValue(buf, cursor)
      w == WireType(tag)
      delivered(to) == IF InMessage THEN Unknown(fieldCursor, to) ELSE <<>>
  IN  /\ \/ Field(tag) \notin KnownFields /\ At(Field(tag))
         \/ pc = "field" /\ In("skip") /\ w # END_GROUP
         \/ pc = "field" /\ In("set") /\ w # END_GROUP /\ ~AtTypeId /\ ~AtSetMessage
      /\ CASE w = VARINT -> ReadTo(c, delivered(c))
           [] w = FIXED64 -> ReadTo(cursor + 8, delivered(cursor + 8))
           [] w = FIXED32 -> ReadTo(cursor + 4, delivered(cursor + 4))
           [] w = DELIMITED -> IF c \in cursor .. end THEN ReadTo(c + v, delivered(c + v))
                                                      ELSE Throw(c)
           [] w = START_GROUP ->
                /\ stack' = <<Frame("skip", end)>> \o stack
                /\ pc' = "loop"
                /\ UNCHANGED <<buf, cursor, end, fieldCursor, tag, discard, log>>

\* skipGroup meets an END_GROUP tag.
SkipGroupEnds ==
  /\ pc = "field"
  /\ In("skip")
  /\ WireType(tag) = END_GROUP
  /\ IF Field(tag) # Head(stack).field THEN Throw(cursor)
     ELSE /\ stack' = Tail(stack)
          /\ log' = IF Tail(stack) # <<>> /\ Head(Tail(stack)).kind \in {"skip", "set"} THEN log
                    ELSE log \o Unknown(Head(stack).begin, cursor)
          /\ pc' = "loop"
          /\ UNCHANGED <<buf, cursor, end, fieldCursor, tag, discard>>

\* The callback has returned: what readMessage and readGroup check then.
Return ==
  /\ pc = "leave"
  /\ stack = <<>>
  /\ pc' = "done"
  /\ UNCHANGED <<buf, cursor, end, fieldCursor, tag, stack, discard, log>>

\* A slip: the parent's end is not restored.
ReturnToReadMessageKeepingEnd ==
  LET f == Head(stack)
  IN  /\ pc = "leave"
      /\ In("msg") \/ In("entry")
      /\ IF cursor # f.newEnd THEN Throw(cursor)
         ELSE /\ stack' = Tail(stack)
              /\ log' = Append(log, IF f.kind = "msg" THEN <<"close">>
                                                      ELSE <<"entry", f.key, f.value>>)
              /\ pc' = "loop"
              /\ UNCHANGED <<buf, cursor, end, fieldCursor, tag, discard>>

ReturnToReadMessage ==
  LET f == Head(stack)
  IN  /\ pc = "leave"
      /\ In("msg") \/ In("entry")
      /\ IF cursor # f.newEnd THEN Throw(cursor)
         ELSE /\ end' = f.oldEnd
              /\ stack' = Tail(stack)
              /\ log' = Append(log, IF f.kind = "msg" THEN <<"close">>
                                                      ELSE <<"entry", f.key, f.value>>)
              /\ pc' = "loop"
              /\ UNCHANGED <<buf, cursor, fieldCursor, tag, discard>>

ReturnToReadGroup ==
  /\ pc = "leave"
  /\ In("group")
  /\ IF WireType(tag) # END_GROUP \/ Field(tag) # Head(stack).field THEN Throw(cursor)
     ELSE /\ stack' = Tail(stack)
          /\ log' = Append(log, <<"close">>)
          /\ pc' = "loop"
          /\ UNCHANGED <<buf, cursor, end, fieldCursor, tag, discard>>

\* The loop of readMessageSetGroup is over.
MessageSetGroupEnds ==
  /\ pc = "leave"
  /\ In("set")
  /\ IF \/ tag # MESSAGE_SET_END_TAG
        \/ Head(stack).messageCursor = 0
        \/ Head(stack).typeId = 0
     THEN Throw(cursor)
     ELSE /\ stack' = Tail(stack)
          /\ pc' = "loop"
          /\ UNCHANGED <<buf, cursor, end, fieldCursor, tag, discard, log>>

\* reset(), and the same bytes read again; the end stays where it is.
Reset ==
  /\ pc = "done" \/ (ResetAfterError /\ pc = "error")
  /\ cursor' = 1
  /\ fieldCursor' = 1
  /\ tag' = NoTag
  /\ stack' = <<>>
  /\ pc' = "loop"
  /\ log' = <<>>
  /\ UNCHANGED <<buf, end, discard>>

\* free() puts the reader into the pool, alloc() takes it out for another buffer;
\* fieldCursor_ is reset by neither.
FreeAndAlloc(b) ==
  /\ pc \in {"done", "error"}
  /\ buf' = b
  /\ cursor' = 1
  /\ end' = Len(b) + 1
  /\ tag' = NoTag
  /\ stack' = <<>>
  /\ pc' = "loop"
  /\ log' = <<>>
  /\ discard' \in BOOLEAN
  /\ UNCHANGED fieldCursor

Parse ==
  \/ NextField
  \/ NoNextField
  \/ BreakAtEndGroup
  \/ ReadPackableInt32Into
  \/ ReadPackedElement
  \/ PackedFieldEnds
  \/ ReadMessage
  \/ ReadGroup
  \/ ReadEntryField
  \/ ReadMessageSetGroup
  \/ ReadTypeId
  \/ ReadSetMessage
  \/ SaveMessageCursor
  \/ SkipField
  \/ SkipGroupEnds
  \/ Return
  \/ ReturnToReadMessage
  \/ ReturnToReadGroup
  \/ MessageSetGroupEnds

Next ==
  \/ Parse
  \/ Reset
  \/ \E b \in Reused : FreeAndAlloc(b)

\* A parse is one synchronous call: it runs until it returns or throws.
Spec == Init /\ [][Next]_vars /\ WF_vars(Parse)
-----------------------------------------------------------------------------
Positions == Nat \ {0}

Frames == [kind : {"msg", "entry", "group", "skip", "packed", "set"}, field : Nat,
           oldEnd : Positions, newEnd : Positions, begin : Positions, key : Nat, value : Nat,
           typeId : Nat, messageCursor : Nat \union {Consumed}]

Events == ({"int", "open", "set"} \X Nat) \union {<<"close">>}
          \union ({"entry", "unknown"} \X Nat \X Nat)

TypeOK ==
  /\ buf \in Buffers
  /\ cursor \in Positions
  /\ end \in Positions
  /\ fieldCursor \in Positions
  /\ tag \in Nat \union {NoTag}
  /\ stack \in Seq(Frames)
  /\ pc \in {"loop", "field", "packed", "leave", "done", "error"}
  /\ discard \in BOOLEAN
  /\ log \in Seq(Events)

\* The decoder's end while the read call f is in progress.
Inside(f) == IF f.kind \in {"msg", "entry"} THEN f.newEnd ELSE f.oldEnd

\* Until a read throws, no level reads beyond the end of the message it is in, and the
\* ends that the enclosing readMessage calls will restore are those of the messages
\* around it, the last the buffer's (readMessage, reader.js:674-698, moves one end
\* for all levels).
Confined ==
  pc # "error" =>
    /\ cursor <= end
    /\ end = IF stack = <<>> THEN Len(buf) + 1 ELSE Inside(stack[1])
    /\ \A i \in 1 .. Len(stack) :
         /\ Inside(stack[i]) <= stack[i].oldEnd
         /\ stack[i].oldEnd = IF i = Len(stack) THEN Len(buf) + 1 ELSE Inside(stack[i + 1])

\* Every message of the schema is accepted, and its callbacks receive what the
\* grammar says: each value, nested as it was, each message of a message set with its
\* type id, whichever came first, and each unknown field byte for byte (if the parse
\* ends: see ParseEnds).
ReadsEveryMessage ==
  pc \in {"done", "error"} =>
    LET parses == Parses(buf, FALSE, ~discard)
    IN  parses # {} => pc = "done" /\ log \in parses

\* Without END_GROUP tags in play, what is accepted is a message, but for a last packed
\* element that runs over its field and for what stands in a map entry.
AcceptsOnlyMessages ==
  pc = "done" /\ (\A i \in 1..Len(buf) : WireType(buf[i]) # END_GROUP) =>
    Parses(buf, TRUE, ~discard) # {}

\* The type id of an item whose message came before it is 0, which readMessageSetGroup
\* takes for "not read yet" (reader.js:764): it goes back to the message, skips it once
\* more and reads the 0 again.
AtTypeIdZeroAfterMessage ==
  AtTypeId /\ Head(stack).messageCursor > 0 /\ VarintValue(buf, cursor) = 0

\* Every parse ends, with a message or an exception, whatever levels it goes through,
\* unless it meets an item of a message set whose message comes before a type id of 0:
\* there alone the cursor moves back and may do so for ever (readMessageSetGroup,
\* reader.js:764-783); every other step of a parse reads on or leaves a read call.
ParseEnds == pc = "loop" ~> pc \in {"done", "error"} \/ AtTypeIdZeroAfterMessage

\* The conformance suite's UnmatchedEndGroup tests "should have failed to parse"
\* (conformance/failing_tests.txt:13-17): what is accepted is a message.
AcceptedIsWellFormed == pc = "done" => Parses(buf, TRUE, ~discard) # {}

\* reset() "resets all internal state" (reader.js:327): the whole buffer is read again.
ResetRestoresEnd == [][Reset => end' = Len(buf) + 1]_vars
=============================================================================
