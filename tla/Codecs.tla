------------------------------- MODULE Codecs -------------------------------
(***************************************************************************)
(* The conversions at the bottom of the runtime, put side by side: numbers *)
(* and halves, values and bytes, texts and UTF-8, bytes and the fields in  *)
(* them.  The state is one input, which grows by a value, a byte, a field  *)
(* or a code unit at a time; the invariants compare what the code's        *)
(* several versions of a conversion make of it with each other and with    *)
(* the integer, the text or the fields it stands for.                      *)
(***************************************************************************)
EXTENDS ValueReader, KernelValues, FieldIndex, Utf8

CONSTANTS HalfSample,       \* halves to combine into 64-bit words
          NumberSample,     \* integers given to the writers
          MoreNumbers,      \* those of them that follow another in a packed field
          ByteSample,       \* bytes of short buffers with varints
          FieldSample,      \* fields [num, wire, head, content, tail] of messages
          RawSample,        \* bytes of messages nobody wrote
          UnitSample,       \* UTF-16 code units
          Utf8Sample,       \* bytes of UTF-8, well formed or not
          MaxValues, MaxBytes, MaxFields, MaxRaw, MaxUnits, MaxUtf8

VARIABLE input

Forms(t) == CASE t \in Types64 -> {"number", "bigint", "string"} [] OTHER -> {"number"}

(* A number is a double: beyond Safe it is a multiple of a power of two.    *)
IsValue(t, x) ==
    /\ x.form = "number" => IsSafeInteger(x.n) \/ x.n % (Half \div 16) = 0
    /\ x.half => x.form = "number" /\ t \notin {"float", "double"}
    /\ t = "float"  => Fits(x.n, Mant32) \/ ~InRange("float", x.n)
    /\ t = "double" => Fits(x.n, Mant64 * Half)

ValuesOf(t) ==
    {x \in [form : Forms(t), n : NumberSample, half : BOOLEAN] : IsValue(t, x)}

Init ==
    \/ \E lo, hi \in HalfSample : input = [kind |-> "word", lo |-> lo, hi |-> hi]
    \/ \E t \in ScalarTypes : input = [kind |-> "values", type |-> t, values |-> <<>>]
    \/ input \in [kind : {"bytes", "raw", "text", "utf8", "fields"}, s : {<<>>}]

Append1(kind, max, sample) ==
    /\ input.kind = kind
    /\ Len(input.s) < max
    /\ \E x \in sample : input' = [input EXCEPT !.s = Append(@, x)]

AppendByte  == Append1("bytes", MaxBytes, ByteSample)
AppendRaw   == Append1("raw", MaxRaw, RawSample)
AppendUnit  == Append1("text", MaxUnits, UnitSample)
AppendUtf8  == Append1("utf8", MaxUtf8, Utf8Sample)
AppendField == Append1("fields", MaxFields, FieldSample)
AppendValue ==
    /\ input.kind = "values"
    /\ Len(input.values) < MaxValues
    /\ \E x \in ValuesOf(input.type) :
          /\ input.values # <<>> => x.n \in MoreNumbers
          /\ input' = [input EXCEPT !.values = Append(@, x)]

Next == AppendByte \/ AppendRaw \/ AppendUnit \/ AppendUtf8 \/ AppendField \/ AppendValue
Spec == Init /\ [][Next]_input

----------------------------------------------------------------------------
(* Words *)

Expected(n) == IF IsSafeInteger(n) THEN Num(n) ELSE StrOf(n)
Modulo64(n) == n % (Half * Half)
SignedHalves(w) == <<I32(w[1]), I32(w[2])>>

(* The joins give the integer the halves stand for, the splits and the      *)
(* negations the halves of the integer.                                     *)
JoinsAndSplits(w, u, s) ==
    /\ \A big \in BOOLEAN :
          /\ JoinUint64(big, w[1], w[2]) = Expected(u)
          /\ JoinInt64(big, w[1], w[2]) = Expected(s)
          /\ LET z == SignedHalves(w)       \* as readSplitFixed64 leaves them
             IN  /\ JoinUnsignedNumberOrDecimalString(big, z[1], z[2]) = Expected(u)
                 /\ JoinSignedNumberOrDecimalString(big, z[1], z[2]) = Expected(s)
    /\ IsSafeInteger(u) => SplitUint64(u) = w /\ FromNumber(u) = w
    /\ IsSafeInteger(s) => SplitInt64(s) = w
    /\ FromBigInt(s) = w /\ FromBigInt(u) = w
    /\ Unsigned(NegateInTwosComplement(w)) = Modulo64(-s)
    /\ Unsigned(Negate(w[1], w[2])) = Modulo64(-s)

(* Zigzag maps the integers 0, -1, 1, -2, ... to 0, 1, 2, 3, ... and back.  *)
ZigzagOf(s) == IF s >= 0 THEN 2 * s ELSE -2 * s - 1
Zigzags(w, u, s) ==
    /\ Unsigned(ToZigzag64(w[1], w[2])) = ZigzagOf(s)
    /\ LET z == FromZigzag64(w[1], w[2])
       IN  /\ ZigzagOf(Signed(z)) = u
           /\ \A big \in BOOLEAN : JoinZigzag64(big, w[1], w[2]) = Expected(Signed(z))
    /\ IsSafeInteger(s) => Unsigned(SplitZigzag64(s)) = ZigzagOf(s)
    /\ ToZigzag32(I32(w[1])) = ZigzagOf(I32(w[1]))
    /\ FromZigzag32(ToZigzag32(I32(w[1]))) = I32(w[1])

(* Decimal strings, with BigInt and without, join and split to the same.    *)
DecimalStrings(w, u, s) ==
    /\ \A big \in BOOLEAN :
          /\ UInt64ToDecimalString(big, w) = StrOf(u)
          /\ Int64ToDecimalString(big, w) = StrOf(s)
          /\ FromString(big, FALSE, DigitsOf(u)) = w
          /\ FromString(big, s < 0, StrOf(s).digits) = w
    /\ U32(w[2]) >= Safe \div Half
          => JoinUnsignedDecimalStringFallback(w[1], w[2]) = DigitsOf(u)
    /\ LET z == SplitDecimalStringFallback(FALSE, DigitsOf(u))
       IN  <<U32(z[1]), U32(z[2])>> = w

(* The kernel's Int64 is the same integer, except that fromNumber is wrong  *)
(* for the negative multiples of 2^32 (NegateBits).                         *)
KernelInt64(w, u, s) ==
    LET k == FromBits(w[1], w[2])
    IN  /\ AsNumberAsserts(k) => AsNumber(k) = s
        /\ IsSafeInteger(s) /\ ~(s < 0 /\ w[1] = 0) => Int64FromNumber(s) = k
        /\ ToSignedDecimalString(k) = StrOf(s)
        /\ ToUnsignedDecimalString(k) = StrOf(u)
        /\ Int64FromDecimalString(s < 0, StrOf(s).digits) = k
        /\ Int64FromHexString(FALSE, Int64ToHexString(k)) = k
        /\ I32(w[1]) = s => Int64FromInt(s) = k

(* A float of any bits is read as the number that is written as those bits. *)
Floats(w) ==
    LET f == JoinFloat32(w[1])
        d == JoinFloat64(w[1], w[2])
        Of(x) == IF x.neg THEN -x.mag ELSE x.mag
    IN  /\ f.kind = "finite" /\ ~(f.neg /\ f.mag = 0) => SplitFloat32(Of(f)) = <<w[1], 0>>
        /\ d.kind = "finite" /\ ~(d.neg /\ d.mag = 0) => SplitFloat64(Of(d)) = w
        /\ f.kind # "finite" <=> (w[1] \div Mant32) % ExpLimit = ExpLimit - 1
        /\ d.kind # "finite" <=> (w[2] \div Mant64) % ExpLimit = ExpLimit - 1

(* 64-bit integers in two halves keep their value through every conversion  *)
(* of utils.js, arith.js and the kernel's int64.js: joined to numbers and   *)
(* decimal strings, split from them, negated, zigzagged, with a carry or    *)
(* without between the halves, with BigInt or without.                      *)
HalvesMeanIntegers ==
    input.kind = "word" =>
        LET w == <<input.lo, input.hi>>
            u == Unsigned(w)
            s == Signed(w)
        IN  /\ JoinsAndSplits(w, u, s)
            /\ Zigzags(w, u, s)
            /\ DecimalStrings(w, u, s)
            /\ KernelInt64(w, u, s)
            /\ Floats(w)

----------------------------------------------------------------------------
(* Values *)

(* What a reader should make of a value that was written *)
ReadsAs(t, x) ==
    CASE t = "bool" -> Num(IF x.n # 0 \/ x.half THEN 1 ELSE 0)
      [] t \in {"float", "double"} -> FloatOf("finite", x.n < 0, IF x.n < 0 THEN -x.n ELSE x.n)
      [] OTHER -> Expected(x.n)

KernelForm(t, n) ==
    IF t \in KernelTypes64 THEN SignedHalves(FromBigInt(n)) ELSE n

AllRead(values, b) == [ok |-> TRUE, cursor |-> Len(b), values |-> values]

(* One value: every way of reading its field gets it back, and stops where  *)
(* its bytes end.                                                           *)
ReadBack(t, x, big, b) ==
    LET end == Len(b)
        wire == WireTypeOf(t)
        Read(asString) == ReadField(big, t, asString, wire, b, 0, end)
    IN  /\ \A asString \in {FALSE} \union {t \in Types64} :
              Read(asString) = Value(IF asString THEN StrOf(x.n) ELSE ReadsAs(t, x), end)
        /\ ReadPackable(big, t, wire, b, 0, end) = AllRead(<<ReadsAs(t, x)>>, b)
        /\ t \in Types64 =>
              /\ ReadSplit(big, t, b, 0, end) = Value(Expected(x.n), end)
              /\ LET w == FromBigInt(x.n) IN WriteSplit(t, w[1], w[2]) = b

(* The kernel writes the same bytes, and reads the same value.              *)
KernelToo(t, x, b) ==
    LET Back(v) == /\ KernelEncode(t, v) = b
                   /\ KernelRead(t, b, 0) = KernelValue(v, Len(b))
    IN  t \in KernelTypes32 \union KernelTypes64 =>
          Back(KernelForm(t, IF t = "bool" THEN (IF x.n # 0 \/ x.half THEN 1 ELSE 0) ELSE x.n))

ScalarBack(t, x, big, r) ==
    ~r.threw => ReadBack(t, x, big, r.bytes) /\ KernelToo(t, x, r.bytes)

Written(t, xs) == \A i \in DOMAIN xs : ~WriteField(TRUE, "packed", t, xs[i]).threw

(* A packed field of the values so far: its length is the payload's, and    *)
(* both readers get the values back.                                        *)
KernelPackedBack(t, values, b) ==
    /\ KernelWritePacked(t, values) = b
    /\ KernelReadPacked(t, b, 0) = AllRead(values, b)
PackedBack(t, xs, big, b) ==
    xs # <<>> =>
        /\ ReadPackable(big, t, "DELIMITED", b, 0, Len(b))
              = AllRead([i \in DOMAIN xs |-> ReadsAs(t, xs[i])], b)
        /\ /\ t \in KernelTypes32 \union KernelTypes64
           /\ \A i \in DOMAIN xs : IsSafeInteger(xs[i].n)
           => KernelPackedBack(t, [i \in DOMAIN xs |-> KernelForm(t, ReadsAs(t, xs[i]).value)], b)

(* A value in the range of its type that a scalar writer took is what every *)
(* reader reads back, alone or packed, from the bytes of either runtime,    *)
(* whatever JavaScript type it was given in.                                *)
WhatIsWrittenIsRead ==
    input.kind = "values" =>
        LET t  == input.type
            xs == input.values
        IN  \A big \in BOOLEAN :
              /\ Len(xs) = 1 /\ InRange(t, xs[1].n) =>
                    ScalarBack(t, xs[1], big, WriteField(big, "scalar", t, xs[1]))
              /\ Written(t, xs) /\ (\A i \in DOMAIN xs : InRange(t, xs[i].n))
                    => PackedBack(t, xs, big, WritePacked(big, t, xs))

(* The values after whose header a scalar writer throws: those the range    *)
(* checks of the writer pass, and the encoder or the splitting does not.    *)
LeavesHeader(t, x) ==
    \/ t = "float" /\ ~InRange(t, x.n)
    \/ x.half /\ InRange(t, x.n) /\ t \notin {"int32", "enum", "bool"}
    \/ t = "sint64" /\ x.form = "bigint" /\ InRange(t, x.n)

(* No writer turns a number into another one: a number out of its type's    *)
(* range, or that is no integer, is refused (an enum is cut to an integer), *)
(* and a bigint in range is written, but for a sint64.  That is not what    *)
(* the comments of the writers say: "numbers outside the range ... will be  *)
(* truncated" (writer.js:440-441 and of all other integer types up to 632,  *)
(* encoder.js:140-141 to 299), but what writer_test.js:83 tests.            *)
(* A scalar writer that refuses its value leaves the buffer as it was,      *)
(* except in just three cases: a float out of range, a fraction in an       *)
(* integer field that is not an int32 or an enum, and a bigint for a sint64 *)
(* leave a header without a value behind (writer.js:651).  What is written  *)
(* repeated or packed may leave one for other values too, and a bigint out  *)
(* of range is then written modulo 2^64.                                    *)
RefusedOrWrittenAsItself ==
    input.kind = "values" /\ Len(input.values) = 1 =>
        LET t == input.type
            x == input.values[1]
        IN  \A family \in {"scalar", "repeated", "packed"} :
              LET r == WriteField(TRUE, family, t, x)
                  inRange == InRange(t, x.n)
              IN  /\ x.form = "number" /\ ~inRange => r.threw
                  /\ x.half /\ t \notin {"bool", "enum"} => r.threw
                  /\ family = "scalar" =>
                        /\ x.form = "bigint" /\ ~inRange => r.threw
                        /\ (r.left = "header") = LeavesHeader(t, x)
                  /\ inRange /\ ~x.half /\ ~(t = "sint64" /\ x.form = "bigint") => ~r.threw

----------------------------------------------------------------------------
(* Bytes *)

(* Wherever a decoder is over and whatever the bytes are, the readers of a  *)
(* varint agree whether there is one and where it ends: as a 64-bit value,  *)
(* as a 32-bit one, as a bool, skipped, and by the kernel's three readers,  *)
(* which look at the buffer's end instead of the decoder's.  They agree on  *)
(* its value, but for bits past the 64th, which only readBool looks at.     *)
VarintReadersAgree ==
    input.kind = "bytes" /\ input.s # <<>> =>
        LET b == input.s
        IN  \A end \in 1 .. Len(b) :
              LET r   == ReadSplitVarint64(b, 0, end)
                  r32 == ReadSignedVarint32(b, 0, end)
                  rb  == ReadBool(b, 0, end)
                  k   == GetVarint(b, 0)
                  k32 == GetUnsignedVarint32(b, 0)
                  ks  == SkipVarint(b, 0)
                  fits == Len(b) < MAX_VARINT_SIZE
                            \/ At(b, MAX_VARINT_SIZE - 1) < TopBits
                            \/ More(b, MAX_VARINT_SIZE - 1)
              IN  /\ r.ok = r32.ok /\ r.ok = rb.ok
                  /\ k.ok = k32.ok /\ k.ok = ks.ok
                  /\ r.ok = (k.ok /\ k.cursor <= end)
                  /\ r.ok => /\ r32.cursor = r.cursor /\ rb.cursor = r.cursor
                             /\ k.cursor = r.cursor
                             /\ r32.lo = I32(r.lo)
                             /\ k.lo = I32(r.lo) /\ k.hi = I32(r.hi)
                             /\ fits => (rb.lo = 1) = (r.lo # 0 \/ r.hi # 0)
                  /\ k.ok => k32.cursor = k.cursor /\ ks.cursor = k.cursor
                                /\ I32(k32.lo) = k.lo
                  /\ \A n \in HalfSample :
                        LET m == ReadIfEqualTo(b, 0, end, n)
                        IN  m.ok => r.ok /\ r.lo = n /\ r.hi = 0 /\ m.cursor = r.cursor

----------------------------------------------------------------------------
(* Messages *)

TagBytes(num, wire) == WriteUnsignedVarint32[MakeTag(num, wire)]
(* The head is the length of a field that has one, the tail a group's end.  *)
Payload(f) == f.head \o f.content \o f.tail
FieldBytes(f) == TagBytes(f.num, f.wire) \o Payload(f)
MessageBytes(fs) == FlattenSeq([i \in DOMAIN fs |-> FieldBytes(fs[i])])

(* The fields up to the first that has another tag *)
LeadingCount(fs, num, wire) ==
    LET Other(i) == fs[i].num # num \/ fs[i].wire # wire
    IN  IF \E i \in DOMAIN fs : Other(i)
        THEN (CHOOSE i \in DOMAIN fs : Other(i) /\ \A j \in 1 .. i - 1 : ~Other(j)) - 1
        ELSE Len(fs)

(* countVarintFields and the like take a rest of Group (128) for the last     *)
(* byte of the tag and go on with the value one byte too early.               *)
Countable(num, wire) == \A k \in 0 .. 3 : MakeTag(num, wire) \div Group ^ k # Group

CountedAs(b, num, wire) ==
    CASE wire = VARINT    -> CountVarintFields(b, 0, Len(b), num)
      [] wire = FIXED32   -> CountFixedFields(b, 0, Len(b), num, FIXED32, BytesPerHalf)
      [] wire = FIXED64   -> CountFixedFields(b, 0, Len(b), num, FIXED64, 2 * BytesPerHalf)
      [] wire = DELIMITED -> CountDelimitedFields(b, 0, Len(b), num)

(* At the least such a count finds the field a message begins with.         *)
CountAgrees(fs, b, num, wire) ==
    IF Countable(num, wire) THEN CountedAs(b, num, wire) = LeadingCount(fs, num, wire)
    ELSE LeadingCount(fs, num, wire) > 0 => CountedAs(b, num, wire) > 0
Counted == {f.num : f \in FieldSample} \X {VARINT, FIXED32, FIXED64, DELIMITED}

CountsAgree(fs, b) ==
    \A c \in Counted : CountAgrees(fs, b, c[1], c[2])

IsChild(e) == e.wire \in {DELIMITED, START_GROUP}
Covered(b, decoder) == IF decoder.ok THEN SubSeq(b, decoder.from + 1, decoder.to) ELSE <<Fail>>

IndexEntryIs(b, e, f) ==
    /\ e.wire = f.wire
    /\ WriteBufferDecoder(b, Len(b), e) = [ok |-> TRUE, bytes |-> Payload(f)]
    /\ IsChild(e) => Covered(b, Child(b, Len(b), e)) = f.content
EntriesAre(b, es, fs) ==
    Len(es) = Len(fs) /\ \A i \in DOMAIN es : IndexEntryIs(b, es[i], fs[i])
IndexIs(b, r, fs) ==
    /\ r.ok
    /\ \A num \in {f.num : f \in FieldSample} :
          EntriesAre(b, IndexOf(r.entries, num), SelectSeq(fs, LAMBDA f : f.num = num))

(* The kernel's index of a well-formed message has, for each field number,  *)
(* its fields in the order they were written, each where its value starts;  *)
(* copied into a writer, they are the message again, and the decoder of a   *)
(* child is over the child's bytes.  The count functions count the fields a *)
(* message begins with; where Countable says they lose count, they find the *)
(* first at least.                                                          *)
IndexIsTheFields ==
    input.kind = "fields" =>
        LET b == MessageBytes(input.s)
        IN  /\ IndexIs(b, Entries(b, 0, Len(b)), input.s)
            /\ CountsAgree(input.s, b)

Covers(es, end, size) ==
    LET last == Len(es)
    IN  /\ end > 0 => last > 0 /\ es[1].at = 0 /\ es[last].stop >= end
        /\ \A i \in 1 .. last - 1 : es[i].stop = es[i + 1].at /\ es[i].stop <= end
        /\ last > 0 /\ es[last].stop > end =>
              es[last].wire \in {VARINT, START_GROUP} /\ end < size
EndTagFrom(b, e, t) ==
    GetUnsignedVarint32(b, t) = Got(MakeTag(e.num, END_GROUP), 0, e.stop)
ChildStaysInside(b, child, end, e) ==
    /\ child.ok
    /\ child.from >= e.start
    /\ child.to <= e.stop
    /\ child.to > end =>
          e.wire = START_GROUP /\ \E t \in e.start .. end - 1 : EndTagFrom(b, e, t)
EntryStaysInside(b, end, e) ==
    /\ WriteBufferDecoder(b, end, e) = [ok |-> TRUE, bytes |-> SubSeq(b, e.start + 1, e.stop)]
    /\ IsChild(e) => ChildStaysInside(b, Child(b, end, e), end, e)

(* Whatever the bytes, and wherever in them the decoder of an embedded      *)
(* message ends, an index that is made covers the decoder from its start,   *)
(* field after field, and does not go past its end, but for the last field: *)
(* the last bytes of a varint, or of the tag that ends a group, may come    *)
(* from what follows the decoder.  What is copied of a field is what the    *)
(* index covers, and a child is given nothing beyond its parent's end but   *)
(* bytes of its own end tag.                                                *)
IndexStaysInside ==
    input.kind = "raw" =>
        LET b == input.s
        IN  \A end \in 0 .. Len(b) :
              LET r == Entries(b, 0, end)
              IN  r.ok => /\ Covers(r.entries, end, Len(b))
                          /\ \A i \in DOMAIN r.entries : EntryStaysInside(b, end, r.entries[i])
                          /\ CountVarints(b, 0, end)
                                = Cardinality({i \in 0 .. end - 1 : b[i + 1] < Group})

----------------------------------------------------------------------------
(* Text *)

(* A text survives both encoders and all decoders, and its bytes are the    *)
(* same from each; surrogates without their other half are replaced, or     *)
(* refused when the caller asks for that.                                   *)
TextSurvives(text) ==
    LET enc == PolyfillEncode(text, TRUE)
        lax == PolyfillEncode(text, FALSE)
    IN  /\ enc.ok = WellFormedText(text)
        /\ enc.ok => /\ lax = enc
                     /\ KernelEncodeText(text) = enc
                     /\ PolyfillDecode(enc.s, TRUE) = Done(text)
                     /\ KernelDecodeText(enc.s) = Done(text)
                     /\ TextDecoderDecode(enc.s) = text
        /\ WellFormedBytes(lax.s)
        /\ Len(PolyfillDecode(lax.s, TRUE).s) = Len(text)

(* Bytes are decoded without TextDecoder as with it: refused when they are  *)
(* ill formed, if errors are fatal, and else with a replacement for each    *)
(* error; only a sequence with no room for all its bytes is replaced byte   *)
(* by byte.                                                                *)
BytesDecode(bytes) ==
    LET strict == PolyfillDecode(bytes, TRUE)
        lax == PolyfillDecode(bytes, FALSE)
    IN  /\ strict.ok = WellFormedBytes(bytes)
        /\ strict.ok => strict = lax /\ KernelDecodeText(bytes) = lax
        /\ ~CutShort(bytes) => lax.s = TextDecoderDecode(bytes)
        /\ WellFormedText(lax.s)

Utf8MeansText ==
    /\ input.kind = "text" => TextSurvives(input.s)
    /\ input.kind = "utf8" => BytesDecode(input.s)
=============================================================================
