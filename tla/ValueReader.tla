----------------------------- MODULE ValueReader ----------------------------
(***************************************************************************)
(* How BinaryReader and BinaryDecoder get a scalar value back from bytes   *)
(* (src/binary/reader.js, decoder.js), and the floats of utils.js.  A read *)
(* is Fail, or the value and the cursor after it.  wire is nextWireType_,  *)
(* the wire type of the header the reader has just read.                   *)
(***************************************************************************)
EXTENDS ValueWriter

Value(v, cursor) == [ok |-> TRUE, value |-> v, cursor |-> cursor]

----------------------------------------------------------------------------
(* joinFloat32, joinFloat64: the parts of the bit pattern, multiplied out.  *)
(* The least positive value is 1.                                           *)

FloatOf(kind, neg, mag) == [kind |-> kind, neg |-> neg, mag |-> mag]

JoinFloat32(bitsLow) ==
    LET neg  == Shr(bitsLow, Half \div 2) * 2 + 1 = -1
        exp  == UShr(bitsLow, Mant32) % ExpLimit
        mant == bitsLow % Mant32
    IN  CASE exp = ExpLimit - 1 /\ mant # 0 -> FloatOf("NaN", FALSE, 0)
          [] exp = ExpLimit - 1 /\ mant = 0 -> FloatOf("Infinity", neg, 0)
          [] exp = 0 -> FloatOf("finite", neg, mant)
          [] OTHER   -> FloatOf("finite", neg, 2 ^ (exp - 1) * (mant + Mant32))

JoinFloat64(bitsLow, bitsHigh) ==
    LET neg  == Shr(bitsHigh, Half \div 2) * 2 + 1 = -1
        exp  == UShr(bitsHigh, Mant64) % ExpLimit
        mant == Half * (bitsHigh % Mant64) + bitsLow
    IN  CASE exp = ExpLimit - 1 /\ mant # 0 -> FloatOf("NaN", FALSE, 0)
          [] exp = ExpLimit - 1 /\ mant = 0 -> FloatOf("Infinity", neg, 0)
          [] exp = 0 -> FloatOf("finite", neg, mant)
          [] OTHER   -> FloatOf("finite", neg, 2 ^ (exp - 1) * (mant + Mant64 * Half))

----------------------------------------------------------------------------
(* BinaryDecoder *)

(* The value of type t in the bits read *)
OfBits32(t, lo) ==
    CASE t \in {"uint32", "fixed32"} -> Num(U32(lo))
      [] t = "sfixed32" -> Num(I32(lo))
      [] t = "sint32"   -> Num(FromZigzag32(U32(lo)))
      [] t = "float"    -> JoinFloat32(lo)
      [] t \in {"int32", "enum", "bool"} -> Num(lo)

OfBits64(big, t, lo, hi) ==
    CASE t \in Unsigned64 -> JoinUint64(big, lo, hi)
      [] t \in {"int64", "sfixed64"} -> JoinInt64(big, lo, hi)
      [] t = "sint64" -> JoinZigzag64(big, lo, hi)
      [] t = "double" -> JoinFloat64(lo, hi)

StringOfBits64(big, t, lo, hi) ==
    LET z == IF t = "sint64" THEN FromZigzag64(lo, hi) ELSE <<lo, hi>>
    IN  IF t \in Unsigned64 THEN UInt64ToDecimalString(big, z)
                            ELSE JoinSignedDecimalString(big, z[1], z[2])

Value32(t, r) == IF r.ok THEN Value(OfBits32(t, r.lo), r.cursor) ELSE Fail
Value64(big, t, asString, r) ==
    IF ~r.ok THEN Fail
    ELSE Value(IF asString THEN StringOfBits64(big, t, r.lo, r.hi)
                           ELSE OfBits64(big, t, r.lo, r.hi), r.cursor)

(* readUnsignedVarint32, readZigzagVarint32, readBool, readEnum *)
DecodeVarint32(t, b, c, end) ==
    Value32(t, IF t = "bool" THEN ReadBool(b, c, end) ELSE ReadSignedVarint32(b, c, end))

(* readUnsignedVarint64 .. readZigzagVarint64String *)
DecodeVarint64(big, t, asString, b, c, end) ==
    Value64(big, t, asString, ReadSplitVarint64(b, c, end))

(* readUint32, readInt32, readFloat *)
DecodeFixed32(t, b, c, end) == Value32(t, ReadUint32(b, c, end))

(* readUint64 .. readDouble: one half after the other *)
BothHalves(lo, hi) == IF lo.ok /\ hi.ok THEN Got(lo.lo, hi.lo, hi.cursor) ELSE Fail
DecodeFixed64(big, t, asString, b, c, end) ==
    Value64(big, t, asString,
            BothHalves(ReadUint32(b, c, end), ReadUint32(b, c + BytesPerHalf, end)))

(* readDoubleArrayInto: len may be no integer, and is then cut *)
DecodeDoubleArray(b, c, end, byteLength) ==
    LET size == BytesOf("double")
    IN  IF c + byteLength > end THEN Fail
        ELSE [ok |-> TRUE, cursor |-> c + byteLength,
              values |-> [i \in 1 .. byteLength \div size |->
                            DecodeFixed64(FALSE, "double", FALSE, b, c + (i - 1) * size, end).value]]

----------------------------------------------------------------------------
(* BinaryReader *)

(* readInt32 .. readUint64String, readSint32 .. readSint64String, readBool, *)
(* readEnum                                                                 *)
ReadVarintField(big, t, asString, wire, b, c, end) ==
    IF wire # "VARINT" THEN Fail
    ELSE IF t \in Varint64 THEN DecodeVarint64(big, t, asString, b, c, end)
                           ELSE DecodeVarint32(t, b, c, end)

(* readFixed32 .. readDouble *)
ReadFixedField(big, t, asString, wire, b, c, end) ==
    IF wire # WireTypeOf(t) THEN Fail
    ELSE IF t \in Fixed64 THEN DecodeFixed64(big, t, asString, b, c, end)
                          ELSE DecodeFixed32(t, b, c, end)

ReadField(big, t, asString, wire, b, c, end) ==
    IF t \in Varints THEN ReadVarintField(big, t, asString, wire, b, c, end)
                     ELSE ReadFixedField(big, t, asString, wire, b, c, end)

(* readSplitVarint64, readSplitZigzagVarint64 and readSplitFixed64, with    *)
(* the conversion to a number or a decimal string.                          *)
Converted(big, t, w) ==
    IF t \in Unsigned64 THEN JoinUnsignedNumberOrDecimalString(big, w[1], w[2])
                        ELSE JoinSignedNumberOrDecimalString(big, w[1], w[2])
ValueSplit(big, t, r) ==
    IF ~r.ok THEN Fail
    ELSE Value(Converted(big, t, IF t = "sint64" THEN FromZigzag64(r.lo, r.hi)
                                 ELSE <<r.lo, r.hi>>), r.cursor)
ReadSplit(big, t, b, c, end) ==
    ValueSplit(big, t, IF t \in Fixed64 THEN ReadSplitFixed64(b, c, end)
                                        ELSE ReadSplitVarint64(b, c, end))

(* readPackedFieldInto_: on until the cursor has reached the end of the     *)
(* payload; nothing looks whether it went past it.                          *)
ReadPackedFieldInto(big, t, b, c, end, length) ==
    LET From[cursor \in Nat] ==
            LET Before(r, rest) ==
                    IF rest.ok THEN [rest EXCEPT !.values = <<r.value>> \o @] ELSE Fail
                First(r) == IF r.ok THEN Before(r, From[r.cursor]) ELSE Fail
            IN  IF cursor >= c + length
                THEN [ok |-> TRUE, values |-> <<>>, cursor |-> cursor]
                ELSE First(ReadField(big, t, FALSE, WireTypeOf(t), b, cursor, end))
    IN  From[c]

(* readPackableInt32Into .. readPackableEnumInto *)
ReadPackable(big, t, wire, b, c, end) ==
    LET One(r) == IF r.ok THEN [ok |-> TRUE, values |-> <<r.value>>, cursor |-> r.cursor]
                  ELSE Fail
        Packed(length) ==
            CASE ~length.ok -> Fail
              [] length.ok /\ t = "double" ->
                    DecodeDoubleArray(b, length.cursor, end, U32(length.lo))
              [] OTHER -> ReadPackedFieldInto(big, t, b, length.cursor, end, U32(length.lo))
    IN  IF wire = "DELIMITED" THEN Packed(ReadSignedVarint32(b, c, end))
        ELSE One(ReadField(big, t, FALSE, wire, b, c, end))
=============================================================================
