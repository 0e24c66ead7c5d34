----------------------------- MODULE ValueWriter ----------------------------
(***************************************************************************)
(* How BinaryWriter and BinaryEncoder turn a value of a scalar field into  *)
(* bytes (src/binary/writer.js, encoder.js).                               *)
(*                                                                         *)
(* A value given to a writer is [form, n, half]: what JavaScript has it as *)
(* ("number", "bigint", "string"), its integer part, and whether it is a   *)
(* half more than that, which stands for every number that is no integer.  *)
(* A float or a double is counted in units of its least positive value.    *)
(***************************************************************************)
EXTENDS Halves, WireBytes

CONSTANTS ExpLimit,     \* 2^8 = 0xFF + 1, and 2^11 for a double
          Mant32,       \* 2^23
          Mant64        \* 2^20, the part of a double's mantissa in the high half

ASSUME FloatAssumption ==
    2 * ExpLimit * Mant32 = Half /\ 2 * ExpLimit * Mant64 = Half

SignedVarint32 == {"int32", "enum"}
Varint64       == {"int64", "uint64", "sint64"}
Varints        == SignedVarint32 \union {"uint32", "sint32", "bool"} \union Varint64
Fixed32        == {"fixed32", "sfixed32", "float"}
Fixed64        == {"fixed64", "sfixed64", "double"}
ScalarTypes    == Varints \union Fixed32 \union Fixed64
Types64        == Varint64 \union {"fixed64", "sfixed64"}
Unsigned64     == {"uint64", "fixed64"}

WireTypeOf(t) ==
    CASE t \in Varints -> "VARINT" [] t \in Fixed32 -> "FIXED32" [] t \in Fixed64 -> "FIXED64"

BytesOf(t) == CASE t \in Fixed32 -> BytesPerHalf [] t \in Fixed64 -> 2 * BytesPerHalf
                [] t = "bool" -> 1

FLOAT32_MAX == (2 * Mant32 - 1) * 2 ^ (ExpLimit - 3)

InRange(t, n) ==
    CASE t \in {"int32", "enum", "sint32", "sfixed32"} -> -(Half \div 2) <= n /\ n < Half \div 2
      [] t \in {"uint32", "fixed32"}          -> 0 <= n /\ n < Half
      [] t \in {"int64", "sint64", "sfixed64"} ->
            -(Half * (Half \div 2)) <= n /\ n < Half * (Half \div 2)
      [] t \in Unsigned64                     -> 0 <= n /\ n < Half * Half
      [] t = "float"                          -> -FLOAT32_MAX <= n /\ n <= FLOAT32_MAX
      [] t \in {"bool", "double"}             -> TRUE

----------------------------------------------------------------------------
(* Floats: DataView.setFloat32 and setFloat64 of a value that fits exactly  *)

FloatBits(n, mantissas) ==
    LET m == IF n < 0 THEN -n ELSE n
        e == IF m < mantissas THEN 0
             ELSE CHOOSE k \in 1 .. ExpLimit - 2 :
                    mantissas * 2 ^ (k - 1) <= m /\ m < mantissas * 2 ^ k
        frac == IF e = 0 THEN m ELSE m \div 2 ^ (e - 1) - mantissas
    IN  (IF n < 0 THEN ExpLimit * mantissas ELSE 0) + e * mantissas + frac

Fits(n, mantissas) ==
    LET m == IF n < 0 THEN -n ELSE n
    IN  \E k \in 0 .. ExpLimit - 3 : m % 2 ^ k = 0 /\ m \div 2 ^ k < 2 * mantissas

SplitFloat32(n) == <<FloatBits(n, Mant32), 0>>
SplitFloat64(n) ==
    LET bits == FloatBits(n, Mant64 * Half) IN <<bits % Half, bits \div Half>>

----------------------------------------------------------------------------
(* BinaryEncoder: what a write asserts, and the bytes it appends.  The      *)
(* writers hand the encoder a 64-bit string or bigint as halves, of which   *)
(* it asserts nothing.                                                      *)

EncoderAsserts(t, x) ==
    CASE t = "bool"                 -> TRUE
      [] t \in {"float", "double"}  -> InRange(t, x.n)
      [] OTHER                      -> ~x.half /\ InRange(t, x.n)

HalvesOf(big, t, x) ==
    CASE x.form = "bigint" -> FromBigInt(x.n)
      [] x.form = "string" -> FromString(big, x.n < 0, StrOf(x.n).digits)
      [] x.form = "number" /\ t = "fixed64" -> SplitUint64(x.n)
      [] OTHER -> SplitInt64(x.n)

ZigzagWord(w) == AsWord(ToZigzag64(w[1], w[2]))

\* A slip: the halves of a decimal string change places.
ZigzagHalvesSwapped(big, x) ==
    IF x.form = "number" THEN SplitZigzag64(x.n)
    ELSE ZigzagWord(Reverse(SplitDecimalString(big, x.n < 0, StrOf(x.n).digits)))

ZigzagHalvesOf(big, x) ==
    IF x.form = "number" THEN SplitZigzag64(x.n)
    ELSE ZigzagWord(SplitDecimalString(big, x.n < 0, StrOf(x.n).digits))

EncodeVarint(big, t, x) ==
    CASE t \in SignedVarint32      -> WriteSignedVarint32(x.n)
      [] t = "uint32"              -> WriteUnsignedVarint32[x.n]
      [] t = "sint32"              -> WriteUnsignedVarint32[ToZigzag32(x.n)]
      [] t \in {"int64", "uint64"} -> WriteSplitVarint64[HalvesOf(big, t, x)]
      [] t = "sint64"              -> WriteSplitVarint64[ZigzagHalvesOf(big, x)]
      [] t = "bool"                -> <<IF x.n # 0 \/ x.half THEN 1 ELSE 0>>

EncodeFixed(big, t, x) ==
    CASE t \in {"fixed32", "sfixed32"} -> WriteUint32(U32(x.n))
      [] t = "float"                   -> WriteUint32(SplitFloat32(x.n)[1])
      [] t = "double"                  -> WriteSplitFixed64(SplitFloat64(x.n))
      [] t \in {"fixed64", "sfixed64"} -> WriteSplitFixed64(HalvesOf(big, t, x))

Encode(big, t, x) == IF t \in Varints THEN EncodeVarint(big, t, x) ELSE EncodeFixed(big, t, x)

----------------------------------------------------------------------------
(* BinaryWriter: each way of writing asserts something of its own before it *)
(* puts the header in the buffer.                                           *)

(* assertSignedInt64, assertUnsignedInt64: a string need only parse, and    *)
(* UInt64.fromString takes no minus.                                        *)
Parses(t, x) == t \in Unsigned64 => x.n >= 0
Asserts64(t, x) == IF x.form = "string" THEN Parses(t, x) ELSE InRange(t, x.n)

\* A slip: an unsigned number is left for the encoder to check.
ScalarVarintAssertsSigned(t, x) ==
    CASE t \in Varint64 -> Asserts64(t, x)
      [] t \in {"int32"} -> InRange(t, x.n) /\ ~x.half
      [] t \in {"sint32", "enum", "bool"} -> InRange(t, x.n)
      [] t = "uint32" -> TRUE

(* writeInt32 .. writeFixed64 *)
ScalarVarintAsserts(t, x) ==
    CASE t \in Varint64 -> Asserts64(t, x)
      [] t \in {"int32"} -> InRange(t, x.n) /\ ~x.half
      [] t \in {"uint32", "sint32", "enum", "bool"} -> InRange(t, x.n)

(* writeFixed32 .. writeDouble *)
ScalarFixedAsserts(t, x) ==
    CASE t \in {"fixed64", "sfixed64"} -> Asserts64(t, x)
      [] t \in {"fixed32", "sfixed32"} -> InRange(t, x.n)
      [] t \in {"float", "double"}     -> TRUE

(* writeRepeatedInt32 .. writeRepeatedSint64: the private writers           *)
RepeatedVarintAsserts(t, x) ==
    CASE t = "int32" -> InRange(t, x.n) /\ ~x.half
      [] t \in {"enum", "bool"} -> ScalarVarintAsserts(t, x)
      [] t \in {"uint32", "sint32"} \union Varint64 -> TRUE

(* writeRepeatedFixed32 .. writeRepeatedEnum: the public ones *)
RepeatedFixedAsserts(t, x) == ScalarFixedAsserts(t, x)

(* A packed field is opened before the first value is looked at. *)
BeforeHeader(family, t, x) ==
    CASE family = "scalar"   -> IF t \in Varints THEN ScalarVarintAsserts(t, x)
                                                 ELSE ScalarFixedAsserts(t, x)
      [] family = "repeated" -> IF t \in Varints THEN RepeatedVarintAsserts(t, x)
                                                 ELSE RepeatedFixedAsserts(t, x)
      [] family = "packed"   -> TRUE

(* writeEnum parses its argument, which cuts a fraction off; a sint64 takes *)
(* a bigint for a string, and asserts that it has a length; a string that   *)
(* does not parse is null, which has no halves; writePackedUint64 turns a   *)
(* bigint it can into a number.                                             *)
AfterHeader(family, t, x) ==
    CASE x.form = "number" /\ t = "enum" /\ family # "packed" -> InRange(t, x.n)
      [] x.form = "number" /\ (t = "enum" => family = "packed") -> EncoderAsserts(t, x)
      [] x.form = "string" -> Parses(t, x)
      [] x.form = "bigint" ->
            /\ t # "sint64"
            /\ family = "packed" /\ t = "uint64" /\ IsSafeInteger(x.n) => x.n >= 0

(* One value written: whether that threw, and what it left in the buffer    *)
WriteField(big, family, t, x) ==
    CASE ~BeforeHeader(family, t, x) -> [threw |-> TRUE, left |-> "nothing"]
      [] BeforeHeader(family, t, x) /\ ~AfterHeader(family, t, x) ->
            [threw |-> TRUE, left |-> "header"]
      [] OTHER -> [threw |-> FALSE, left |-> "field",
                   wire |-> IF family = "packed" THEN "DELIMITED" ELSE WireTypeOf(t),
                   bytes |-> Encode(big, t, x)]

(* writePackedInt32 .. writePackedSint64: endDelimited_ measures the payload *)
PackedVarintPayload(big, t, xs) == FlattenSeq([i \in DOMAIN xs |-> EncodeVarint(big, t, xs[i])])

(* writePackedFixed32 .. writePackedEnum: the length is put first *)
PackedFixedPayload(big, t, xs) == FlattenSeq([i \in DOMAIN xs |-> Encode(big, t, xs[i])])

(* The length written before the payload, and the payload; nothing at all   *)
(* for an empty list.                                                       *)
Measured(payload) == WriteUnsignedVarint32[Len(payload)] \o payload
WritePacked(big, t, xs) ==
    CASE xs = <<>> -> <<>>
      [] xs # <<>> /\ t \in Varints \ {"bool"} -> Measured(PackedVarintPayload(big, t, xs))
      [] OTHER -> WriteUnsignedVarint32[Len(xs) * BytesOf(t)] \o PackedFixedPayload(big, t, xs)

(* writeSplitFixed64, writeSplitVarint64 and writeSplitZigzagVarint64, and  *)
(* their repeated and packed forms: the caller supplies the halves.         *)
WriteSplit(t, lo, hi) ==
    LET z == ToZigzag64(lo, hi)
    IN  CASE t \in {"fixed64", "sfixed64"} -> WriteSplitFixed64(<<lo, hi>>)
          [] t \in {"int64", "uint64"} -> WriteSplitVarint64[<<lo, hi>>]
          [] t = "sint64" -> WriteSplitVarint64[<<U32(z[1]), U32(z[2])>>]
=============================================================================
