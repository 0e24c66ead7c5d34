------------------------------- MODULE Halves -------------------------------
(***************************************************************************)
(* 64-bit integers as the runtime keeps them, a low and a high half in     *)
(* doubles: src/binary/utils.js (splitting a number or a decimal string    *)
(* into halves, joining halves into a number or a string, zigzag,          *)
(* negation) and the classes of src/binary/arith.js.  A pair <<lo, hi>> is *)
(* the two halves, as signed or unsigned as the code leaves them.          *)
(*                                                                         *)
(* A decimal string is a sign and a sequence of digits in base Decimal;    *)
(* the conversion without BigInt works on chunks of JoinDigits digits      *)
(* (1e7 in the code) and SplitDigits digits (1e6), and cuts the 64 bits    *)
(* into ChunkLow : ChunkLow : rest (24 : 24 : 16 bits).                    *)
(***************************************************************************)
EXTENDS JsInts, Sequences, SequencesExt

CONSTANTS Decimal,      \* 10
          JoinDigits,   \* 7 decimal digits in a digit of base 1e7
          SplitDigits,  \* 6 decimal digits in a digit of base 1e6
          Chunk         \* 2^24

ASSUME DecimalAssumption ==
    /\ Decimal \in Nat /\ Decimal >= 2
    /\ JoinDigits \in Nat \ {0} /\ SplitDigits \in Nat \ {0}
    /\ Half * (Decimal ^ SplitDigits) <= Safe
    /\ Chunk \in Nat /\ Half % Chunk = 0 /\ Chunk * Chunk > Half

----------------------------------------------------------------------------
(* What halves and digits mean *)

Unsigned(w) == U32(w[2]) * Half + U32(w[1])
Signed(w) == I32(w[2]) * Half + U32(w[1])

DigitsValue(ds) == FoldLeft(LAMBDA acc, d : acc * Decimal + d, 0, ds)

(* String(n) for n >= 0 *)
DigitsOf(n) ==
    LET len == CHOOSE k \in 1 .. 64 : /\ n < Decimal ^ k
                                      /\ k > 1 => n >= Decimal ^ (k - 1)
    IN  [i \in 1 .. len |-> (n \div Decimal ^ (len - i)) % Decimal]

(* A conversion returns a number or a decimal string. *)
Num(n) == [kind |-> "number", value |-> n]
Str(neg, ds) == [kind |-> "string", neg |-> neg, digits |-> ds]
StrOf(n) == IF n < 0 THEN Str(TRUE, DigitsOf(-n)) ELSE Str(FALSE, DigitsOf(n))

----------------------------------------------------------------------------
(* Splitting numbers *)

\* A slip: the carry out of the low half is lost.
NegateWithoutCarry(lo, hi) == <<Not(lo) + 1, Not(hi)>>

Negate(lo, hi) ==
    IF lo # 0 THEN <<Not(lo) + 1, Not(hi)>> ELSE <<lo, Not(hi) + 1>>

SplitUint64(v) == LET low == U32(v) IN <<low, U32(Trunc(v - low, Half))>>

SplitInt64(v) ==
    IF v < 0
    THEN LET mag == SplitUint64(0 - v)
             neg == Negate(mag[1], mag[2])
         IN  <<U32(neg[1]), U32(neg[2])>>
    ELSE SplitUint64(v)

SplitZigzag64(v) ==
    LET w == SplitUint64(2 * (IF v < 0 THEN -v ELSE v))
    IN  CASE v >= 0                  -> w
          [] v < 0 /\ w[1] # 0       -> <<w[1] - 1, w[2]>>
          [] v < 0 /\ w = <<0, 0>>   -> <<Half - 1, Half - 1>>
          [] OTHER                   -> <<Half - 1, w[2] - 1>>

(* splitBytes64: base is the number of values of a byte. *)
SplitBytes64(bytes, base) ==
    LET half == Len(bytes) \div 2
        Join(ds) == U32(FoldRight(LAMBDA b, acc : acc * base + b, ds, 0))
    IN  <<Join(SubSeq(bytes, 1, half)), Join(SubSeq(bytes, half + 1, Len(bytes)))>>

----------------------------------------------------------------------------
(* Zigzag *)

ToZigzag32(v) == U32(XorMask(Shl(v, 2), Shr(v, Half \div 2)))
FromZigzag32(z) == XorMask(UShr(z, 2), -(z % 2))

ToZigzag64(lo, hi) ==
    LET mask == Shr(hi, Half \div 2)
    IN  <<XorMask(Shl(lo, 2), mask), XorMask(Shl(hi, 2) + UShr(lo, Half \div 2), mask)>>

FromZigzag64(lo, hi) ==
    LET mask == -(lo % 2)
    IN  <<XorMask(UShr(lo, 2) + Shl(hi, Half \div 2), mask), XorMask(UShr(hi, 2), mask)>>

----------------------------------------------------------------------------
(* Joining: big says whether the engine has BigInt *)

PadTo(n, len) == LET ds == DigitsOf(n) IN [i \in 1 .. len - Len(ds) |-> 0] \o ds

(* Three digits in base 1e7, the lower two with a carry into the next       *)
JoinBase == Decimal ^ JoinDigits
CarryOf(digit) == IF digit >= JoinBase THEN U32(digit \div JoinBase) ELSE 0
Low2Carried(digC, digB, lowest) ==
    DigitsOf(digC + CarryOf(digB)) \o PadTo(digB % JoinBase, JoinDigits) \o lowest
Carried(digC, digB, digA) ==
    Low2Carried(digC, digB + CarryOf(digA), PadTo(digA % JoinBase, JoinDigits))

JoinUnsignedDecimalStringFallback(lo, hi) ==
    LET base  == JoinBase
        rest  == Half \div Chunk
        low   == lo % Chunk
        mid   == (UShr(lo, Chunk) + U32(Shl(hi, rest))) % Chunk
        high  == Shr(hi, Chunk \div rest) % ((Half * Half) \div (Chunk * Chunk))
        one   == Chunk              \* 2^24 = (1, 6777216) in base 1e7
        two   == Chunk * Chunk      \* 2^48 = (2, 8147497, 6710656)
    IN  Carried(high * (two \div (base * base)),
                mid * (one \div base) + high * ((two \div base) % base),
                low + mid * (one % base) + high * (two % base))

JoinUnsignedDecimalString(big, lo, hi) ==
    LET n == U32(hi) * Half + U32(lo)
    IN  IF U32(hi) <= Safe \div Half - 1 \/ big
        THEN DigitsOf(n)
        ELSE JoinUnsignedDecimalStringFallback(U32(lo), U32(hi))

JoinUint64(big, lo, hi) ==
    LET maybeUnsafe == hi * Half + U32(lo)
    IN  IF IsSafeInteger(maybeUnsafe) THEN Num(maybeUnsafe)
        ELSE Str(FALSE, JoinUnsignedDecimalString(big, lo, hi))

Negative(r) == IF r.kind = "number" THEN Num(-r.value) ELSE Str(TRUE, r.digits)
JoinInt64(big, lo, hi) ==
    LET l == U32(Not(lo) + 1)
        h == U32(Not(hi))
    IN  IF U32(hi) < Half \div 2 THEN JoinUint64(big, lo, hi)
        ELSE Negative(JoinUint64(big, l, IF l = 0 THEN U32(h + 1) ELSE h))

JoinZigzag64(big, lo, hi) ==
    LET w == FromZigzag64(lo, hi) IN JoinInt64(big, w[1], w[2])

JoinSignedDecimalString(big, lo, hi) ==
    CASE U32(hi) < Half \div 2 ->
            Str(FALSE, JoinUnsignedDecimalString(big, lo, hi))
      [] U32(hi) >= Half \div 2 /\ big -> StrOf(I32(hi) * Half + U32(lo))
      [] OTHER ->           \* joinNegativeDecimalStringFallback
            LET neg == Negate(lo, hi)
            IN  Str(TRUE, JoinUnsignedDecimalString(big, neg[1], neg[2]))

NumberOr(r, string) == IF r.kind = "number" THEN r ELSE string
JoinSignedNumberOrDecimalString(big, lo, hi) ==
    NumberOr(JoinInt64(big, lo, hi), JoinSignedDecimalString(big, lo, hi))
JoinUnsignedNumberOrDecimalString(big, lo, hi) ==
    NumberOr(JoinUint64(big, lo, U32(hi)),
             Str(FALSE, JoinUnsignedDecimalString(big, lo, U32(hi))))

----------------------------------------------------------------------------
(* Splitting decimal strings *)

(* The loop takes the digits Decimal^SplitDigits at a time, the first slice *)
(* being what is left over; the high half is masked only when the low half  *)
(* carries into it.                                                         *)
SplitDecimalStringFallback(neg, ds) ==
    LET base   == Decimal ^ SplitDigits
        first  == Len(ds) % SplitDigits
        slices == <<SubSeq(ds, 1, first)>>
                    \o [i \in 1 .. Len(ds) \div SplitDigits |->
                          SubSeq(ds, first + (i - 1) * SplitDigits + 1,
                                     first + i * SplitDigits)]
        Add(w, slice) ==
            LET low == w[1] * base + DigitsValue(slice)
            IN  IF low >= Half
                THEN <<U32(low), U32(w[2] * base + low \div Half)>>
                ELSE <<low, w[2] * base>>
        w == FoldLeft(Add, <<0, 0>>, slices)
    IN  IF neg THEN Negate(w[1], w[2]) ELSE w

(* MAX_SAFE_INTEGER_DECIMAL_LENGTH *)
SafeLength == Len(DigitsOf(Safe - 1))

SplitDecimalString(big, neg, ds) ==
    LET n == IF neg THEN -DigitsValue(ds) ELSE DigitsValue(ds)
    IN  CASE Len(ds) + (IF neg THEN 1 ELSE 0) < SafeLength -> SplitInt64(n)
          [] Len(ds) + (IF neg THEN 1 ELSE 0) >= SafeLength /\ big ->
                <<n % Half, (n \div Half) % Half>>
          [] OTHER -> SplitDecimalStringFallback(neg, ds)

----------------------------------------------------------------------------
(* arith.js: UInt64 and Int64 hold the halves unsigned *)

Word(lo, hi) == <<U32(lo), U32(hi)>>
AsWord(w) == Word(w[1], w[2])

NegateInTwosComplement(w) ==
    IF w[1] = 0 THEN Word(0, 1 + Not(w[2])) ELSE Word(Not(w[1]) + 1, Not(w[2]))

FromBigInt(n) == LET as64 == n % (Half * Half) IN Word(as64 % Half, as64 \div Half)

FromString(big, neg, ds) ==
    IF ds = <<>> THEN Word(0, 0)
    ELSE AsWord(SplitDecimalString(big, neg, ds))

FromNumber(n) == Word(I32(n), Trunc(n, Half))

UInt64ToDecimalString(big, w) == Str(FALSE, JoinUnsignedDecimalString(big, w[1], w[2]))
Int64ToDecimalString(big, w) == JoinSignedDecimalString(big, w[1], w[2])
=============================================================================
