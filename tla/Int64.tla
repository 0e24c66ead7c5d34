-------------------------------- MODULE Int64 --------------------------------
(***************************************************************************)
(* src/experimental/runtime/int64.js: the kernel's own 64-bit integers.    *)
(* It keeps both halves signed (lowBits_ | 0, highBits_ | 0) and converts  *)
(* with code of its own, never with BigInt.  A value is <<lo, hi>>.        *)
(***************************************************************************)
EXTENDS Halves

FromBits(lo, hi) == <<I32(lo), I32(hi)>>

(* negate: a number whose low half is zero but that is itself not zero     *)
(* takes the first branch, as ~lo + 1 does not carry.                      *)
NegateBits(lo, hi) ==
    IF lo # 0 THEN FromBits(Not(lo) + 1, Not(hi)) ELSE FromBits(lo, Not(hi) + 1)

Int64FromInt(v) == <<v, Shr(v, Half \div 2)>>

Int64FromNumber(v) ==
    CASE v > 0 -> FromBits(v, Trunc(v, Half))
      [] v < 0 -> NegateBits(-v, Trunc(-v, Half))
      [] OTHER -> <<0, 0>>

(* decimalStringToInt64: four slices of SplitDigits digits from the end     *)
(* (24 digits), an absent one being 0; the high half is never masked.       *)
Int64FromDecimalString(neg, ds) ==
    LET base == Decimal ^ SplitDigits
        At(i) == LET k == Len(ds) - i IN IF k >= 1 THEN ds[k] ELSE 0
        Slice(j) == DigitsValue([i \in 1 .. SplitDigits |-> At(j * SplitDigits - i)])
        slices == (Len(DigitsOf(Half * Half)) + SplitDigits) \div SplitDigits
        Add(w, j) ==
            LET low == w[1] * base + Slice(slices + 1 - j)
            IN  IF low >= Half
                THEN <<low % Half, w[2] * base + low \div Half>>
                ELSE <<low, w[2] * base>>
        w == FoldLeft(Add, <<0, 0>>, [j \in 1 .. slices |-> j])
    IN  IF neg THEN NegateBits(w[1], w[2]) ELSE FromBits(w[1], w[2])

Nibble == 16
NibblesPerHalf == CHOOSE k \in 1 .. 8 : Nibble ^ k = Half

Int64FromHexString(neg, ns) ==
    LET Part(s) == FoldLeft(LAMBDA acc, d : acc * Nibble + d, 0, s)
        cut == Len(ns) - NibblesPerHalf
        lo  == Part(IF cut > 0 THEN SubSeq(ns, cut + 1, Len(ns)) ELSE ns)
        hi  == IF cut > 0 THEN Part(SubSeq(ns, 1, cut)) ELSE 0
    IN  IF neg THEN NegateBits(lo, hi) ELSE FromBits(lo, hi)

(* toHexString: every nibble of both halves, without leading zeros *)
Int64ToHexString(w) ==
    LET NibbleOf(half, i) == UShr(half, Nibble ^ i) % Nibble
        all == [i \in 1 .. 2 * NibblesPerHalf |->
                  IF i <= NibblesPerHalf
                  THEN NibbleOf(w[2], NibblesPerHalf - i)
                  ELSE NibbleOf(w[1], 2 * NibblesPerHalf - i)]
        first == CHOOSE i \in 1 .. Len(all) :
                    /\ i < Len(all) => all[i] # 0
                    /\ \A j \in 1 .. i - 1 : all[j] = 0
    IN  SubSeq(all, first, Len(all))

(* asNumber asserts that no precision is lost. *)
AsNumber(w) == w[2] * Half + U32(w[1])
AsNumberAsserts(w) == IsSafeInteger(AsNumber(w))

(* The decimal strings are joined as in utils.js, but for BigInt. *)
ToUnsignedDecimalString(w) ==
    Str(FALSE, JoinUnsignedDecimalString(FALSE, U32(w[1]), U32(w[2])))
ToSignedDecimalString(w) ==
    LET neg == w[2] < 0
        v   == IF neg THEN NegateBits(w[1], w[2]) ELSE w
    IN  Str(neg, JoinUnsignedDecimalString(FALSE, U32(v[1]), U32(v[2])))
=============================================================================
