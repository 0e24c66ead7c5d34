----------------------------- MODULE WireBytes ------------------------------
(***************************************************************************)
(* Varints and fixed-width words in a buffer of bytes: the loops of        *)
(* src/binary/encoder.js and decoder.js, and those of the kernel's         *)
(* Writer and BufferDecoder, which were written apart and must agree.      *)
(*                                                                         *)
(* A byte has one bit more than a group of a varint: Group is 2^7 in the   *)
(* code and Byte 2^8.  A buffer is a sequence of bytes, a cursor the       *)
(* number of bytes before the next one.  A read is Fail, or the halves     *)
(* read and the cursor after them.                                         *)
(***************************************************************************)
EXTENDS JsInts, Sequences, FiniteSets

CONSTANT Group          \* 2^7

ASSUME GroupAssumption ==
    Group \in Nat /\ Group >= 2 /\ Half % Group = 0 /\ Half > Group

Byte == 2 * Group

(* A half takes LowSteps groups (shifts 0, 7, 14, 21, 28), the last of them *)
(* with Spill = 2^4 for the low half and Over = 2^3 for the high one, which *)
(* takes HighSteps groups more (shifts 3, 10, 17, 24, 31).                  *)
LowSteps == Cardinality({k \in 0 .. 4 : Group ^ k < Half})
FullLow == LowSteps - 1
Spill == Half \div Group ^ FullLow
Over == Group \div Spill
HighSteps == Cardinality({k \in 0 .. 4 : Over * Group ^ k < Half})
MAX_VARINT_SIZE == LowSteps + HighSteps
TopBits == (Half * Half) \div Group ^ (MAX_VARINT_SIZE - 1)    \* 2: one bit is left for the last byte

(* The bytes of a 32-bit word *)
BytesPerHalf == CHOOSE n \in 1 .. 16 : Byte ^ n >= Half /\ Byte ^ (n - 1) < Half

(* x & 0x7F, and that with the continuation bit *)
Bits(x) == x % Group
Flagged(x) == Bits(x) + Group

----------------------------------------------------------------------------
(* BinaryEncoder *)

WriteUnsignedVarint32[v \in Nat] ==
    IF v > Group - 1
    THEN <<Flagged(v)>> \o WriteUnsignedVarint32[UShr(v, Group)]
    ELSE <<v>>

(* A negative number takes ten bytes: nine groups of a signed shift, and 1, *)
(* the sign in the bits that are left.                                      *)
WriteSignedVarint32(v) ==
    IF v >= 0 THEN WriteUnsignedVarint32[v]
    ELSE Append([i \in 1 .. MAX_VARINT_SIZE - 1 |-> Flagged(Shr(v, Group ^ (i - 1)))],
                TopBits - 1)

WriteSplitVarint64[w \in HalfWord \X HalfWord] ==
    LET lo == w[1]
        hi == w[2]
    IN  IF hi > 0 \/ lo > Group - 1
        THEN <<Flagged(lo)>>
               \o WriteSplitVarint64[<<U32(UShr(lo, Group) + Shl(hi, Half \div Group)),
                                       UShr(hi, Group)>>]
        ELSE <<lo>>

WriteUint32(v) == [i \in 1 .. BytesPerHalf |-> UShr(v, Byte ^ (i - 1)) % Byte]
WriteSplitFixed64(w) == WriteUint32(w[1]) \o WriteUint32(w[2])

----------------------------------------------------------------------------
(* Writer.writeVarint64_ of the kernel: whole groups of the low half, the   *)
(* byte that straddles the halves, groups of the high half, the sign bit.   *)

KernelVarint64(hi, lo) ==
    LET Low(i) == UShr(lo, Group ^ i)                   \* i = 0 .. FullLow - 1
        LowEnds(i) == Low(i) < Group /\ hi = 0
        High(j) == UShr(hi, Over * Group ^ j)
        HighEnds(j) == High(j) < Group
        Put(x, more) == <<IF more THEN Flagged(x) ELSE Bits(x)>>
        split == (UShr(lo, Group ^ FullLow) % Spill) + (hi % Over) * Spill
        highLoop == HighSteps - 1
        HighBytes[j \in 0 .. highLoop] ==
            IF j = highLoop THEN <<High(j)>>
            ELSE Put(High(j), ~HighEnds(j))
                   \o (IF HighEnds(j) THEN <<>> ELSE HighBytes[j + 1])
        LowBytes[i \in 0 .. FullLow] ==
            IF i = FullLow
            THEN LET more == Shr(hi, Over) # 0
                 IN  Put(split, more) \o (IF more THEN HighBytes[0] ELSE <<>>)
            ELSE Put(Low(i), ~LowEnds(i))
                   \o (IF LowEnds(i) THEN <<>> ELSE LowBytes[i + 1])
    IN  LowBytes[0]

----------------------------------------------------------------------------
(* Reading *)

Fail == [ok |-> FALSE]
Got(lo, hi, cursor) == [ok |-> TRUE, lo |-> lo, hi |-> hi, cursor |-> cursor]

(* bytes_[i] past the array is undefined, which the bit operators take as 0 *)
At(b, i) == IF i < Len(b) THEN b[i + 1] ELSE 0
More(b, i) == At(b, i) >= Group

(* The bytes up to the first without the continuation bit, at most max *)
Span(b, c, max) ==
    IF \E n \in 1 .. max : ~More(b, c + n - 1)
    THEN CHOOSE n \in 1 .. max : /\ ~More(b, c + n - 1)
                                 /\ \A m \in 1 .. n - 1 : More(b, c + m - 1)
    ELSE max

(* The groups of bytes k .. n - 1 of a varint, shifted and or-ed into a     *)
(* half; what does not fit falls off.                                       *)
OrGroups(b, c, k, n, scale) ==
    LET Sum[i \in Nat] ==
            IF i >= n THEN 0
            ELSE U32(Bits(At(b, c + i)) * scale * Group ^ (i - k)) + Sum[i + 1]
    IN  Sum[k]

SetCursorAndCheck(r, end) == IF r.ok /\ r.cursor > end THEN Fail ELSE r

Min2(x, y) == IF x < y THEN x ELSE y

SplitVarint64(b, c, n) ==
    Got(OrGroups(b, c, 0, Min2(n, LowSteps), 1),
        (IF n >= LowSteps THEN Bits(At(b, c + FullLow)) \div Spill ELSE 0)
          + OrGroups(b, c, LowSteps, n, Over),
        c + n)
ReadSplitVarint64(b, c, end) ==
    LET n == Span(b, c, MAX_VARINT_SIZE)
    IN  IF More(b, c + n - 1) THEN Fail
        ELSE SetCursorAndCheck(SplitVarint64(b, c, n), end)

\* A slip: the bytes of a 64-bit varint past the low half are left unread.
ReadSignedVarint32Short(b, c, end) ==
    LET first == Span(b, c, LowSteps)
    IN  SetCursorAndCheck(Got(I32(OrGroups(b, c, 0, first, 1)), 0, c + first), end)

(* Five bytes by hand, then up to five more that only move the cursor.      *)
ReadSignedVarint32(b, c, end) ==
    LET n == Span(b, c, MAX_VARINT_SIZE)
    IN  IF More(b, c + n - 1) THEN Fail
        ELSE SetCursorAndCheck(
               Got(I32(OrGroups(b, c, 0, Min2(n, LowSteps), 1)), 0, c + n), end)

(* readBool and skipVarint; the halves hold whether any bit was set.        *)
ReadBool(b, c, end) ==
    LET n   == Span(b, c, MAX_VARINT_SIZE)
        any == \E i \in 0 .. n - 1 : Bits(At(b, c + i)) # 0
    IN  IF More(b, c + n - 1) THEN Fail
        ELSE SetCursorAndCheck(Got(IF any THEN 1 ELSE 0, 0, c + n), end)

(* readUnsignedVarint32IfEqualTo: the cursor after expected, if it is there *)
(* in its shortest form.                                                    *)
ReadIfEqualTo(b, c, end, expected) ==
    LET want == WriteUnsignedVarint32[expected]
    IN  IF /\ c + Len(want) <= end
           /\ \A i \in 1 .. Len(want) : At(b, c + i - 1) = want[i]
        THEN Got(expected, 0, c + Len(want))
        ELSE Fail

(* readUint32 and readSplitFixed64, whose loop shifts the bytes after the   *)
(* eight it wants through the high half and out again.                      *)
ReadUint32(b, c, end) ==
    LET Sum[i \in 0 .. BytesPerHalf] ==
            IF i = BytesPerHalf THEN 0 ELSE At(b, c + i) * Byte ^ i + Sum[i + 1]
    IN  SetCursorAndCheck(Got(U32(Sum[0]), 0, c + BytesPerHalf), end)

ReadSplitFixed64(b, c, end) ==
    LET Loop[i \in 0 .. 2 * BytesPerHalf] ==    \* after the bytes from i up
            IF i = 2 * BytesPerHalf THEN <<0, 0>>
            ELSE LET w == Loop[i + 1]
                 IN  <<Shl(w[1], Byte) + At(b, c + i),
                       Shl(w[2], Byte) + At(b, c + i + BytesPerHalf)>>
    IN  SetCursorAndCheck(Got(I32(Loop[0][1]), I32(Loop[0][2]), c + 2 * BytesPerHalf), end)

----------------------------------------------------------------------------
(* BufferDecoder: getUint8 throws past the buffer, but nothing stops a read *)
(* at the end of a decoder over a part of it.                               *)

InBuffer(b, r) == IF r.ok /\ r.cursor > Len(b) THEN Fail ELSE r

GetVarint(b, c) ==
    LET n      == Span(b, c, MAX_VARINT_SIZE)
        low    == OrGroups(b, c, 0, Min2(n, FullLow), 1)
        middle == IF n > FullLow THEN Bits(At(b, c + FullLow)) ELSE 0
    IN  IF More(b, c + n - 1) THEN Fail
        ELSE InBuffer(b, Got(I32(low + (middle % Spill) * Group ^ FullLow),
                             I32((middle \div Spill)
                                   + OrGroups(b, c, LowSteps, n, Over)),
                             c + n))

GetUnsignedVarint32(b, c) ==
    LET n    == Span(b, c, MAX_VARINT_SIZE)
        low  == OrGroups(b, c, 0, Min2(n, FullLow), 1)
        last == IF n > FullLow THEN At(b, c + FullLow) % Spill ELSE 0
    IN  IF More(b, c + n - 1) THEN Fail
        ELSE InBuffer(b, Got(low + last * Group ^ FullLow, 0, c + n))

(* skipVarint scans to the last byte of the varint and counts afterwards.   *)
SkipVarint(b, c) ==
    LET n == Span(b, c, Len(b) - c + 1)
    IN  IF n > MAX_VARINT_SIZE THEN Fail ELSE InBuffer(b, Got(0, 0, c + n))

GetUint32(b, c) == InBuffer(b, ReadUint32(b, c, Len(b)))
=============================================================================
