---------------------------- MODULE KernelValues ----------------------------
(***************************************************************************)
(* The scalar values of the experimental kernel: its Writer and its reader *)
(* functions (src/experimental/runtime/kernel/writer.js, reader.js).  A    *)
(* 64-bit value is an Int64, <<lo, hi>> with signed halves; the kernel     *)
(* reads and writes its floats with a DataView and they are left out.      *)
(***************************************************************************)
EXTENDS Int64, WireBytes

KernelTypes64 == {"int64", "sint64", "sfixed64"}
KernelTypes32 == {"int32", "uint32", "sint32", "fixed32", "sfixed32", "bool"}
KernelSize(t) ==
    CASE t \in {"fixed32", "sfixed32"} -> BytesPerHalf
      [] t = "sfixed64"                -> 2 * BytesPerHalf
      [] t = "bool"                    -> 1

(* writeBoolValue_, writeInt32Value_, writeUint32Value_, writeSint32Value_, *)
(* writeFixed32Value_, writeSfixed32Value_                                  *)
KernelEncode32(t, n) ==
    CASE t = "int32"  -> KernelVarint64(IF n >= 0 THEN 0 ELSE Half - 1, n)
      [] t = "uint32" -> KernelVarint64(0, n)
      [] t = "sint32" -> KernelVarint64(0, XorMask(Shl(n, 2), Shr(n, Half \div 2)))
      [] t = "bool"   -> <<IF n # 0 THEN 1 ELSE 0>>
      [] t \in {"fixed32", "sfixed32"} -> WriteUint32(n)

(* writeInt64, writeSfixed64Value_, writeSint64Value_ *)
KernelEncode64(t, w) ==
    LET sign == Shr(w[2], Half \div 2)
        low  == XorMask(Shl(w[1], 2), sign)
        high == XorMask(Shl(w[2], 2) + UShr(w[1], Half \div 2), sign)
    IN  CASE t = "int64"    -> KernelVarint64(w[2], w[1])
          [] t = "sint64"   -> KernelVarint64(high, low)
          [] t = "sfixed64" -> WriteUint32(w[1]) \o WriteUint32(w[2])

KernelEncode(t, v) ==
    IF t \in KernelTypes64 THEN KernelEncode64(t, v) ELSE KernelEncode32(t, v)

(* writePackedBool .. writePackedUint32: writeFixedPacked_ multiplies, while *)
(* writeVariablePacked_ writes the values with a Writer of their own.        *)
KernelWritePacked(t, vs) ==
    LET Measured(payload) ==
            LET length == IF t \in {"bool", "fixed32", "sfixed32", "sfixed64"}
                          THEN Len(vs) * KernelSize(t) ELSE Len(payload)
            IN  WriteUnsignedVarint32[length] \o payload
    IN  IF vs = <<>> THEN <<>>
        ELSE Measured(FlattenSeq([i \in DOMAIN vs |-> KernelEncode(t, vs[i])]))

KernelValue(v, cursor) == [ok |-> TRUE, value |-> v, cursor |-> cursor]

(* readBool, readInt32, readInt64, readSint64, readSint32, readUint32 *)
KernelOfBits(t, lo, hi) ==
    LET sign  == -(lo % 2)
        zig64 == FromBits(XorMask(UShr(lo, 2) + Shl(hi % 2, Half \div 2), sign),
                          XorMask(UShr(hi, 2), sign))
    IN  CASE t \in {"int32", "sfixed32"} -> I32(lo)
          [] t \in {"uint32", "fixed32"} -> lo
          [] t \in {"int64", "sfixed64"} -> FromBits(lo, hi)
          [] t = "sint64" -> zig64
          [] t = "sint32" -> zig64[1]
          [] t = "bool"   -> IF lo # 0 \/ hi # 0 THEN 1 ELSE 0
KernelOf(t, r) == IF r.ok THEN KernelValue(KernelOfBits(t, r.lo, r.hi), r.cursor) ELSE Fail

KernelReadVarint(t, b, c) ==
    KernelOf(t, IF t \in {"int32", "uint32"} THEN GetUnsignedVarint32(b, c)
                                             ELSE GetVarint(b, c))

(* readFixed32, readSfixed32, readSfixed64 *)
KernelReadFixed(t, b, c) ==
    LET Both(lo, hi) == IF lo.ok /\ hi.ok THEN Got(lo.lo, hi.lo, hi.cursor) ELSE Fail
    IN  KernelOf(t, IF t = "sfixed64" THEN Both(GetUint32(b, c), GetUint32(b, c + BytesPerHalf))
                                      ELSE GetUint32(b, c))

KernelRead(t, b, c) ==
    IF t \in {"fixed32", "sfixed32", "sfixed64"} THEN KernelReadFixed(t, b, c)
                                                 ELSE KernelReadVarint(t, b, c)

(* readPacked and the readPacked functions of the types *)
KernelReadPacked(t, b, c) ==
    LET From[cursor \in Nat, end \in Nat] ==
            LET Before(r, rest) ==
                    IF rest.ok THEN [rest EXCEPT !.values = <<r.value>> \o @] ELSE Fail
                First(r) == IF r.ok THEN Before(r, From[r.cursor, end]) ELSE Fail
            IN  IF cursor >= end THEN [ok |-> TRUE, values |-> <<>>, cursor |-> cursor]
                ELSE First(KernelRead(t, b, cursor))
        Packed(length) ==
            IF length.ok THEN From[length.cursor, length.cursor + length.lo] ELSE Fail
    IN  Packed(GetUnsignedVarint32(b, c))
=============================================================================
