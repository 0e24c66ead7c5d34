-------------------------------- MODULE Utf8 --------------------------------
(***************************************************************************)
(* Text in UTF-8: the encoder and decoder of src/binary/utf8.js that stand *)
(* in for TextEncoder and TextDecoder, and those of the kernel's           *)
(* textencoding.js.  A text is a sequence of UTF-16 code units.  What      *)
(* TextDecoder does is stated from the Unicode Standard, for comparison.   *)
(***************************************************************************)
EXTENDS Integers, Sequences, SequencesExt

Invalid == 65533        \* 0xFFFD, the replacement character

IsHigh(c) == 55296 <= c /\ c <= 56319           \* 0xD800 .. 0xDBFF
IsLow(c)  == 56320 <= c /\ c <= 57343           \* 0xDC00 .. 0xDFFF
\* A slip: the upper half of the bytes counts as trailing.
IsTrailingOrLeading(byte) == byte >= 128

IsTrailing(byte) == 128 <= byte /\ byte < 192

Low6(x) == x % 64
Trail(x) == 128 + Low6(x)

(* A code point in the UTF-8 of its size, and in UTF-16 *)
Two(c)   == <<192 + c \div 64, Trail(c)>>
Three(c) == <<224 + c \div 4096, Trail(c \div 64), Trail(c)>>
Four(p)  == <<240 + p \div 262144, Trail(p \div 4096), Trail(p \div 64), Trail(p)>>
Pair(p)  == <<55296 + (((p - 65536) \div 1024) % 1024), 56320 + ((p - 65536) % 1024)>>

Bytes2(c1, c2) == (c1 % 32) * 64 + Low6(c2)
Bytes3(c1, c2, c3) == (c1 % 16) * 4096 + Low6(c2) * 64 + Low6(c3)
Bytes4(c1, c2, c3, c4) == (c1 % 8) * 262144 + Low6(c2) * 4096 + Low6(c3) * 64 + Low6(c4)

Done(s) == [ok |-> TRUE, s |-> s]
Threw == [ok |-> FALSE, s |-> <<>>]
Then(s, r) == IF r.ok THEN Done(s \o r.s) ELSE Threw

----------------------------------------------------------------------------
(* polyfillEncode *)

PolyfillEncode(text, rejectUnpaired) ==
    LET From[i \in Nat] ==
            LET c  == text[i]
                c2 == IF i < Len(text) THEN text[i + 1] ELSE -1     \* NaN
            IN  CASE i > Len(text) -> Done(<<>>)
                  [] i <= Len(text) /\ c < 128 -> Then(<<c>>, From[i + 1])
                  [] i <= Len(text) /\ 128 <= c /\ c < 2048 -> Then(Two(c), From[i + 1])
                  [] i <= Len(text) /\ IsHigh(c) /\ IsLow(c2) ->
                        Then(Four((c - 55296) * 1024 + c2 - 56320 + 65536), From[i + 2])
                  [] i <= Len(text) /\ (IsLow(c) \/ (IsHigh(c) /\ ~IsLow(c2))) ->
                        IF rejectUnpaired THEN Threw ELSE Then(Three(Invalid), From[i + 1])
                  [] OTHER -> Then(Three(c), From[i + 1])
    IN  From[1]

(* checkWellFormed: the text has no surrogate without its other half. *)
WellFormedText(text) ==
    \A i \in DOMAIN text :
        /\ IsHigh(text[i]) => i < Len(text) /\ IsLow(text[i + 1])
        /\ IsLow(text[i])  => i > 1 /\ IsHigh(text[i - 1])

----------------------------------------------------------------------------
(* polyfillDecodeUtf8: at an error the byte that showed it is not consumed  *)

PolyfillDecode(bytes, fatal) ==
    LET end == Len(bytes)
        From[i \in Nat] ==
            LET B(k) == bytes[i + k]
                left == end - i             \* bytes after this one
                Bad(k) == IF fatal THEN Threw ELSE Then(<<Invalid>>, From[i + k])
                bad2 == ~IsTrailing(B(1))
                bad3 == \/ bad2
                        \/ B(0) = 224 /\ B(1) < 160             \* overlong
                        \/ B(0) = 237 /\ B(1) >= 160            \* a surrogate
                bad4 == bad2 \/ ((B(0) % 16) * 268435456 + (B(1) - 144)) \div 1073741824 # 0
            IN  CASE i > end -> Done(<<>>)
                  [] i <= end /\ B(0) < 128 -> Then(<<B(0)>>, From[i + 1])
                  [] i <= end /\ 128 <= B(0) /\ B(0) < 224 ->
                        IF left < 1 \/ B(0) < 194 \/ bad2 THEN Bad(1)
                        ELSE Then(<<Bytes2(B(0), B(1))>>, From[i + 2])
                  [] i <= end /\ 224 <= B(0) /\ B(0) < 240 ->
                        IF left < 2 \/ bad3 THEN Bad(1)
                        ELSE IF ~IsTrailing(B(2)) THEN Bad(2)
                        ELSE Then(<<Bytes3(B(0), B(1), B(2))>>, From[i + 3])
                  [] i <= end /\ 240 <= B(0) /\ B(0) <= 244 ->
                        IF left < 3 \/ bad4 THEN Bad(1)
                        ELSE IF ~IsTrailing(B(2)) THEN Bad(2)
                        ELSE IF ~IsTrailing(B(3)) THEN Bad(3)
                        ELSE Then(Pair(Bytes4(B(0), B(1), B(2), B(3))), From[i + 4])
                  [] OTHER -> Bad(1)
    IN  From[1]

----------------------------------------------------------------------------
(* textencoding.js of the kernel takes every continuation byte on trust,    *)
(* and every unit after a surrogate for its other half.                     *)

KernelEncodeText(text) ==
    LET From[i \in Nat] ==
            LET c == text[i]
                paired == 65536 + (c % 1024) * 1024 + (text[i + 1] % 1024)
            IN  CASE i > Len(text) -> Done(<<>>)
                  [] i <= Len(text) /\ c < 128 -> Then(<<c>>, From[i + 1])
                  [] i <= Len(text) /\ 128 <= c /\ c < 2048 -> Then(Two(c), From[i + 1])
                  [] i <= Len(text) /\ c >= 2048 /\ ~IsHigh(c) /\ ~IsLow(c) ->
                        Then(Three(c), From[i + 1])
                  [] OTHER -> IF i = Len(text) THEN Threw ELSE Then(Four(paired), From[i + 2])
    IN  From[1]

KernelDecodeText(bytes) ==
    LET From[i \in Nat] ==
            LET B(k) == bytes[i + k]
                left == Len(bytes) - i
            IN  CASE i > Len(bytes) -> Done(<<>>)
                  [] i <= Len(bytes) /\ B(0) < 128 -> Then(<<B(0)>>, From[i + 1])
                  [] i <= Len(bytes) /\ 192 <= B(0) /\ B(0) < 224 ->
                        IF left < 1 THEN Threw ELSE Then(<<Bytes2(B(0), B(1))>>, From[i + 2])
                  [] i <= Len(bytes) /\ 224 <= B(0) /\ B(0) < 240 ->
                        IF left < 2 THEN Threw
                        ELSE Then(<<Bytes3(B(0), B(1), B(2))>>, From[i + 3])
                  [] i <= Len(bytes) /\ 240 <= B(0) /\ B(0) < 248 ->
                        IF left < 3 THEN Threw
                        ELSE Then(Pair(Bytes4(B(0), B(1), B(2), B(3))), From[i + 4])
                  [] OTHER -> From[i + 1]       \* out of sync: skipped
    IN  From[1]

----------------------------------------------------------------------------
(* TextDecoder: the well-formed sequences of the Unicode Standard (table    *)
(* 3-7); what is none is replaced, one replacement for each longest part    *)
(* that begins a well-formed sequence.                                      *)

SecondByte(b1) ==
    CASE b1 = 224 -> 160 .. 191
      [] b1 = 237 -> 128 .. 159
      [] b1 = 240 -> 144 .. 191
      [] b1 = 244 -> 128 .. 143
      [] OTHER    -> 128 .. 191

SizeOf(b1) ==
    CASE b1 < 128                 -> 1
      [] 194 <= b1 /\ b1 < 224    -> 2
      [] 224 <= b1 /\ b1 < 240    -> 3
      [] 240 <= b1 /\ b1 <= 244   -> 4
      [] OTHER                    -> 0

(* How many of the bytes from i on begin a well-formed sequence *)
GoodBytes(bytes, i) ==
    LET size == SizeOf(bytes[i])
        Good(n) == /\ n <= size /\ i + n - 1 <= Len(bytes)
                   /\ n >= 2 => bytes[i + 1] \in SecondByte(bytes[i])
                   /\ \A k \in 2 .. n - 1 : IsTrailing(bytes[i + k])
    IN  CHOOSE n \in 0 .. 4 : Good(n) /\ ~Good(n + 1)

CodeUnits(bytes, i, size) ==
    CASE size = 1 -> <<bytes[i]>>
      [] size = 2 -> <<(bytes[i] - 192) * 64 + bytes[i + 1] - 128>>
      [] size = 3 -> <<((bytes[i] - 224) * 64 + bytes[i + 1] - 128) * 64 + bytes[i + 2] - 128>>
      [] size = 4 -> LET p == (((bytes[i] - 240) * 64 + bytes[i + 1] - 128) * 64
                                  + bytes[i + 2] - 128) * 64 + bytes[i + 3] - 128
                     IN  <<55296 + (p - 65536) \div 1024, 56320 + ((p - 65536) % 1024)>>

TextDecoderDecode(bytes) ==
    LET From[i \in Nat] ==
            LET good == GoodBytes(bytes, i)
            IN  CASE i > Len(bytes) -> <<>>
                  [] i <= Len(bytes) /\ good = SizeOf(bytes[i]) /\ good > 0 ->
                        CodeUnits(bytes, i, good) \o From[i + good]
                  [] OTHER -> <<Invalid>> \o From[i + (IF good = 0 THEN 1 ELSE good)]
    IN  From[1]

WellFormedBytes(bytes) ==
    LET Ok[i \in Nat] ==
            i <= Len(bytes) => LET good == GoodBytes(bytes, i)
                               IN  good > 0 /\ good = SizeOf(bytes[i]) /\ Ok[i + good]
    IN  Ok[1]

(* A sequence has begun well but has no room for all its bytes. *)
CutShort(bytes) ==
    \E i \in DOMAIN bytes :
        GoodBytes(bytes, i) >= 2 /\ SizeOf(bytes[i]) > Len(bytes) - i + 1
=============================================================================
