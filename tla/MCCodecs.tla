------------------------------ MODULE MCCodecs ------------------------------
(* Codecs at widths TLC can enumerate: halves of 12 bits in bytes of 6, 5   *)
(* bits of a varint to a byte, doubles exact up to 2^21 = 2 * Mant64 * Half *)
(* (2^53 in the code), decimal strings in base 3.                           *)
EXTENDS Codecs

MCHalfSample ==
    LET powers == {0} \union {2 ^ k : k \in 0 .. 12}
    IN  {n % 4096 : n \in UNION {{p - 1, p, p + 1} : p \in powers}} \union {1000, 3000}
MCNumberSample ==
    LET edges == {0, 1, 15, 16, 31, 32, 1023, 1024, 2047, 2048, 2049, 4095, 4096, 4097,
                  16352, 65536, 2 ^ 21 - 1, 2 ^ 21, 2 ^ 21 + 256, 2 ^ 23 - 1, 2 ^ 23,
                  2 ^ 24 - 256, 2 ^ 24 - 1, 2 ^ 24}
    IN  edges \union {-n : n \in edges}
MCMoreNumbers == {-(2 ^ 23), -2048, -1, 0, 1, 31, 32, 2047, 2 ^ 21, 2 ^ 24 - 1}
MCByteSample == {0, 1, 16, 32, 63}

Field(num, wire, head, content, tail) ==
    [num |-> num, wire |-> wire, head |-> head, content |-> content, tail |-> tail]
MCFieldSample ==
    {Field(num, 0, <<>>, p, <<>>) : num \in {1, 3, 4}, p \in {<<1>>, <<34, 1>>}}
      \union {Field(num, 5, <<>>, <<0, 40>>, <<>>) : num \in {1, 4, 128}}
      \union {Field(num, 1, <<>>, <<8, 1, 63, 63>>, <<>>) : num \in {1, 4}}
      \union {Field(num, 2, <<0>>, <<>>, <<>>) : num \in {1, 4, 132}}
      \union {Field(num, 2, <<2>>, <<8, 1>>, <<>>) : num \in {1, 4, 132}}
      \union {Field(num, 2, <<33, 0>>, <<8>>, <<>>) : num \in {1, 4, 132}}
      \union {Field(1, 3, <<>>, <<>>, <<12>>), Field(4, 3, <<>>, <<11, 8, 1, 12>>, <<36, 1>>)}
MCRawSample == {0, 1, 8, 10, 11, 12, 13, 32, 35, 44}
MCUnitSample == {65, 127, 128, 2047, 2048, 55295, 55296, 56319, 56320, 57343, 57344, 65535}
MCUtf8Sample == {65, 128, 143, 144, 159, 160, 191, 193, 194, 224, 237, 240, 244, 245}
=============================================================================
