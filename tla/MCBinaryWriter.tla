--------------------------- MODULE MCBinaryWriter ---------------------------
EXTENDS BinaryWriter

\* A value of ten bytes and one of two.
MCInts == {-1, 300}

\* BytesField has a tag of two bytes: an embedded message that holds the second of these
\* alone is 128 bytes long, the shortest that takes a length of two bytes.
MCPayloads == {[i \in 1..n |-> 9] : n \in {0, 125}}

MCRaw == {<<48, 1>>}
=============================================================================
