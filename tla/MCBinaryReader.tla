--------------------------- MODULE MCBinaryReader ---------------------------
EXTENDS BinaryReader

CONSTANT MaxShort, MaxLong

SeqsUpTo(S, n) == UNION {[1..k -> S] : k \in 0..n}

\* 1, 2: values, lengths, invalid tags; 32, 34: IntField as a varint and packed;
\* 18: MsgField; 27, 28: GroupField; 48: an unknown varint; 51, 52: an unknown group;
\* 42: MapField; 128: the first byte of two.
Short == SeqsUpTo({1, 2, 32, 34, 18, 27, 28, 48, 51, 52, 42, 128}, MaxShort)

\* Deeper nesting, map entries, and fixed-width unknown fields.
Long == SeqsUpTo({2, 18, 27, 28, 51, 52}, MaxLong)
Entries == {<<42, n>> \o s : n \in 0..4, s \in [1..4 -> {1, 8, 16, 32}]}

\* Items of a message set (11 .. 12): type ids (16), messages (26) with a field, a group
\* that does not end or more bytes than there are, unknown fields, some with the number of
\* the type id or the message, and an item inside the item.
SetFields == {<<16, 2>>, <<16, 0>>, <<16, 129, 1>>, <<26, 2, 32, 1>>, <<26, 0>>, <<26, 1, 27>>, <<26, 9>>,
              <<48, 1>>, <<24, 1>>, <<51, 16, 1, 52>>, <<11>>, <<52>>}
Items == {<<11>> \o s \o t \o u \o e : s, t, u \in SetFields \union {<<>>},
                                       e \in {<<>>, <<12>>, <<12, 32, 1>>}}
         \union {<<18, n, 11, 26, 2, 32, 1, 16, 2>> \o e : n \in {8, 10}, e \in {<<>>, <<12>>, <<12, 32, 1>>, <<28>>}}
         \union {<<11, 26, 8, 11, 26, 2, 32, 1, 16, 5, 12, 16, 3, 12>>}

\* Unknown fixed32 (53), fixed64 (49) and bytes (50) fields, whole and cut short; known
\* fields with a wrong wire type (37, 16, 24); END_GROUP of IntField (36), a field of the
\* message set's number that is no group (8).
Others == {<<53>> \o s \o <<32, 1>> : s \in [1..4 -> {28}]}
          \union {<<49>> \o s : s \in [1..8 -> {1}] \union [1..7 -> {1}]}
          \union {<<50, 1, 32, 34, 2, 128, 1>>, <<18, 3, 37, 1, 1>>, <<16, 1>>, <<24, 1>>, <<36>>,
                  <<8, 1, 32, 1>>}

MCBuffers == {b \in Short \union Long \union Entries \union Others \union Items :
                \A i \in 1 .. Len(b) - 1 : b[i] = 128 => b[i + 1] # 128}
             \union {[i \in 1..11 |-> 128]}  \* a varint that does not end

MCReused == {<<>>, <<51, 32, 1, 52>>, <<18, 2, 32, 1>>}
=============================================================================
