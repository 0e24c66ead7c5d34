------------------------------ MODULE MCKernel ------------------------------
EXTENDS Kernel

CONSTANTS v1, v2, e, c

Swaps == Permutations(Kernels)

Entry(f, w, d) == [field |-> f, wire |-> w, data |-> d]

\* One field of each kind: 1 scalar, 2 packable, 3 message, 4 group, 5 repeated messages.
MCBuffers ==
  {<<>>,
   <<Entry(1, "VARINT", v1), Entry(1, "VARINT", v2)>>,
   <<Entry(1, "FIXED32", v1), Entry(2, "FIXED32", v1)>>,
   <<Entry(2, "DELIMITED", <<>>)>>,
   <<Entry(2, "VARINT", v1), Entry(2, "DELIMITED", <<v2>>)>>,
   <<Entry(3, "DELIMITED", c), Entry(3, "DELIMITED", e), Entry(4, "START_GROUP", c)>>,
   <<Entry(4, "START_GROUP", c), Entry(4, "START_GROUP", e)>>,
   <<Entry(5, "DELIMITED", c), Entry(5, "DELIMITED", e)>>}
=============================================================================
