--------------------------- MODULE MCByteStrings ---------------------------
(* ByteStrings with three ArrayBuffers, two ByteStrings, one reader and two *)
(* decoders; any buffer and any ByteString may play any part.               *)
EXTENDS ByteStrings, TLC

CONSTANT MaxWeight

MCSources == {<<0>>}
(* Bounds a run: how much there may be at once.  Readers and decoders count  *)
(* double, live or in a pool; and they, which meet the writer through arrays *)
(* and ByteStrings, are not busy when it is.                                *)
LiveHandles == {x \in Handles : Live(x)}
Weight == Cardinality(held) + Cardinality({s \in Strings : string[s] # Null}) + Len(blocks)
            + 2 * Cardinality(LiveHandles)
            + 2 * (Len(readerPool) + Len(decoderPool))
Bounded == Weight <= MaxWeight /\ (LiveHandles = {} \/ blocks = <<>>)
=============================================================================
