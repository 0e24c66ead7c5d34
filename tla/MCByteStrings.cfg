CONSTANTS
    Bufs = {1, 2, 3}
    Strings = {1, 2}
    Readers = {1}
    Decoders = {2, 3}
    Bytes = {0, 1}
    Sources <- MCSources
    PoolLimit = 1
    MaxWritten = 2
    Null = Null
    MaxWeight = 4
CONSTRAINT Bounded
SPECIFICATION Spec
INVARIANTS
    TypeOK
    ByteStringsNeverChange
    ArraysAreTheCallersOwn
    ReadersAreApart
