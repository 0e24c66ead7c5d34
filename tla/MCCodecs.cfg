CONSTANTS
    Half = 4096
    Safe = 2097152
    Decimal = 3
    JoinDigits = 5
    SplitDigits = 3
    Chunk = 512
    Group = 32
    ExpLimit = 8
    Mant32 = 256
    Mant64 = 256
    HalfSample <- MCHalfSample
    NumberSample <- MCNumberSample
    MoreNumbers <- MCMoreNumbers
    ByteSample <- MCByteSample
    FieldSample <- MCFieldSample
    RawSample <- MCRawSample
    UnitSample <- MCUnitSample
    Utf8Sample <- MCUtf8Sample
    MaxValues = 2
    MaxBytes = 6
    MaxFields = 3
    MaxRaw = 4
    MaxUnits = 3
    MaxUtf8 = 4
SPECIFICATION Spec
INVARIANTS
    HalvesMeanIntegers
    WhatIsWrittenIsRead
    RefusedOrWrittenAsItself
    VarintReadersAgree
    IndexIsTheFields
    IndexStaysInside
    Utf8MeansText
CHECK_DEADLOCK FALSE
