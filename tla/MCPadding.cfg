SPECIFICATION PadSpec
CONSTANTS
    ByteValues = 4
    Buckets = {4, 8, 16, 32}
INVARIANT PaddingStripped
CHECK_DEADLOCK FALSE
