CONSTANTS
    UShortMax = 255
    UIntMax = 65535
    Processors = 4
    ARGUMENT_MIN_INTERVAL_DEFAULT = 239
    ARGUMENT_MAX_INTERVAL_DEFAULT = 1799
    Names <- MCNames
    URI_PARAM_VALUE_LENGTH = 2
    URI_PATH_LENGTH = 5
    BLOCK_START_ALLOCATE_SIZE = 2000
    BLOCK_MIN_FREE_ALLOCATE_SIZE = 2000
    BLOCK_MIN_RE_ALLOC_MULTIPLY = 2
    MaxOptions = 2
    Numbers <- MCNumbers
    MaxRequests = 2
    Fragments = 2
    Requests <- MCRequests
    BodySizes = {0, 2000, 9000}
    FormatLengths = {100}
    ContentType = 1000
    LineLength = 24
SPECIFICATION Spec
INVARIANTS ConfigUsable ConnectionHeaderTruth RepliesFit ParsedAsWritten RequestPending
CHECK_DEADLOCK FALSE
