SPECIFICATION FairSpec
CONSTANTS
    None = None
    kMultipartSizeBytes = 4
    kDynamoDbMaxItemSizeBytes = 7
    kS3ReadRequestSizeBytes = 24
    kReadRequestPaddingSizeBytes = 4
    kPadding = 6
    kMaxDictionaryHeaderSize = 2
    kParquetFooterSizeBytes = 8
    kParquetFooterMetadataOffsetBytes = 2
    LookAhead = 3
    kLastByteInFile = 127
    Exports <- AllExports
    Faults = {"create", "part", "abort", "complete", "put", "write"}
    ReadFaults = {"head", "get", "tail"}
    ByteRanges <- SmallRanges
INVARIANTS StoredIsComplete WriterOutlivesCallbacks ColumnsAreRead LinesAreRead RangesAreRead
PROPERTY ExportEnds
CHECK_DEADLOCK FALSE
