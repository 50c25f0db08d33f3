--------------------------- MODULE ObjectFormats ---------------------------
(***************************************************************************)
(* What is done to the bytes of an object in memory: the buffers they are  *)
(* read into (src/lib/storage/io_handle/object_buffer.cpp), the byte       *)
(* ranges the Parquet reader asks for                                      *)
(* (src/lib/storage/formats/parquet_metadata_reader.cpp), and the CSV      *)
(* writer and reader (src/lib/storage/formats/csv_{writer,reader}.cpp).    *)
(*                                                                         *)
(* A byte is a model value or a string.  Offsets count from 0, a range is  *)
(* <<first, end>> without the end, as in ObjectBuffer.                     *)
(***************************************************************************)
EXTENDS Integers, Sequences, FiniteSets, SequencesExt, FiniteSetsExt, ByteBuffers

CONSTANTS
    kS3ReadRequestSizeBytes,       \* size of one read request
    kReadRequestPaddingSizeBytes,  \* gap that two column ranges are merged over
    kPadding,                      \* padding behind a row group
    kMaxDictionaryHeaderSize,      \* padding behind a column of an old file
    kParquetFooterSizeBytes,       \* first guess at the size of a footer
    kParquetFooterMetadataOffsetBytes,
    LookAhead                      \* num_lines_look_ahead

ASSUME FormatsAssumption ==
    /\ kS3ReadRequestSizeBytes \in Nat \ {0}
    /\ kReadRequestPaddingSizeBytes \in Nat /\ kPadding \in Nat
    /\ kMaxDictionaryHeaderSize \in Nat
    /\ kParquetFooterMetadataOffsetBytes \in Nat \ {0}
    /\ kParquetFooterSizeBytes \in Nat
    /\ kParquetFooterSizeBytes >= kParquetFooterMetadataOffsetBytes
    /\ LookAhead \in Nat \ {0}

Slice(bytes, first, end) == SubSeq(bytes, first + 1, end)
Smaller(m, n) == IF m < n THEN m ELSE n
Before(r, s) == r[1] < s[1] \/ (r[1] = s[1] /\ r[2] < s[2])
Computed(s) == s \o <<>>  \* s itself, evaluated by TLC only once
FirstRange(ranges) == CHOOSE r \in ranges : \A q \in ranges : q = r \/ Before(r, q)
LastRange(ranges) == CHOOSE r \in ranges : \A q \in ranges : q = r \/ Before(q, r)

(***************************************************************************)
(* ObjectBuffer: byte buffers by range.  A read is served from the first   *)
(* buffer that holds all of it, or merged from the one that holds its      *)
(* beginning and the later ones; what no buffer holds is 0.                *)
(***************************************************************************)
AssertionFails == <<"assertion">>

AddBuffer(buffers, range, bytes) ==
    [r \in DOMAIN buffers \cup {range} |-> IF r \in DOMAIN buffers THEN buffers[r] ELSE bytes]

MergeBuffers(buffers, ranges, offset, n) ==
    LET end == Max({r[2] : r \in ranges})
        Holding(p) == {r \in ranges : r[1] <= p /\ p < r[2]}
        ByteAt(p) ==
            IF Holding(p) = {} THEN Zero
            ELSE LET r == LastRange(Holding(p)) IN buffers[r][p - r[1] + 1]
    IN  IF ranges = {} THEN <<>>
        ELSE IF \E r \in ranges : Len(buffers[r]) # r[2] - r[1] THEN AssertionFails
        ELSE Computed([i \in 1 .. Smaller(n, end - offset) |-> ByteAt(offset + i - 1)])

ReadBuffer(buffers, offset, n) ==
    LET whole == {r \in DOMAIN buffers : r[1] <= offset /\ r[2] >= offset + n}
        begin == {r \in DOMAIN buffers : r[1] <= offset /\ r[2] > offset}
        later == {r \in DOMAIN buffers : r[1] > offset /\ r[1] < offset + n}
        first == FirstRange(whole)
    IN  IF whole # {} THEN Slice(buffers[first], offset - first[1], offset - first[1] + n)
        ELSE MergeBuffers(buffers, IF begin = {} THEN {} ELSE begin \cup later, offset, n)

(***************************************************************************)
(* Parquet.  A file is a magic byte, the column chunks of its row groups,  *)
(* the metadata and the fixed end of the footer.  A column chunk has a     *)
(* dictionary page, of 0 bytes if there is none, and data pages.           *)
(***************************************************************************)
ChunkLength(column) == column.dictionary + column.data

Total(lengths, n) ==
    LET total[i \in 0 .. Len(lengths)] == IF i = 0 THEN 0 ELSE total[i - 1] + lengths[i]
    IN  total[n]

ChunkLengths(group) == [c \in DOMAIN group |-> ChunkLength(group[c])]
GroupLength(group) == Total(ChunkLengths(group), Len(group))
GroupLengths(file) == [g \in DOMAIN file.groups |-> GroupLength(file.groups[g])]
GroupStart(file, g) == 1 + Total(GroupLengths(file), g - 1)
ChunkStart(file, g, c) == GroupStart(file, g) + Total(ChunkLengths(file.groups[g]), c - 1)
FooterStart(file) == GroupStart(file, Len(file.groups) + 1)
FileSize(file) == FooterStart(file) + file.metadata + kParquetFooterMetadataOffsetBytes

DataPageOffset(file, g, c) == ChunkStart(file, g, c) + file.groups[g][c].dictionary
DictionaryPageOffset(file, g, c) == ChunkStart(file, g, c)

(* The writes of the Parquet library: magic, column chunks, footer.        *)
ParquetWrites(file) ==
    LET Bytes(first, end) == [i \in 1 .. end - first |-> first + i - 1]
        chunks == FlattenSeq([g \in DOMAIN file.groups |->
                                [c \in DOMAIN file.groups[g] |-> <<g, c>>]])
    IN  <<Bytes(0, 1)>>
        \o [i \in DOMAIN chunks |->
               LET g == chunks[i][1]
                   c == chunks[i][2]
                   start == ChunkStart(file, g, c)
               IN  Bytes(start, start + ChunkLength(file.groups[g][c]))]
        \o <<Bytes(FooterStart(file), FileSize(file))>>

(* AddRangesSafe: a range in pieces of at most one request.                *)
AddRangesSafe(start, end, ranges) ==
    LET n == (end - start + kS3ReadRequestSizeBytes - 1) \div kS3ReadRequestSizeBytes
        At(i) == start + i * kS3ReadRequestSizeBytes
    IN  ranges \o [i \in 1 .. n |-> <<At(i - 1), Smaller(At(i), end)>>]

(* RemoveOverlaps: a range ends where the next one begins, and vanishes if *)
(* nothing is left of it.  What is left is a set: ObjectBuffer is a map.   *)
RemoveOverlaps(ranges) ==
    LET cut == [i \in DOMAIN ranges |->
                   IF i < Len(ranges) /\ ranges[i][2] > ranges[i + 1][1]
                   THEN <<ranges[i][1], ranges[i + 1][1]>> ELSE ranges[i]]
    IN  {cut[i] : i \in {j \in DOMAIN cut : cut[j][1] < cut[j][2]}}

(* Mutant: the merged range begins with the new column.                    *)
ComputeByteRangeAnew(file, ranges, chunk) ==
    LET start == ChunkStart(file, chunk[1], chunk[2])
        end   == start + ChunkLength(file.groups[chunk[1]][chunk[2]])
        gap   == start - Last(ranges)[2]
    IN  IF ranges = <<>> \/ gap < 0 \/ gap > kReadRequestPaddingSizeBytes
        THEN Append(ranges, <<start, end>>)
        ELSE Append(Front(ranges), <<start, end>>)

(* ComputeByteRange: the range of a column chunk is joined to the previous *)
(* one when the gap is small.  The gap is unsigned: a chunk that begins    *)
(* before the previous range ends is far behind it.                        *)
ComputeByteRange(file, ranges, chunk) ==
    LET g == chunk[1]
        c == chunk[2]
        data   == DataPageOffset(file, g, c)
        start  == IF file.groups[g][c].dictionary > 0 /\ data > DictionaryPageOffset(file, g, c)
                  THEN DictionaryPageOffset(file, g, c) ELSE data
        length == ChunkLength(file.groups[g][c])
        end    == start + length
                  + (IF file.old THEN Smaller(kMaxDictionaryHeaderSize,
                                              FileSize(file) - (start + length)) ELSE 0)
        back   == Last(ranges)
        gap    == start - back[2]
    IN  IF \/ ranges = <<>>
           \/ gap < 0 \/ gap > kReadRequestPaddingSizeBytes
           \/ back[2] - back[1] >= kS3ReadRequestSizeBytes
        THEN Append(ranges, <<start, end>>)
        ELSE Append(Front(ranges), <<back[1], end>>)

(* CalculatePageOffsetsForColumnIds: row groups as a whole when all        *)
(* columns are asked for, otherwise the column chunks.                     *)
GroupRanges(file, rowGroups) ==
    LET start(g) == GroupStart(file, g)
        end(g) == Smaller(start(g) + kPadding + GroupLength(file.groups[g]), FileSize(file))
        ranges[i \in 0 .. Len(rowGroups)] ==
            IF i = 0 THEN <<>>
            ELSE AddRangesSafe(start(rowGroups[i]), end(rowGroups[i]), ranges[i - 1])
    IN  ranges[Len(rowGroups)]

ColumnRanges(file, rowGroups, columns) ==
    LET width == Len(columns)
        chunk(i) == <<rowGroups[((i - 1) \div width) + 1], columns[((i - 1) % width) + 1]>>
        ranges[i \in 0 .. Len(rowGroups) * width] ==
            IF i = 0 THEN <<>> ELSE ComputeByteRange(file, ranges[i - 1], chunk(i))
    IN  ranges[Len(rowGroups) * width]

CalculatePageOffsetsForColumnIds(file, rowGroups, columns) ==
    IF Len(columns) = Len(file.groups[1])
    THEN RemoveOverlaps(GroupRanges(file, rowGroups))
    ELSE ToSet(ColumnRanges(file, rowGroups, columns))

(* CalculatePageOffsets: the footer, read again when the first request was *)
(* too small for it.                                                       *)
FooterRange(file) ==
    LET first == Smaller(FileSize(file), kParquetFooterSizeBytes)
        size  == IF file.metadata > first - kParquetFooterMetadataOffsetBytes
                 THEN file.metadata + kParquetFooterMetadataOffsetBytes ELSE first
    IN  <<FileSize(file) - size, FileSize(file)>>

(* What a Parquet file has, and what an import asks for: some row groups   *)
(* in the order of the file (RemoveOverlaps relies on it), each with a     *)
(* column chunk for every column.  A column chunk has at least the header  *)
(* of a page.                                                              *)
IsParquet(file, rowGroups, columns) ==
    /\ file.groups \in Seq(Seq([dictionary : Nat, data : Nat \ {0}])) /\ file.groups # <<>>
    /\ \A g \in DOMAIN file.groups : Len(file.groups[g]) = Len(file.groups[1])
    /\ file.metadata \in Nat
    /\ rowGroups \in Seq(DOMAIN file.groups) /\ rowGroups # <<>>
    /\ \A i, j \in DOMAIN rowGroups : i < j => rowGroups[i] < rowGroups[j]
    /\ columns \in Seq(DOMAIN file.groups[1])

(***************************************************************************)
(* CSV.  A field is a sequence of characters: letters, digits, and a word  *)
(* that names a type.  Lines end with a newline, fields are not escaped.   *)
(***************************************************************************)
Newline == "newline"
Separator == ";"
PossibleDelimiters == <<"|", ";", ",", "tab", " ">>
TypeNames == {<<"int">>, <<"string">>}
Digits == {"1", "2"}
IsAlpha(field) == field # <<>> /\ field[1] \notin Digits

Line(fields) ==
    FlattenSeq([i \in DOMAIN fields |-> IF i = 1 THEN fields[i] ELSE <<Separator>> \o fields[i]])
    \o <<Newline>>

(* CsvFormatWriter: one write for the header and one for every row.        *)
CsvWrites(table) ==
    <<Line(table.names)>> \o [i \in DOMAIN table.rows |-> Line(table.rows[i])]

Split(s, delimiter) ==
    LET found == SelectSeq([i \in DOMAIN s |-> i], LAMBDA i : s[i] = delimiter)
        cuts == <<0>> \o found \o <<Len(s) + 1>>
    IN  Computed([i \in 1 .. Len(cuts) - 1 |-> SubSeq(s, cuts[i] + 1, cuts[i + 1] - 1)])

(* GuessDelimiter: a delimiter that is in every line equally often, before *)
(* one that is in no line, before the others; the first of the best.       *)
GuessDelimiter(lines) ==
    LET Count(d, i) == Cardinality({k \in DOMAIN lines[i] : lines[i][k] = d})
        Probability(d) == IF \E i \in DOMAIN lines : Count(d, i) # Count(d, 1) THEN 0
                          ELSE IF Count(d, 1) = 0 THEN 1 ELSE 2
        p == [i \in DOMAIN PossibleDelimiters |-> Probability(PossibleDelimiters[i])]
    IN  PossibleDelimiters[Min({i \in DOMAIN p : \A j \in DOMAIN p : p[j] <= p[i]})]

(* GuessHasHeader: the first value of every column starts with a letter    *)
(* and one of the next values does not.                                    *)
GuessHasHeader(columns) ==
    /\ columns # <<>>
    /\ \A c \in DOMAIN columns : IsAlpha(columns[c][1])
    /\ \E c \in DOMAIN columns : \E i \in 2 .. Smaller(Len(columns[c]), LookAhead) :
          ~IsAlpha(columns[c][i])

GuessHasTypeInformation(columns) ==
    /\ Len(columns) >= 2
    /\ \A c \in DOMAIN columns : Len(columns[c]) >= 2 /\ columns[c][2] \in TypeNames

(* ExtractColumns: empty lines are passed over, a line without a field for *)
(* a column adds nothing to it.                                            *)
ExtractColumns(buffer, delimiter) ==
    LET lines == SelectSeq(Split(buffer, Newline), LAMBDA l : l # <<>>)
        rows  == Computed([i \in DOMAIN lines |-> Split(lines[i], delimiter)])
        width == Max({0} \cup {Len(rows[i]) : i \in DOMAIN rows})
        Column(c) == LET having == SelectSeq(rows, LAMBDA r : Len(r) >= c)
                     IN  Computed([i \in DOMAIN having |-> having[i][c]])
    IN  Computed([c \in 1 .. width |-> Column(c)])

Trimmed(buffer) ==
    SubSeq(buffer, 1, Max({0} \cup {i \in DOMAIN buffer : buffer[i] # Newline}))

(* FillBuffer: a full buffer is cut behind its last newline, and newlines  *)
(* at the end are left for the next one.                                   *)
FillBuffer(csv, buffers) ==
    LET read == ReadBuffer(buffers, csv.offset, csv.bufferSize)
        cuts == {i \in DOMAIN read : read[i] = Newline}
        kept == Trimmed(IF Len(read) = csv.bufferSize /\ cuts # {}
                        THEN SubSeq(read, 1, Max(cuts)) ELSE read)
    IN  IF csv.full THEN [csv EXCEPT !.buffer = <<>>]
        ELSE [csv EXCEPT !.buffer = kept, !.offset = @ + Len(kept),
                         !.full = Len(read) < csv.bufferSize]

Extract(csv) == [csv EXCEPT !.columns = ExtractColumns(csv.buffer, csv.delimiter)]

(* BuildColumnTypes: what the type line says, otherwise strings.           *)
BuildColumnTypes(csv) ==
    [c \in DOMAIN csv.columns |->
        IF csv.hasTypes /\ csv.columns[c][2] = <<"int">> THEN "kInt" ELSE "kString"]

(* InitialSetup.                                                           *)
InitialSetup(csv) ==
    LET lines == Split(csv.buffer, Newline)
        ahead == SubSeq(lines, 1, Smaller(Len(lines), LookAhead))
        found == Extract([csv EXCEPT !.delimiter = IF csv.guess THEN GuessDelimiter(ahead) ELSE @])
        header == IF csv.guess THEN GuessHasHeader(found.columns) ELSE csv.hasHeader
        types  == IF header /\ csv.guess THEN GuessHasTypeInformation(found.columns)
                  ELSE csv.hasTypes
        known  == [found EXCEPT !.hasHeader = header, !.hasTypes = types,
                                !.ignore = (IF header THEN 1 ELSE 0) + (IF types THEN 1 ELSE 0)]
    IN  IF csv.schema = <<>> THEN [known EXCEPT !.schema = BuildColumnTypes(known)] ELSE known

(* The constructor of CsvFormatReader.                                     *)
CsvFormatReader(options, buffers) ==
    InitialSetup(FillBuffer([bufferSize |-> options.bufferSize, guess |-> options.guess,
                             delimiter |-> Separator, hasHeader |-> options.hasHeader,
                             hasTypes |-> FALSE, schema |-> options.schema, offset |-> 0,
                             full |-> FALSE, buffer |-> <<>>, columns |-> <<>>, ignore |-> 0],
                            buffers))

CsvHasNext(csv) ==
    csv.buffer # <<>> /\ csv.columns # <<>> /\ csv.ignore < Len(csv.columns[1])

(* ParseSegmentForDataType: a value of an int column has to be a number.   *)
Parses(type, field) ==
    type = "kString" \/ (field # <<>> /\ \A i \in DOMAIN field : field[i] \in Digits)

NextFails(csv) ==
    \/ Len(csv.schema) > Len(csv.columns)
    \/ \E c \in DOMAIN csv.schema : \E i \in csv.ignore + 1 .. Len(csv.columns[c]) :
          ~Parses(csv.schema[c], csv.columns[c][i])

(* The chunk that Next returns, by columns, and the reader afterwards.     *)
NextChunk(csv) ==
    [c \in DOMAIN csv.schema |-> SubSeq(csv.columns[c], csv.ignore + 1, Len(csv.columns[c]))]

(* Mutant: the lines ignored in the first buffer are ignored in each.      *)
AfterNextIgnoring(csv, buffers) == Extract(FillBuffer(csv, buffers))

AfterNext(csv, buffers) == Extract(FillBuffer([csv EXCEPT !.ignore = 0], buffers))

ChunkRows(chunk) ==
    [i \in DOMAIN chunk[1] |-> [c \in DOMAIN chunk |-> chunk[c][i]]]

=============================================================================
