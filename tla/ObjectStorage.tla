--------------------------- MODULE ObjectStorage ---------------------------
(***************************************************************************)
(* An object from the export that writes it (ObjectUpload) to the import   *)
(* that reads it back: the readers of the storage backends                 *)
(* (src/lib/storage/backend), the buffers the InputHandler fills with      *)
(* them, and the format readers on those buffers (ObjectFormats).          *)
(*                                                                         *)
(* An import starts when the export has reported success.  The tasks of    *)
(* one import and the operator around them are in ImportOperator; here it  *)
(* is the bytes of one object that matter.                                 *)
(***************************************************************************)
EXTENDS ObjectUpload, ObjectFormats

CONSTANTS
    kLastByteInFile,   \* the largest size_t
    ReadFaults,        \* the read requests that may fail
    ByteRanges         \* <<first_byte, last_byte>> that Read is called with

ASSUME StorageAssumption ==
    /\ kLastByteInFile \in Nat
    /\ ReadFaults \subseteq {"head", "get", "tail"}
    /\ ByteRanges \subseteq (0 .. kLastByteInFile) \X (0 .. kLastByteInFile)
    /\ \A x \in Exports : LET size == Len(Concatenated(x.writes))
                          IN  /\ size < kLastByteInFile
                              /\ x.format = "kParquet" =>
                                    /\ IsParquet(x.file, x.rowGroups, x.columns)
                                    /\ FooterRange(x.file)[2] = size

VARIABLES
    reader,      \* where the import is
    buffers,     \* the ObjectBuffer: range -> bytes
    requests,    \* ranges whose GetObjectAsync is not answered
    readError,   \* storage_error of ProcessGetObjectRequestsAsync
    csv,         \* the CsvFormatReader
    rows,        \* rows of the chunks read
    chunks,      \* column chunks read, <<row group, column>> -> bytes
    request,     \* the range of a single Read
    bytes        \* what it read

readVars == <<reader, buffers, requests, readError, csv, rows, chunks, request, bytes>>
vars == <<uploadVars, readVars>>

EmptyBuffer == [r \in {} |-> <<>>]

Init ==
    /\ UploadInit
    /\ reader = "idle"
    /\ buffers = EmptyBuffer
    /\ requests = {}
    /\ readError = FALSE
    /\ csv = None
    /\ rows = <<>>
    /\ chunks = EmptyBuffer
    /\ request = None
    /\ bytes = None

MayFailToRead(what) == IF what \in ReadFaults THEN {TRUE, FALSE} ELSE {FALSE}

-----------------------------------------------------------------------------
(* Reading a range.  The result is None when the backend reports an error, *)
(* an Assert fails or there is no memory for it.                           *)
SizeT(n) == n % (kLastByteInFile + 1)

(* ProcessGetObjectRequest: S3 answers a range, both ends included, and    *)
(* ignores one that ends before it begins.                                 *)
S3Get(range) ==
    IF range[2] < range[1] THEN object
    ELSE IF range[1] >= Len(object) THEN None
    ELSE Slice(object, range[1], Smaller(range[2], Len(object) - 1) + 1)

(* One is taken off the last byte.                                         *)
GetRangeString(first, last) == <<first, IF last = kLastByteInFile THEN last ELSE SizeT(last - 1)>>
GetRangeStringForTail(n) == <<IF n < Len(object) THEN Len(object) - n ELSE 0, Len(object) - 1>>

S3Read(first, last) ==
    IF first = 0 /\ last = kLastByteInFile THEN object ELSE S3Get(GetRangeString(first, last))

S3ReadTail(n) == S3Get(GetRangeStringForTail(n))

(* Mutant: one byte less.                                                  *)
FilesystemReadExclusive(first, last) == Slice(object, first, Smaller(last, Len(object)))

(* FilesystemReader::Read: the number of bytes is unsigned; more than the  *)
(* file has is more than there is memory for.                              *)
FilesystemRead(first, last) ==
    LET size   == Len(object)
        wanted == IF last = kLastByteInFile THEN last ELSE SizeT(last - first + 1)
        count  == IF SizeT(first + wanted) > size THEN SizeT(size - first) ELSE wanted
    IN  IF count > size THEN None ELSE Slice(object, first, first + count)

(* DynamoDbObjectReader::Read, for a range that is not empty.              *)
DynamoDbRead(first, last) ==
    LET until == Smaller(last, Len(object) - 1)
    IN  IF first >= Len(object) THEN None
        ELSE Slice(object, first, until + 1)

Read(first, last) ==
    CASE export.backend = "s3"         -> S3Read(first, last)
      [] export.backend = "filesystem" -> FilesystemRead(first, last)
      [] export.backend = "dynamodb"   -> DynamoDbRead(first, last)

(* ObjectReader::ReadTail, for the backends that have none of their own.   *)
ReadTail(n) ==
    IF export.backend = "s3" THEN S3ReadTail(n)
    ELSE Read(IF n < Len(object) THEN Len(object) - n ELSE 0, SizeT(Len(object) - 1))

(* The buffers that Read may leave: other backends resize and copy.        *)
Filled(buffer, body) ==
    IF export.backend = "s3" THEN GetObject(buffer, body)
    ELSE {CopyN(Resize(buffer, Len(body)), 0, body)}

-----------------------------------------------------------------------------
Ends(how) ==
    /\ reader' = how
    /\ UNCHANGED <<buffers, requests, readError, csv, rows, chunks, request, bytes>>

(* The size of an object that is there, if the request succeeds.           *)
GetStatus(failed) == IF object = None \/ failed THEN [error |-> TRUE] ELSE [error |-> FALSE, size |-> Len(object)]

(* InitializeObjectReaders asks for the status of the object, and          *)
(* CreateBufferedFormatReaders decides by its size.                        *)
OpenForReading ==
    /\ reader = "idle" /\ outcome = "success" /\ export.format \in {"kCsv", "kParquet"}
    /\ \E failed \in MayFailToRead("head") :
          Ends(IF GetStatus(failed).error THEN "failure"
               ELSE IF GetStatus(failed).size < kS3ReadRequestSizeBytes THEN "sync" ELSE "ranges")
    /\ UNCHANGED uploadVars

(* ReadObjectSyncTask.                                                     *)
ReadObjectSync ==
    /\ reader = "sync"
    /\ \E failed \in MayFailToRead("get") :
       LET read == Read(0, kLastByteInFile) IN
          IF failed \/ read = None THEN Ends("failure")
          ELSE /\ \E b \in Filled(OwnMemory, read) :
                      buffers' = AddBuffer(buffers, <<0, Len(object)>>, BufferData(b))
               /\ reader' = "decode"
               /\ UNCHANGED <<requests, readError, csv, rows, chunks, request, bytes>>
    /\ UNCHANGED uploadVars

(* PrecomputeByteRanges: only Parquet has ranges.  The result of ReadTail  *)
(* is not looked at: without a footer the metadata is whatever is there.   *)
PrecomputeByteRanges ==
    /\ reader = "ranges"
    /\ \/ /\ export.format # "kParquet"
          /\ Ends("crash")
       \/ /\ export.format = "kParquet" /\ "tail" \in ReadFaults
          /\ \E how \in {"failure", "crash"} : Ends(how)
       \/ /\ export.format = "kParquet"
          /\ LET footer == FooterRange(export.file)
                 ranges == CalculatePageOffsetsForColumnIds(export.file, export.rowGroups, export.columns)
             IN  \E b \in Filled(OwnMemory, ReadTail(footer[2] - footer[1])) :
                     buffers' = AddBuffer([r \in ranges |-> <<>>], footer, BufferData(b))
          /\ reader' = "async"
          /\ UNCHANGED <<requests, readError, csv, rows, chunks, request, bytes>>
    /\ UNCHANGED uploadVars

(* ReadObjectAsync: one request for every range without data.  The other   *)
(* backends have none.                                                     *)
ReadObjectAsync ==
    /\ reader = "async"
    /\ IF export.backend # "s3" THEN Ends("failure")
       ELSE /\ requests' = {r \in DOMAIN buffers : buffers[r] = <<>>}
            /\ reader' = "wait"
            /\ UNCHANGED <<buffers, readError, csv, rows, chunks, request, bytes>>
    /\ UNCHANGED uploadVars

(* The callback of a GetObjectAsync, in any order.                         *)
ReceiveRange(r) ==
    /\ reader = "wait" /\ r \in requests
    /\ requests' = requests \ {r}
    /\ \E failed \in MayFailToRead("get") :
       LET read  == S3Read(r[1], r[2])
           bad   == failed \/ read = None
       IN /\ \E b \in IF bad THEN {GetObjectFails(OwnMemory)} ELSE GetObject(OwnMemory, read) :
                buffers' = [buffers EXCEPT ![r] = BufferData(b)]
          /\ readError' = (readError \/ bad)
    /\ UNCHANGED <<reader, csv, rows, chunks, request, bytes, uploadVars>>

FinishReading ==
    /\ reader = "wait" /\ requests = {}
    /\ Ends(IF readError THEN "failure" ELSE "decode")
    /\ UNCHANGED uploadVars

-----------------------------------------------------------------------------
(* The Parquet library reads the column chunks it needs from the buffers.  *)
DecodeParquet ==
    /\ reader = "decode" /\ export.format = "kParquet"
    /\ chunks' = [gc \in ToSet(export.rowGroups) \X ToSet(export.columns) |->
                     ReadBuffer(buffers, ChunkStart(export.file, gc[1], gc[2]),
                                ChunkLength(export.file.groups[gc[1]][gc[2]]))]
    /\ reader' = "table"
    /\ UNCHANGED <<buffers, requests, readError, csv, rows, request, bytes, uploadVars>>

ConstructCsvReader ==
    /\ reader = "decode" /\ export.format = "kCsv"
    /\ csv' = CsvFormatReader(export.options, buffers)
    /\ reader' = "next"
    /\ UNCHANGED <<buffers, requests, readError, rows, chunks, request, bytes, uploadVars>>

(* HasNext and Next, until there is nothing more.                          *)
ReadCsvChunk ==
    /\ reader = "next"
    /\ \/ /\ ~CsvHasNext(csv)
          /\ Ends("table")
       \/ /\ CsvHasNext(csv) /\ NextFails(csv)
          /\ Ends("failure")
       \/ /\ CsvHasNext(csv) /\ ~NextFails(csv)
          /\ rows' = rows \o ChunkRows(NextChunk(csv))
          /\ csv' = AfterNext(csv, buffers)
          /\ UNCHANGED <<reader, buffers, requests, readError, chunks, request, bytes>>
    /\ UNCHANGED uploadVars

(* Another client of the backend reads a range of the object, into memory  *)
(* of the buffer or of its own, too small or too large, used before or not.*)
ReadMemory ==
    LET fresh == {OwnMemory} \cup {WrapMemory([i \in 1 .. n |-> Zero]) : n \in {0, 2, 9}}
    IN  fresh \cup {Resize(b, 7) : b \in fresh}

ReadByteRange ==
    /\ reader = "idle" /\ outcome = "success" /\ export.format = "raw" /\ object # None
    /\ \E range \in ByteRanges :
          /\ range[1] <= range[2]
          /\ request' = range
          /\ LET read == Read(range[1], range[2]) IN
                bytes' \in IF read = None THEN {None}
                           ELSE {BufferData(b) : b \in UNION {Filled(memory, read) : memory \in ReadMemory}}
    /\ reader' = "table"
    /\ UNCHANGED <<buffers, requests, readError, csv, rows, chunks, uploadVars>>

-----------------------------------------------------------------------------
ImportStep ==
    \/ OpenForReading \/ ReadObjectSync
    \/ PrecomputeByteRanges \/ ReadObjectAsync \/ FinishReading
    \/ DecodeParquet \/ ConstructCsvReader \/ ReadCsvChunk
    \/ ReadByteRange

RangeStep == \E r \in requests : ReceiveRange(r)

Next ==
    \/ (UploadStep /\ UNCHANGED readVars)
    \/ ImportStep
    \/ RangeStep

Spec == Init /\ [][Next]_vars

(* The writing thread goes on, and the SDK answers every request for a     *)
(* part: there are finitely many steps of each.                            *)
Fairness ==
    /\ WF_vars(WriterStep /\ UNCHANGED readVars)
    /\ WF_vars((\E k \in DOMAIN uploads : PartStep(k)) /\ UNCHANGED readVars)

FairSpec == Spec /\ Fairness

-----------------------------------------------------------------------------
(* A Parquet import that returns has the bytes of every column chunk it    *)
(* asked for, however the ranges were merged, cut and answered, and        *)
(* whatever an attempt that the S3 client retried has left in a buffer.    *)
ColumnsAreRead ==
    reader = "table" /\ export.format = "kParquet" =>
        \A gc \in DOMAIN chunks :
            LET start == ChunkStart(export.file, gc[1], gc[2])
            IN  chunks[gc] = Slice(object, start,
                                   start + ChunkLength(export.file.groups[gc[1]][gc[2]]))

(* The lines a CSV import may find: the header, unless it is recognised,   *)
(* and the rows without the one taken for type names.                      *)
ExpectedRows(table) ==
    (IF csv.hasHeader THEN <<>> ELSE <<table.names>>)
    \o SubSeq(table.rows, IF csv.hasTypes THEN 2 ELSE 1, Len(table.rows))

(* The read buffer holds the lines ignored and one more, and any line with *)
(* the newlines around it.                                                 *)
LinesFit(table) ==
    LET length == [i \in 0 .. Len(table.rows) |->
                      IF i = 0 THEN Len(Line(table.names)) ELSE Len(Line(table.rows[i]))]
    IN  /\ \A i \in DOMAIN length : length[i] + 1 <= export.options.bufferSize
        /\ \A i \in DOMAIN length : i > 0 => length[i - 1] + length[i] <= export.options.bufferSize

(* A CSV import that returns has every line of the object once and in      *)
(* order, across the boundaries of the read buffer.                        *)
LinesAreRead ==
    reader = "table" /\ export.format = "kCsv" /\ LinesFit(export.table) =>
        rows = ExpectedRows(export.table)

(* What abstract_storage.hpp documents and storage_test.cpp expects of     *)
(* Read: the bytes from first to last, both included, as far as the object *)
(* has them.                                                               *)
DocumentedRead(first, last) == Slice(object, first, Smaller(last, Len(object) - 1) + 1)

(* Read departs from that in two cases.  S3ObjectReader takes one off a    *)
(* last byte inside the object, so that byte is missing, and for a single  *)
(* byte the range is void and the whole object comes.  FilesystemReader    *)
(* cannot read from the middle to kLastByteInFile: the sum of both wraps,  *)
(* and there is no memory for as many bytes as it then wants.              *)
S3CutsRange(last) == export.backend = "s3" /\ last < Len(object)
FilesystemWraps(first, last) ==
    export.backend = "filesystem" /\ first # 0 /\ last = kLastByteInFile

(* A Read that begins inside the object returns what is documented, in     *)
(* whatever memory and after whatever attempts of the S3 client; in the    *)
(* two cases where the code departs from the documentation it is exactly   *)
(* the last byte that is missing, and no bytes at all, respectively.       *)
RangesAreRead ==
    request # None /\ request[1] < Len(object) =>
        LET first == request[1]
            last  == request[2]
        IN  bytes = IF FilesystemWraps(first, last) THEN None
                    ELSE IF ~S3CutsRange(last) THEN DocumentedRead(first, last)
                    ELSE IF first < last THEN Slice(object, first, last)
                    ELSE object
=============================================================================
