---------------------------- MODULE ObjectUpload ----------------------------
(***************************************************************************)
(* ExportOperator::OnExecute (src/lib/operator/export_operator.cpp) and    *)
(* the writers of the storage backends: S3ObjectWriter with its            *)
(* S3MultipartUploader (src/lib/storage/backend/s3_storage.cpp),           *)
(* DynamoDbObjectWriter (dynamodb_storage.cpp) and FilesystemWriter        *)
(* (filesystem_storage.cpp).                                               *)
(*                                                                         *)
(* The parts of a large object are uploaded by threads of the AWS SDK,     *)
(* whose callbacks update the uploader.  Its counter of parts under way    *)
(* and its vector of finished parts are changed by the writing thread      *)
(* without the mutex the callbacks hold.                                   *)
(***************************************************************************)
EXTENDS Integers, Sequences

CONSTANTS
    Exports,                  \* what may be exported: backend and writes, or was before
    kMultipartSizeBytes,      \* also kMultipartThresholdBytes
    kDynamoDbMaxItemSizeBytes,
    Faults,                   \* the requests that may fail
    None

ASSUME UploadAssumption ==
    /\ kMultipartSizeBytes \in Nat \ {0}
    /\ kDynamoDbMaxItemSizeBytes \in Nat
    /\ None \notin {1, "pending", "success", "error", "failure", "crash"}
    /\ \A x \in Exports : /\ x.backend \in {"s3", "dynamodb", "filesystem"}
                          /\ x.stored \in BOOLEAN
                          /\ x.backend = "filesystem" => x.writes # <<>>
                          /\ x.writes \in Seq(Seq(UNION {{w[i] : i \in DOMAIN w} :
                                                  w \in {x.writes[j] : j \in DOMAIN x.writes}}))
    /\ Faults \subseteq {"create", "part", "abort", "complete", "put", "write"}

VARIABLES
    export,       \* the member of Exports
    main,         \* where the thread of the operator is
    next,         \* the write the formatter makes next
    written,      \* the bytes that Write has accepted
    error,        \* the error of the output handler
    closed,       \* what Close has returned, None before
    part,         \* the stringbuf that is being filled, the buffer of DynamoDB
    rest,         \* data of Write that is not in a part yet
    multipart,    \* use_multipart_upload_
    initialized,  \* is_initialized_
    uploadId,     \* upload_id_
    partCount,    \* part_count_
    parts,        \* parts_: part numbers, 0 for a CompletedPart not filled in
    inProcess,    \* in_process_parts_count_
    storageError, \* storage_error_.IsError()
    mutex,        \* who holds multipart_outcome_mutex_
    local,        \* what UploadPartAsync has read: number, id, count, parts
    uploads,      \* requests of UploadPartAsync and where their callbacks are
    multiparts,   \* S3: upload id -> parts received, for uploads that are open
    object,       \* the object in the storage
    lost,         \* an update of in_process_parts_count_ was lost
    outcome       \* how OnExecute ended

writerVars   == <<part, rest, multipart>>
uploaderVars == <<initialized, uploadId, partCount, parts, inProcess, storageError>>
handlerVars  == <<export, next, written, error, closed>>
uploadVars   == <<handlerVars, main, writerVars, uploaderVars, mutex, local, uploads,
                  multiparts, object, lost, outcome>>

Nothing == [number |-> 0, id |-> None, count |-> 0, parts |-> <<>>]

Concatenated(s) ==
    LET first[n \in 0 .. Len(s)] == IF n = 0 THEN <<>> ELSE first[n - 1] \o s[n]
    IN  first[Len(s)]

(* What the storage holds when the writer is constructed: the constructor  *)
(* of FilesystemWriter creates the file, unless it cannot be opened.       *)
Opened(x) ==
    IF x.backend # "filesystem" THEN {None}
    ELSE {<<>>} \cup (IF "write" \in Faults THEN {None} ELSE {})

(* An object may have been there before; then there is nothing to export.  *)
UploadInit ==
    /\ export \in Exports
    /\ main = IF export.stored THEN "ended" ELSE "format"
    /\ next = 1
    /\ written = IF export.stored THEN Concatenated(export.writes) ELSE <<>>
    /\ error = FALSE
    /\ closed = None
    /\ part = <<>> /\ rest = <<>> /\ multipart = FALSE
    /\ initialized = FALSE /\ uploadId = None /\ partCount = 1 /\ parts = <<>>
    /\ inProcess = 0 /\ storageError = FALSE
    /\ mutex = None
    /\ local = Nothing
    /\ uploads = <<>>
    /\ multiparts = <<>>
    /\ object \in IF export.stored THEN {written} ELSE Opened(export)
    /\ lost = FALSE
    /\ outcome = IF export.stored THEN "success" ELSE None

Main == 0   \* the holder of the mutex that is not a callback

MayFail(request) == IF request \in Faults THEN {TRUE, FALSE} ELSE {FALSE}

-----------------------------------------------------------------------------
(* The formatter hands its next data to the output handler of OnExecute,   *)
(* which writes it unless an earlier write has failed.                     *)
Formatting == main = "format" /\ next <= Len(export.writes)
Data == export.writes[next]

SkipWrite ==
    /\ Formatting /\ error
    /\ next' = next + 1
    /\ UNCHANGED <<export, written, error, closed, main, writerVars, uploaderVars, mutex,
                   local, uploads, multiparts, object, lost, outcome>>

(* S3ObjectWriter::Write begins: the first data beyond the threshold       *)
(* creates a multipart upload.  A failed creation is noted as an error.    *)
S3Write ==
    /\ Formatting /\ ~error /\ export.backend = "s3"
    /\ LET expected == Len(part) + Len(Data)
           create   == Data # <<>> /\ ~multipart /\ expected > kMultipartSizeBytes
       IN  \E failed \in IF create THEN MayFail("create") ELSE {FALSE} :
              /\ multipart' = (multipart \/ create)
              /\ initialized' = (initialized \/ create)
              /\ storageError' = (storageError \/ failed)
              /\ uploadId' = IF create /\ ~failed THEN 1 ELSE uploadId
              /\ multiparts' = IF create /\ ~failed THEN <<<<>>>> ELSE multiparts
              /\ IF multipart' /\ expected > kMultipartSizeBytes
                 THEN main' = "fill" /\ rest' = Data /\ UNCHANGED <<part, next>>
                 ELSE part' = part \o Data /\ next' = next + 1 /\ UNCHANGED <<main, rest>>
    /\ written' = written \o Data
    /\ UNCHANGED <<export, error, closed, partCount, parts, inProcess, mutex, local,
                   uploads, object, lost, outcome>>

(* The loop of Write: fill the part and upload it, as long as there is     *)
(* enough data for a whole one.                                            *)
FillPart ==
    /\ main = "fill"
    /\ LET left == kMultipartSizeBytes - Len(part) IN
       IF Len(rest) >= left
       THEN /\ part' = part \o SubSeq(rest, 1, left)
            /\ rest' = SubSeq(rest, left + 1, Len(rest))
            /\ main' = "begin"
            /\ UNCHANGED next
       ELSE /\ part' = part \o rest
            /\ rest' = <<>>
            /\ main' = "format"
            /\ next' = next + 1
    /\ UNCHANGED <<export, written, error, closed, multipart, uploaderVars, mutex, local,
                   uploads, multiparts, object, lost, outcome>>

-----------------------------------------------------------------------------
(* S3MultipartUploader::UploadPartAsync, called by UploadNextPartAsync.    *)
(* in_process_parts_count_++ is a load and a store.                        *)
BeginPart ==
    /\ main = "begin"
    /\ local' = [number |-> partCount, id |-> uploadId, count |-> inProcess, parts |-> <<>>]
    /\ main' = "count"
    /\ UNCHANGED <<handlerVars, writerVars, uploaderVars, mutex, uploads, multiparts,
                   object, lost, outcome>>

CountPart ==
    /\ main = "count"
    /\ inProcess' = local.count + 1
    /\ lost' = (lost \/ inProcess # local.count)
    /\ partCount' = partCount + 1
    /\ local' = [local EXCEPT !.parts = parts]
    /\ main' = "send"
    /\ UNCHANGED <<handlerVars, writerVars, initialized, uploadId, parts, storageError,
                   mutex, uploads, multiparts, object, outcome>>

(* parts_.emplace_back() may move the elements to larger memory: what a    *)
(* callback has put into the old memory meanwhile is then lost.            *)
SendPart ==
    /\ main = "send"
    /\ \E kept \in {parts, local.parts} : parts' = Append(kept, 0)
    /\ uploads' = Append(uploads, [number |-> local.number, id |-> local.id, bytes |-> part,
                                   at |-> "sent", count |-> 0])
    /\ part' = <<>>
    /\ main' = IF closed = None THEN "fill" ELSE "wait"
    /\ local' = Nothing
    /\ UNCHANGED <<handlerVars, rest, multipart, initialized, uploadId, partCount,
                   inProcess, storageError, mutex, multiparts, object, lost, outcome>>

Goto(k, label) == uploads' = [uploads EXCEPT ![k].at = label]
Open(id) == id \in DOMAIN multiparts

(* S3 receives a part of an open upload, or refuses it.                    *)
ReceivePart(k) ==
    /\ uploads[k].at = "sent"
    /\ \E failed \in IF Open(uploads[k].id) THEN MayFail("part") ELSE {TRUE} :
          IF failed THEN Goto(k, "failed") /\ UNCHANGED multiparts
          ELSE /\ Goto(k, "stored")
               /\ multiparts' = [multiparts EXCEPT ![uploads[k].id] =
                     [n \in DOMAIN @ \cup {uploads[k].number} |->
                         IF n = uploads[k].number THEN uploads[k].bytes ELSE @[n]]]
    /\ UNCHANGED <<handlerVars, main, writerVars, uploaderVars, mutex, local, object, lost,
                   outcome>>

Alive == main # "ended"

(* The callback of a part that S3 has stored, under the mutex: it fills in *)
(* the part and counts down.  A write behind the end of the vector, which  *)
(* a cancelled upload has emptied, has no effect or ends the process.      *)
EnterPart(k) ==
    /\ Alive
    /\ uploads[k].at = "stored" /\ mutex = None
    /\ mutex' = k
    /\ parts' = IF uploads[k].number \in DOMAIN parts
                THEN [parts EXCEPT ![uploads[k].number] = uploads[k].number] ELSE parts
    /\ uploads' = [uploads EXCEPT ![k].at = "entered", ![k].count = inProcess]
    /\ UNCHANGED <<handlerVars, main, writerVars, initialized, uploadId, partCount,
                   inProcess, storageError, local, multiparts, object, lost, outcome>>

WriteBehindParts(k) ==
    /\ Alive
    /\ uploads[k].at = "stored" /\ mutex = None
    /\ uploads[k].number \notin DOMAIN parts
    /\ main' = "ended"
    /\ outcome' = "crash"
    /\ UNCHANGED <<handlerVars, writerVars, uploaderVars, mutex, local, uploads, multiparts,
                   object, lost>>

(* Mutant: the callback only fills in its part.                            *)
LeaveUncounted(k) ==
    /\ uploads[k].at = "entered"
    /\ mutex' = None
    /\ Goto(k, "done")
    /\ UNCHANGED <<handlerVars, main, writerVars, uploaderVars, local, multiparts, object,
                   lost, outcome>>

LeavePart(k) ==
    /\ uploads[k].at = "entered"
    /\ inProcess' = uploads[k].count - 1
    /\ lost' = (lost \/ inProcess # uploads[k].count)
    /\ mutex' = None
    /\ Goto(k, "done")
    /\ UNCHANGED <<handlerVars, main, writerVars, initialized, uploadId, partCount, parts,
                   storageError, local, multiparts, object, outcome>>

(* CancelUpload: an upload that S3 has aborted is forgotten.               *)
CancelUpload ==
    \/ /\ ~initialized
       /\ UNCHANGED <<initialized, uploadId, partCount, parts, multiparts>>
    \/ /\ initialized
       /\ \E failed \in IF Open(uploadId) THEN MayFail("abort") ELSE {TRUE} :
             IF failed THEN UNCHANGED <<initialized, uploadId, partCount, parts, multiparts>>
             ELSE /\ initialized' = FALSE
                  /\ uploadId' = None
                  /\ partCount' = 1
                  /\ parts' = <<>>
                  /\ multiparts' = <<>>

(* The callback of a part that failed: it cancels the upload without the   *)
(* mutex and notes the error, but does not count down.                     *)
FailPart(k) ==
    /\ Alive
    /\ uploads[k].at = "failed"
    /\ CancelUpload
    /\ Goto(k, "cancelled")
    /\ UNCHANGED <<handlerVars, main, writerVars, inProcess, storageError, mutex, local,
                   object, lost, outcome>>

SetError(k) ==
    /\ Alive
    /\ uploads[k].at = "cancelled" /\ mutex = None
    /\ storageError' = TRUE
    /\ Goto(k, "noted")
    /\ UNCHANGED <<handlerVars, main, writerVars, initialized, uploadId, partCount, parts,
                   inProcess, mutex, local, multiparts, object, lost, outcome>>
-----------------------------------------------------------------------------
(* Close: the formatter has finished.  FinalizeUpload puts a small object  *)
(* with one request; otherwise it uploads what is left as the last part.   *)
Closing(backend) ==
    main = "format" /\ next > Len(export.writes) /\ export.backend = backend

(* Mutant: the data that does not fill a part is forgotten.                *)
S3CloseWithoutLastPart ==
    /\ Closing("s3")
    /\ \/ /\ ~multipart
          /\ \E failed \in MayFail("put") :
                /\ object' = IF failed THEN object ELSE part
                /\ closed' = IF failed THEN "error" ELSE "success"
          /\ main' = "destroy"
       \/ /\ multipart
          /\ closed' = "pending"
          /\ main' = "wait"
          /\ UNCHANGED object
    /\ UNCHANGED <<export, next, written, error, writerVars, uploaderVars, mutex, local,
                   uploads, multiparts, lost, outcome>>

S3Close ==
    /\ Closing("s3")
    /\ \/ /\ ~multipart
          /\ \E failed \in MayFail("put") :
                /\ object' = IF failed THEN object ELSE part
                /\ closed' = IF failed THEN "error" ELSE "success"
          /\ main' = "destroy"
       \/ /\ multipart
          /\ closed' = "pending"
          /\ main' = IF part = <<>> THEN "wait" ELSE "begin"
          /\ UNCHANGED object
    /\ UNCHANGED <<export, next, written, error, writerVars, uploaderVars, mutex, local,
                   uploads, multiparts, lost, outcome>>

Answer(result) == IF closed = "pending" THEN result ELSE closed

(* Mutant: the count is compared before the last part is in.               *)
WaitForMostParts ==
    /\ main = "wait" /\ mutex = None /\ inProcess <= 1
    /\ IF storageError
       THEN /\ main' = IF closed = "pending" THEN "destroy" ELSE "return"
            /\ closed' = Answer("error")
            /\ UNCHANGED mutex
       ELSE main' = "complete" /\ mutex' = Main /\ UNCHANGED closed
    /\ UNCHANGED <<export, next, written, error, writerVars, uploaderVars, local, uploads,
                   multiparts, object, lost, outcome>>

(* S3MultipartUploader::Finalize waits for all parts; an error ends it.    *)
WaitForParts ==
    /\ main = "wait" /\ mutex = None /\ inProcess = 0
    /\ IF storageError
       THEN /\ main' = IF closed = "pending" THEN "destroy" ELSE "return"
            /\ closed' = Answer("error")
            /\ UNCHANGED mutex
       ELSE main' = "complete" /\ mutex' = Main /\ UNCHANGED closed
    /\ UNCHANGED <<export, next, written, error, writerVars, uploaderVars, local, uploads,
                   multiparts, object, lost, outcome>>

(* S3 completes an open upload whose listed parts it has all received.     *)
Completes == /\ Open(uploadId) /\ parts # <<>>
             /\ \A i \in DOMAIN parts : parts[i] \in DOMAIN multiparts[uploadId]

(* CompleteMultipartUpload, with the mutex held; a failure cancels.        *)
CompleteUpload ==
    /\ main = "complete"
    /\ mutex' = None
    /\ main' = IF closed = "pending" THEN "destroy" ELSE "return"
    /\ \E failed \in IF Completes THEN MayFail("complete") ELSE {TRUE} :
          IF failed
          THEN /\ CancelUpload
               /\ closed' = Answer("error")
               /\ UNCHANGED object
          ELSE /\ object' = Concatenated([i \in DOMAIN parts |-> multiparts[uploadId][parts[i]]])
               /\ closed' = Answer("success")
               /\ initialized' = FALSE
               /\ uploadId' = None
               /\ partCount' = 1
               /\ parts' = <<>>
               /\ multiparts' = <<>>
    /\ UNCHANGED <<export, next, written, error, writerVars, inProcess, storageError, local,
                   uploads, lost, outcome>>

(* The writer is destroyed: an uploader that is still initialized is       *)
(* finalized once more.                                                    *)
DestroyWriter ==
    /\ main = "destroy"
    /\ main' = IF initialized THEN "wait" ELSE "return"
    /\ UNCHANGED <<handlerVars, writerVars, uploaderVars, mutex, local, uploads, multiparts,
                   object, lost, outcome>>

(* DynamoDbObjectWriter: data is buffered even when it has become too      *)
(* large for an item; Close uploads it once, which DynamoDB then refuses.  *)
TooLarge(bytes) == Len(bytes) > kDynamoDbMaxItemSizeBytes

DynamoDbWrite ==
    /\ Formatting /\ ~error /\ export.backend = "dynamodb"
    /\ part' = part \o Data
    /\ written' = written \o Data
    /\ error' = TooLarge(part')
    /\ next' = next + 1
    /\ UNCHANGED <<export, closed, main, rest, multipart, uploaderVars, mutex, local, uploads,
                   multiparts, object, lost, outcome>>

DynamoDbClose ==
    /\ Closing("dynamodb")
    /\ \E failed \in IF TooLarge(part) THEN {TRUE} ELSE MayFail("put") :
          /\ object' = IF failed THEN object ELSE part
          /\ closed' = IF failed THEN "error" ELSE "success"
    /\ part' = <<>>
    /\ main' = "return"
    /\ UNCHANGED <<export, next, written, error, rest, multipart, uploaderVars, mutex, local,
                   uploads, multiparts, lost, outcome>>

(* FilesystemWriter: the file grows with every write.  A write fails that  *)
(* the position does not confirm, and the file keeps some of its data; a   *)
(* file that was not opened has no position.                               *)
FilesystemWrite ==
    /\ Formatting /\ ~error /\ export.backend = "filesystem"
    /\ \/ /\ object # None
          /\ object' = object \o Data
          /\ error' = FALSE
       \/ /\ "write" \in Faults
          /\ \E n \in 0 .. Len(Data) :
                object' = IF object = None THEN None ELSE object \o SubSeq(Data, 1, n)
          /\ error' = TRUE
    /\ written' = written \o Data
    /\ next' = next + 1
    /\ UNCHANGED <<export, closed, main, writerVars, uploaderVars, mutex, local, uploads,
                   multiparts, lost, outcome>>

(* Close reports success whatever the stream makes of its last buffer,     *)
(* whose failure to be flushed is not modelled.                            *)
FilesystemClose ==
    /\ Closing("filesystem")
    /\ closed' = "success"
    /\ main' = "return"
    /\ UNCHANGED <<export, next, written, error, writerVars, uploaderVars, mutex, local,
                   uploads, multiparts, object, lost, outcome>>

(* OnExecute asserts that no write has failed.  What Close returned is not *)
(* looked at.                                                              *)
EndExport ==
    /\ main = "return"
    /\ main' = "ended"
    /\ outcome' = IF error THEN "failure" ELSE "success"
    /\ UNCHANGED <<handlerVars, writerVars, uploaderVars, mutex, local, uploads, multiparts,
                   object, lost>>

-----------------------------------------------------------------------------
WriterStep ==
    \/ SkipWrite \/ S3Write \/ FillPart
    \/ BeginPart \/ CountPart \/ SendPart
    \/ S3Close \/ WaitForParts \/ CompleteUpload \/ DestroyWriter
    \/ DynamoDbWrite \/ DynamoDbClose
    \/ FilesystemWrite \/ FilesystemClose
    \/ EndExport

PartStep(k) ==
    \/ ReceivePart(k)
    \/ EnterPart(k) \/ WriteBehindParts(k) \/ LeavePart(k)
    \/ FailPart(k) \/ SetError(k)

UploadStep == WriterStep \/ \E k \in DOMAIN uploads : PartStep(k)

-----------------------------------------------------------------------------
(* An object for which Close has reported success is the concatenation of  *)
(* the data written, whatever the callbacks did to the uploader: an upload *)
(* that lost a part, a count or its id is refused, not cut short.          *)
StoredIsComplete ==
    closed = "success" /\ ~error => object = written

(* The writer outlives the callbacks that refer to it, except when an      *)
(* update of the counter was lost.                                         *)
WriterOutlivesCallbacks ==
    outcome \in {"success", "failure"} /\ ~lost =>
        \A k \in DOMAIN uploads : uploads[k].at = "done"

Failed(k) == uploads[k].at \in {"failed", "cancelled", "noted"}

(* An export ends, unless a part could not be uploaded or an update of the *)
(* counter was lost: then Finalize may wait for ever.                      *)
ExportEnds == <>(outcome # None \/ lost \/ \E k \in DOMAIN uploads : Failed(k))

=============================================================================
