---------------------------- MODULE ImportOperator ----------------------------
(***************************************************************************)
(* ImportOperator::OnExecute and the InputHandler it uses                  *)
(* (src/lib/operator/import_operator.cpp,                                  *)
(* src/lib/storage/io_handle/input_handler.cpp).                           *)
(*                                                                         *)
(* An import runs three rounds of subtasks, one per object reference: open *)
(* the objects, read them into memory, decode them into chunks.  Between   *)
(* the rounds its own thread is in ScheduleAndWaitForTasks, which on an    *)
(* executor thread returns when all tasks are done, whether or not one of  *)
(* them failed an assertion.                                               *)
(***************************************************************************)
EXTENDS Integers, Sequences, FiniteSets, Bags

CONSTANTS
    Refs,         \* object_references_
    Identifier,   \* identifier of each reference, the key of the opened objects
    Object,       \* the object each reference names: bucket and identifier
    Large,        \* objects of kS3ReadRequestSizeBytes or more
    Bytes,        \* the bytes counted for an object: its size, or its ranges
    Chunks,       \* how many chunks an object holds
    Schemas,      \* the schemas objects may have
    Formats,      \* values of import_format_
    Faults,       \* what may go wrong
    None

Objects == {Object[r] : r \in Refs}
Keys    == {Identifier[r] : r \in Refs}

ASSUME ImportAssumption ==
    /\ IsFiniteSet(Refs) /\ Refs # {}
    /\ \A r, s \in Refs : Identifier[r] = Identifier[s] => Object[r] = Object[s]
    /\ Large \subseteq Objects
    /\ Bytes \in [Objects -> Nat]
    /\ Chunks \in [Objects -> Nat]
    /\ Formats \subseteq {"kCsv", "kOrc", "kParquet"}
    /\ Faults \subseteq {"open", "read", "construct", "corrupt", "decode", "reader"}
    /\ None \notin Objects \cup Schemas

VARIABLES
    format,       \* import_format_
    schema,       \* the schema of each object
    phase,        \* the round OnExecute is in
    task,         \* where the subtask of each reference is
    opened,       \* size_and_reader_map
    bytesRead,    \* bytes_read, which nothing synchronises
    register,     \* what the subtask of a reference has read of bytes_read
    readers,      \* format_readers, a queue of references
    corrupt,      \* references whose reader has an error and no schema, or whose
                  \* metadata is invalid
    base,         \* base_table_schema
    position,     \* chunks each reader has handed out
    readerError,  \* reader_error.IsError()
    chunks,       \* the chunks of the table, <<reference, position>>
    dropped,      \* references of subtasks that ended in an assertion
    outcome       \* how OnExecute ended

handlerVars == <<opened, bytesRead, register, readers>>
decodeVars  == <<corrupt, base, position, readerError, chunks>>
input       == <<format, schema>>
vars == <<input, phase, task, handlerVars, decodeVars, dropped, outcome>>

Init ==
    /\ format \in Formats
    /\ schema \in [Objects -> Schemas]
    /\ phase = "open"
    /\ task = [r \in Refs |-> "open"]
    /\ opened = [k \in Keys |-> None]
    /\ bytesRead = 0
    /\ register = [r \in Refs |-> 0]
    /\ readers = <<>>
    /\ corrupt = {}
    /\ base = None
    /\ position = [r \in Refs |-> 0]
    /\ readerError = FALSE
    /\ chunks = EmptyBag
    /\ dropped = {}
    /\ outcome = "none"

At(r, label)   == phase # "ended" /\ task[r] = label
Goto(r, label) == task' = [task EXCEPT ![r] = label]
RoundIsOver    == \A r \in Refs : task[r] = "done"

(* An AssertionFailedException ends the subtask and goes no further.       *)
Drop(r) ==
    /\ Goto(r, "done")
    /\ dropped' = dropped \cup {r}

(* OnExecute ends: with a table, with an assertion, or with the process.   *)
End(how) ==
    /\ phase' = "ended"
    /\ outcome' = how

-----------------------------------------------------------------------------
(* InitializeObjectReaders: the subtask opens its object, checks status    *)
(* and etag and inserts it, which does not replace an entry.               *)
OpenObject(r) ==
    /\ At(r, "open")
    /\ \/ /\ opened' = [opened EXCEPT ![Identifier[r]] = IF @ = None THEN Object[r] ELSE @]
          /\ Goto(r, "done")
          /\ UNCHANGED dropped
       \/ /\ "open" \in Faults
          /\ Drop(r)
          /\ UNCHANGED opened
    /\ UNCHANGED <<input, phase, bytesRead, register, readers, decodeVars, outcome>>

Source(r) == opened[Identifier[r]]

(* CreateBufferedFormatReaders looks every reference up; an identifier     *)
(* that is missing is a read through the end iterator.                     *)
StartReading ==
    /\ phase = "open" /\ RoundIsOver
    /\ IF \E r \in Refs : Source(r) = None
       THEN End("crash") /\ UNCHANGED task
       ELSE /\ phase' = "read"
            /\ task' = [r \in Refs |-> IF Source(r) \in Large THEN "ranges" ELSE "fetch"]
            /\ UNCHANGED outcome
    /\ UNCHANGED <<input, handlerVars, decodeVars, dropped>>

(* ReadObjectAsyncTask: byte ranges exist for Parquet only; for the other  *)
(* formats value() throws what Execute does not catch, and so does         *)
(* ComputeByteRange for a column with invalid metadata.                    *)
PrecomputeByteRanges(r) ==
    /\ At(r, "ranges")
    /\ \/ /\ format # "kParquet"
          /\ End("crash")
          /\ UNCHANGED <<task, corrupt, dropped>>
       \/ /\ format = "kParquet" /\ "corrupt" \in Faults
          /\ corrupt' = {r}
          /\ End("crash")
          /\ UNCHANGED <<task, dropped>>
       \/ /\ format = "kParquet"
          /\ \/ Goto(r, "load") /\ UNCHANGED dropped
             \/ "read" \in Faults /\ Drop(r)
          /\ UNCHANGED <<phase, corrupt, outcome>>
    /\ UNCHANGED <<input, handlerVars, base, position, readerError, chunks>>

(* Mutant: the result of the read is not looked at.                        *)
ReadUnchecked(r) ==
    /\ At(r, "fetch")
    /\ \/ Goto(r, IF Source(r) \in Large THEN "push" ELSE "load") /\ UNCHANGED dropped
       \/ "read" \in Faults /\ Goto(r, "done") /\ UNCHANGED dropped
    /\ UNCHANGED <<input, phase, handlerVars, decodeVars, outcome>>

(* Read or ReadObjectAsync; an error fails the Assert of the subtask.      *)
ReadObject(r) ==
    /\ At(r, "fetch")
    /\ \/ Goto(r, IF Source(r) \in Large THEN "push" ELSE "load") /\ UNCHANGED dropped
       \/ "read" \in Faults /\ Drop(r)
    /\ UNCHANGED <<input, phase, handlerVars, decodeVars, outcome>>

LoadBytesRead(r) ==
    /\ At(r, "load")
    /\ register' = [register EXCEPT ![r] = bytesRead]
    /\ Goto(r, "store")
    /\ UNCHANGED <<input, phase, opened, bytesRead, readers, decodeVars, dropped, outcome>>

(* A large object is counted before it is read, a small one afterwards.    *)
StoreBytesRead(r) ==
    /\ At(r, "store")
    /\ bytesRead' = register[r] + Bytes[Source(r)]
    /\ Goto(r, IF Source(r) \in Large THEN "fetch" ELSE "push")
    /\ UNCHANGED <<input, phase, opened, register, readers, decodeVars, dropped, outcome>>

(* The reader's constructor enters the queue under queue_mutex_.           *)
AddReader(r) ==
    /\ At(r, "push")
    /\ readers' = Append(readers, r)
    /\ Goto(r, "done")
    /\ UNCHANGED <<input, phase, opened, bytesRead, register, decodeVars, dropped, outcome>>

-----------------------------------------------------------------------------
(* OnExecute constructs the readers.  A failed Assert in a constructor, or *)
(* a first reader without schema, fails the import; without any reader     *)
(* there is no schema to make a table of.                                  *)
BuildReaders ==
    LET built == {readers[i] : i \in DOMAIN readers} IN
    /\ phase = "read" /\ RoundIsOver
    /\ \/ /\ readers = <<>>
          /\ End("crash")
          /\ UNCHANGED <<task, corrupt, base>>
       \/ /\ readers # <<>> /\ "construct" \in Faults
          /\ End("failure")
          /\ UNCHANGED <<task, corrupt, base>>
       \/ /\ readers # <<>>
          /\ corrupt' \in IF "corrupt" \in Faults THEN SUBSET built ELSE {{}}
          /\ IF Head(readers) \in corrupt'
             THEN End("failure") /\ UNCHANGED <<task, base>>
             ELSE /\ base' = schema[Source(Head(readers))]
                  /\ task' = [r \in Refs |-> IF r \in built THEN "check" ELSE "done"]
                  /\ phase' = "decode"
                  /\ UNCHANGED outcome
    /\ UNCHANGED <<input, handlerVars, position, readerError, chunks, dropped>>

(* reader_job begins: it compares the schemas through pointers of which    *)
(* the reader's is null if its construction failed.                        *)
CheckSchema(r) ==
    /\ At(r, "check")
    /\ \/ /\ r \in corrupt
          /\ End("crash")
          /\ UNCHANGED <<task, readerError>>
       \/ /\ r \notin corrupt
          /\ schema[Source(r)] # base
          /\ readerError' = TRUE
          /\ Goto(r, "done")
          /\ UNCHANGED <<phase, outcome>>
       \/ /\ r \notin corrupt
          /\ schema[Source(r)] = base
          /\ Goto(r, "next")
          /\ UNCHANGED <<phase, outcome, readerError>>
    /\ UNCHANGED <<input, handlerVars, corrupt, base, position, chunks, dropped>>

(* One turn of reader_job's loop: the next chunk, if there is one, goes    *)
(* into the table unless some reader has reported an error.                *)
ReadChunk(r) ==
    /\ At(r, "next")
    /\ IF position[r] = Chunks[Source(r)] \/ readerError
       THEN Goto(r, "done") /\ UNCHANGED <<position, chunks>>
       ELSE /\ position' = [position EXCEPT ![r] = @ + 1]
            /\ chunks' = chunks (+) SetToBag({<<r, position'[r]>>})
            /\ UNCHANGED task
    /\ UNCHANGED <<input, phase, handlerVars, corrupt, base, readerError, dropped, outcome>>

(* The reader reports an error through HasError.                           *)
ReaderFails(r) ==
    /\ At(r, "next")
    /\ "reader" \in Faults
    /\ readerError' = TRUE
    /\ Goto(r, "done")
    /\ UNCHANGED <<input, phase, handlerVars, corrupt, base, position, chunks, dropped,
                   outcome>>

(* An Assert of the reader fails inside HasNext or Next.                   *)
DecodingAsserts(r) ==
    /\ At(r, "next")
    /\ "decode" \in Faults
    /\ Drop(r)
    /\ UNCHANGED <<input, phase, handlerVars, decodeVars, outcome>>

(* Mutant: reader_error is not asserted after the last round.              *)
IgnoreReaderError ==
    /\ phase = "decode" /\ RoundIsOver
    /\ End("table")
    /\ UNCHANGED <<input, task, handlerVars, decodeVars, dropped>>

FinishImport ==
    /\ phase = "decode" /\ RoundIsOver
    /\ End(IF readerError THEN "failure" ELSE "table")
    /\ UNCHANGED <<input, task, handlerVars, decodeVars, dropped>>

-----------------------------------------------------------------------------
ReaderJob(r) == CheckSchema(r) \/ ReadChunk(r) \/ ReaderFails(r) \/ DecodingAsserts(r)

SubtaskStep(r) ==
    \/ OpenObject(r)
    \/ PrecomputeByteRanges(r) \/ ReadObject(r)
    \/ LoadBytesRead(r) \/ StoreBytesRead(r) \/ AddReader(r)
    \/ ReaderJob(r)

OperatorStep == StartReading \/ BuildReaders \/ FinishImport

Terminated == phase = "ended" /\ UNCHANGED vars

Next == OperatorStep \/ (\E r \in Refs : SubtaskStep(r)) \/ Terminated

Spec == Init /\ [][Next]_vars

-----------------------------------------------------------------------------
ChunksOf(r) == {<<r, i>> : i \in 1 .. Chunks[Object[r]]}

(* A table that an import returns holds every chunk of every reference     *)
(* whose subtasks all went well, once, read from the object the reference  *)
(* names, however the subtasks were interleaved.                           *)
ImportIsComplete ==
    outcome = "table" =>
        /\ \A r \in Refs \ dropped : ChunksOf(r) \subseteq DOMAIN chunks
        /\ \A c \in DOMAIN chunks : chunks[c] = 1 /\ c \in ChunksOf(c[1])

(* The process survives an import unless an object could not be opened or  *)
(* read, is corrupt, or is large and of a format without byte ranges.      *)
NoCrashWithoutFault ==
    outcome = "crash" =>
        \/ dropped # {} \/ corrupt # {}
        \/ format # "kParquet" /\ Large # {}
=============================================================================
