------------------------ MODULE ImportOperatorProofs ------------------------
(* Proofs about ImportOperator for any object references, objects, faults  *)
(* and interleaving of the subtasks.                                       *)
EXTENDS ImportOperator, TLAPS

Labels == [open   |-> {"open", "done"},
           read   |-> {"ranges", "fetch", "load", "store", "push", "done"},
           decode |-> {"check", "next", "done"}]

Queued == {readers[i] : i \in DOMAIN readers}

TypeOK ==
    /\ phase \in {"open", "read", "decode", "ended"}
    /\ task \in [Refs -> UNION {Labels[p] : p \in DOMAIN Labels}]
    /\ opened \in [Keys -> Objects \cup {None}]
    /\ readers \in Seq(Refs)
    /\ corrupt \subseteq Refs
    /\ position \in [Refs -> Nat]
    /\ readerError \in BOOLEAN
    /\ dropped \subseteq Refs
    /\ outcome \in {"none", "table", "failure", "crash"}

(* A subtask belongs to the round that OnExecute is in, and only a large   *)
(* object is read by ranges.                                               *)
RoundsAreSeparate ==
    /\ phase # "ended" => \A r \in Refs : task[r] \in Labels[phase]
    /\ phase = "read" => \A r \in Refs : task[r] = "ranges" => Source(r) \in Large
    /\ outcome = "none" <=> phase # "ended"

(* A reference finds the object it names or none, and none only if its     *)
(* subtask was dropped.                                                    *)
OpenedIsNamed ==
    /\ \A r \in Refs : Source(r) \in {None, Object[r]}
    /\ phase = "open" => \A r \in Refs : task[r] = "done" => r \in dropped \/ Source(r) # None
    /\ phase \in {"read", "decode"} => \A r \in Refs : Source(r) = Object[r]

(* A reference without a reader was dropped.                               *)
ReadersAreQueued ==
    phase = "read" => \A r \in Refs : task[r] = "done" => r \in dropped \/ r \in Queued

(* The table holds the chunks handed out so far, each once.                *)
ChunksAreExact ==
    /\ DOMAIN chunks \subseteq Refs \X Nat
    /\ \A r \in Refs : \A i \in Nat : <<r, i>> \in DOMAIN chunks <=> i \in 1 .. position[r]
    /\ \A c \in DOMAIN chunks : chunks[c] = 1
    /\ \A r \in Refs : position[r] <= Chunks[Object[r]]

(* Without a reader's error, a subtask of the last round that is done has  *)
(* handed out all chunks or was dropped, and so it is when the table is    *)
(* returned.                                                               *)
DoneIsDecoded ==
    /\ phase = "decode" /\ ~readerError =>
          \A r \in Refs : task[r] = "done" => r \in dropped \/ position[r] = Chunks[Object[r]]
    /\ outcome = "table" =>
          \A r \in Refs : r \in dropped \/ position[r] = Chunks[Object[r]]

ImportInv ==
    /\ TypeOK /\ RoundsAreSeparate /\ OpenedIsNamed /\ ReadersAreQueued
    /\ ChunksAreExact /\ DoneIsDecoded /\ NoCrashWithoutFault

-----------------------------------------------------------------------------
(* The labels of a round.                                                  *)
LEMMA LabelsOfRounds ==
    /\ Labels["open"] = {"open", "done"}
    /\ Labels["read"] = {"ranges", "fetch", "load", "store", "push", "done"}
    /\ Labels["decode"] = {"check", "next", "done"}
    /\ DOMAIN Labels = {"open", "read", "decode"}
    /\ \A p \in DOMAIN Labels : Labels[p] \subseteq UNION {Labels[q] : q \in DOMAIN Labels}
  BY DEF Labels

(* The label of a subtask tells the round.                                 *)
LEMMA RoundOfLabel ==
    ASSUME ImportInv, phase # "ended", NEW r \in Refs
    PROVE  /\ task[r] = "open" => phase = "open"
           /\ task[r] \in {"ranges", "fetch", "load", "store", "push"} => phase = "read"
           /\ task[r] \in {"check", "next"} => phase = "decode"
  <1>1. phase \in {"open", "read", "decode"} /\ task[r] \in Labels[phase]
    BY DEF ImportInv, TypeOK, RoundsAreSeparate
  <1> QED  BY <1>1, LabelsOfRounds

(* References have objects, and keys.                                      *)
LEMMA RefsAreNamed ==
    ASSUME NEW r \in Refs
    PROVE  Object[r] \in Objects /\ Identifier[r] \in Keys /\ Object[r] # None
           /\ Chunks[Object[r]] \in Nat
  BY ImportAssumption DEF Objects, Keys

(* Before Execute, no reader is open and nothing has been read.            *)
LEMMA ImportInit == Init => ImportInv
  <1> SUFFICES ASSUME Init PROVE ImportInv  OBVIOUS
  <1>1. \A r \in Refs : /\ task[r] = "open" /\ Source(r) = None /\ position[r] = 0
                        /\ Chunks[Object[r]] \in Nat
    BY RefsAreNamed DEF Init, Source
  <1>2. TypeOK
    <2>1. task \in [Refs -> UNION {Labels[p] : p \in DOMAIN Labels}]
      BY LabelsOfRounds DEF Init
    <2>2. opened \in [Keys -> Objects \cup {None}] /\ position \in [Refs -> Nat]  BY DEF Init
    <2>3. readers \in Seq(Refs)  BY DEF Init
    <2> QED  BY <2>1, <2>2, <2>3 DEF Init, TypeOK
  <1>3. RoundsAreSeparate  BY <1>1, LabelsOfRounds DEF Init, RoundsAreSeparate
  <1>4. OpenedIsNamed  BY <1>1 DEF Init, OpenedIsNamed
  <1>5. ReadersAreQueued  BY DEF Init, ReadersAreQueued
  <1>6. ChunksAreExact
    <2>1. DOMAIN chunks = {}  BY DEF Init, EmptyBag, SetToBag
    <2>2. \A r \in Refs : 1 .. position[r] = {}  BY <1>1
    <2> QED  BY <1>1, <2>1, <2>2 DEF ChunksAreExact
  <1>7. DoneIsDecoded  BY DEF Init, DoneIsDecoded
  <1>8. NoCrashWithoutFault  BY DEF Init, NoCrashWithoutFault
  <1> QED  BY <1>2, <1>3, <1>4, <1>5, <1>6, <1>7, <1>8 DEF ImportInv

-----------------------------------------------------------------------------
(* The import ends without a table.                                        *)
LEMMA EndWithoutTable ==
    ASSUME ImportInv, phase # "ended", phase' = "ended", outcome' \in {"failure", "crash"},
           corrupt' \subseteq Refs,
           outcome' = "crash" => dropped # {} \/ corrupt' # {} \/ (format # "kParquet" /\ Large # {}),
           UNCHANGED <<format, task, opened, readers, position, readerError, chunks, dropped>>
    PROVE  ImportInv'
  <1> USE DEF ImportInv
  <1>1. TypeOK'  BY DEF TypeOK
  <1>2. RoundsAreSeparate'  BY DEF RoundsAreSeparate
  <1>3. OpenedIsNamed'
    <2>1. \A r \in Refs : Source(r)' = Source(r)  BY DEF Source
    <2> QED  BY <2>1 DEF OpenedIsNamed
  <1>4. ReadersAreQueued'  BY DEF ReadersAreQueued
  <1>5. ChunksAreExact'  BY DEF ChunksAreExact
  <1>6. DoneIsDecoded'  BY DEF DoneIsDecoded
  <1>7. NoCrashWithoutFault'  BY DEF NoCrashWithoutFault
  <1> QED  BY <1>1, <1>2, <1>3, <1>4, <1>5, <1>6, <1>7

(* A subtask of the second round moves on: if it is done, its object is in *)
(* the queue of readers or it was dropped.                                 *)
LEMMA ReadRoundStep ==
    ASSUME ImportInv, phase = "read", NEW r \in Refs,
           NEW label \in {"fetch", "load", "store", "push", "done"}, Goto(r, label),
           dropped \subseteq dropped', dropped' \subseteq Refs,
           readers' \in Seq(Refs), Queued \subseteq Queued',
           label = "done" => r \in dropped' \cup Queued',
           UNCHANGED <<format, phase, opened, corrupt, position, readerError, chunks, outcome>>
    PROVE  ImportInv'
  <1> USE DEF ImportInv
  <1>1. /\ task'[r] = label /\ \A s \in Refs \ {r} : task'[s] = task[s]
        /\ label \in Labels["read"] /\ label # "ranges"
        /\ task' \in [Refs -> UNION {Labels[p] : p \in DOMAIN Labels}]
    BY LabelsOfRounds DEF Goto, TypeOK
  <1>2. \A s \in Refs : Source(s)' = Source(s)  BY DEF Source
  <1>3. TypeOK'  BY <1>1 DEF TypeOK
  <1>4. RoundsAreSeparate'
    <2>1. ASSUME NEW s \in Refs
          PROVE  task'[s] \in Labels["read"] /\ (task'[s] = "ranges" => Source(s)' \in Large)
      <3>1. CASE s = r  BY <1>1, <3>1
      <3>2. CASE s # r  BY <1>1, <1>2, <3>2 DEF RoundsAreSeparate
      <3> QED  BY <3>1, <3>2
    <2> QED  BY <2>1 DEF RoundsAreSeparate
  <1>5. OpenedIsNamed'  BY <1>2 DEF OpenedIsNamed
  <1>6. ReadersAreQueued'  BY <1>1 DEF ReadersAreQueued
  <1>7. ChunksAreExact'  BY DEF ChunksAreExact
  <1>8. DoneIsDecoded'  BY DEF DoneIsDecoded, RoundsAreSeparate
  <1>9. NoCrashWithoutFault'  BY DEF NoCrashWithoutFault, RoundsAreSeparate
  <1> QED  BY <1>3, <1>4, <1>5, <1>6, <1>7, <1>8, <1>9

(* A subtask of the last round moves on without a chunk.                   *)
LEMMA DecodeRoundStep ==
    ASSUME ImportInv, phase = "decode", NEW r \in Refs, NEW label \in {"next", "done"},
           Goto(r, label),
           readerError => readerError', readerError' \in BOOLEAN,
           dropped \subseteq dropped', dropped' \subseteq Refs,
           label = "done" /\ ~readerError' => r \in dropped' \/ position[r] = Chunks[Object[r]],
           UNCHANGED <<format, phase, opened, readers, corrupt, position, chunks, outcome>>
    PROVE  ImportInv'
  <1> USE DEF ImportInv
  <1>1. /\ task'[r] = label /\ \A s \in Refs \ {r} : task'[s] = task[s]
        /\ label \in Labels["decode"]
        /\ task' \in [Refs -> UNION {Labels[p] : p \in DOMAIN Labels}]
    BY LabelsOfRounds DEF Goto, TypeOK
  <1>2. \A s \in Refs : Source(s)' = Source(s)  BY DEF Source
  <1>3. TypeOK'  BY <1>1 DEF TypeOK
  <1>4. RoundsAreSeparate'  BY <1>1 DEF RoundsAreSeparate
  <1>5. OpenedIsNamed'  BY <1>2 DEF OpenedIsNamed
  <1>6. ReadersAreQueued'  BY DEF ReadersAreQueued
  <1>7. ChunksAreExact'  BY DEF ChunksAreExact
  <1>8. DoneIsDecoded'  BY <1>1 DEF DoneIsDecoded, RoundsAreSeparate
  <1>9. NoCrashWithoutFault'  BY DEF NoCrashWithoutFault, RoundsAreSeparate
  <1> QED  BY <1>3, <1>4, <1>5, <1>6, <1>7, <1>8, <1>9

-----------------------------------------------------------------------------
(* The first round: an object that is already there is the same one.       *)
LEMMA InvOpenObject ==
    ASSUME ImportInv, NEW r \in Refs, OpenObject(r)
    PROVE  ImportInv'
  <1> USE DEF ImportInv
  <1>1. /\ phase = "open" /\ task' = [task EXCEPT ![r] = "done"]
        /\ UNCHANGED <<format, phase, readers, corrupt, position, readerError, chunks, outcome>>
    BY RoundOfLabel DEF OpenObject, At, Goto, Drop, input, decodeVars
  <1>2. /\ task'[r] = "done" /\ \A s \in Refs \ {r} : task'[s] = task[s]
        /\ task' \in [Refs -> UNION {Labels[p] : p \in DOMAIN Labels}]
    BY <1>1, LabelsOfRounds DEF TypeOK
  <1>3. \/ /\ opened' = [opened EXCEPT ![Identifier[r]] = IF @ = None THEN Object[r] ELSE @]
           /\ dropped' = dropped
        \/ opened' = opened /\ dropped' = dropped \cup {r}
    BY DEF OpenObject, Drop
  <1>4. /\ opened' \in [Keys -> Objects \cup {None}]
        /\ \A s \in Refs : /\ Source(s)' \in {None, Object[s]}
                           /\ Source(s) # None => Source(s)' # None
        /\ Source(r)' # None \/ r \in dropped'
        /\ dropped \subseteq dropped' /\ dropped' \subseteq Refs
    <2>1. CASE opened' = opened /\ dropped' = dropped \cup {r}
      BY <2>1 DEF Source, OpenedIsNamed, TypeOK
    <2>2. CASE /\ opened' = [opened EXCEPT ![Identifier[r]] = IF @ = None THEN Object[r] ELSE @]
               /\ dropped' = dropped
      <3>1. opened' \in [Keys -> Objects \cup {None}]  BY <2>2, RefsAreNamed DEF TypeOK
      <3>2. ASSUME NEW s \in Refs
            PROVE  Source(s)' \in {None, Object[s]} /\ (Source(s) # None => Source(s)' # None)
        <4>1. CASE Identifier[s] = Identifier[r]
          <5>1. Object[s] = Object[r]  BY <4>1, ImportAssumption
          <5>2. Source(s)' = IF Source(s) = None THEN Object[s] ELSE Source(s)
            BY <2>2, <4>1, <5>1, RefsAreNamed DEF Source, TypeOK
          <5> QED  BY <5>2 DEF OpenedIsNamed
        <4>2. CASE Identifier[s] # Identifier[r]
          <5>1. Source(s)' = Source(s)  BY <2>2, <4>2, RefsAreNamed DEF Source, TypeOK
          <5> QED  BY <5>1 DEF OpenedIsNamed
        <4> QED  BY <4>1, <4>2
      <3>3. Source(r)' # None  BY <2>2, RefsAreNamed DEF Source, TypeOK
      <3> QED  BY <2>2, <3>1, <3>2, <3>3 DEF TypeOK
    <2> QED  BY <1>3, <2>1, <2>2
  <1>5. TypeOK'  BY <1>1, <1>2, <1>4 DEF TypeOK
  <1>6. RoundsAreSeparate'  BY <1>1, <1>2, LabelsOfRounds DEF RoundsAreSeparate
  <1>7. OpenedIsNamed'  BY <1>1, <1>2, <1>4 DEF OpenedIsNamed
  <1>8. ReadersAreQueued'  BY <1>1 DEF ReadersAreQueued
  <1>9. ChunksAreExact'  BY <1>1 DEF ChunksAreExact
  <1>10. DoneIsDecoded'  BY <1>1 DEF DoneIsDecoded, RoundsAreSeparate
  <1>11. NoCrashWithoutFault'  BY <1>1 DEF NoCrashWithoutFault, RoundsAreSeparate
  <1> QED  BY <1>5, <1>6, <1>7, <1>8, <1>9, <1>10, <1>11

(* The second round begins, unless an identifier is missing.               *)
LEMMA InvStartReading ==
    ASSUME ImportInv, StartReading
    PROVE  ImportInv'
  <1> USE DEF ImportInv
  <1>1. /\ phase = "open" /\ \A r \in Refs : task[r] = "done"
        /\ UNCHANGED <<format, opened, readers, corrupt, position, readerError, chunks, dropped>>
    BY DEF StartReading, RoundIsOver, input, handlerVars, decodeVars
  <1>2. CASE \E r \in Refs : Source(r) = None
    <2>1. phase' = "ended" /\ outcome' = "crash" /\ task' = task
      BY <1>2 DEF StartReading, End
    <2>2. dropped # {}  BY <1>1, <1>2 DEF OpenedIsNamed
    <2>3. corrupt' \subseteq Refs  BY <1>1 DEF TypeOK
    <2> QED  BY <1>1, <2>1, <2>2, <2>3, EndWithoutTable
  <1>3. CASE \A r \in Refs : Source(r) # None
    <2>1. /\ phase' = "read" /\ outcome' = outcome
          /\ task' = [r \in Refs |-> IF Source(r) \in Large THEN "ranges" ELSE "fetch"]
      BY <1>3 DEF StartReading
    <2>2. \A r \in Refs : /\ task'[r] \in Labels["read"] /\ task'[r] # "done"
                          /\ (task'[r] = "ranges" => Source(r) \in Large)
      BY <2>1, LabelsOfRounds
    <2>3. \A r \in Refs : Source(r)' = Source(r) /\ Source(r) = Object[r]
      BY <1>1, <1>3 DEF Source, OpenedIsNamed
    <2>4. task' \in [Refs -> UNION {Labels[p] : p \in DOMAIN Labels}]
      BY <2>1, LabelsOfRounds
    <2>5. TypeOK'  BY <1>1, <2>1, <2>4 DEF TypeOK
    <2>6. RoundsAreSeparate'  BY <1>1, <2>1, <2>2, <2>3 DEF RoundsAreSeparate
    <2>7. OpenedIsNamed'  BY <2>1, <2>3 DEF OpenedIsNamed
    <2>8. ReadersAreQueued'  BY <2>2 DEF ReadersAreQueued
    <2>9. ChunksAreExact'  BY <1>1 DEF ChunksAreExact
    <2>10. DoneIsDecoded'  BY <1>1, <2>1 DEF DoneIsDecoded, RoundsAreSeparate
    <2>11. NoCrashWithoutFault'  BY <1>1, <2>1 DEF NoCrashWithoutFault, RoundsAreSeparate
    <2> QED  BY <2>5, <2>6, <2>7, <2>8, <2>9, <2>10, <2>11
  <1> QED  BY <1>2, <1>3

(* The subtasks of the second round.                                       *)
LEMMA InvReadSubtask ==
    ASSUME ImportInv, NEW r \in Refs,
           \/ PrecomputeByteRanges(r) \/ ReadObject(r) \/ LoadBytesRead(r)
           \/ StoreBytesRead(r) \/ AddReader(r)
    PROVE  ImportInv'
  <1> USE DEF ImportInv
  <1>1. phase = "read"
    BY RoundOfLabel DEF PrecomputeByteRanges, ReadObject, LoadBytesRead, StoreBytesRead, AddReader, At
  <1>2. readers \in Seq(Refs) /\ dropped \subseteq Refs /\ corrupt \subseteq Refs  BY DEF TypeOK
  <1>3. CASE PrecomputeByteRanges(r) /\ format # "kParquet"
    <2>1. /\ phase' = "ended" /\ outcome' = "crash"
          /\ UNCHANGED <<format, task, opened, readers, corrupt, position, readerError, chunks,
                         dropped>>
      BY <1>3 DEF PrecomputeByteRanges, End, input, handlerVars, decodeVars
    <2>2. Large # {}  BY <1>1, <1>3 DEF PrecomputeByteRanges, At, RoundsAreSeparate
    <2> QED  BY <1>1, <1>2, <1>3, <2>1, <2>2, EndWithoutTable
  <1>c. CASE PrecomputeByteRanges(r) /\ format = "kParquet" /\ phase' = "ended"
    <2>1. /\ outcome' = "crash" /\ corrupt' = {r}
          /\ UNCHANGED <<format, task, opened, readers, position, readerError, chunks, dropped>>
      BY <1>1, <1>c DEF PrecomputeByteRanges, End, input, handlerVars
    <2> QED  BY <1>1, <1>c, <2>1, EndWithoutTable
  <1>4. CASE \/ PrecomputeByteRanges(r) /\ format = "kParquet" /\ phase' # "ended"
             \/ ReadObject(r) \/ LoadBytesRead(r) \/ StoreBytesRead(r)
    <2>1. /\ UNCHANGED <<format, phase, opened, readers, corrupt, position, readerError, chunks,
                         outcome>>
          /\ \/ \E label \in {"fetch", "load", "store", "push"} :
                   Goto(r, label) /\ UNCHANGED dropped
             \/ Goto(r, "done") /\ dropped' = dropped \cup {r}
      BY <1>4 DEF PrecomputeByteRanges, ReadObject, LoadBytesRead, StoreBytesRead, Drop, End, input,
         handlerVars, decodeVars
    <2>2. Queued' = Queued  BY <2>1 DEF Queued
    <2>3. ASSUME NEW label \in {"fetch", "load", "store", "push"}, Goto(r, label), UNCHANGED dropped
          PROVE  ImportInv'
      BY <1>1, <1>2, <2>1, <2>2, <2>3, ReadRoundStep
    <2>4. CASE Goto(r, "done") /\ dropped' = dropped \cup {r}
      BY <1>1, <1>2, <2>1, <2>2, <2>4, ReadRoundStep
    <2> QED  BY <2>1, <2>3, <2>4
  <1>5. CASE AddReader(r)
    <2>1. /\ readers' = Append(readers, r) /\ Goto(r, "done")
          /\ UNCHANGED <<format, phase, opened, corrupt, position, readerError, chunks, dropped,
                         outcome>>
      BY <1>5 DEF AddReader, input, decodeVars
    <2>2. /\ readers' \in Seq(Refs) /\ DOMAIN readers = 1 .. Len(readers) /\ Len(readers) \in Nat
          /\ DOMAIN readers' = 1 .. Len(readers) + 1 /\ readers'[Len(readers) + 1] = r
          /\ \A i \in DOMAIN readers : i \in DOMAIN readers' /\ readers'[i] = readers[i]
      BY <1>2, <2>1
    <2>3. Queued \subseteq Queued'  BY <2>2 DEF Queued
    <2>4. r \in Queued'
      <3>1. Len(readers) + 1 \in DOMAIN readers'  BY <2>2
      <3> QED  BY <2>2, <3>1 DEF Queued
    <2> QED  BY <1>1, <1>2, <2>1, <2>2, <2>3, <2>4, ReadRoundStep
  <1> QED  BY <1>3, <1>c, <1>4, <1>5

(* The readers are constructed and the last round begins.                  *)
LEMMA InvBuildReaders ==
    ASSUME ImportInv, BuildReaders
    PROVE  ImportInv'
  <1> USE DEF ImportInv
  <1>1. /\ phase = "read" /\ \A r \in Refs : task[r] = "done"
        /\ UNCHANGED <<format, opened, readers, position, readerError, chunks, dropped>>
    BY DEF BuildReaders, RoundIsOver, input, handlerVars
  <1>2. Queued \subseteq Refs /\ (readers = <<>> => Queued = {})
    BY DEF Queued, TypeOK
  <1>3. CASE readers = <<>> /\ phase' = "ended" /\ outcome' = "crash" /\ UNCHANGED <<task, corrupt>>
    <2>1. PICK r \in Refs : TRUE  BY ImportAssumption
    <2>2. r \in dropped  BY <1>1, <1>2, <1>3 DEF ReadersAreQueued
    <2>3. corrupt' \subseteq Refs  BY <1>3 DEF TypeOK
    <2> QED  BY <1>1, <1>3, <2>2, <2>3, EndWithoutTable
  <1>4. CASE phase' = "ended" /\ outcome' = "failure" /\ task' = task /\ corrupt' \subseteq Refs
    BY <1>1, <1>4, EndWithoutTable
  <1>5. CASE /\ phase' = "decode" /\ outcome' = outcome /\ corrupt' \subseteq Refs
             /\ task' = [r \in Refs |-> IF r \in Queued THEN "check" ELSE "done"]
    <2>1. \A r \in Refs : /\ task'[r] \in Labels["decode"]
                          /\ task'[r] = "done" => r \in dropped
      <3>1. \A r \in Refs : r \notin Queued => r \in dropped  BY <1>1 DEF ReadersAreQueued
      <3> QED  BY <1>5, <3>1, LabelsOfRounds
    <2>2. \A r \in Refs : Source(r)' = Source(r)  BY <1>1 DEF Source
    <2>3. task' \in [Refs -> UNION {Labels[p] : p \in DOMAIN Labels}]  BY <1>5, LabelsOfRounds
    <2>4. TypeOK'  BY <1>1, <1>5, <2>3 DEF TypeOK
    <2>5. RoundsAreSeparate'  BY <1>1, <1>5, <2>1 DEF RoundsAreSeparate
    <2>6. OpenedIsNamed'  BY <1>1, <1>5, <2>2 DEF OpenedIsNamed
    <2>7. ReadersAreQueued'  BY <1>5 DEF ReadersAreQueued
    <2>8. ChunksAreExact'  BY <1>1 DEF ChunksAreExact
    <2>9. DoneIsDecoded'  BY <1>1, <1>5, <2>1 DEF DoneIsDecoded, RoundsAreSeparate
    <2>10. NoCrashWithoutFault'  BY <1>1, <1>5 DEF NoCrashWithoutFault, RoundsAreSeparate
    <2> QED  BY <2>4, <2>5, <2>6, <2>7, <2>8, <2>9, <2>10
  <1>6. corrupt' = corrupt \/ corrupt' \in IF "corrupt" \in Faults THEN SUBSET Queued ELSE {{}}
    BY DEF BuildReaders, Queued
  <1>7. corrupt' \subseteq Refs  BY <1>2, <1>6 DEF TypeOK
  <1> QED  BY <1>3, <1>4, <1>5, <1>7 DEF BuildReaders, End, Queued

(* A chunk is added to the table.                                          *)
LEMMA ChunkAdded ==
    ASSUME NEW B, NEW e, e \notin DOMAIN B, \A x \in DOMAIN B : B[x] = 1
    PROVE  /\ DOMAIN (B (+) SetToBag({e})) = DOMAIN B \cup {e}
           /\ \A x \in DOMAIN (B (+) SetToBag({e})) : (B (+) SetToBag({e}))[x] = 1
  BY DEF (+), SetToBag

(* The subtasks of the last round.                                         *)
LEMMA InvReaderJob ==
    ASSUME ImportInv, NEW r \in Refs, ReaderJob(r)
    PROVE  ImportInv'
  <1> USE DEF ImportInv
  <1>1. phase = "decode" /\ Source(r) = Object[r]
    BY RoundOfLabel DEF ReaderJob, CheckSchema, ReadChunk, ReaderFails, DecodingAsserts, At,
       OpenedIsNamed
  <1>2. /\ dropped \subseteq Refs /\ corrupt \subseteq Refs /\ readerError \in BOOLEAN
        /\ position \in [Refs -> Nat]
    BY DEF TypeOK
  <1>3. CASE CheckSchema(r)
    <2>1. CASE r \in corrupt
      <3>1. /\ phase' = "ended" /\ outcome' = "crash" /\ corrupt' = corrupt
            /\ UNCHANGED <<format, task, opened, readers, position, readerError, chunks, dropped>>
        BY <1>3, <2>1 DEF CheckSchema, End, input, handlerVars
      <3> QED  BY <1>1, <1>2, <2>1, <3>1, EndWithoutTable
    <2>2. CASE r \notin corrupt
      <3>1. /\ UNCHANGED <<format, phase, opened, readers, corrupt, position, chunks, dropped, outcome>>
            /\ \/ readerError' = TRUE /\ Goto(r, "done")
               \/ readerError' = readerError /\ Goto(r, "next")
        BY <1>3, <2>2 DEF CheckSchema, input, handlerVars
      <3> QED  BY <1>1, <1>2, <3>1, DecodeRoundStep
    <2> QED  BY <2>1, <2>2
  <1>4. CASE ReaderFails(r)
    <2>1. /\ readerError' = TRUE /\ Goto(r, "done")
          /\ UNCHANGED <<format, phase, opened, readers, corrupt, position, chunks, dropped, outcome>>
      BY <1>4 DEF ReaderFails, input, handlerVars
    <2> QED  BY <1>1, <1>2, <2>1, DecodeRoundStep
  <1>5. CASE DecodingAsserts(r)
    <2>1. /\ Goto(r, "done") /\ dropped' = dropped \cup {r}
          /\ UNCHANGED <<format, phase, opened, readers, corrupt, position, readerError, chunks,
                         outcome>>
      BY <1>5 DEF DecodingAsserts, Drop, input, handlerVars, decodeVars
    <2> QED  BY <1>1, <1>2, <2>1, DecodeRoundStep
  <1>6. CASE ReadChunk(r) /\ (position[r] = Chunks[Source(r)] \/ readerError)
    <2>1. /\ Goto(r, "done")
          /\ UNCHANGED <<format, phase, opened, readers, corrupt, position, readerError, chunks,
                         dropped, outcome>>
      BY <1>6 DEF ReadChunk, input, handlerVars
    <2> QED  BY <1>1, <1>2, <1>6, <2>1, DecodeRoundStep
  <1>7. CASE ReadChunk(r) /\ position[r] # Chunks[Source(r)] /\ ~readerError
    <2>1. /\ task[r] = "next"
          /\ position' = [position EXCEPT ![r] = @ + 1]
          /\ chunks' = chunks (+) SetToBag({<<r, position'[r]>>})
          /\ UNCHANGED <<format, phase, task, opened, readers, corrupt, readerError, dropped,
                         outcome>>
      BY <1>7 DEF ReadChunk, At, input, handlerVars
    <2>2. PICK n \in Nat : n = position[r]  BY <1>2
    <2>3. /\ position'[r] = n + 1 /\ \A s \in Refs \ {r} : position'[s] = position[s]
          /\ position' \in [Refs -> Nat]
      BY <1>2, <2>1, <2>2
    <2>4. <<r, n + 1>> \notin DOMAIN chunks /\ \A x \in DOMAIN chunks : chunks[x] = 1
      BY <2>2 DEF ChunksAreExact
    <2>5. /\ DOMAIN chunks' = DOMAIN chunks \cup {<<r, n + 1>>}
          /\ \A x \in DOMAIN chunks' : chunks'[x] = 1
      <3>1. PICK e : e = <<r, n + 1>>  OBVIOUS
      <3>2. e \notin DOMAIN chunks /\ \A x \in DOMAIN chunks : chunks[x] = 1  BY <2>4, <3>1
      <3>3. chunks' = chunks (+) SetToBag({e})  BY <2>1, <2>3, <3>1
      <3>4. /\ DOMAIN (chunks (+) SetToBag({e})) = DOMAIN chunks \cup {e}
            /\ \A x \in DOMAIN (chunks (+) SetToBag({e})) : (chunks (+) SetToBag({e}))[x] = 1
        BY <3>2, ChunkAdded
      <3>5. DOMAIN chunks' = DOMAIN chunks \cup {e} /\ \A x \in DOMAIN chunks' : chunks'[x] = 1
        BY <3>3, <3>4
      <3> QED  BY <3>1, <3>5
    <2>6. \A s \in Refs : Source(s)' = Source(s)  BY <2>1 DEF Source
    <2>7. ChunksAreExact'
      <3>1. DOMAIN chunks' \subseteq Refs \X Nat  BY <2>5 DEF ChunksAreExact
      <3>2. ASSUME NEW s \in Refs, NEW i \in Nat
            PROVE  <<s, i>> \in DOMAIN chunks' <=> i \in 1 .. position'[s]
        <4>1. <<s, i>> \in DOMAIN chunks <=> i \in 1 .. position[s]  BY DEF ChunksAreExact
        <4>2. CASE s = r
          <5>1. <<s, i>> \in DOMAIN chunks' <=> i \in 1 .. n \/ i = n + 1
            BY <2>2, <2>5, <4>1, <4>2
          <5> QED  BY <2>3, <4>2, <5>1
        <4>3. CASE s # r  BY <2>3, <2>5, <4>1, <4>3
        <4> QED  BY <4>2, <4>3
      <3>3. ASSUME NEW s \in Refs PROVE position'[s] <= Chunks[Object[s]]
        <4>1. position[s] <= Chunks[Object[s]] /\ Chunks[Object[s]] \in Nat
          BY RefsAreNamed DEF ChunksAreExact
        <4>2. CASE s = r  BY <1>1, <1>7, <2>2, <2>3, <4>1, <4>2
        <4>3. CASE s # r  BY <2>3, <4>1, <4>3
        <4> QED  BY <4>2, <4>3
      <3> QED  BY <2>5, <3>1, <3>2, <3>3 DEF ChunksAreExact
    <2>8. TypeOK'  BY <2>1, <2>3 DEF TypeOK
    <2>9. RoundsAreSeparate'  BY <1>1, <2>1 DEF RoundsAreSeparate
    <2>10. OpenedIsNamed'  BY <2>1, <2>6 DEF OpenedIsNamed
    <2>11. ReadersAreQueued'  BY <1>1, <2>1 DEF ReadersAreQueued
    <2>12. DoneIsDecoded'  BY <1>1, <2>1, <2>3 DEF DoneIsDecoded, RoundsAreSeparate
    <2>13. NoCrashWithoutFault'  BY <1>1, <2>1 DEF NoCrashWithoutFault, RoundsAreSeparate
    <2> QED  BY <2>7, <2>8, <2>9, <2>10, <2>11, <2>12, <2>13
  <1> QED  BY <1>3, <1>4, <1>5, <1>6, <1>7 DEF ReaderJob

(* The import ends, with a table unless a reader has reported an error.    *)
LEMMA InvFinishImport ==
    ASSUME ImportInv, FinishImport
    PROVE  ImportInv'
  <1> USE DEF ImportInv
  <1>1. /\ phase = "decode" /\ \A r \in Refs : task[r] = "done"
        /\ phase' = "ended" /\ outcome' = IF readerError THEN "failure" ELSE "table"
        /\ UNCHANGED <<format, task, opened, readers, corrupt, position, readerError, chunks, dropped>>
    BY DEF FinishImport, RoundIsOver, End, input, handlerVars, decodeVars
  <1>2. TypeOK'  BY <1>1 DEF TypeOK
  <1>3. RoundsAreSeparate'  BY <1>1 DEF RoundsAreSeparate
  <1>4. OpenedIsNamed'
    <2>1. \A r \in Refs : Source(r)' = Source(r)  BY <1>1 DEF Source
    <2> QED  BY <1>1, <2>1 DEF OpenedIsNamed
  <1>5. ReadersAreQueued'  BY <1>1 DEF ReadersAreQueued
  <1>6. ChunksAreExact'  BY <1>1 DEF ChunksAreExact
  <1>7. DoneIsDecoded'  BY <1>1 DEF DoneIsDecoded
  <1>8. NoCrashWithoutFault'  BY <1>1 DEF NoCrashWithoutFault
  <1> QED  BY <1>2, <1>3, <1>4, <1>5, <1>6, <1>7, <1>8

(* Every step keeps the invariant.                                         *)
LEMMA ImportNext == ImportInv /\ [Next]_vars => ImportInv'
  <1> SUFFICES ASSUME ImportInv, [Next]_vars PROVE ImportInv'  OBVIOUS
  <1>1. CASE OperatorStep
    BY <1>1, InvStartReading, InvBuildReaders, InvFinishImport DEF OperatorStep
  <1>2. ASSUME NEW r \in Refs, SubtaskStep(r) PROVE ImportInv'
    BY <1>2, InvOpenObject, InvReadSubtask, InvReaderJob DEF SubtaskStep
  <1>3. CASE UNCHANGED vars
    <2> USE DEF ImportInv, vars, input, handlerVars, decodeVars
    <2>1. \A r \in Refs : Source(r)' = Source(r)  BY <1>3 DEF Source
    <2>2. TypeOK'  BY <1>3 DEF TypeOK
    <2>3. RoundsAreSeparate'  BY <1>3, <2>1 DEF RoundsAreSeparate
    <2>4. OpenedIsNamed'  BY <1>3, <2>1 DEF OpenedIsNamed
    <2>5. ReadersAreQueued'  BY <1>3 DEF ReadersAreQueued, Queued
    <2>6. ChunksAreExact'  BY <1>3 DEF ChunksAreExact
    <2>7. DoneIsDecoded'  BY <1>3 DEF DoneIsDecoded
    <2>8. NoCrashWithoutFault'  BY <1>3 DEF NoCrashWithoutFault
    <2> QED  BY <2>2, <2>3, <2>4, <2>5, <2>6, <2>7, <2>8
  <1> QED  BY <1>1, <1>2, <1>3 DEF Next, Terminated

(* The inductive invariant holds in every reachable state.                 *)
THEOREM ImportInvariant == Spec => []ImportInv
  BY ImportInit, ImportNext, PTL DEF Spec

-----------------------------------------------------------------------------
(* A table that OnExecute returns holds every chunk of every reference     *)
(* whose subtasks went well, once, and of the object the reference names.  *)
THEOREM ImportsAreComplete == Spec => []ImportIsComplete
  <1>1. ImportInv => ImportIsComplete
    <2> SUFFICES ASSUME ImportInv, outcome = "table"
                 PROVE  /\ \A r \in Refs \ dropped : ChunksOf(r) \subseteq DOMAIN chunks
                        /\ \A c \in DOMAIN chunks : chunks[c] = 1 /\ c \in ChunksOf(c[1])
      BY DEF ImportIsComplete
    <2> USE DEF ImportInv
    <2>1. ASSUME NEW r \in Refs \ dropped PROVE ChunksOf(r) \subseteq DOMAIN chunks
      <3>1. position[r] = Chunks[Object[r]] /\ Chunks[Object[r]] \in Nat
        BY RefsAreNamed DEF DoneIsDecoded
      <3>2. \A i \in 1 .. Chunks[Object[r]] : <<r, i>> \in DOMAIN chunks
        BY <3>1 DEF ChunksAreExact
      <3> QED  BY <3>2 DEF ChunksOf
    <2>2. ASSUME NEW c \in DOMAIN chunks PROVE chunks[c] = 1 /\ c \in ChunksOf(c[1])
      <3>1. PICK r \in Refs, i \in Nat : c = <<r, i>>  BY DEF ChunksAreExact
      <3>2. i \in 1 .. position[r] /\ position[r] <= Chunks[Object[r]]
        BY <3>1 DEF ChunksAreExact
      <3>3. position[r] \in Nat /\ Chunks[Object[r]] \in Nat  BY RefsAreNamed DEF TypeOK
      <3>4. i \in 1 .. Chunks[Object[r]] /\ c[1] = r  BY <3>1, <3>2, <3>3
      <3> QED  BY <3>1, <3>4 DEF ChunksOf, ChunksAreExact
    <2> QED  BY <2>1, <2>2
  <1> QED  BY <1>1, ImportInvariant, PTL

(* An import ends the process only after an object could not be opened or  *)
(* read, is corrupt, or is large and of a format without byte ranges.      *)
THEOREM CrashesHaveCauses == Spec => []NoCrashWithoutFault
  <1>1. ImportInv => NoCrashWithoutFault  BY DEF ImportInv
  <1> QED  BY <1>1, ImportInvariant, PTL
=============================================================================
