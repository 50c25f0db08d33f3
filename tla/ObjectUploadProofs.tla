------------------------- MODULE ObjectUploadProofs -------------------------
(***************************************************************************)
(* Proofs about ObjectUpload: an object that Close has reported as stored  *)
(* is complete, and the callbacks of its parts do not outlive the writer.  *)
(***************************************************************************)
EXTENDS ObjectStorage, SequenceTheorems, FiniteSetTheorems, WellFoundedInduction, TLAPS

-----------------------------------------------------------------------------
(* Induction over the natural numbers, for sets.                           *)

(* A set of natural numbers has a least member.                            *)
LEMMA LeastMember ==
    ASSUME NEW T \in SUBSET Nat, T # {}
    PROVE  \E x \in T : \A y \in T : x <= y
<1> DEFINE Below(x) == {y \in T : y < x}
           C == {Below(x) : x \in T}
<1>1. \A x \in T : IsFiniteSet(Below(x))
  <2> SUFFICES ASSUME NEW x \in T PROVE IsFiniteSet(Below(x))
      OBVIOUS
  <2> QED BY FS_BoundedSetOfNaturals
<1>2. C \subseteq FiniteSubsetsOf(Nat)
  BY <1>1 DEF FiniteSubsetsOf
<1>3. C # {}
  OBVIOUS
<1>4. \E m \in C : \A k \in C : ~(<<k, m>> \in StrictSubsetOrdering(Nat))
  <2> HIDE DEF C
  <2> QED BY <1>2, <1>3, WFMin, FS_StrictSubsetOrderingWellFounded
<1>5. PICK x \in T : \A y \in T : ~(<<Below(y), Below(x)>> \in StrictSubsetOrdering(Nat))
  BY <1>4
<1>6. ASSUME NEW y \in T, y < x PROVE FALSE
  <2>0. x \in Nat /\ y \in Nat /\ \A z \in T : z \in Nat
    OBVIOUS
  <2>1. y \in Below(x) /\ y \notin Below(y) /\ \A z \in Below(y) : z \in Below(x)
    BY <1>6, <2>0
  <2>2. <<Below(y), Below(x)>> \in StrictSubsetOrdering(Nat)
    <3>1. Below(y) \subseteq Below(x) /\ Below(y) # Below(x) /\ Below(x) \subseteq Nat
      <4> HIDE DEF Below
      <4>1. Below(x) \subseteq Nat
        BY DEF Below
      <4> QED BY <2>1, <4>1
    <3> HIDE DEF Below
    <3> QED BY <3>1 DEF StrictSubsetOrdering
  <2> QED BY <2>2, <1>5
<1> QED BY <1>6

(* A set with 0 that is closed under successor has every natural number.   *)
LEMMA SetInduction ==
    ASSUME NEW S \in SUBSET Nat, 0 \in S, \A n \in S : n + 1 \in S
    PROVE  S = Nat
<1> DEFINE T == Nat \ S
<1>1. CASE T # {}
  <2>1. PICK x \in T : \A y \in T : x <= y
    BY <1>1, LeastMember
  <2>2. x # 0 /\ x \in Nat
    OBVIOUS
  <2>3. x - 1 \in Nat /\ x - 1 \notin T
    BY <2>1, <2>2
  <2>4. x - 1 + 1 \in S
    BY <2>3
  <2> QED BY <2>4, <2>2
<1> QED BY <1>1

-----------------------------------------------------------------------------
(* What Concatenated computes.                                             *)

(* The equation by which Concatenated defines its prefixes.                *)
Running(f, s) ==
    f = [n \in 0 .. Len(s) |-> IF n = 0 THEN <<>> ELSE f[n - 1] \o s[n]]

(* Functions that satisfy the equation agree where both are defined and    *)
(* the sequences do.                                                       *)
LEMMA RunningAgree ==
    ASSUME NEW S, NEW s \in Seq(Seq(S)), NEW t \in Seq(Seq(S)),
           NEW f, NEW g, Running(f, s), Running(g, t),
           NEW m \in 0 .. Len(s), m <= Len(t), \A i \in 1 .. m : s[i] = t[i]
    PROVE  f[m] = g[m] /\ f[m] \in Seq(S)
<1> DEFINE Same(n) == f[n] = g[n] /\ f[n] \in Seq(S)
           Agree == {n \in Nat : n <= m => Same(n)}
<1>1. 0 \in Agree
  BY DEF Running
<1>2. ASSUME NEW n \in Agree, n + 1 <= m PROVE n + 1 \in Agree
  <2>1. n \in 0 .. m /\ f[n] = g[n] /\ f[n] \in Seq(S)
    BY <1>2
  <2>2. n + 1 \in 1 .. Len(s) /\ n + 1 \in 1 .. Len(t) /\ s[n + 1] = t[n + 1]
    BY <2>1, <1>2, LenProperties
  <2>3. f[n + 1] = f[n] \o s[n + 1]
    <3>1. n + 1 \in 0 .. Len(s) /\ n + 1 # 0 /\ (n + 1) - 1 = n
      BY <2>2, <2>1, LenProperties
    <3> QED BY <3>1 DEF Running
  <2>4. g[n + 1] = g[n] \o t[n + 1]
    <3>1. n + 1 \in 0 .. Len(t) /\ n + 1 # 0 /\ (n + 1) - 1 = n
      BY <2>2, <2>1, LenProperties
    <3> QED BY <3>1 DEF Running
  <2>5. s[n + 1] \in Seq(S)
    BY <2>2, ElementOfSeq
  <2>6. f[n] \o s[n + 1] \in Seq(S)
    BY <2>1, <2>5, ConcatProperties
  <2>7. Same(n + 1)
    BY <2>1, <2>2, <2>3, <2>4, <2>6
  <2> HIDE DEF Same
  <2> QED BY <2>7
<1>3. ASSUME NEW n \in Agree PROVE n + 1 \in Agree
  <2>1. CASE n + 1 <= m
    BY <1>2, <2>1
  <2>2. CASE ~(n + 1 <= m)
    <3>1. n + 1 \in Nat
      OBVIOUS
    <3> HIDE DEF Same
    <3> QED BY <3>1, <2>2
  <2> QED BY <2>1, <2>2
<1>4. Agree = Nat
  <2> HIDE DEF Agree
  <2> QED
    <3>1. Agree \in SUBSET Nat
      BY DEF Agree
    <3> QED BY <1>1, <1>3, <3>1, SetInduction
<1> QED BY <1>4, LenProperties

(* There is such a function for every sequence.                            *)
LEMMA RunningExist ==
    ASSUME NEW S, NEW s \in Seq(Seq(S))
    PROVE  \E f : Running(f, s)
<1> DEFINE Upto(n) == [i \in 1 .. n |-> s[i]]
           Good == {n \in Nat : n <= Len(s) => \E f : Running(f, Upto(n))}
<1>0. \A n \in Nat : n <= Len(s) => Upto(n) \in Seq(Seq(S)) /\ Len(Upto(n)) = n
  BY LenProperties, ElementOfSeq
<1>1. 0 \in Good
  <2>1. Running([n \in 0 .. 0 |-> <<>>], Upto(0))
    BY <1>0, LenProperties DEF Running
  <2> QED BY <2>1
<1>2. ASSUME NEW n \in Good PROVE n + 1 \in Good
  <2>0. n \in Nat /\ n + 1 \in Nat /\ Len(s) \in Nat /\ (n <= Len(s) => \E f : Running(f, Upto(n)))
    <3>1. n \in Nat /\ (n <= Len(s) => \E f : Running(f, Upto(n)))
      <4> HIDE DEF Upto
      <4> QED BY Zenon
    <3> QED BY <3>1, LenProperties
  <2>1. SUFFICES ASSUME n + 1 <= Len(s) PROVE \E f : Running(f, Upto(n + 1))
    BY <2>0
  <2>2. PICK f : Running(f, Upto(n))
    <3>1. n <= Len(s)
      BY <2>0, <2>1
    <3> HIDE DEF Upto, Good
    <3> QED BY <2>0, <3>1
  <2> DEFINE g == [k \in 0 .. n + 1 |-> IF k = n + 1 THEN f[n] \o s[n + 1] ELSE f[k]]
  <2>3. ASSUME NEW k \in 0 .. n + 1
        PROVE  g[k] = IF k = 0 THEN <<>> ELSE g[k - 1] \o Upto(n + 1)[k]
    <3>1. n \in Nat /\ n <= Len(s) /\ Len(Upto(n)) = n
      BY <1>0, <2>1, LenProperties
    <3>2. CASE k = n + 1
      BY <3>1, <3>2
    <3>3. CASE k # n + 1
      <4>1. k \in 0 .. n /\ g[k] = f[k]
        BY <3>1, <3>3
      <4>2. f[k] = IF k = 0 THEN <<>> ELSE f[k - 1] \o Upto(n)[k]
        BY <2>2, <4>1, <3>1 DEF Running
      <4>3. k # 0 => Upto(n)[k] = Upto(n + 1)[k] /\ g[k - 1] = f[k - 1]
        BY <4>1, <3>1
      <4> QED BY <4>1, <4>2, <4>3
    <3> QED BY <3>2, <3>3
  <2>4. Running(g, Upto(n + 1))
    <3>1. Len(Upto(n + 1)) = n + 1
      BY <1>0, <2>1
    <3>2. g = [k \in 0 .. n + 1 |-> IF k = 0 THEN <<>> ELSE g[k - 1] \o Upto(n + 1)[k]]
      BY <2>3
    <3> HIDE DEF g, Upto
    <3> QED BY <3>1, <3>2 DEF Running
  <2> QED BY <2>4
<1>3. Good = Nat
  <2>1. \A n \in Good : n + 1 \in Good
    BY <1>2
  <2>2. Good \in SUBSET Nat
    OBVIOUS
  <2> HIDE DEF Good
  <2> QED BY <1>1, <2>1, <2>2, SetInduction
<1>4. Upto(Len(s)) = s
  BY LenProperties
<1> QED BY <1>3, <1>4, LenProperties

(* Concatenated is a concatenation: nothing for nothing, and one more      *)
(* element appends it.                                                     *)
LEMMA ConcatenatedIs ==
    ASSUME NEW S, NEW s \in Seq(Seq(S))
    PROVE  \E f : Running(f, s) /\ Concatenated(s) = f[Len(s)]
<1> DEFINE first == CHOOSE f : Running(f, s)
<1>1. Concatenated(s) = first[Len(s)]
  BY DEF Concatenated, Running
<1>2. Running(first, s)
  BY RunningExist
<1> QED BY <1>1, <1>2

(* Concatenated yields a sequence, and one more element appends it.        *)
LEMMA ConcatenatedAppend ==
    ASSUME NEW S, NEW s \in Seq(Seq(S)), NEW x \in Seq(S)
    PROVE  /\ Concatenated(s) \in Seq(S)
           /\ Concatenated(Append(s, x)) = Concatenated(s) \o x
<1>1. PICK f : Running(f, s) /\ Concatenated(s) = f[Len(s)]
  BY ConcatenatedIs
<1> DEFINE t == Append(s, x)
<1>2. t \in Seq(Seq(S)) /\ Len(t) = Len(s) + 1 /\ t[Len(s) + 1] = x
      /\ \A i \in 1 .. Len(s) : t[i] = s[i]
  BY AppendProperties
<1>3. Len(s) \in Nat
  BY LenProperties
<1> HIDE DEF t
<1>4. PICK g : Running(g, t) /\ Concatenated(t) = g[Len(t)]
  BY <1>2, ConcatenatedIs
<1>5. f[Len(s)] = g[Len(s)] /\ f[Len(s)] \in Seq(S)
  <2>1. Len(s) \in 0 .. Len(s) /\ Len(s) <= Len(t)
    BY <1>2, <1>3
  <2>2. \A i \in 1 .. Len(s) : s[i] = t[i]
    BY <1>2
  <2> QED BY <1>1, <1>2, <1>4, <2>1, <2>2, RunningAgree
<1>6. g[Len(t)] = g[Len(s)] \o x
  <2>1. Len(t) \in 0 .. Len(t) /\ Len(t) # 0 /\ Len(t) - 1 = Len(s)
    BY <1>2, <1>3
  <2> QED BY <2>1, <1>2, <1>4 DEF Running
<1> QED BY <1>1, <1>4, <1>5, <1>6 DEF t

(* Concatenated of nothing is nothing.                                     *)
LEMMA ConcatenatedEmpty == Concatenated(<<>>) = <<>>
<1>1. <<>> \in Seq(Seq({}))
  OBVIOUS
<1>2. PICK f : Running(f, <<>>) /\ Concatenated(<<>>) = f[Len(<<>>)]
  BY <1>1, ConcatenatedIs
<1> QED BY <1>2 DEF Running

-----------------------------------------------------------------------------
(* The inductive invariant.                                                *)

(* The bytes that exports write.                                           *)
Byte == UNION {UNION {{w[i] : i \in DOMAIN w} : w \in {x.writes[j] : j \in DOMAIN x.writes}} :
                  x \in Exports}

Labels == {"format", "fill", "begin", "count", "send", "wait", "complete", "destroy",
           "return", "ended"}

UploadRecord == [number : Nat, id : {None, 1}, bytes : Seq(Byte),
                 at : {"sent", "stored", "entered", "done", "failed", "cancelled", "noted"},
                 count : Int]

UploadTypeOK ==
    /\ export \in Exports
    /\ main \in Labels
    /\ next \in Nat \ {0}
    /\ written \in Seq(Byte) /\ part \in Seq(Byte) /\ rest \in Seq(Byte)
    /\ error \in BOOLEAN /\ multipart \in BOOLEAN /\ initialized \in BOOLEAN
    /\ lost \in BOOLEAN
    /\ closed \in {None, "pending", "success", "error"}
    /\ uploadId \in {None, 1}
    /\ partCount \in Nat /\ parts \in Seq(Nat) /\ inProcess \in Int
    /\ local \in [number : Nat, id : {None, 1}, count : Int, parts : Seq(Nat)]
    /\ uploads \in Seq(UploadRecord)
    /\ DOMAIN multiparts \in {{}, {1}}
    /\ outcome \in {None, "success", "failure", "crash"}

(* Where the writing thread can be, given what it has done so far.         *)
ControlInv ==
    /\ outcome = None <=> main # "ended"
    /\ export.stored => main = "ended" /\ closed = None /\ uploads = <<>>
    /\ export.backend # "s3" => ~multipart /\ main \in {"format", "return", "ended"}
    /\ ~multipart => /\ ~initialized /\ uploadId = None /\ partCount = 1
                     /\ parts = <<>> /\ uploads = <<>> /\ DOMAIN multiparts = {}
                     /\ main \in {"format", "destroy", "return", "ended"}
    /\ multipart \/ export.backend = "s3" => Len(part) <= kMultipartSizeBytes
    /\ main = "format" => closed = None /\ rest = <<>>
    /\ main = "fill" => closed = None
    /\ main \in {"begin", "count", "send"} =>
          closed = None \/ (closed = "pending" /\ rest = <<>>)
    /\ main \in {"wait", "complete"} => closed \in {"pending", "error"}
    /\ main \in {"wait", "complete"} \/ (main = "destroy" /\ multipart) =>
          part = <<>> /\ rest = <<>>
    /\ main \in {"destroy", "return"} => closed \in {"success", "error"}
    /\ closed = "success" => main \in {"destroy", "return", "ended"} /\ ~initialized

(* No byte that Write has accepted is lost before it is sent: what has     *)
(* been sent, the part being filled and the rest are what was written.     *)
Bodies(us) == [k \in DOMAIN us |-> us[k].bytes]
Sent == Concatenated(Bodies(uploads))

DataInv ==
    /\ export.backend = "s3" /\ ~export.stored => (Sent \o part) \o rest = written
    /\ export.backend = "dynamodb" /\ main = "format" /\ ~error => part = written
    /\ export.backend = "filesystem" /\ main = "format" /\ ~error =>
          object = written \/ (object = None /\ next = 1)
    /\ StoredIsComplete

(* An element of parts_ is a part of this place, or was not filled in.     *)
Numbered(ps) == \A i \in DOMAIN ps : ps[i] \in {0, i}

(* While S3 knows the upload, its parts are numbered as they were sent.    *)
OpenInv ==
    1 \in DOMAIN multiparts =>
        /\ uploadId = 1
        /\ Len(parts) = Len(uploads) /\ Numbered(parts)
        /\ \A k \in DOMAIN uploads : uploads[k].number = k
        /\ partCount = Len(uploads) + (IF main = "send" THEN 2 ELSE 1)
        /\ main \in {"count", "send"} => local.number = Len(uploads) + 1
        /\ main = "send" => Len(local.parts) = Len(uploads) /\ Numbered(local.parts)
        /\ \A n \in DOMAIN multiparts[1] :
              n \in DOMAIN uploads /\ multiparts[1][n] = uploads[n].bytes

(* The counter of parts under way counts the uploads whose callback has    *)
(* not ended, a failed one among them, unless an update of it was lost.    *)
Pending == {k \in DOMAIN uploads : uploads[k].at # "done"}

CountInv ==
    ~lost =>
        /\ main # "ended" =>
              inProcess = Cardinality(Pending) + (IF main = "send" THEN 1 ELSE 0)
        /\ main \in {"complete", "destroy", "return"} => Pending = {}
        /\ outcome \in {"success", "failure"} => Pending = {}

UploadInv == UploadTypeOK /\ ControlInv /\ DataInv /\ OpenInv /\ CountInv

-----------------------------------------------------------------------------
(* What the constants are.                                                 *)
LEMMA ConstantFacts ==
    /\ kMultipartSizeBytes \in Nat \ {0}
    /\ None # 1 /\ None # "pending" /\ None # "success" /\ None # "error"
    /\ None # "failure" /\ None # "crash"
BY UploadAssumption

(* An export has a backend, and writes that consist of bytes.              *)
LEMMA ExportFacts ==
    ASSUME NEW x \in Exports
    PROVE  /\ x.backend \in {"s3", "dynamodb", "filesystem"}
           /\ x.stored \in BOOLEAN
           /\ x.writes \in Seq(Seq(Byte))
           /\ x.backend = "filesystem" => x.writes # <<>>
<1> DEFINE Own == UNION {{w[i] : i \in DOMAIN w} : w \in {x.writes[j] : j \in DOMAIN x.writes}}
<1>1. x.writes \in Seq(Seq(Own))
  BY UploadAssumption
<1>2. Own \subseteq Byte
  BY DEF Byte
<1> HIDE DEF Own
<1>3. Seq(Own) \subseteq Seq(Byte)
  BY <1>2, SeqMonotonic
<1>4. x.writes \in Seq(Seq(Byte))
  BY <1>1, <1>3, SeqMonotonic
<1> QED BY <1>4, UploadAssumption

(* The data of a write is a sequence of bytes.                             *)
LEMMA DataFacts ==
    ASSUME UploadTypeOK, Formatting
    PROVE  Data \in Seq(Byte)
<1>1. export.writes \in Seq(Seq(Byte))
  BY ExportFacts DEF UploadTypeOK
<1>2. next \in 1 .. Len(export.writes)
  BY <1>1, LenProperties DEF UploadTypeOK, Formatting
<1> QED BY <1>1, <1>2, ElementOfSeq DEF Data

(* A callback step changes where one upload is and nothing else of it.     *)
Moved(k, label) ==
    /\ uploads' \in Seq(UploadRecord)
    /\ Len(uploads') = Len(uploads) /\ DOMAIN uploads' = DOMAIN uploads
    /\ \A j \in DOMAIN uploads :
          /\ uploads'[j].number = uploads[j].number
          /\ uploads'[j].bytes = uploads[j].bytes
          /\ uploads'[j].at = IF j = k THEN label ELSE uploads[j].at

(* A callback that only changes its label has moved its part.              *)
LEMMA MovedFacts ==
    ASSUME uploads \in Seq(UploadRecord), NEW k \in DOMAIN uploads,
           NEW label \in {"stored", "entered", "done", "failed", "cancelled", "noted"},
           NEW c \in Int,
           \/ uploads' = [uploads EXCEPT ![k].at = label]
           \/ uploads' = [uploads EXCEPT ![k].at = label, ![k].count = c]
    PROVE  Moved(k, label)
<1>1. k \in 1 .. Len(uploads) /\ uploads[k] \in UploadRecord
  BY LenProperties, ElementOfSeq
<1>2. PICK r \in UploadRecord :
          /\ uploads' = [uploads EXCEPT ![k] = r]
          /\ r.number = uploads[k].number /\ r.bytes = uploads[k].bytes /\ r.at = label
  <2>1. CASE uploads' = [uploads EXCEPT ![k].at = label]
    <3> DEFINE r == [uploads[k] EXCEPT !.at = label]
    <3>1. r \in UploadRecord /\ r.number = uploads[k].number /\ r.bytes = uploads[k].bytes
          /\ r.at = label
      BY <1>1 DEF UploadRecord
    <3> QED BY <3>1, <2>1
  <2>2. CASE uploads' = [uploads EXCEPT ![k].at = label, ![k].count = c]
    <3> DEFINE r == [uploads[k] EXCEPT !.at = label, !.count = c]
    <3>1. r \in UploadRecord /\ r.number = uploads[k].number /\ r.bytes = uploads[k].bytes
          /\ r.at = label
      BY <1>1 DEF UploadRecord
    <3>2. uploads' = [uploads EXCEPT ![k] = r]
      BY <2>2
    <3> QED BY <3>1, <3>2
  <2> QED BY <2>1, <2>2
<1>3. /\ uploads' \in Seq(UploadRecord) /\ Len(uploads') = Len(uploads)
      /\ \A j \in 1 .. Len(uploads) : uploads'[j] = IF j = k THEN r ELSE uploads[j]
  BY <1>1, <1>2, ExceptSeq
<1>4. DOMAIN uploads' = 1 .. Len(uploads) /\ DOMAIN uploads = 1 .. Len(uploads)
  BY <1>3, LenProperties
<1> QED BY <1>2, <1>3, <1>4 DEF Moved

(* Where the steps of a callback lead.                                     *)
LEMMA PartMoves ==
    ASSUME UploadTypeOK, NEW k \in DOMAIN uploads
    PROVE  /\ ReceivePart(k) => Moved(k, "stored") \/ Moved(k, "failed")
           /\ EnterPart(k) => Moved(k, "entered")
           /\ LeavePart(k) => Moved(k, "done")
           /\ FailPart(k) => Moved(k, "cancelled")
           /\ SetError(k) => Moved(k, "noted")
<1>0. uploads \in Seq(UploadRecord) /\ inProcess \in Int /\ 0 \in Int
  BY DEF UploadTypeOK
<1>1. ReceivePart(k) => Moved(k, "stored") \/ Moved(k, "failed")
  BY <1>0, MovedFacts DEF ReceivePart, Goto
<1>2. EnterPart(k) => Moved(k, "entered")
  BY <1>0, MovedFacts DEF EnterPart
<1>3. LeavePart(k) => Moved(k, "done")
  BY <1>0, MovedFacts DEF LeavePart, Goto
<1>4. FailPart(k) => Moved(k, "cancelled")
  BY <1>0, MovedFacts DEF FailPart, Goto
<1>5. SetError(k) => Moved(k, "noted")
  BY <1>0, MovedFacts DEF SetError, Goto
<1> QED BY <1>1, <1>2, <1>3, <1>4, <1>5

(* A callback step sends nothing.                                          *)
LEMMA MovedKeepsBodies ==
    ASSUME NEW k, NEW label, Moved(k, label)
    PROVE  Sent' = Sent
<1>1. Bodies(uploads') = Bodies(uploads)
  BY DEF Moved, Bodies
<1> QED BY <1>1 DEF Sent

-----------------------------------------------------------------------------
(* The invariant holds in the beginning.                                   *)
LEMMA UploadInvInit == Init => UploadInv
<1> SUFFICES ASSUME Init PROVE UploadInv
    OBVIOUS
<1> USE DEF Init, UploadInit
<1>1. export.writes \in Seq(Seq(Byte)) /\ export.stored \in BOOLEAN
  BY ExportFacts
<1>2. Concatenated(export.writes) \in Seq(Byte) /\ <<>> \in Seq(Byte)
  BY <1>1, ConcatenatedAppend
<1>3. uploads = <<>> /\ Len(uploads) = 0 /\ DOMAIN uploads = {} /\ DOMAIN multiparts = {}
  OBVIOUS
<1>4. UploadTypeOK
  <2>1. local \in [number : Nat, id : {None, 1}, count : Int, parts : Seq(Nat)]
    BY DEF Nothing
  <2>2. main \in Labels /\ outcome \in {None, "success", "failure", "crash"}
    BY <1>1 DEF Labels
  <2>3. written \in Seq(Byte) /\ part \in Seq(Byte) /\ rest \in Seq(Byte)
    BY <1>1, <1>2
  <2>4. parts \in Seq(Nat) /\ uploads \in Seq(UploadRecord) /\ DOMAIN multiparts \in {{}, {1}}
    BY <1>3
  <2>5. /\ export \in Exports /\ next \in Nat \ {0} /\ partCount \in Nat /\ inProcess \in Int
        /\ closed \in {None, "pending", "success", "error"} /\ uploadId \in {None, 1}
    OBVIOUS
  <2>6. /\ error \in BOOLEAN /\ multipart \in BOOLEAN /\ initialized \in BOOLEAN
        /\ lost \in BOOLEAN
    OBVIOUS
  <2> HIDE DEF Init, UploadInit
  <2> QED BY <2>1, <2>2, <2>3, <2>4, <2>5, <2>6 DEF UploadTypeOK
<1>5. ControlInv
  <2>1. Len(part) <= kMultipartSizeBytes
    BY ConstantFacts
  <2> QED BY <1>1, <1>3, <2>1, ConstantFacts DEF ControlInv
<1>6. DataInv
  <2>1. Bodies(uploads) = <<>>
    BY <1>3 DEF Bodies
  <2>2. Sent = <<>>
    BY <2>1, ConcatenatedEmpty DEF Sent
  <2>3. closed # "success"
    BY ConstantFacts
  <2>4. ~export.stored => object = written \/ object = None
    BY DEF Opened
  <2>5. main = "format" => ~export.stored
    BY <1>1
  <2>6. (Sent \o part) \o rest = <<>>
    BY <2>2
  <2>7. next = 1 /\ part = <<>> /\ (~export.stored => written = <<>>)
    BY <1>1
  <2> HIDE DEF Init, UploadInit
  <2> QED BY <2>3, <2>4, <2>5, <2>6, <2>7 DEF DataInv, StoredIsComplete
<1>7. OpenInv
  BY <1>3 DEF OpenInv
<1>8. CountInv
  <2>1. Pending = {}
    BY <1>3 DEF Pending
  <2>2. Cardinality(Pending) = 0
    BY <2>1, FS_EmptySet
  <2> QED BY <1>1, <2>1, <2>2 DEF CountInv
<1> QED BY <1>4, <1>5, <1>6, <1>7, <1>8 DEF UploadInv

-----------------------------------------------------------------------------
(* A step keeps the types.                                                 *)

(* CancelUpload forgets the upload or changes nothing.                     *)
LEMMA CancelCases ==
    ASSUME CancelUpload
    PROVE  \/ UNCHANGED <<initialized, uploadId, partCount, parts, multiparts>>
           \/ /\ initialized' = FALSE /\ uploadId' = None /\ partCount' = 1
              /\ parts' = <<>> /\ multiparts' = <<>>
BY DEF CancelUpload

(* CancelUpload keeps the types of what it changes.                        *)
LEMMA CancelTypes ==
    ASSUME UploadTypeOK, CancelUpload
    PROVE  /\ initialized' \in BOOLEAN /\ uploadId' \in {None, 1} /\ partCount' \in Nat
           /\ parts' \in Seq(Nat) /\ DOMAIN multiparts' \in {{}, {1}}
<1>1. CASE UNCHANGED <<initialized, uploadId, partCount, parts, multiparts>>
  BY <1>1 DEF UploadTypeOK
<1>2. CASE /\ initialized' = FALSE /\ uploadId' = None /\ partCount' = 1
           /\ parts' = <<>> /\ multiparts' = <<>>
  <2>1. DOMAIN <<>> = {} /\ <<>> \in Seq(Nat)
    OBVIOUS
  <2> QED BY <1>2, <2>1
<1> QED BY <1>1, <1>2, CancelCases

(* What Write of the S3 writer does: it fills parts when the data is too   *)
(* much for one, and otherwise collects it.  It may create an upload.      *)
LEMMA S3WriteCases ==
    ASSUME UploadTypeOK, S3Write
    PROVE  /\ \/ /\ main' = "fill" /\ rest' = Data /\ UNCHANGED <<part, next>>
                 /\ multipart'
              \/ /\ part' = part \o Data /\ next' = next + 1 /\ UNCHANGED <<main, rest>>
                 /\ Data = <<>> \/ ~(Len(part) + Len(Data) > kMultipartSizeBytes)
           /\ \/ /\ ~multipart /\ multipart' /\ initialized'
                 /\ \/ uploadId' = 1 /\ multiparts' = <<<<>>>>
                    \/ UNCHANGED <<uploadId, multiparts>>
              \/ UNCHANGED <<multipart, initialized, uploadId, multiparts>>
<1> DEFINE expected == Len(part) + Len(Data)
           large == expected > kMultipartSizeBytes
           create == Data # <<>> /\ ~multipart /\ large
<1>1. PICK failed \in BOOLEAN :
         /\ multipart' = (multipart \/ create)
         /\ initialized' = (initialized \/ create)
         /\ uploadId' = IF create /\ ~failed THEN 1 ELSE uploadId
         /\ multiparts' = IF create /\ ~failed THEN <<<<>>>> ELSE multiparts
         /\ IF multipart' /\ large
            THEN main' = "fill" /\ rest' = Data /\ UNCHANGED <<part, next>>
            ELSE part' = part \o Data /\ next' = next + 1 /\ UNCHANGED <<main, rest>>
  BY DEF S3Write, MayFail
<1>2. multipart \in BOOLEAN /\ initialized \in BOOLEAN
  BY DEF UploadTypeOK
<1>3. \/ /\ main' = "fill" /\ rest' = Data /\ UNCHANGED <<part, next>>
         /\ multipart'
      \/ /\ part' = part \o Data /\ next' = next + 1 /\ UNCHANGED <<main, rest>>
         /\ ~(multipart' /\ large)
  <2> HIDE DEF large, create
  <2> QED BY <1>1
<1>4. ~(multipart' /\ large) => Data = <<>> \/ ~large
  <2> HIDE DEF large
  <2> QED BY <1>1, <1>2
<1>5. CASE create
  <2>1. ~multipart /\ multipart' /\ initialized'
    BY <1>1, <1>2, <1>5
  <2>2. \/ uploadId' = 1 /\ multiparts' = <<<<>>>>
        \/ UNCHANGED <<uploadId, multiparts>>
    <3> HIDE DEF create
    <3> QED BY <1>1
  <2> HIDE DEF create
  <2> QED BY <1>3, <1>4, <2>1, <2>2
<1>6. CASE ~create
  <2>1. UNCHANGED <<multipart, initialized, uploadId, multiparts>>
    <3> HIDE DEF create
    <3> QED BY <1>1, <1>2, <1>6
  <2> HIDE DEF create
  <2> QED BY <1>3, <1>4, <2>1
<1> QED BY <1>5, <1>6

(* The writing thread keeps the types.                                     *)
LEMMA TypeWriterStep ==
    ASSUME UploadInv, WriterStep
    PROVE  UploadTypeOK'
<1>0. UploadTypeOK /\ ControlInv
  BY DEF UploadInv
<1> USE DEF UploadTypeOK, Labels, handlerVars, writerVars, uploaderVars
<1>1. CASE SkipWrite
  BY <1>0, <1>1 DEF SkipWrite, Formatting
<1>2. CASE S3Write
  <2>1. Formatting /\ Data \in Seq(Byte)
    BY <1>0, <1>2, DataFacts DEF S3Write
  <2>2. written \o Data \in Seq(Byte) /\ part \o Data \in Seq(Byte)
    BY <1>0, <2>1, ConcatProperties
  <2>3. \/ main' = "fill" /\ rest' = Data /\ UNCHANGED <<part, next>>
        \/ part' = part \o Data /\ next' = next + 1 /\ UNCHANGED <<main, rest>>
    <3> HIDE DEF UploadTypeOK
    <3> QED BY <1>0, <1>2, S3WriteCases
  <2>4. written' \in Seq(Byte) /\ part' \in Seq(Byte) /\ rest' \in Seq(Byte)
        /\ next' \in Nat \ {0} /\ main' \in Labels
    <3>1. written' = written \o Data
      BY <1>2 DEF S3Write
    <3>2. next + 1 \in Nat \ {0}
      BY <1>0
    <3>3. /\ written \in Seq(Byte) /\ part \in Seq(Byte) /\ rest \in Seq(Byte)
          /\ next \in Nat \ {0} /\ main \in Labels
      BY <1>0
    <3> HIDE DEF UploadTypeOK
    <3>4. CASE main' = "fill" /\ rest' = Data /\ UNCHANGED <<part, next>>
      BY <2>1, <2>2, <3>1, <3>3, <3>4
    <3>5. CASE part' = part \o Data /\ next' = next + 1 /\ UNCHANGED <<main, rest>>
      BY <2>1, <2>2, <3>1, <3>2, <3>3, <3>5
    <3> QED BY <2>3, <3>4, <3>5
  <2>5. uploadId' \in {None, 1} /\ DOMAIN multiparts' \in {{}, {1}}
        /\ multipart' \in BOOLEAN /\ initialized' \in BOOLEAN
    <3>1. \/ UNCHANGED <<multipart, initialized, uploadId, multiparts>>
          \/ /\ multipart' \in BOOLEAN /\ initialized' \in BOOLEAN
             /\ \/ uploadId' = 1 /\ multiparts' = <<<<>>>>
                \/ UNCHANGED <<uploadId, multiparts>>
      <4> HIDE DEF UploadTypeOK
      <4>1. multipart' \in BOOLEAN /\ initialized' \in BOOLEAN
        <5>1. multipart \in BOOLEAN /\ initialized \in BOOLEAN
          BY <1>0 DEF UploadTypeOK
        <5> QED BY <5>1, <1>2 DEF S3Write
      <4> QED BY <1>0, <1>2, <4>1, S3WriteCases
    <3>2. DOMAIN <<<<>>>> = {1}
      OBVIOUS
    <3> QED BY <1>0, <3>1, <3>2
  <2>6. UNCHANGED <<export, error, closed, partCount, parts, inProcess, local, uploads, lost,
                    outcome>>
    BY <1>2 DEF S3Write
  <2> QED BY <1>0, <2>4, <2>5, <2>6
<1>3. CASE FillPart
  <2>1. multipart
    BY <1>0, <1>3 DEF FillPart, ControlInv
  <2>2. PICK left \in Nat : left = kMultipartSizeBytes - Len(part)
    <3>1. Len(part) \in Nat /\ Len(part) <= kMultipartSizeBytes
      BY <1>0, <2>1, LenProperties DEF ControlInv
    <3> QED BY <3>1, ConstantFacts
  <2>3. Len(rest) >= left => /\ SubSeq(rest, 1, left) \in Seq(Byte)
                             /\ SubSeq(rest, left + 1, Len(rest)) \in Seq(Byte)
    <3>1. \A i \in 1 .. Len(rest) : rest[i] \in Byte
      BY <1>0, ElementOfSeq
    <3>2. Len(rest) \in Nat
      BY <1>0, LenProperties
    <3> QED BY <2>2, <3>1, <3>2, SubSeqProperties
  <2>4. part' \in Seq(Byte) /\ rest' \in Seq(Byte) /\ next' \in Nat \ {0} /\ main' \in Labels
    <3>1. CASE Len(rest) >= left
      <4>1. part \o SubSeq(rest, 1, left) \in Seq(Byte)
        BY <1>0, <2>3, <3>1, ConcatProperties
      <4> QED BY <1>0, <1>3, <2>2, <2>3, <3>1, <4>1 DEF FillPart
    <3>2. CASE ~(Len(rest) >= left)
      <4>1. part \o rest \in Seq(Byte)
        BY <1>0, ConcatProperties
      <4>2. part' = part \o rest /\ rest' = <<>> /\ main' = "format" /\ next' = next + 1
        BY <1>3, <2>2, <3>2 DEF FillPart
      <4>3. next + 1 \in Nat \ {0}
        BY <1>0
      <4> QED BY <4>1, <4>2, <4>3
    <3> QED BY <3>1, <3>2
  <2>5. UNCHANGED <<export, written, error, closed, multipart, uploaderVars, local, uploads,
                    multiparts, lost, outcome>>
    BY <1>3 DEF FillPart
  <2> QED BY <1>0, <2>4, <2>5
<1>4. CASE BeginPart
  BY <1>0, <1>4 DEF BeginPart
<1>5. CASE CountPart
  <2>1. inProcess' \in Int /\ partCount' \in Nat /\ lost' \in BOOLEAN
    BY <1>0, <1>5 DEF CountPart
  <2>2. local' \in [number : Nat, id : {None, 1}, count : Int, parts : Seq(Nat)]
    BY <1>0, <1>5 DEF CountPart
  <2>3. main' \in Labels
    BY <1>5 DEF CountPart
  <2> QED BY <1>0, <1>5, <2>1, <2>2, <2>3 DEF CountPart
<1>6. CASE SendPart
  <2>1. parts' \in Seq(Nat)
    BY <1>0, <1>6, AppendProperties DEF SendPart
  <2>2. uploads' \in Seq(UploadRecord)
    <3>1. [number |-> local.number, id |-> local.id, bytes |-> part, at |-> "sent", count |-> 0]
              \in UploadRecord
      BY <1>0 DEF UploadRecord
    <3> QED BY <1>0, <1>6, <3>1, AppendProperties DEF SendPart
  <2>3. part' \in Seq(Byte) /\ main' \in Labels /\ local' = Nothing
    BY <1>6 DEF SendPart
  <2>4. UNCHANGED <<handlerVars, rest, multipart, initialized, uploadId, partCount, inProcess,
                    multiparts, lost, outcome>>
    BY <1>6 DEF SendPart
  <2> QED BY <1>0, <2>1, <2>2, <2>3, <2>4 DEF Nothing
<1>7. CASE S3Close
  BY <1>0, <1>7 DEF S3Close
<1>8. CASE WaitForParts
  BY <1>0, <1>8 DEF WaitForParts, Answer
<1>9. CASE CompleteUpload
  <2>1. /\ initialized' \in BOOLEAN /\ uploadId' \in {None, 1} /\ partCount' \in Nat
        /\ parts' \in Seq(Nat) /\ DOMAIN multiparts' \in {{}, {1}}
    <3>1. CASE CancelUpload
      <4> HIDE DEF UploadTypeOK
      <4> QED BY <1>0, <3>1, CancelTypes
    <3>2. CASE /\ initialized' = FALSE /\ uploadId' = None /\ partCount' = 1
               /\ parts' = <<>> /\ multiparts' = <<>>
      <4>1. DOMAIN <<>> = {} /\ <<>> \in Seq(Nat)
        OBVIOUS
      <4> HIDE DEF UploadTypeOK
      <4> QED BY <3>2, <4>1
    <3>3. \/ CancelUpload
          \/ /\ initialized' = FALSE /\ uploadId' = None /\ partCount' = 1
             /\ parts' = <<>> /\ multiparts' = <<>>
      <4> HIDE DEF UploadTypeOK, Labels
      <4> QED BY <1>9 DEF CompleteUpload
    <3> QED BY <3>1, <3>2, <3>3
  <2>2. main' \in Labels /\ closed' \in {None, "pending", "success", "error"}
    BY <1>0, <1>9 DEF CompleteUpload, Answer
  <2>3. UNCHANGED <<export, next, written, error, writerVars, inProcess, local, uploads, lost,
                    outcome>>
    BY <1>9 DEF CompleteUpload
  <2> QED BY <1>0, <2>1, <2>2, <2>3
<1>10. CASE DestroyWriter
  BY <1>0, <1>10 DEF DestroyWriter
<1>11. CASE DynamoDbWrite
  <2>1. Data \in Seq(Byte)
    BY <1>0, <1>11, DataFacts DEF DynamoDbWrite
  <2>2. written \o Data \in Seq(Byte) /\ part \o Data \in Seq(Byte)
    BY <1>0, <2>1, ConcatProperties
  <2>3. error' \in BOOLEAN
    BY <1>11 DEF DynamoDbWrite, TooLarge
  <2> QED BY <1>0, <1>11, <2>2, <2>3 DEF DynamoDbWrite
<1>12. CASE DynamoDbClose
  BY <1>0, <1>12 DEF DynamoDbClose
<1>13. CASE FilesystemWrite
  <2>1. Data \in Seq(Byte)
    BY <1>0, <1>13, DataFacts DEF FilesystemWrite
  <2>2. written \o Data \in Seq(Byte)
    BY <1>0, <2>1, ConcatProperties
  <2>3. error' \in BOOLEAN /\ written' \in Seq(Byte)
    BY <1>0, <1>13, <2>2 DEF FilesystemWrite
  <2> QED BY <1>0, <1>13, <2>3 DEF FilesystemWrite
<1>14. CASE FilesystemClose
  BY <1>0, <1>14 DEF FilesystemClose
<1>15. CASE EndExport
  BY <1>0, <1>15 DEF EndExport
<1> QED BY <1>1, <1>2, <1>3, <1>4, <1>5, <1>6, <1>7, <1>8, <1>9, <1>10, <1>11, <1>12, <1>13,
           <1>14, <1>15 DEF WriterStep

(* A callback keeps the types.                                             *)
LEMMA TypePartStep ==
    ASSUME UploadTypeOK, NEW k \in DOMAIN uploads, PartStep(k)
    PROVE  UploadTypeOK'
<1> USE DEF UploadTypeOK, handlerVars, writerVars, uploaderVars
<1>0. k \in 1 .. Len(uploads) /\ uploads[k] \in UploadRecord
  BY LenProperties, ElementOfSeq
<1>1. CASE ReceivePart(k)
  <2>1. uploads' \in Seq(UploadRecord)
    BY <1>1, PartMoves DEF Moved
  <2>2. DOMAIN multiparts' = DOMAIN multiparts
    BY <1>1 DEF ReceivePart
  <2> QED BY <1>1, <2>1, <2>2 DEF ReceivePart
<1>2. CASE EnterPart(k)
  <2>1. uploads' \in Seq(UploadRecord)
    BY <1>2, PartMoves DEF Moved
  <2>2. parts' \in Seq(Nat)
    <3>1. uploads[k].number \in Nat /\ DOMAIN parts = 1 .. Len(parts)
      BY <1>0, LenProperties DEF UploadRecord
    <3> QED BY <1>2, <3>1, ExceptSeq DEF EnterPart
  <2> QED BY <1>2, <2>1, <2>2 DEF EnterPart
<1>3. CASE WriteBehindParts(k)
  BY <1>3 DEF WriteBehindParts, Labels
<1>4. CASE LeavePart(k)
  <2>1. uploads' \in Seq(UploadRecord)
    BY <1>4, PartMoves DEF Moved
  <2>2. inProcess' \in Int /\ lost' \in BOOLEAN
    BY <1>0, <1>4 DEF LeavePart, UploadRecord
  <2> QED BY <1>4, <2>1, <2>2 DEF LeavePart
<1>5. CASE FailPart(k)
  <2>1. uploads' \in Seq(UploadRecord)
    BY <1>5, PartMoves DEF Moved
  <2>2. /\ initialized' \in BOOLEAN /\ uploadId' \in {None, 1} /\ partCount' \in Nat
        /\ parts' \in Seq(Nat) /\ DOMAIN multiparts' \in {{}, {1}}
    BY <1>5, CancelTypes DEF FailPart
  <2> QED BY <1>5, <2>1, <2>2 DEF FailPart
<1>6. CASE SetError(k)
  <2>1. uploads' \in Seq(UploadRecord)
    BY <1>6, PartMoves DEF Moved
  <2> QED BY <1>6, <2>1 DEF SetError
<1> QED BY <1>1, <1>2, <1>3, <1>4, <1>5, <1>6 DEF PartStep

-----------------------------------------------------------------------------
(* A step keeps the writing thread where ControlInv allows it to be.       *)
LEMMA ControlWriterStep ==
    ASSUME UploadInv, WriterStep
    PROVE  ControlInv'
<1>0. /\ UploadTypeOK /\ ControlInv /\ export \in Exports
      /\ part \in Seq(Byte) /\ rest \in Seq(Byte) /\ multipart \in BOOLEAN
      /\ initialized \in BOOLEAN /\ Len(part) \in Nat /\ Len(rest) \in Nat
  BY LenProperties DEF UploadInv, UploadTypeOK
<1>b. export.backend \in {"s3", "dynamodb", "filesystem"} /\ export.stored \in BOOLEAN
  BY <1>0, ExportFacts
<1>k. kMultipartSizeBytes \in Nat /\ Len(<<>>) = 0
  BY ConstantFacts
<1> USE ConstantFacts DEF ControlInv, handlerVars, writerVars, uploaderVars
<1>1. CASE SkipWrite
  BY <1>0, <1>1 DEF SkipWrite, Formatting
<1>2. CASE S3Write
  <2>1. /\ main = "format" /\ export.backend = "s3" /\ main # "ended"
        /\ UNCHANGED <<export, error, closed, partCount, parts, uploads, outcome>>
    BY <1>2 DEF S3Write, Formatting
  <2>2. Data \in Seq(Byte) /\ Len(Data) \in Nat
    BY <1>0, <1>2, DataFacts, LenProperties DEF S3Write
  <2>3. /\ \/ main' = "fill" /\ rest' = Data /\ UNCHANGED <<part, next>> /\ multipart'
           \/ /\ part' = part \o Data /\ next' = next + 1 /\ UNCHANGED <<main, rest>>
              /\ Data = <<>> \/ ~(Len(part) + Len(Data) > kMultipartSizeBytes)
        /\ \/ ~multipart /\ multipart'
           \/ UNCHANGED <<multipart, initialized, uploadId, multiparts>>
    BY <1>0, <1>2, S3WriteCases
  <2>4. Len(part') <= kMultipartSizeBytes
    <3>1. Len(part \o Data) = Len(part) + Len(Data)
      BY <1>0, <2>2, ConcatProperties
    <3>2. Data = <<>> => Len(Data) = 0
      OBVIOUS
    <3> QED BY <1>0, <1>k, <2>1, <2>2, <2>3, <3>1, <3>2
  <2>5. closed' = None /\ (main' = "format" => rest' = <<>>)
    BY <1>0, <2>1, <2>3
  <2> QED BY <1>0, <1>b, <2>1, <2>3, <2>4, <2>5
<1>3. CASE FillPart
  <2>1. multipart /\ main = "fill" /\ closed = None /\ export.backend = "s3"
    BY <1>0, <1>3 DEF FillPart
  <2>2. PICK left \in Nat : left = kMultipartSizeBytes - Len(part)
    <3>1. Len(part) <= kMultipartSizeBytes
      BY <1>0, <2>1
    <3> HIDE DEF ControlInv
    <3> QED BY <1>0, <1>k, <3>1
  <2>3. Len(part') <= kMultipartSizeBytes
    <3>1. CASE Len(rest) >= left
      <4>1. \A i \in 1 .. left : rest[i] \in Byte
        BY <1>0, <3>1, ElementOfSeq
      <4>2. SubSeq(rest, 1, left) \in Seq(Byte) /\ Len(SubSeq(rest, 1, left)) = left
        BY <2>2, <4>1, SubSeqProperties
      <4>3. Len(part \o SubSeq(rest, 1, left)) = Len(part) + left
        BY <1>0, <4>2, ConcatProperties
      <4>4. part' = part \o SubSeq(rest, 1, left)
        BY <1>3, <2>2, <3>1 DEF FillPart
      <4> QED BY <1>0, <1>k, <2>2, <4>3, <4>4
    <3>2. CASE ~(Len(rest) >= left)
      <4>1. Len(part \o rest) = Len(part) + Len(rest)
        BY <1>0, ConcatProperties
      <4>2. part' = part \o rest
        BY <1>3, <2>2, <3>2 DEF FillPart
      <4> QED BY <1>0, <1>k, <2>2, <3>2, <4>1, <4>2
    <3> QED BY <3>1, <3>2
  <2>4. main' = "begin" \/ (main' = "format" /\ rest' = <<>>)
    BY <1>3 DEF FillPart
  <2>5. UNCHANGED <<export, closed, multipart, uploaderVars, uploads, multiparts, outcome>>
    BY <1>3 DEF FillPart
  <2> QED BY <1>0, <1>b, <2>1, <2>3, <2>4, <2>5
<1>4. CASE BeginPart
  BY <1>0, <1>4 DEF BeginPart
<1>5. CASE CountPart
  BY <1>0, <1>5 DEF CountPart
<1>6. CASE SendPart
  <2>1. Len(part') <= kMultipartSizeBytes /\ part' = <<>>
    BY <1>6, <1>k DEF SendPart
  <2> QED BY <1>0, <1>6, <2>1 DEF SendPart
<1>7. CASE S3Close
  BY <1>0, <1>7 DEF S3Close, Closing
<1>8. CASE WaitForParts
  BY <1>0, <1>8 DEF WaitForParts, Answer
<1>9. CASE CompleteUpload
  <2>1. multipart /\ main = "complete" /\ closed \in {"pending", "error"} /\ export.backend = "s3"
        /\ ~export.stored /\ outcome = None
    BY <1>0, <1>9, <1>b DEF CompleteUpload
  <2>2. /\ UNCHANGED <<export, multipart, part, rest, outcome>>
        /\ main' = IF closed = "pending" THEN "destroy" ELSE "return"
    BY <1>9 DEF CompleteUpload, writerVars
  <2>3. \/ closed' = "error"
        \/ closed' \in {"success", "error"} /\ ~initialized'
    BY <1>9, <2>1 DEF CompleteUpload, Answer
  <2> QED BY <1>0, <1>b, <2>1, <2>2, <2>3
<1>10. CASE DestroyWriter
  BY <1>0, <1>10 DEF DestroyWriter
<1>11. CASE DynamoDbWrite
  BY <1>0, <1>11 DEF DynamoDbWrite, Formatting
<1>12. CASE DynamoDbClose
  BY <1>0, <1>12 DEF DynamoDbClose, Closing
<1>13. CASE FilesystemWrite
  BY <1>0, <1>13 DEF FilesystemWrite, Formatting
<1>14. CASE FilesystemClose
  BY <1>0, <1>14 DEF FilesystemClose, Closing
<1>15. CASE EndExport
  BY <1>0, <1>15 DEF EndExport
<1> QED BY <1>1, <1>2, <1>3, <1>4, <1>5, <1>6, <1>7, <1>8, <1>9, <1>10, <1>11, <1>12, <1>13,
           <1>14, <1>15 DEF WriterStep

(* A callback keeps to the order of Write, Close and destruction.          *)
LEMMA ControlPartStep ==
    ASSUME UploadInv, NEW k \in DOMAIN uploads, PartStep(k)
    PROVE  ControlInv'
<1>0. UploadTypeOK /\ ControlInv /\ multipart
  <2>1. UploadTypeOK /\ ControlInv /\ multipart \in BOOLEAN
    BY DEF UploadInv, UploadTypeOK
  <2>2. uploads # <<>>
    OBVIOUS
  <2> QED BY <2>1, <2>2 DEF ControlInv
<1>1. ~export.stored
  BY <1>0 DEF ControlInv
<1>2. /\ UNCHANGED <<export, closed, multipart, part, rest>>
      /\ initialized' => initialized
      /\ \/ UNCHANGED <<main, outcome>>
         \/ main # "ended" /\ main' = "ended" /\ outcome' = "crash"
  <2> USE DEF handlerVars, writerVars, uploaderVars
  <2>1. CASE ReceivePart(k)
    BY <2>1 DEF ReceivePart
  <2>2. CASE EnterPart(k)
    BY <2>2 DEF EnterPart
  <2>3. CASE WriteBehindParts(k)
    BY <2>3 DEF WriteBehindParts, Alive
  <2>4. CASE LeavePart(k)
    BY <2>4 DEF LeavePart
  <2>5. CASE FailPart(k)
    <3>1. initialized' => initialized
      <4>1. CancelUpload
        BY <2>5 DEF FailPart
      <4> QED BY <4>1, CancelCases
    <3> QED BY <2>5, <3>1 DEF FailPart
  <2>6. CASE SetError(k)
    BY <2>6 DEF SetError
  <2> QED BY <2>1, <2>2, <2>3, <2>4, <2>5, <2>6 DEF PartStep
<1> QED BY <1>0, <1>1, <1>2, ConstantFacts DEF ControlInv

-----------------------------------------------------------------------------
(* A step loses no data.                                                   *)

(* The bodies of uploads are sequences of bytes.                           *)
LEMMA SentFacts ==
    ASSUME uploads \in Seq(UploadRecord)
    PROVE  Bodies(uploads) \in Seq(Seq(Byte)) /\ Sent \in Seq(Byte)
<1>1. Bodies(uploads) \in Seq(Seq(Byte))
  <2>1. DOMAIN uploads = 1 .. Len(uploads) /\ Len(uploads) \in Nat
    BY LenProperties
  <2>2. ASSUME NEW i \in 1 .. Len(uploads) PROVE uploads[i].bytes \in Seq(Byte)
    <3>1. uploads[i] \in UploadRecord
      BY ElementOfSeq
    <3> QED BY <3>1 DEF UploadRecord
  <2>3. [i \in 1 .. Len(uploads) |-> uploads[i].bytes] \in Seq(Seq(Byte))
    BY <2>1, <2>2
  <2> QED BY <2>1, <2>3 DEF Bodies
<1> QED BY <1>1, ConcatenatedAppend, EmptySeq DEF Sent

(* A part that is sent is appended to what was sent.                       *)
LEMMA SendAppends ==
    ASSUME uploads \in Seq(UploadRecord), NEW r \in UploadRecord, uploads' = Append(uploads, r)
    PROVE  Sent' = Sent \o r.bytes
<1>1. Bodies(uploads) \in Seq(Seq(Byte)) /\ r.bytes \in Seq(Byte)
  BY SentFacts DEF UploadRecord
<1>2. Bodies(uploads') = Append(Bodies(uploads), r.bytes)
  <2>1. /\ uploads' \in Seq(UploadRecord) /\ Len(uploads') = Len(uploads) + 1
        /\ \A i \in 1 .. Len(uploads) : uploads'[i] = uploads[i]
        /\ uploads'[Len(uploads) + 1] = r
    BY AppendProperties
  <2>2. Len(uploads) \in Nat /\ DOMAIN uploads = 1 .. Len(uploads)
        /\ DOMAIN uploads' = 1 .. Len(uploads) + 1
    BY <2>1, LenProperties
  <2>3. Len(Bodies(uploads)) = Len(uploads)
    BY <1>1, <2>2, LenProperties DEF Bodies
  <2> DEFINE long == Append(Bodies(uploads), r.bytes)
  <2>4. /\ long \in Seq(Seq(Byte)) /\ Len(long) = Len(uploads) + 1
        /\ \A i \in 1 .. Len(uploads) : long[i] = uploads[i].bytes
        /\ long[Len(uploads) + 1] = r.bytes
    <3>1. \A i \in 1 .. Len(uploads) : Bodies(uploads)[i] = uploads[i].bytes
      BY <2>2 DEF Bodies
    <3> QED BY <1>1, <2>3, <3>1, AppendProperties
  <2>5. long = [i \in 1 .. Len(uploads) + 1 |-> long[i]]
    BY <2>4, LenProperties
  <2> HIDE DEF long
  <2>6. ASSUME NEW i \in 1 .. Len(uploads) + 1 PROVE long[i] = uploads'[i].bytes
    <3>1. CASE i \in 1 .. Len(uploads)
      BY <2>1, <2>4, <3>1
    <3>2. CASE i = Len(uploads) + 1
      BY <2>1, <2>4, <3>2
    <3> QED BY <2>2, <3>1, <3>2
  <2>7. Bodies(uploads') = long
    BY <2>2, <2>5, <2>6 DEF Bodies
  <2> QED BY <2>7 DEF long
<1> QED BY <1>1, <1>2, ConcatenatedAppend DEF Sent

(* What S3 puts together when it completes an open upload is what was      *)
(* sent: a part that is not filled in, or was filled in somewhere else,    *)
(* makes it refuse.                                                        *)
LEMMA CompletedIsSent ==
    ASSUME UploadInv, Completes
    PROVE  Concatenated([i \in DOMAIN parts |-> multiparts[uploadId][parts[i]]]) = Sent
<1>1. uploadId = 1 /\ 1 \in DOMAIN multiparts
  BY ConstantFacts DEF Completes, Open, UploadInv, UploadTypeOK
<1>2. DOMAIN parts = DOMAIN uploads /\ DOMAIN uploads = 1 .. Len(uploads)
  BY <1>1, LenProperties DEF UploadInv, UploadTypeOK, OpenInv
<1>3. ASSUME NEW i \in DOMAIN parts
      PROVE  multiparts[1][parts[i]] = uploads[i].bytes
  <2>1. parts[i] \in {0, i} /\ parts[i] \in DOMAIN uploads
        /\ multiparts[1][parts[i]] = uploads[parts[i]].bytes
    BY <1>1 DEF UploadInv, OpenInv, Numbered, Completes
  <2>2. parts[i] = i
    <3>1. 0 \notin 1 .. Len(uploads)
      BY LenProperties DEF UploadInv, UploadTypeOK
    <3> QED BY <1>2, <2>1, <3>1
  <2> QED BY <2>1, <2>2
<1>4. [i \in DOMAIN parts |-> multiparts[uploadId][parts[i]]] = Bodies(uploads)
  BY <1>1, <1>2, <1>3 DEF Bodies
<1> QED BY <1>4 DEF Sent

(* The writing thread loses and repeats no byte.                           *)
LEMMA DataWriterStep ==
    ASSUME UploadInv, WriterStep
    PROVE  DataInv'
<1>0. /\ UploadTypeOK /\ ControlInv /\ DataInv /\ export \in Exports
      /\ written \in Seq(Byte) /\ part \in Seq(Byte) /\ rest \in Seq(Byte)
      /\ uploads \in Seq(UploadRecord) /\ error \in BOOLEAN /\ Sent \in Seq(Byte)
  BY SentFacts DEF UploadInv, UploadTypeOK
<1>s. export.stored \in BOOLEAN /\ export.backend \in {"s3", "dynamodb", "filesystem"}
  BY <1>0, ExportFacts
<1>c. \A a, b, c \in Seq(Byte) : /\ a \o b \in Seq(Byte)
                                 /\ (a \o b) \o c = a \o (b \o c)
                                 /\ a \o <<>> = a
  BY ConcatProperties, ConcatAssociative, ConcatEmptySeq
<1> USE ConstantFacts DEF DataInv, StoredIsComplete, handlerVars, writerVars, uploaderVars
<1>q. ASSUME UNCHANGED <<export, written, error, part, rest, uploads, object>>,
             closed' = closed \/ closed' # "success",
             main' = "format" => main = "format" /\ next' = next
      PROVE  DataInv'
  <2>1. Sent' = Sent
    BY <1>q DEF Sent
  <2> QED BY <1>0, <1>q, <2>1
<1>1. CASE SkipWrite
  <2>1. Sent' = Sent
    BY <1>1 DEF SkipWrite, Sent
  <2> QED BY <1>0, <1>1, <2>1 DEF SkipWrite
<1>2. CASE S3Write
  <2>1. Data \in Seq(Byte) /\ export.backend = "s3" /\ main = "format"
        /\ closed # "success" /\ rest = <<>>
    BY <1>0, <1>2, DataFacts DEF S3Write, Formatting, ControlInv
  <2>2. written' = written \o Data /\ UNCHANGED <<export, closed, uploads>>
    BY <1>2 DEF S3Write
  <2>3. Sent' = Sent
    BY <2>2 DEF Sent
  <2>4. \/ part' = part /\ rest' = Data
        \/ part' = part \o Data /\ rest' = rest
    BY <1>0, <1>2, S3WriteCases
  <2>5. (Sent \o part') \o rest' = ((Sent \o part) \o rest) \o Data
    <3>1. (Sent \o part) \o rest = Sent \o part
      BY <1>0, <1>c, <2>1
    <3>2. CASE part' = part /\ rest' = Data
      BY <3>1, <3>2
    <3>3. CASE part' = part \o Data /\ rest' = rest
      <4>0. PICK o \in Seq(Byte), p \in Seq(Byte), q \in Seq(Byte) :
                o = Sent /\ p = part /\ q = Data
        BY <1>0, <2>1
      <4>1. (Sent \o (part \o Data)) \o <<>> = Sent \o (part \o Data)
        <5>1. p \o q \in Seq(Byte)
          BY <1>c
        <5>2. o \o (p \o q) \in Seq(Byte)
          BY <1>c, <5>1
        <5>3. (o \o (p \o q)) \o <<>> = o \o (p \o q)
          BY <5>2, ConcatEmptySeq
        <5> QED BY <4>0, <5>3
      <4>2. Sent \o (part \o Data) = (Sent \o part) \o Data
        <5>1. (o \o p) \o q = o \o (p \o q)
          BY ConcatAssociative
        <5> QED BY <4>0, <5>1
      <4> QED BY <2>1, <3>1, <3>3, <4>1, <4>2
    <3> QED BY <2>4, <3>2, <3>3
  <2> QED BY <1>0, <2>1, <2>2, <2>3, <2>5
<1>3. CASE FillPart
  <2>1. multipart /\ main = "fill" /\ closed = None /\ export.backend = "s3"
    BY <1>0, <1>3, <1>s DEF FillPart, ControlInv
  <2>2. PICK left \in Nat : left = kMultipartSizeBytes - Len(part)
    <3>1. Len(part) <= kMultipartSizeBytes /\ Len(part) \in Nat
      BY <1>0, <2>1, LenProperties DEF ControlInv
    <3> QED BY <3>1
  <2>3. part' \o rest' = part \o rest
    <3>1. CASE Len(rest) >= left
      <4> DEFINE a == SubSeq(rest, 1, left)
                 b == SubSeq(rest, left + 1, Len(rest))
      <4>1. a \o b = rest
        <5>1. 1 \in 1 .. Len(rest) + 1 /\ left \in 1 - 1 .. Len(rest)
              /\ Len(rest) \in left .. Len(rest)
          BY <1>0, <3>1, LenProperties
        <5>2. a \o b = SubSeq(rest, 1, Len(rest))
          BY <1>0, <5>1, ConcatAdjacentSubSeq
        <5> QED BY <1>0, <5>2, SubSeqFull
      <4>2. a \in Seq(Byte) /\ b \in Seq(Byte)
        <5>1. Len(rest) \in Nat /\ \A i \in 1 .. Len(rest) : rest[i] \in Byte
          BY <1>0, LenProperties, ElementOfSeq
        <5> QED BY <5>1, <3>1, SubSeqProperties
      <4>3. part' = part \o a /\ rest' = b
        BY <1>3, <2>2, <3>1 DEF FillPart
      <4> HIDE DEF a, b
      <4>4. (part \o a) \o b = part \o (a \o b)
        <5>1. PICK o \in Seq(Byte), p \in Seq(Byte), q \in Seq(Byte) :
                  o = part /\ p = a /\ q = b
          BY <1>0, <4>2
        <5>2. (o \o p) \o q = o \o (p \o q)
          BY ConcatAssociative
        <5> QED BY <5>1, <5>2
      <4> QED BY <4>1, <4>3, <4>4
    <3>2. CASE ~(Len(rest) >= left)
      <4>1. part' = part \o rest /\ rest' = <<>>
        BY <1>3, <2>2, <3>2 DEF FillPart
      <4>2. part \o rest \in Seq(Byte)
        BY <1>0, <1>c
      <4>3. (part \o rest) \o <<>> = part \o rest
        BY <1>c, <4>2
      <4> QED BY <4>1, <4>3
    <3> QED BY <3>1, <3>2
  <2>4. part' \in Seq(Byte) /\ rest' \in Seq(Byte)
    BY TypeWriterStep DEF UploadTypeOK
  <2>5. (Sent \o part') \o rest' = (Sent \o part) \o rest
    <3>1. (Sent \o part') \o rest' = Sent \o (part' \o rest')
      <4>1. PICK o \in Seq(Byte), p \in Seq(Byte), q \in Seq(Byte) :
                o = Sent /\ p = part' /\ q = rest'
        BY <1>0, <2>4
      <4>2. (o \o p) \o q = o \o (p \o q)
        BY ConcatAssociative
      <4> QED BY <4>1, <4>2
    <3>2. (Sent \o part) \o rest = Sent \o (part \o rest)
      <4>1. PICK o \in Seq(Byte), p \in Seq(Byte), q \in Seq(Byte) :
                o = Sent /\ p = part /\ q = rest
        BY <1>0
      <4>2. (o \o p) \o q = o \o (p \o q)
        BY ConcatAssociative
      <4> QED BY <4>1, <4>2
    <3> QED BY <2>3, <3>1, <3>2
  <2>6. UNCHANGED <<export, written, error, closed, uploads>>
    BY <1>3 DEF FillPart
  <2>7. Sent' = Sent
    BY <2>6 DEF Sent
  <2> QED BY <1>0, <2>1, <2>5, <2>6, <2>7
<1>4. CASE BeginPart
  BY <1>4, <1>q DEF BeginPart
<1>5. CASE CountPart
  BY <1>5, <1>q DEF CountPart
<1>6. CASE SendPart
  <2>1. export.backend = "s3" /\ closed # "success"
    BY <1>0, <1>6, <1>s DEF SendPart, ControlInv
  <2> DEFINE r == [number |-> local.number, id |-> local.id, bytes |-> part, at |-> "sent",
                   count |-> 0]
  <2>2. r \in UploadRecord /\ r.bytes = part /\ uploads' = Append(uploads, r)
    BY <1>0, <1>6 DEF SendPart, UploadRecord, UploadTypeOK
  <2>3. Sent' = Sent \o part
    <3> HIDE DEF r
    <3> QED BY <1>0, <2>2, SendAppends
  <2>4. part' = <<>> /\ UNCHANGED <<export, written, error, closed, rest>>
    BY <1>6 DEF SendPart
  <2>5. (Sent' \o part') \o rest' = (Sent \o part) \o rest
    BY <1>0, <1>c, <2>3, <2>4
  <2> QED BY <1>0, <2>1, <2>4, <2>5
<1>7. CASE S3Close
  <2>1. /\ export.backend = "s3" /\ rest = <<>> /\ main = "format" /\ main' # "format"
        /\ UNCHANGED <<export, written, error, part, rest, uploads>>
    BY <1>0, <1>7 DEF S3Close, Closing, ControlInv
  <2>2. Sent' = Sent
    BY <2>1 DEF Sent
  <2>3. closed' = "success" => object' = written
    <3>1. CASE multipart
      BY <1>7, <3>1 DEF S3Close
    <3>2. CASE ~multipart
      <4>1. uploads = <<>> /\ ~export.stored
        BY <1>0, <2>1, <3>2 DEF ControlInv
      <4>2. Bodies(uploads) = <<>>
        BY <4>1 DEF Bodies
      <4>3. Sent = <<>>
        BY <4>2, ConcatenatedEmpty DEF Sent
      <4>4. written = part
        BY <1>0, <2>1, <4>1, <4>3, ConcatEmptySeq
      <4> QED BY <1>7, <3>2, <4>4 DEF S3Close
    <3> QED BY <3>1, <3>2
  <2> QED BY <1>0, <2>1, <2>2, <2>3
<1>8. CASE WaitForParts
  <2>1. closed' = closed \/ closed' # "success"
    BY <1>8 DEF WaitForParts, Answer
  <2>2. main' # "format"
    BY <1>8 DEF WaitForParts
  <2> QED BY <1>8, <1>q, <2>1, <2>2 DEF WaitForParts
<1>9. CASE CompleteUpload
  <2>1. /\ export.backend = "s3" /\ ~export.stored /\ part = <<>> /\ rest = <<>>
        /\ closed \in {"pending", "error"} /\ main' # "format"
        /\ UNCHANGED <<export, written, error, part, rest, uploads>>
    BY <1>0, <1>9, <1>s DEF CompleteUpload, ControlInv
  <2>2. Sent' = Sent
    BY <2>1 DEF Sent
  <2>3. Sent = written
    BY <1>0, <2>1, <1>c
  <2>4. closed' = "success" => object' = written
    <3>1. SUFFICES ASSUME closed' = "success" PROVE object' = written
      OBVIOUS
    <3>2. /\ Completes
          /\ object' = Concatenated([i \in DOMAIN parts |-> multiparts[uploadId][parts[i]]])
      BY <1>9, <2>1, <3>1 DEF CompleteUpload, Answer
    <3> QED BY <2>3, <3>2, CompletedIsSent
  <2> QED BY <1>0, <2>1, <2>2, <2>4
<1>10. CASE DestroyWriter
  BY <1>10, <1>q DEF DestroyWriter
<1>11. CASE DynamoDbWrite
  <2>1. closed # "success" /\ main = "format" /\ ~error /\ export.backend # "s3"
    BY <1>0, <1>11 DEF DynamoDbWrite, Formatting, ControlInv
  <2> QED BY <1>0, <1>11, <2>1 DEF DynamoDbWrite
<1>12. CASE DynamoDbClose
  BY <1>0, <1>12 DEF DynamoDbClose, Closing
<1>13. CASE FilesystemWrite
  <2>1. closed # "success" /\ main = "format" /\ ~error /\ export.backend # "s3"
    BY <1>0, <1>13 DEF FilesystemWrite, Formatting, ControlInv
  <2>2. /\ ~error' => object # None /\ object' = object \o Data
        /\ written' = written \o Data
        /\ UNCHANGED <<export, closed>>
    BY <1>13 DEF FilesystemWrite
  <2>3. export.backend = "filesystem"
    BY <1>13 DEF FilesystemWrite
  <2>4. ~error' => object' = written'
    BY <1>0, <2>1, <2>2, <2>3
  <2> QED BY <2>1, <2>2, <2>3, <2>4
<1>14. CASE FilesystemClose
  <2>1. /\ main = "format" /\ main' # "format" /\ export.backend = "filesystem"
        /\ next > Len(export.writes)
        /\ UNCHANGED <<export, written, error, object>>
    BY <1>14 DEF FilesystemClose, Closing
  <2>2. next # 1
    <3>1. export.writes \in Seq(Seq(Byte)) /\ export.writes # <<>>
      BY <1>0, <2>1, ExportFacts
    <3>2. PICK w \in Seq(Seq(Byte)) : w = export.writes
      BY <3>1
    <3>3. Len(w) \in Nat /\ Len(w) # 0
      BY <3>1, <3>2, EmptySeq, LenProperties
    <3> QED BY <2>1, <3>2, <3>3
  <2>3. ~error => object = written
    BY <1>0, <2>1, <2>2
  <2> QED BY <2>1, <2>3
<1>15. CASE EndExport
  BY <1>15, <1>q DEF EndExport
<1> QED BY <1>1, <1>2, <1>3, <1>4, <1>5, <1>6, <1>7, <1>8, <1>9, <1>10, <1>11, <1>12, <1>13,
           <1>14, <1>15 DEF WriterStep

(* A callback does not touch a byte.                                       *)
LEMMA DataPartStep ==
    ASSUME UploadInv, NEW k \in DOMAIN uploads, PartStep(k)
    PROVE  DataInv'
<1>0. UploadTypeOK /\ DataInv
  BY DEF UploadInv
<1>1. /\ UNCHANGED <<export, written, error, closed, part, rest, object>>
      /\ main' = "format" => main = "format" /\ next' = next
      /\ uploads' = uploads \/ \E label : Moved(k, label)
  <2> USE DEF handlerVars, writerVars, uploaderVars
  <2>1. CASE ReceivePart(k)
    BY <1>0, <2>1, PartMoves DEF ReceivePart
  <2>2. CASE EnterPart(k)
    BY <1>0, <2>2, PartMoves DEF EnterPart
  <2>3. CASE WriteBehindParts(k)
    BY <2>3 DEF WriteBehindParts
  <2>4. CASE LeavePart(k)
    BY <1>0, <2>4, PartMoves DEF LeavePart
  <2>5. CASE FailPart(k)
    BY <1>0, <2>5, PartMoves DEF FailPart
  <2>6. CASE SetError(k)
    BY <1>0, <2>6, PartMoves DEF SetError
  <2> QED BY <2>1, <2>2, <2>3, <2>4, <2>5, <2>6 DEF PartStep
<1>2. Sent' = Sent
  <2>1. CASE uploads' = uploads
    BY <2>1 DEF Sent
  <2> QED BY <1>1, <2>1, MovedKeepsBodies
<1> QED BY <1>0, <1>1, <1>2 DEF DataInv, StoredIsComplete

-----------------------------------------------------------------------------
(* A step keeps the numbers of the parts of an open upload.                *)
LEMMA OpenWriterStep ==
    ASSUME UploadInv, WriterStep
    PROVE  OpenInv'
<1>0. /\ UploadTypeOK /\ ControlInv /\ OpenInv /\ multipart \in BOOLEAN
      /\ uploads \in Seq(UploadRecord) /\ parts \in Seq(Nat) /\ partCount \in Nat
      /\ Len(uploads) \in Nat /\ DOMAIN uploads = 1 .. Len(uploads)
      /\ local \in [number : Nat, id : {None, 1}, count : Int, parts : Seq(Nat)]
  BY LenProperties DEF UploadInv, UploadTypeOK
<1> USE DEF handlerVars, writerVars, uploaderVars
<1>q. ASSUME UNCHANGED <<uploadId, multiparts, parts, uploads, partCount>>,
             main # "send", main' \notin {"count", "send"}
      PROVE  OpenInv'
  BY <1>0, <1>q DEF OpenInv
<1>n. ASSUME multiparts' = <<>> PROVE OpenInv'
  <2>1. 1 \notin DOMAIN multiparts'
    BY <1>n
  <2> QED BY <2>1 DEF OpenInv
<1>1. CASE SkipWrite
  BY <1>1, <1>q DEF SkipWrite, Formatting
<1>2. CASE S3Write
  <2>1. /\ main = "format" /\ main' \in {"format", "fill"}
        /\ UNCHANGED <<parts, uploads, partCount>>
    BY <1>0, <1>2, S3WriteCases DEF S3Write, Formatting
  <2>2. CASE UNCHANGED <<uploadId, multiparts>>
    BY <1>q, <2>1, <2>2
  <2>3. CASE ~multipart /\ uploadId' = 1 /\ multiparts' = <<<<>>>>
    <3>1. parts' = <<>> /\ uploads' = <<>> /\ partCount' = 1
      BY <1>0, <2>1, <2>3 DEF ControlInv
    <3>2. Len(<<>>) = 0 /\ DOMAIN <<>> = {} /\ <<<<>>>>[1] = <<>>
      OBVIOUS
    <3>3. Numbered(parts')
      BY <3>1, <3>2 DEF Numbered
    <3> QED BY <2>1, <2>3, <3>1, <3>2, <3>3 DEF OpenInv
  <2> QED BY <1>0, <1>2, <2>2, <2>3, S3WriteCases
<1>3. CASE FillPart
  BY <1>3, <1>q DEF FillPart
<1>4. CASE BeginPart
  BY <1>0, <1>4 DEF BeginPart, OpenInv
<1>5. CASE CountPart
  <2>1. /\ main = "count" /\ main' = "send" /\ partCount' = partCount + 1
        /\ UNCHANGED <<uploadId, multiparts, parts, uploads>>
    BY <1>5 DEF CountPart
  <2>2. local'.number = local.number /\ local'.parts = parts
    BY <1>0, <1>5 DEF CountPart
  <2> QED BY <1>0, <2>1, <2>2 DEF OpenInv, Numbered
<1>6. CASE SendPart
  <2>1. SUFFICES ASSUME 1 \in DOMAIN multiparts PROVE OpenInv'
    <3>1. CASE 1 \notin DOMAIN multiparts
      BY <1>6, <3>1 DEF SendPart, OpenInv
    <3> QED BY <2>1, <3>1
  <2>2. PICK kept \in Seq(Nat) : /\ kept = parts \/ kept = local.parts
                                 /\ parts' = Append(kept, 0)
    BY <1>0, <1>6 DEF SendPart
  <2>3. Len(kept) = Len(uploads) /\ Numbered(kept)
    BY <1>0, <1>6, <2>1, <2>2 DEF OpenInv, SendPart
  <2>4. Len(parts') = Len(uploads) + 1 /\ Numbered(parts')
    <3>1. /\ Len(parts') = Len(kept) + 1 /\ parts' \in Seq(Nat)
          /\ \A i \in 1 .. Len(kept) : parts'[i] = kept[i]
          /\ parts'[Len(kept) + 1] = 0
      BY <2>2, AppendProperties
    <3>2. DOMAIN kept = 1 .. Len(kept) /\ DOMAIN parts' = 1 .. Len(kept) + 1
      BY <3>1, LenProperties
    <3>3. ASSUME NEW i \in 1 .. Len(kept) + 1 PROVE parts'[i] \in {0, i}
      <4>1. CASE i \in 1 .. Len(kept)
        BY <2>3, <3>1, <3>2, <4>1 DEF Numbered
      <4>2. CASE i = Len(kept) + 1
        BY <3>1, <4>2
      <4>3. Len(kept) \in Nat
        BY LenProperties
      <4> QED BY <4>1, <4>2, <4>3
    <3> QED BY <2>3, <3>1, <3>2, <3>3 DEF Numbered
  <2> DEFINE r == [number |-> local.number, id |-> local.id, bytes |-> part, at |-> "sent",
                   count |-> 0]
  <2>5. r \in UploadRecord /\ r.number = local.number /\ uploads' = Append(uploads, r)
    BY <1>0, <1>6 DEF SendPart, UploadRecord, UploadTypeOK
  <2> HIDE DEF r
  <2>6. /\ Len(uploads') = Len(uploads) + 1 /\ DOMAIN uploads' = 1 .. Len(uploads) + 1
        /\ \A i \in 1 .. Len(uploads) : uploads'[i] = uploads[i]
        /\ uploads'[Len(uploads) + 1] = r
    <3>1. /\ Len(uploads') = Len(uploads) + 1 /\ uploads' \in Seq(UploadRecord)
          /\ \A i \in 1 .. Len(uploads) : uploads'[i] = uploads[i]
          /\ uploads'[Len(uploads) + 1] = r
      BY <1>0, <2>5, AppendProperties
    <3> QED BY <3>1, LenProperties
  <2>7. ASSUME NEW k \in 1 .. Len(uploads) + 1 PROVE uploads'[k].number = k
    <3>1. CASE k \in 1 .. Len(uploads)
      BY <1>0, <2>1, <2>6, <3>1 DEF OpenInv
    <3>2. CASE k = Len(uploads) + 1
      BY <1>0, <1>6, <2>1, <2>5, <2>6, <3>2 DEF OpenInv, SendPart
    <3> QED BY <1>0, <3>1, <3>2
  <2>8. \A n \in DOMAIN multiparts[1] :
           n \in DOMAIN uploads' /\ multiparts[1][n] = uploads'[n].bytes
    BY <1>0, <2>1, <2>6 DEF OpenInv
  <2>9. /\ main = "send" /\ main' \notin {"count", "send"}
        /\ UNCHANGED <<uploadId, partCount, multiparts>>
    BY <1>6 DEF SendPart
  <2>10. uploadId' = 1 /\ partCount' = Len(uploads') + 1
    BY <1>0, <2>1, <2>6, <2>9 DEF OpenInv
  <2> QED BY <2>4, <2>6, <2>7, <2>8, <2>9, <2>10 DEF OpenInv
<1>7. CASE S3Close
  BY <1>7, <1>q DEF S3Close, Closing
<1>8. CASE WaitForParts
  <2>1. main = "wait" /\ main' \in {"destroy", "return", "complete"}
    BY <1>8 DEF WaitForParts
  <2> QED BY <1>8, <1>q, <2>1 DEF WaitForParts
<1>9. CASE CompleteUpload
  <2>1. main = "complete" /\ main' \in {"destroy", "return"} /\ uploads' = uploads
    BY <1>9 DEF CompleteUpload
  <2>2. \/ UNCHANGED <<uploadId, multiparts, parts, partCount>>
        \/ multiparts' = <<>>
    <3>1. CancelUpload \/ multiparts' = <<>>
      BY <1>9 DEF CompleteUpload
    <3> QED BY <3>1, CancelCases
  <2> QED BY <1>q, <1>n, <2>1, <2>2
<1>10. CASE DestroyWriter
  BY <1>10, <1>q DEF DestroyWriter
<1>11. CASE DynamoDbWrite
  BY <1>11, <1>q DEF DynamoDbWrite, Formatting
<1>12. CASE DynamoDbClose
  BY <1>12, <1>q DEF DynamoDbClose, Closing
<1>13. CASE FilesystemWrite
  BY <1>13, <1>q DEF FilesystemWrite, Formatting
<1>14. CASE FilesystemClose
  BY <1>14, <1>q DEF FilesystemClose, Closing
<1>15. CASE EndExport
  BY <1>15, <1>q DEF EndExport
<1> QED BY <1>1, <1>2, <1>3, <1>4, <1>5, <1>6, <1>7, <1>8, <1>9, <1>10, <1>11, <1>12, <1>13,
           <1>14, <1>15 DEF WriterStep

(* A callback notes its part in the upload that is open.                   *)
LEMMA OpenPartStep ==
    ASSUME UploadInv, NEW k \in DOMAIN uploads, PartStep(k)
    PROVE  OpenInv'
<1>0. UploadTypeOK /\ OpenInv /\ parts \in Seq(Nat) /\ DOMAIN multiparts \in {{}, {1}}
  BY DEF UploadInv, UploadTypeOK
<1> USE DEF handlerVars, writerVars, uploaderVars
<1>q. ASSUME UNCHANGED <<uploadId, multiparts, parts, partCount, main, local>>,
             NEW label, Moved(k, label)
      PROVE  OpenInv'
  BY <1>0, <1>q DEF OpenInv, Moved
<1>n. ASSUME multiparts' = <<>> PROVE OpenInv'
  <2>1. 1 \notin DOMAIN multiparts'
    BY <1>n
  <2> QED BY <2>1 DEF OpenInv
<1>1. CASE ReceivePart(k)
  <2>1. PICK label : Moved(k, label)
    BY <1>0, <1>1, PartMoves
  <2>2. UNCHANGED <<uploadId, parts, partCount, main, local>>
    BY <1>1 DEF ReceivePart
  <2>3. CASE UNCHANGED multiparts
    BY <1>q, <2>1, <2>2, <2>3
  <2>4. CASE /\ uploads[k].id \in DOMAIN multiparts
             /\ multiparts' = [multiparts EXCEPT ![uploads[k].id] =
                   [n \in DOMAIN @ \cup {uploads[k].number} |->
                      IF n = uploads[k].number THEN uploads[k].bytes ELSE @[n]]]
    <3>1. uploads[k].id = 1 /\ 1 \in DOMAIN multiparts /\ uploads[k].number = k
      BY <1>0, <2>4 DEF OpenInv
    <3>2. multiparts'[1] = [n \in DOMAIN multiparts[1] \cup {k} |->
                               IF n = k THEN uploads[k].bytes ELSE multiparts[1][n]]
      BY <2>4, <3>1
    <3>3. \A n \in DOMAIN multiparts'[1] :
             n \in DOMAIN uploads' /\ multiparts'[1][n] = uploads'[n].bytes
      <4>1. \A n \in DOMAIN multiparts[1] :
               n \in DOMAIN uploads /\ multiparts[1][n] = uploads[n].bytes
        BY <1>0, <3>1 DEF OpenInv
      <4>2. \A n \in DOMAIN uploads : n \in DOMAIN uploads' /\ uploads'[n].bytes = uploads[n].bytes
        BY <2>1 DEF Moved
      <4> QED BY <3>2, <4>1, <4>2
    <3> QED BY <1>0, <2>1, <2>2, <3>1, <3>3 DEF OpenInv, Moved
  <2> QED BY <1>1, <2>3, <2>4 DEF ReceivePart, Open
<1>2. CASE EnterPart(k)
  <2>1. Moved(k, "entered") /\ UNCHANGED <<uploadId, multiparts, partCount, main, local>>
    BY <1>0, <1>2, PartMoves DEF EnterPart
  <2>2. Len(parts') = Len(parts) /\ (Numbered(parts) => Numbered(parts'))
    <3>1. DOMAIN parts = 1 .. Len(parts)
      BY <1>0, LenProperties
    <3>2. CASE uploads[k].number \in DOMAIN parts
      <4>1. PICK m \in 1 .. Len(parts) : m = uploads[k].number
        BY <3>1, <3>2
      <4>2. parts' = [parts EXCEPT ![m] = m]
        BY <1>2, <3>2, <4>1 DEF EnterPart
      <4>3. /\ parts' \in Seq(Nat) /\ Len(parts') = Len(parts)
            /\ \A j \in 1 .. Len(parts) : parts'[j] = IF j = m THEN m ELSE parts[j]
        BY <1>0, <4>2, ExceptSeq, LenProperties
      <4>4. DOMAIN parts' = 1 .. Len(parts)
        BY <4>3, LenProperties
      <4> QED BY <3>1, <4>3, <4>4 DEF Numbered
    <3>3. CASE uploads[k].number \notin DOMAIN parts
      BY <1>2, <3>3 DEF EnterPart, Numbered
    <3> QED BY <3>2, <3>3
  <2> QED BY <1>0, <2>1, <2>2 DEF OpenInv, Moved
<1>3. CASE WriteBehindParts(k)
  <2>1. /\ UNCHANGED <<uploadId, multiparts, parts, partCount, uploads>>
        /\ main' = "ended" /\ uploads[k].number \notin DOMAIN parts
    BY <1>3 DEF WriteBehindParts
  <2>2. 1 \notin DOMAIN multiparts
    <3>1. DOMAIN parts = 1 .. Len(parts) /\ DOMAIN uploads = 1 .. Len(uploads)
      BY <1>0, LenProperties DEF UploadTypeOK
    <3> QED BY <1>0, <2>1, <3>1 DEF OpenInv
  <2> QED BY <2>1, <2>2 DEF OpenInv
<1>4. CASE LeavePart(k)
  <2>1. Moved(k, "done") /\ UNCHANGED <<uploadId, multiparts, parts, partCount, main, local>>
    BY <1>0, <1>4, PartMoves DEF LeavePart
  <2> QED BY <1>q, <2>1
<1>5. CASE FailPart(k)
  <2>1. Moved(k, "cancelled") /\ UNCHANGED <<main, local>> /\ CancelUpload
    BY <1>0, <1>5, PartMoves DEF FailPart
  <2> QED BY <1>q, <1>n, <2>1, CancelCases
<1>6. CASE SetError(k)
  <2>1. Moved(k, "noted") /\ UNCHANGED <<uploadId, multiparts, parts, partCount, main, local>>
    BY <1>0, <1>6, PartMoves DEF SetError
  <2> QED BY <1>q, <2>1
<1> QED BY <1>1, <1>2, <1>3, <1>4, <1>5, <1>6 DEF PartStep

-----------------------------------------------------------------------------
(* A step keeps the count of the parts under way, unless it loses an       *)
(* update.                                                                 *)

(* The uploads are finitely many.                                          *)
LEMMA PendingFacts ==
    ASSUME uploads \in Seq(UploadRecord)
    PROVE  /\ IsFiniteSet(Pending) /\ Cardinality(Pending) \in Nat
           /\ Cardinality(Pending) = 0 <=> Pending = {}
<1>1. Pending \subseteq 1 .. Len(uploads) /\ Len(uploads) \in Nat
  BY LenProperties DEF Pending
<1>2. IsFiniteSet(1 .. Len(uploads))
  BY <1>1, FS_Interval
<1>3. IsFiniteSet(Pending)
  BY <1>1, <1>2, FS_Subset
<1> QED BY <1>3, FS_CardinalityType, FS_EmptySet

(* The writing thread counts every part it sends.                          *)
LEMMA CountWriterStep ==
    ASSUME UploadInv, WriterStep
    PROVE  CountInv'
<1>0. /\ UploadTypeOK /\ ControlInv /\ CountInv /\ inProcess \in Int /\ lost \in BOOLEAN
      /\ uploads \in Seq(UploadRecord) /\ multipart \in BOOLEAN
      /\ local \in [number : Nat, id : {None, 1}, count : Int, parts : Seq(Nat)]
  BY DEF UploadInv, UploadTypeOK
<1>p. /\ IsFiniteSet(Pending) /\ Cardinality(Pending) \in Nat
      /\ Cardinality(Pending) = 0 <=> Pending = {}
  BY <1>0, PendingFacts
<1> USE DEF handlerVars, writerVars, uploaderVars
<1>o. main # "ended" => outcome \notin {"success", "failure"}
  BY <1>0, ConstantFacts DEF ControlInv
(* A step that neither counts nor reaches the end.                         *)
<1>q. ASSUME UNCHANGED <<uploads, inProcess, lost, outcome>>,
             main \notin {"send", "ended"},
             main' \in {"format", "fill", "begin", "count", "wait"}
      PROVE  CountInv'
  <2>1. Pending' = Pending
    BY <1>q DEF Pending
  <2> QED BY <1>0, <1>o, <1>q, <2>1 DEF CountInv
(* A step with no part under way.                                          *)
<1>e. ASSUME UNCHANGED <<uploads, inProcess, lost>>, ~lost => Pending = {},
             main \notin {"send", "ended"}, main' # "send"
      PROVE  CountInv'
  <2>1. Pending' = Pending
    BY <1>e DEF Pending
  <2> QED BY <1>0, <1>o, <1>e, <2>1 DEF CountInv
<1>1. CASE SkipWrite
  BY <1>1, <1>q DEF SkipWrite, Formatting
<1>2. CASE S3Write
  <2>1. main = "format" /\ main' \in {"format", "fill"}
    BY <1>0, <1>2, S3WriteCases DEF S3Write, Formatting
  <2> QED BY <1>2, <1>q, <2>1 DEF S3Write
<1>3. CASE FillPart
  BY <1>3, <1>q DEF FillPart
<1>4. CASE BeginPart
  BY <1>4, <1>q DEF BeginPart
<1>5. CASE CountPart
  <2>1. /\ main = "count" /\ main' = "send" /\ UNCHANGED <<uploads, outcome>>
        /\ inProcess' = local.count + 1 /\ lost' = (lost \/ inProcess # local.count)
    BY <1>5 DEF CountPart
  <2>2. Pending' = Pending
    BY <2>1 DEF Pending
  <2>3. ~lost' => ~lost /\ inProcess = local.count
    BY <1>0, <2>1
  <2> QED BY <1>0, <1>o, <1>p, <2>1, <2>2, <2>3 DEF CountInv
<1>6. CASE SendPart
  <2> DEFINE r == [number |-> local.number, id |-> local.id, bytes |-> part, at |-> "sent",
                   count |-> 0]
  <2>1. /\ main = "send" /\ main' \in {"fill", "wait"} /\ UNCHANGED <<inProcess, lost, outcome>>
        /\ uploads' = Append(uploads, r)
    BY <1>6 DEF SendPart
  <2>2. r \in UploadRecord /\ r.at = "sent"
    BY <1>0 DEF UploadRecord, UploadTypeOK
  <2> HIDE DEF r
  <2>3. /\ Len(uploads) \in Nat /\ DOMAIN uploads = 1 .. Len(uploads)
        /\ DOMAIN uploads' = 1 .. Len(uploads) + 1
        /\ \A i \in 1 .. Len(uploads) : uploads'[i] = uploads[i]
        /\ uploads'[Len(uploads) + 1] = r
    <3>1. /\ Len(uploads') = Len(uploads) + 1 /\ uploads' \in Seq(UploadRecord)
          /\ \A i \in 1 .. Len(uploads) : uploads'[i] = uploads[i]
          /\ uploads'[Len(uploads) + 1] = r
      BY <1>0, <2>1, <2>2, AppendProperties
    <3> QED BY <1>0, <3>1, LenProperties
  <2>4. Pending' = Pending \cup {Len(uploads) + 1} /\ Len(uploads) + 1 \notin Pending
    BY <2>2, <2>3 DEF Pending
  <2>5. Cardinality(Pending') = Cardinality(Pending) + 1
    BY <1>p, <2>4, FS_AddElement
  <2> QED BY <1>0, <1>o, <1>p, <2>1, <2>5 DEF CountInv
<1>7. CASE S3Close
  <2>1. main = "format" /\ UNCHANGED <<uploads, inProcess, lost, outcome>>
    BY <1>7 DEF S3Close, Closing
  <2>2. CASE multipart
    BY <1>7, <1>q, <2>1, <2>2 DEF S3Close
  <2>3. CASE ~multipart
    <3>1. Pending = {}
      BY <1>0, <2>3 DEF ControlInv, Pending
    <3> QED BY <1>7, <1>e, <2>1, <2>3, <3>1 DEF S3Close
  <2> QED BY <1>0, <2>2, <2>3
<1>8. CASE WaitForParts
  <2>1. main = "wait" /\ inProcess = 0 /\ UNCHANGED <<uploads, inProcess, lost>>
        /\ main' # "send"
    BY <1>8 DEF WaitForParts
  <2>2. ~lost => Pending = {}
    BY <1>0, <1>p, <2>1 DEF CountInv
  <2> QED BY <1>e, <2>1, <2>2
<1>9. CASE CompleteUpload
  <2>1. main = "complete" /\ UNCHANGED <<uploads, inProcess, lost>> /\ main' # "send"
    BY <1>9 DEF CompleteUpload
  <2> QED BY <1>0, <1>e, <2>1 DEF CountInv
<1>10. CASE DestroyWriter
  <2>1. main = "destroy" /\ UNCHANGED <<uploads, inProcess, lost>> /\ main' # "send"
    BY <1>10 DEF DestroyWriter
  <2> QED BY <1>0, <1>e, <2>1 DEF CountInv
<1>11. CASE DynamoDbWrite
  BY <1>11, <1>q DEF DynamoDbWrite, Formatting
<1>12. CASE DynamoDbClose
  <2>1. Pending = {} /\ main = "format"
    BY <1>0, <1>12 DEF DynamoDbClose, Closing, ControlInv, Pending
  <2> QED BY <1>12, <1>e, <2>1 DEF DynamoDbClose
<1>13. CASE FilesystemWrite
  BY <1>13, <1>q DEF FilesystemWrite, Formatting
<1>14. CASE FilesystemClose
  <2>1. Pending = {} /\ main = "format"
    BY <1>0, <1>14 DEF FilesystemClose, Closing, ControlInv, Pending
  <2> QED BY <1>14, <1>e, <2>1 DEF FilesystemClose
<1>15. CASE EndExport
  <2>1. main = "return" /\ UNCHANGED <<uploads, inProcess, lost>> /\ main' # "send"
    BY <1>15 DEF EndExport
  <2> QED BY <1>0, <1>e, <2>1 DEF CountInv
<1> QED BY <1>1, <1>2, <1>3, <1>4, <1>5, <1>6, <1>7, <1>8, <1>9, <1>10, <1>11, <1>12, <1>13,
           <1>14, <1>15 DEF WriterStep

(* A callback is counted down once.                                        *)
LEMMA CountPartStep ==
    ASSUME UploadInv, NEW k \in DOMAIN uploads, PartStep(k)
    PROVE  CountInv'
<1>0. /\ UploadTypeOK /\ ControlInv /\ CountInv /\ inProcess \in Int /\ lost \in BOOLEAN
      /\ uploads \in Seq(UploadRecord)
  BY DEF UploadInv, UploadTypeOK
<1>p. /\ IsFiniteSet(Pending) /\ Cardinality(Pending) \in Nat
      /\ Cardinality(Pending) = 0 <=> Pending = {}
  BY <1>0, PendingFacts
<1> USE DEF handlerVars, writerVars, uploaderVars
(* A callback that has not ended and does not end now.                     *)
<1>q. ASSUME UNCHANGED <<inProcess, lost, outcome, main>>, uploads[k].at # "done",
             NEW label, label # "done", Moved(k, label)
      PROVE  CountInv'
  <2>1. Pending' = Pending
    BY <1>q DEF Pending, Moved
  <2> QED BY <1>0, <1>q, <2>1 DEF CountInv
<1>1. CASE ReceivePart(k)
  <2>1. /\ Moved(k, "stored") \/ Moved(k, "failed")
        /\ UNCHANGED <<inProcess, lost, outcome, main>> /\ uploads[k].at = "sent"
    BY <1>0, <1>1, PartMoves DEF ReceivePart
  <2> QED BY <1>q, <2>1
<1>2. CASE EnterPart(k)
  <2>1. Moved(k, "entered") /\ UNCHANGED <<inProcess, lost, outcome, main>>
        /\ uploads[k].at = "stored"
    BY <1>0, <1>2, PartMoves DEF EnterPart
  <2> QED BY <1>q, <2>1
<1>3. CASE WriteBehindParts(k)
  BY <1>3 DEF WriteBehindParts, CountInv
<1>4. CASE LeavePart(k)
  <2>1. /\ Moved(k, "done") /\ UNCHANGED <<outcome, main>> /\ uploads[k].at = "entered"
        /\ inProcess' = uploads[k].count - 1
        /\ lost' = (lost \/ inProcess # uploads[k].count)
    BY <1>0, <1>4, PartMoves DEF LeavePart
  <2>2. k \in Pending /\ Pending' = Pending \ {k}
    BY <2>1 DEF Pending, Moved
  <2>3. Cardinality(Pending') = Cardinality(Pending) - 1
    BY <1>p, <2>2, FS_RemoveElement
  <2>4. ~lost' => ~lost /\ inProcess' = inProcess - 1
    BY <1>0, <2>1
  <2> QED BY <1>0, <1>p, <2>1, <2>2, <2>3, <2>4 DEF CountInv
<1>5. CASE FailPart(k)
  <2>1. Moved(k, "cancelled") /\ UNCHANGED <<inProcess, lost, outcome, main>>
        /\ uploads[k].at = "failed"
    BY <1>0, <1>5, PartMoves DEF FailPart
  <2> QED BY <1>q, <2>1
<1>6. CASE SetError(k)
  <2>1. Moved(k, "noted") /\ UNCHANGED <<inProcess, lost, outcome, main>>
        /\ uploads[k].at = "cancelled"
    BY <1>0, <1>6, PartMoves DEF SetError
  <2> QED BY <1>q, <2>1
<1> QED BY <1>1, <1>2, <1>3, <1>4, <1>5, <1>6 DEF PartStep

-----------------------------------------------------------------------------
(* The invariant of an export holds always, whatever an import does.       *)
THEOREM UploadInvariant == Spec => []UploadInv
<1>1. Init => UploadInv
  BY UploadInvInit
<1>2. UploadInv /\ [Next]_vars => UploadInv'
  <2> SUFFICES ASSUME UploadInv, [Next]_vars PROVE UploadInv'
      OBVIOUS
  <2>1. CASE UNCHANGED uploadVars
    <3> USE <2>1 DEF uploadVars, handlerVars, writerVars, uploaderVars
    <3>1. UploadTypeOK'
      BY DEF UploadInv, UploadTypeOK
    <3>2. ControlInv'
      BY DEF UploadInv, ControlInv
    <3>3. DataInv'
      BY DEF UploadInv, DataInv, StoredIsComplete, Sent
    <3>4. OpenInv'
      BY DEF UploadInv, OpenInv
    <3>5. CountInv'
      <4>1. Pending' = Pending
        BY DEF Pending
      <4> QED BY <4>1 DEF UploadInv, CountInv
    <3> QED BY <3>1, <3>2, <3>3, <3>4, <3>5 DEF UploadInv
  <2>2. CASE WriterStep
    BY <2>2, TypeWriterStep, ControlWriterStep, DataWriterStep, OpenWriterStep, CountWriterStep
       DEF UploadInv
  <2>3. CASE \E k \in DOMAIN uploads : PartStep(k)
    <3>1. PICK k \in DOMAIN uploads : PartStep(k)
      BY <2>3
    <3>2. UploadTypeOK
      BY DEF UploadInv
    <3> QED BY <3>1, <3>2, TypePartStep, ControlPartStep, DataPartStep, OpenPartStep,
               CountPartStep DEF UploadInv
  <2>4. UNCHANGED uploadVars \/ UploadStep
    BY DEF Next, vars, ImportStep, RangeStep, OpenForReading, ReadObjectSync,
           PrecomputeByteRanges, ReadObjectAsync, FinishReading, DecodeParquet,
           ConstructCsvReader, ReadCsvChunk, ReadByteRange, ReceiveRange
  <2> QED BY <2>1, <2>2, <2>3, <2>4 DEF UploadStep
<1> QED BY <1>1, <1>2, PTL DEF Spec

(* StoredIsComplete, for every multipart size, every object and any number *)
(* of parts: an object for which Close has reported success holds what was *)
(* written, in spite of the unlocked updates of parts_ and of the counter. *)
THEOREM StoredObjectsAreComplete == Spec => []StoredIsComplete
<1>1. UploadInv => StoredIsComplete
  BY DEF UploadInv, DataInv
<1> QED BY <1>1, UploadInvariant, PTL

(* WriterOutlivesCallbacks: when OnExecute ends, the callback of every     *)
(* part has ended, unless an update of in_process_parts_count_ was lost.   *)
THEOREM WritersOutliveCallbacks == Spec => []WriterOutlivesCallbacks
<1>1. UploadInv => WriterOutlivesCallbacks
  BY DEF UploadInv, CountInv, Pending, WriterOutlivesCallbacks
<1> QED BY <1>1, UploadInvariant, PTL
=============================================================================
