------------------------ MODULE ObjectStorageProofs ------------------------
(***************************************************************************)
(* Proofs about ObjectStorage: an object holds all that was formatted for  *)
(* it, Read returns the bytes of its range, whatever the memory it is      *)
(* given and whatever attempts of the S3 client came before, and a Parquet *)
(* import has the bytes of the column chunks it asked for.                 *)
(***************************************************************************)
EXTENDS ObjectUploadProofs

-----------------------------------------------------------------------------
(* ByteBuffer.                                                             *)

(* The states of a ByteBuffer over bytes of S.  Memory of its own beside   *)
(* that of a caller is larger than it: Resize returns to the latter when   *)
(* it suffices.                                                            *)
IsBuffer(b, S) ==
    /\ b \in [external : Seq(S), size : Nat, internal : {<<>>} \cup {<<v>> : v \in Seq(S)}]
    /\ b.internal = <<>> => b.size <= Len(b.external)
    /\ b.internal # <<>> /\ b.external # <<>> => Len(b.internal[1]) > Len(b.external)

(* CopyTo changes the bytes it covers and no others.                       *)
LEMMA CopyToFacts ==
    ASSUME NEW S, NEW to \in Seq(S), NEW s \in Seq(S), NEW offset \in Nat
    PROVE  /\ CopyTo(to, offset, s) \in Seq(S)
           /\ Len(CopyTo(to, offset, s)) = Len(to)
           /\ \A i \in 1 .. Len(to) :
                 CopyTo(to, offset, s)[i] =
                     IF i - offset \in 1 .. Len(s) THEN s[i - offset] ELSE to[i]
<1>1. Len(to) \in Nat /\ DOMAIN to = 1 .. Len(to) /\ DOMAIN s = 1 .. Len(s)
  BY LenProperties
<1> DEFINE E(i) == IF i - offset \in 1 .. Len(s) THEN s[i - offset] ELSE to[i]
<1>2. ASSUME NEW i \in 1 .. Len(to) PROVE E(i) \in S
  BY ElementOfSeq
<1>3. CopyTo(to, offset, s) = [i \in 1 .. Len(to) |-> E(i)]
  BY <1>1 DEF CopyTo
<1> HIDE DEF E
<1>4. [i \in 1 .. Len(to) |-> E(i)] \in Seq(S) /\ Len([i \in 1 .. Len(to) |-> E(i)]) = Len(to)
  BY <1>1, <1>2
<1> QED BY <1>3, <1>4 DEF E

(* The bytes of a buffer.                                                  *)
LEMMA BufferFacts ==
    ASSUME NEW S, NEW b, IsBuffer(b, S)
    PROVE  /\ BufferData(b) \in Seq(S) /\ Len(BufferData(b)) \in Nat
           /\ b.external \in Seq(S) /\ Len(b.external) \in Nat /\ b.size \in Nat
           /\ b.internal = <<>> =>
                 /\ Len(BufferData(b)) = b.size
                 /\ \A i \in 1 .. b.size : BufferData(b)[i] = b.external[i]
           /\ b.internal # <<>> => /\ BufferData(b) = b.internal[1]
                                   /\ b.internal = <<b.internal[1]>>
<1>1. b.external \in Seq(S) /\ b.size \in Nat /\ Len(b.external) \in Nat
  BY LenProperties DEF IsBuffer
<1>2. CASE b.internal = <<>>
  <2>1. \A i \in 1 .. b.size : b.external[i] \in S
    BY <1>1, <1>2, ElementOfSeq DEF IsBuffer
  <2>2. BufferData(b) = SubSeq(b.external, 1, b.size)
    BY <1>2 DEF BufferData
  <2>3. /\ SubSeq(b.external, 1, b.size) \in Seq(S)
        /\ Len(SubSeq(b.external, 1, b.size)) = b.size
        /\ \A i \in 1 .. b.size : SubSeq(b.external, 1, b.size)[i] = b.external[i]
    BY <1>1, <2>1, SubSeqProperties
  <2> QED BY <1>1, <1>2, <2>2, <2>3
<1>3. CASE b.internal # <<>>
  <2>1. PICK v \in Seq(S) : b.internal = <<v>>
    BY <1>3 DEF IsBuffer
  <2>2. BufferData(b) = v
    BY <1>3, <2>1 DEF BufferData
  <2> QED BY <1>1, <1>3, <2>1, <2>2, LenProperties
<1> QED BY <1>2, <1>3

(* Resize gives a buffer of the size asked for and keeps what fits of it.  *)
LEMMA ResizeFacts ==
    ASSUME NEW S, Zero \in S, NEW b, IsBuffer(b, S), NEW n \in Nat
    PROVE  /\ IsBuffer(Resize(b, n), S)
           /\ Len(BufferData(Resize(b, n))) = n
           /\ \A i \in 1 .. n : i <= Len(BufferData(b)) =>
                 BufferData(Resize(b, n))[i] = BufferData(b)[i]
<1> DEFINE fits == n <= Len(b.external)
<1>0. /\ BufferData(b) \in Seq(S) /\ Len(BufferData(b)) \in Nat
      /\ b.external \in Seq(S) /\ Len(b.external) \in Nat /\ b.size \in Nat
  BY BufferFacts
<1>1. CASE b.internal # <<>> /\ b.external # <<>> /\ fits
  <2> DEFINE s == SubSeq(b.internal[1], 1, n)
             c == [external |-> CopyTo(b.external, 0, s), size |-> n, internal |-> <<>>]
  <2>1. Resize(b, n) = c
    BY <1>1 DEF Resize, UseExternalDataAgain
  <2>2. BufferData(b) = b.internal[1] /\ n < Len(b.internal[1])
    BY <1>0, <1>1, BufferFacts DEF IsBuffer
  <2>3. s \in Seq(S) /\ Len(s) = n /\ \A i \in 1 .. n : s[i] = BufferData(b)[i]
    <3>1. \A i \in 1 .. n : b.internal[1][i] \in S
      BY <1>0, <2>2, ElementOfSeq
    <3> QED BY <2>2, <3>1, SubSeqProperties
  <2> HIDE DEF s
  <2>4. /\ CopyTo(b.external, 0, s) \in Seq(S)
        /\ Len(CopyTo(b.external, 0, s)) = Len(b.external)
        /\ \A i \in 1 .. n : CopyTo(b.external, 0, s)[i] = s[i]
    <3> DEFINE e == CopyTo(b.external, 0, s)
    <3>1. /\ e \in Seq(S) /\ Len(e) = Len(b.external)
          /\ \A i \in 1 .. Len(b.external) :
                e[i] = IF i - 0 \in 1 .. Len(s) THEN s[i - 0] ELSE b.external[i]
      BY <1>0, <2>3, CopyToFacts
    <3> HIDE DEF e
    <3>2. \A i \in 1 .. n : i \in 1 .. Len(b.external) /\ i - 0 = i /\ i \in 1 .. Len(s)
      BY <1>0, <1>1, <2>3
    <3>3. e \in Seq(S) /\ Len(e) = Len(b.external) /\ \A i \in 1 .. n : e[i] = s[i]
      BY <3>1, <3>2
    <3> QED BY <3>3 DEF e
  <2>5. IsBuffer(c, S) /\ c.internal = <<>> /\ c.size = n
        /\ c.external = CopyTo(b.external, 0, s)
    <3>1. PICK e : e = CopyTo(b.external, 0, s)
      OBVIOUS
    <3>2. e \in Seq(S) /\ Len(e) = Len(b.external)
      BY <2>4, <3>1
    <3> QED BY <1>1, <3>1, <3>2 DEF IsBuffer
  <2> HIDE DEF c
  <2>6. Len(BufferData(c)) = n /\ \A i \in 1 .. n : BufferData(c)[i] = c.external[i]
    <3>1. PICK d : d = c
      OBVIOUS
    <3>2. IsBuffer(d, S) /\ d.internal = <<>> /\ d.size = n
      BY <2>5, <3>1
    <3>3. Len(BufferData(d)) = d.size /\ \A i \in 1 .. d.size : BufferData(d)[i] = d.external[i]
      BY <3>2, BufferFacts, SMTT(30)
    <3> QED BY <3>1, <3>2, <3>3
  <2> QED BY <2>1, <2>3, <2>4, <2>5, <2>6
<1>2. CASE b.internal = <<>> /\ fits
  <2> DEFINE c == [b EXCEPT !.size = n]
  <2>1. Resize(b, n) = c
    BY <1>2 DEF Resize
  <2>2. IsBuffer(c, S) /\ c.internal = <<>> /\ c.size = n /\ c.external = b.external
    BY <1>2 DEF IsBuffer
  <2> HIDE DEF c
  <2>3. Len(BufferData(c)) = n /\ \A i \in 1 .. n : BufferData(c)[i] = b.external[i]
    BY <2>2, BufferFacts, SMTT(30)
  <2>4. Len(BufferData(b)) = b.size /\ \A i \in 1 .. b.size : BufferData(b)[i] = b.external[i]
    BY <1>2, BufferFacts
  <2> QED BY <1>0, <2>1, <2>2, <2>3, <2>4
<1>3. CASE /\ ~(b.internal # <<>> /\ b.external # <<>> /\ fits)
           /\ ~(b.internal = <<>> /\ fits)
  <2> DEFINE zeros == [i \in 1 .. n |-> Zero]
             v == CopyTo(zeros, 0, BufferData(b))
             c == [b EXCEPT !.internal = <<v>>]
  <2>1. Resize(b, n) = c
    BY <1>3 DEF Resize, ResizeVector
  <2>2. zeros \in Seq(S) /\ Len(zeros) = n
    OBVIOUS
  <2> HIDE DEF zeros
  <2>3. v \in Seq(S) /\ Len(v) = n
        /\ \A i \in 1 .. n : i <= Len(BufferData(b)) => v[i] = BufferData(b)[i]
    <3>1. PICK o \in Seq(S), z \in Seq(S) : o = BufferData(b) /\ z = zeros
      BY <1>0, <2>2
    <3>2. /\ CopyTo(z, 0, o) \in Seq(S) /\ Len(CopyTo(z, 0, o)) = Len(z)
          /\ \A i \in 1 .. Len(z) :
                CopyTo(z, 0, o)[i] = IF i - 0 \in 1 .. Len(o) THEN o[i - 0] ELSE z[i]
      BY CopyToFacts
    <3>3. Len(z) = n /\ Len(o) \in Nat
      BY <1>0, <2>2, <3>1
    <3>4. \A i \in 1 .. n : i <= Len(o) => CopyTo(z, 0, o)[i] = o[i]
      BY <3>2, <3>3
    <3> QED BY <3>1, <3>2, <3>3, <3>4
  <2> HIDE DEF v
  <2>4. b.external # <<>> => n > Len(b.external)
    BY <1>0, <1>3
  <2>5. IsBuffer(c, S) /\ c.internal # <<>> /\ c.internal[1] = v
    BY <2>3, <2>4 DEF IsBuffer
  <2>6. BufferData(c) = v
    BY <2>5 DEF BufferData
  <2> QED BY <2>1, <2>3, <2>5, <2>6
<1> QED BY <1>1, <1>2, <1>3

(* copy_n into a buffer with room for it.                                  *)
LEMMA CopyNFacts ==
    ASSUME NEW S, NEW b, IsBuffer(b, S), NEW offset \in Nat, NEW s \in Seq(S),
           offset + Len(s) <= Len(BufferData(b))
    PROVE  /\ IsBuffer(CopyN(b, offset, s), S)
           /\ Len(BufferData(CopyN(b, offset, s))) = Len(BufferData(b))
           /\ \A i \in 1 .. Len(BufferData(b)) :
                 BufferData(CopyN(b, offset, s))[i] =
                     IF i - offset \in 1 .. Len(s) THEN s[i - offset] ELSE BufferData(b)[i]
<1>0. /\ BufferData(b) \in Seq(S) /\ Len(BufferData(b)) \in Nat
      /\ b.external \in Seq(S) /\ Len(b.external) \in Nat /\ b.size \in Nat
  BY BufferFacts
<1>1. CASE b.internal = <<>>
  <2> DEFINE e == CopyTo(b.external, offset, s)
             c == [b EXCEPT !.external = e]
  <2>1. CopyN(b, offset, s) = c
    BY <1>1 DEF CopyN
  <2>2. /\ e \in Seq(S) /\ Len(e) = Len(b.external)
        /\ \A i \in 1 .. Len(b.external) :
              e[i] = IF i - offset \in 1 .. Len(s) THEN s[i - offset] ELSE b.external[i]
    <3>1. PICK z \in Seq(S) : z = b.external
      BY <1>0
    <3>2. CopyTo(z, offset, s) \in Seq(S) /\ Len(CopyTo(z, offset, s)) = Len(z)
      BY CopyToFacts
    <3>3. ASSUME NEW i \in 1 .. Len(z)
          PROVE  CopyTo(z, offset, s)[i] =
                    IF i - offset \in 1 .. Len(s) THEN s[i - offset] ELSE z[i]
      BY CopyToFacts
    <3> QED BY <3>1, <3>2, <3>3
  <2> HIDE DEF e
  <2>3. IsBuffer(c, S) /\ c.internal = <<>> /\ c.size = b.size /\ c.external = e
    BY <1>1, <2>2 DEF IsBuffer
  <2> HIDE DEF c
  <2>4. Len(BufferData(c)) = b.size /\ \A i \in 1 .. b.size : BufferData(c)[i] = e[i]
    BY <2>3, BufferFacts
  <2>5. /\ Len(BufferData(b)) = b.size /\ b.size <= Len(b.external)
        /\ \A i \in 1 .. b.size : BufferData(b)[i] = b.external[i]
    BY <1>1, BufferFacts DEF IsBuffer
  <2> QED BY <1>0, <2>1, <2>2, <2>3, <2>4, <2>5
<1>2. CASE b.internal # <<>>
  <2> DEFINE v == CopyTo(BufferData(b), offset, s)
             c == [b EXCEPT !.internal = <<v>>]
  <2>0. b.internal = <<BufferData(b)>>
    BY <1>2, BufferFacts
  <2>1. CopyN(b, offset, s) = c
    <3>1. CopyN(b, offset, s) = [b EXCEPT !.internal[1] = CopyTo(@, offset, s)]
      BY <1>2 DEF CopyN
    <3>2. [b EXCEPT !.internal[1] = CopyTo(@, offset, s)]
              = [b EXCEPT !.internal = [b.internal EXCEPT ![1] = CopyTo(b.internal[1], offset, s)]]
      BY <2>0 DEF IsBuffer
    <3>3. [b.internal EXCEPT ![1] = CopyTo(b.internal[1], offset, s)] = <<v>>
      BY <2>0
    <3> QED BY <3>1, <3>2, <3>3
  <2>2. /\ v \in Seq(S) /\ Len(v) = Len(BufferData(b))
        /\ \A i \in 1 .. Len(BufferData(b)) :
              v[i] = IF i - offset \in 1 .. Len(s) THEN s[i - offset] ELSE BufferData(b)[i]
    <3>1. PICK d \in Seq(S) : d = BufferData(b)
      BY <1>0
    <3> HIDE DEF v
    <3>2. v = CopyTo(d, offset, s)
      BY <3>1 DEF v
    <3> QED BY <3>1, <3>2, CopyToFacts
  <2> HIDE DEF v
  <2>3. IsBuffer(c, S) /\ c.internal # <<>> /\ c.internal[1] = v
    BY <1>2, <2>0, <2>2, BufferFacts DEF IsBuffer
  <2>4. BufferData(c) = v
    BY <2>3 DEF BufferData
  <2> QED BY <2>1, <2>2, <2>3, <2>4
<1> QED BY <1>1, <1>2

-----------------------------------------------------------------------------
(* DelegateStreamBuffer and the S3 client.                                 *)

(* The stream buffer has written the body into its buffer and no more.     *)
Holds(stream, body, S) ==
    /\ IsBuffer(stream.buffer, S)
    /\ BufferData(stream.buffer) = body
    /\ stream.put = Len(body)

(* What xsputn writes is appended to the body.                             *)
LEMMA xsputnFacts ==
    ASSUME NEW S, Zero \in S, NEW body \in Seq(S), NEW s \in Seq(S),
           NEW stream, Holds(stream, body, S)
    PROVE  Holds(xsputn(stream, s), body \o s, S)
<1> DEFINE end == stream.put + Len(s)
           resized == IF end > Len(BufferData(stream.buffer)) THEN Resize(stream.buffer, end)
                      ELSE stream.buffer
           c == CopyN(resized, stream.put, s)
<1>0. /\ Len(body) \in Nat /\ Len(s) \in Nat /\ stream.put = Len(body)
      /\ BufferData(stream.buffer) = body /\ IsBuffer(stream.buffer, S)
      /\ end = Len(body) + Len(s) /\ end \in Nat
  BY LenProperties DEF Holds
<1>1. xsputn(stream, s) = [buffer |-> c, put |-> end]
  BY DEF xsputn
<1>2. /\ IsBuffer(resized, S) /\ Len(BufferData(resized)) = end
      /\ \A i \in 1 .. Len(body) : BufferData(resized)[i] = body[i]
  <2>1. CASE end > Len(body)
    <3>1. resized = Resize(stream.buffer, end)
      BY <1>0, <2>1
    <3> HIDE DEF resized, end
    <3>2. /\ IsBuffer(Resize(stream.buffer, end), S)
          /\ Len(BufferData(Resize(stream.buffer, end))) = end
          /\ \A i \in 1 .. end : i <= Len(BufferData(stream.buffer)) =>
                BufferData(Resize(stream.buffer, end))[i] = BufferData(stream.buffer)[i]
      <4>0. PICK sb : sb = stream.buffer
        OBVIOUS
      <4>1. PICK e \in Nat : e = end
        BY <1>0
      <4>a. IsBuffer(sb, S)
        BY <1>0, <4>0
      <4>2. /\ IsBuffer(Resize(sb, e), S)
            /\ Len(BufferData(Resize(sb, e))) = e
            /\ \A i \in 1 .. e : i <= Len(BufferData(sb)) =>
                  BufferData(Resize(sb, e))[i] = BufferData(sb)[i]
        BY <4>a, ResizeFacts
      <4> QED BY <4>0, <4>1, <4>2
    <3> QED BY <1>0, <2>1, <3>1, <3>2
  <2>2. CASE ~(end > Len(body))
    <3>1. resized = stream.buffer /\ end = Len(body)
      BY <1>0, <2>2
    <3> HIDE DEF resized
    <3> QED BY <1>0, <3>1
  <2> QED BY <2>1, <2>2
<1> HIDE DEF resized
<1>3. /\ IsBuffer(c, S) /\ Len(BufferData(c)) = end
      /\ \A i \in 1 .. end :
            BufferData(c)[i] = IF i - Len(body) \in 1 .. Len(s) THEN s[i - Len(body)]
                               ELSE BufferData(resized)[i]
  <2>1. stream.put \in Nat /\ stream.put + Len(s) <= Len(BufferData(resized))
    BY <1>0, <1>2
  <2>2. /\ IsBuffer(CopyN(resized, stream.put, s), S)
        /\ Len(BufferData(CopyN(resized, stream.put, s))) = Len(BufferData(resized))
        /\ \A i \in 1 .. Len(BufferData(resized)) :
              BufferData(CopyN(resized, stream.put, s))[i] =
                  IF i - stream.put \in 1 .. Len(s) THEN s[i - stream.put]
                  ELSE BufferData(resized)[i]
    <3>0. PICK d : d = resized
      OBVIOUS
    <3>1. PICK p \in Nat : p = stream.put
      BY <2>1
    <3>a. IsBuffer(d, S) /\ p + Len(s) <= Len(BufferData(d))
      BY <1>2, <2>1, <3>0, <3>1
    <3>2. /\ IsBuffer(CopyN(d, p, s), S)
          /\ Len(BufferData(CopyN(d, p, s))) = Len(BufferData(d))
          /\ \A i \in 1 .. Len(BufferData(d)) :
                BufferData(CopyN(d, p, s))[i] =
                    IF i - p \in 1 .. Len(s) THEN s[i - p] ELSE BufferData(d)[i]
      BY <3>a, CopyNFacts
    <3> QED BY <3>0, <3>1, <3>2
  <2> HIDE DEF end
  <2> QED BY <1>0, <1>2, <2>2
<1> HIDE DEF c
<1>4. BufferData(c) = body \o s
  <2>1. BufferData(c) \in Seq(S)
    BY <1>3, BufferFacts
  <2>2. /\ body \o s \in Seq(S) /\ Len(body \o s) = end
        /\ \A i \in 1 .. end : (body \o s)[i] = IF i <= Len(body) THEN body[i] ELSE s[i - Len(body)]
    BY <1>0, ConcatProperties
  <2>3. \A i \in 1 .. end : BufferData(c)[i] = (body \o s)[i]
    <3> SUFFICES ASSUME NEW i \in 1 .. end PROVE BufferData(c)[i] = (body \o s)[i]
        OBVIOUS
    <3>1. CASE i <= Len(body)
      <4>1. i \in 1 .. Len(body) /\ i - Len(body) \notin 1 .. Len(s)
        BY <1>0, <3>1
      <4> QED BY <1>2, <1>3, <2>2, <3>1, <4>1
    <3>2. CASE ~(i <= Len(body))
      <4>1. i - Len(body) \in 1 .. Len(s)
        BY <1>0, <3>2
      <4> QED BY <1>3, <2>2, <3>2, <4>1
    <3> QED BY <3>1, <3>2
  <2>4. Len(BufferData(c)) = Len(body \o s)
    BY <1>3, <2>2
  <2> QED BY <1>3, <2>1, <2>2, <2>3, <2>4, SeqEqual
<1>5. end = Len(body \o s)
  BY <1>0, ConcatProperties
<1> HIDE DEF end
<1> QED BY <1>1, <1>3, <1>4, <1>5 DEF Holds

(* An attempt leaves the body it wrote and nothing of earlier ones.        *)
LEMMA WriteBodyFacts ==
    ASSUME NEW S, Zero \in S, NEW b, IsBuffer(b, S), NEW first \in Seq(S), NEW second \in Seq(S)
    PROVE  /\ IsBuffer(WriteBody(b, first, second), S)
           /\ BufferData(WriteBody(b, first, second)) = first \o second
<1> DEFINE start == ResponseStream(b)
           middle == xsputn(start, first)
<1>1. start.buffer = Resize(b, 0) /\ start.put = 0
  BY DEF ResponseStream, Reset
<1>2. Holds(start, <<>>, S)
  <2>1. IsBuffer(Resize(b, 0), S) /\ Len(BufferData(Resize(b, 0))) = 0
    BY ResizeFacts
  <2>2. BufferData(Resize(b, 0)) \in Seq(S)
    BY <2>1, BufferFacts
  <2>3. BufferData(Resize(b, 0)) = <<>>
    BY <2>1, <2>2, EmptySeq
  <2> HIDE DEF start
  <2> QED BY <1>1, <2>1, <2>3 DEF Holds
<1> HIDE DEF start
<1>3. Holds(middle, <<>> \o first, S)
  BY <1>2, xsputnFacts, EmptySeq
<1>4. <<>> \o first = first
  BY ConcatEmptySeq
<1> HIDE DEF middle
<1>5. Holds(xsputn(middle, second), first \o second, S)
  BY <1>3, <1>4, xsputnFacts
<1>6. WriteBody(b, first, second) = xsputn(middle, second).buffer
  BY DEF WriteBody, middle, start
<1> QED BY <1>5, <1>6 DEF Holds

(* Whatever memory a read is given, and whatever attempts the client has   *)
(* made before, the buffer then has the bytes that were read.              *)
LEMMA FilledFacts ==
    ASSUME NEW S, Zero \in S, "error" \in S, NEW memory, IsBuffer(memory, S),
           NEW body \in Seq(S), NEW b \in Filled(memory, body)
    PROVE  BufferData(b) = body
<1>0. Len(body) \in Nat
  BY LenProperties
<1>1. CASE export.backend = "s3"
  <2>1. PICK a \in Attempts(memory, body), n \in {0, Len(body) \div 2} :
           b = WriteBody(a, SubSeq(body, 1, n), SubSeq(body, n + 1, Len(body)))
    BY <1>1 DEF Filled, GetObject
  <2>2. n \in 0 .. Len(body)
    BY <1>0
  <2>3. \A i, j \in Int : i >= 1 /\ j <= Len(body) => SubSeq(body, i, j) \in Seq(S)
    <3> SUFFICES ASSUME NEW i \in Int, NEW j \in Int, i >= 1, j <= Len(body)
                 PROVE  SubSeq(body, i, j) \in Seq(S)
        OBVIOUS
    <3>1. \A m \in i .. j : body[m] \in S
      BY <1>0, ElementOfSeq
    <3> QED BY <3>1, SubSeqProperties
  <2>4. IsBuffer(a, S)
    <3>1. SubSeq(body, 1, (Len(body) + 1) \div 2) \in Seq(S)
      <4>1. (Len(body) + 1) \div 2 \in Int /\ (Len(body) + 1) \div 2 <= Len(body)
        BY <1>0
      <4> QED BY <2>3, <4>1
    <3>2. ErrorBody(Len(body) + 1) \in Seq(S) /\ <<>> \in Seq(S)
      BY <1>0 DEF ErrorBody
    <3> QED BY <3>1, <3>2, WriteBodyFacts DEF Attempts
  <2>5. SubSeq(body, 1, n) \in Seq(S) /\ SubSeq(body, n + 1, Len(body)) \in Seq(S)
    BY <1>0, <2>2, <2>3
  <2>6. BufferData(b) = SubSeq(body, 1, n) \o SubSeq(body, n + 1, Len(body))
    BY <2>1, <2>4, <2>5, WriteBodyFacts
  <2>7. SubSeq(body, 1, n) \o SubSeq(body, n + 1, Len(body)) = SubSeq(body, 1, Len(body))
    <3>1. 1 \in 1 .. Len(body) + 1 /\ n \in 1 - 1 .. Len(body) /\ Len(body) \in n .. Len(body)
      BY <1>0, <2>2
    <3> QED BY <3>1, ConcatAdjacentSubSeq
  <2> QED BY <2>6, <2>7, SubSeqFull
<1>2. CASE export.backend # "s3"
  <2> DEFINE r == Resize(memory, Len(body))
  <2>1. b = CopyN(r, 0, body)
    BY <1>2 DEF Filled
  <2>2. IsBuffer(r, S) /\ Len(BufferData(r)) = Len(body)
    BY <1>0, ResizeFacts
  <2> HIDE DEF r
  <2>3. /\ IsBuffer(b, S) /\ Len(BufferData(b)) = Len(body)
        /\ \A i \in 1 .. Len(body) :
              BufferData(b)[i] = IF i - 0 \in 1 .. Len(body) THEN body[i - 0] ELSE BufferData(r)[i]
    <3>0. PICK d : d = r
      OBVIOUS
    <3>1. PICK z \in Nat : z = 0
      OBVIOUS
    <3>2. z + Len(body) <= Len(BufferData(d)) /\ IsBuffer(d, S)
      BY <1>0, <2>2, <3>0, <3>1
    <3>3. /\ IsBuffer(CopyN(d, z, body), S)
          /\ Len(BufferData(CopyN(d, z, body))) = Len(BufferData(d))
          /\ \A i \in 1 .. Len(BufferData(d)) :
                BufferData(CopyN(d, z, body))[i] =
                    IF i - z \in 1 .. Len(body) THEN body[i - z] ELSE BufferData(d)[i]
      BY <3>2, CopyNFacts
    <3> QED BY <2>1, <2>2, <3>0, <3>1, <3>3
  <2>4. BufferData(b) \in Seq(S)
    BY <2>3, BufferFacts
  <2>5. \A i \in 1 .. Len(body) : BufferData(b)[i] = body[i]
    BY <1>0, <2>3
  <2> QED BY <2>3, <2>4, <2>5, SeqEqual
<1> QED BY <1>1, <1>2

-----------------------------------------------------------------------------
(* What has been formatted.                                                *)

(* The writes of the formatter whose data Write has accepted.              *)
Taken == IF export.stored THEN Len(export.writes)
         ELSE IF closed = None /\ main \in {"fill", "begin", "count", "send"} THEN next
         ELSE next - 1

(* An object that is not a file is not there before it is closed; a file   *)
(* grows with the writes.                                                  *)
FormatInv ==
    /\ next <= Len(export.writes) + 1
    /\ export.backend # "filesystem" /\ ~export.stored /\ closed \in {None, "pending"} =>
          object = None
    /\ export.backend = "filesystem" /\ ~export.stored /\ closed = None => main = "format"
    /\ ~export.stored /\ closed # None => next = Len(export.writes) + 1
    /\ closed = None /\ main \in {"fill", "begin", "count", "send"} =>
          next <= Len(export.writes)
    /\ ~error /\ (outcome # "crash" \/ closed # None) =>
          written = Concatenated(SubSeq(export.writes, 1, Taken))
    /\ ~error /\ object # None => object = written

(* The file of an export that has not called Close.                        *)
BeingWritten == export.backend = "filesystem" /\ main = "format"

(* While no write of an export has failed: an object of S3 or DynamoDB     *)
(* that is there consists of all that the formatter writes for it, even if *)
(* Close has reported an error; a file consists of the writes so far, and  *)
(* of all of them from Close on.                                           *)
ObjectIsWhole ==
    ~error /\ object # None =>
        object = Concatenated(IF BeingWritten THEN SubSeq(export.writes, 1, next - 1)
                              ELSE export.writes)

(* Where a range that is read ends, for a range of S3 that is not void.    *)
EndOfRange(last) ==
    IF export.backend = "s3" THEN Smaller(last, Len(object))
    ELSE Smaller(last, Len(object) - 1) + 1

(* An export that ends well had no error, and a range is read from one.    *)
ReadInv ==
    /\ export.stored => outcome = "success"
    /\ outcome = "success" => ~error
    /\ request # None => outcome = "success"
    /\ RangesAreRead

(* One more write appends its data.                                        *)
LEMMA TakeWrite ==
    ASSUME UploadTypeOK, NEW n \in 1 .. Len(export.writes)
    PROVE  Concatenated(SubSeq(export.writes, 1, n)) =
               Concatenated(SubSeq(export.writes, 1, n - 1)) \o export.writes[n]
<1>1. PICK w \in Seq(Seq(Byte)) : w = export.writes
  BY ExportFacts DEF UploadTypeOK
<1>2. Len(w) \in Nat /\ n \in 1 .. Len(w) /\ w[n] \in Seq(Byte)
  BY <1>1, LenProperties, ElementOfSeq
<1>3. SubSeq(w, 1, n - 1) \in Seq(Seq(Byte))
  <2>1. \A i \in 1 .. n - 1 : w[i] \in Seq(Byte)
    BY <1>2, ElementOfSeq
  <2> QED BY <1>2, <2>1, SubSeqProperties
<1>4. SubSeq(w, 1, n) = Append(SubSeq(w, 1, n - 1), w[n])
  <2>1. 1 \in 1 .. Len(w) /\ n \in 1 .. Len(w)
    BY <1>2
  <2>2. SubSeq(w, 1, n) = SubSeq(w, 1, n - 1) \o <<w[n]>>
    BY <2>1, SubSeqRecursiveSecond
  <2>3. Append(SubSeq(w, 1, n - 1), w[n]) = SubSeq(w, 1, n - 1) \o <<w[n]>>
    BY <1>2, <1>3, AppendIsConcat
  <2> QED BY <2>2, <2>3
<1>5. Concatenated(SubSeq(w, 1, n)) = Concatenated(SubSeq(w, 1, n - 1)) \o w[n]
  <2>1. PICK u \in Seq(Seq(Byte)) : u = SubSeq(w, 1, n - 1)
    BY <1>3
  <2>2. Concatenated(Append(u, w[n])) = Concatenated(u) \o w[n]
    BY <1>2, ConcatenatedAppend
  <2> QED BY <1>4, <2>1, <2>2
<1> QED BY <1>1, <1>5

(* At first, nothing of the formatter's writes has been taken.             *)
LEMMA FormatInit ==
    ASSUME Init
    PROVE  FormatInv
<1> USE DEF Init, UploadInit
<1>1. export.writes \in Seq(Seq(Byte)) /\ export.stored \in BOOLEAN
      /\ Len(export.writes) \in Nat
  BY ExportFacts, LenProperties
<1>2. next <= Len(export.writes) + 1
  BY <1>1
<1>3. CASE export.stored
  <2>1. SubSeq(export.writes, 1, Len(export.writes)) = export.writes
    BY <1>1, SubSeqFull
  <2> QED BY <1>2, <1>3, <2>1, ConstantFacts DEF FormatInv, Taken
<1>4. CASE ~export.stored
  <2>1. Taken = 0
    BY <1>4 DEF Taken
  <2>2. SubSeq(export.writes, 1, 0) = <<>>
    BY SubSeqEmpty
  <2>3. written = Concatenated(SubSeq(export.writes, 1, Taken))
    BY <1>4, <2>1, <2>2, ConcatenatedEmpty
  <2>4. /\ object # None => object = written
        /\ export.backend # "filesystem" => object = None
    BY <1>4 DEF Opened
  <2>5. main = "format" /\ closed = None
    BY <1>4
  <2> HIDE DEF Init, UploadInit
  <2> QED BY <1>2, <1>4, <2>3, <2>4, <2>5, ConstantFacts DEF FormatInv
<1> QED BY <1>1, <1>3, <1>4

(* A step of the export keeps the object in line with the formatter.       *)
LEMMA FormatStep ==
    ASSUME UploadInv, UploadInv', FormatInv, UploadStep
    PROVE  FormatInv'
<1>0. /\ UploadTypeOK /\ ControlInv /\ DataInv' /\ export \in Exports
      /\ next \in Nat \ {0} /\ error \in BOOLEAN
      /\ closed \in {None, "pending", "success", "error"}
  BY DEF UploadInv, UploadTypeOK
<1>s. export.stored \in BOOLEAN /\ Len(export.writes) \in Nat
  BY <1>0, ExportFacts, LenProperties
<1> DEFINE Busy == {"fill", "begin", "count", "send"}
<1> USE ConstantFacts DEF handlerVars, writerVars, uploaderVars
<1>n. /\ main # "ended" => ~export.stored /\ outcome # "crash"
      /\ main \notin {"format", "return", "ended"} => export.backend = "s3"
  BY <1>0 DEF ControlInv
(* A step that writes nothing and leaves the object alone.                 *)
<1>q. ASSUME UNCHANGED <<export, next, written, error, closed, object>>,
             \/ outcome' = outcome /\ (main' \in Busy <=> main \in Busy)
             \/ closed # None /\ (outcome' # "crash" \/ outcome = None)
             \/ outcome' = "crash" /\ main' = "ended",
             main' = main \/ export.backend = "s3" \/ closed # None
      PROVE  FormatInv'
  <2>1. main' \in Busy /\ closed = None => main \in Busy
    BY <1>q
  <2>2. outcome' # "crash" \/ closed # None => Taken' = Taken /\ (outcome # "crash" \/ closed # None)
    BY <1>q DEF Taken
  <2> QED BY <1>q, <2>1, <2>2 DEF FormatInv
(* A step that accepts the data of the next write.                         *)
<1>w. ASSUME Formatting, ~error, written' = written \o Data,
             UNCHANGED <<export, closed, outcome>>,
             \/ export.backend # "filesystem" /\ object' = object
             \/ main' = "format" /\ export.backend = "filesystem" /\ (~error' => object' = written'),
             \/ main' = "fill" /\ next' = next
             \/ main' = "format" /\ next' = next + 1
      PROVE  FormatInv'
  <2>1. main = "format" /\ next \in 1 .. Len(export.writes) /\ Data = export.writes[next]
    BY <1>0, <1>s, <1>w DEF Formatting, Data
  <2>2. closed = None /\ ~export.stored /\ outcome # "crash"
        /\ (export.backend # "filesystem" => object = None)
    BY <1>0, <1>n, <2>1 DEF ControlInv, FormatInv
  <2>3. Taken = next - 1 /\ Taken' = next
    BY <1>0, <1>w, <2>1, <2>2 DEF Taken
  <2>4. written' = Concatenated(SubSeq(export.writes, 1, next))
    BY <1>0, <1>w, <2>1, <2>2, <2>3, TakeWrite DEF FormatInv
  <2>5. next' <= Len(export.writes) + 1 /\ (main' = "fill" => next' <= Len(export.writes))
    BY <1>0, <1>s, <1>w, <2>1
  <2> QED BY <1>w, <2>2, <2>3, <2>4, <2>5 DEF FormatInv
(* A step of Close.                                                        *)
<1>c. ASSUME main = "format", next > Len(export.writes), closed' # None,
             UNCHANGED <<export, next, written, error, outcome>>,
             \/ export.backend # "filesystem" /\ object' = object
             \/ closed' = "success"
      PROVE  FormatInv'
  <2>1. closed = None /\ ~export.stored /\ outcome # "crash"
        /\ (export.backend # "filesystem" => object = None)
    BY <1>0, <1>n, <1>c DEF ControlInv, FormatInv
  <2>2. next = Len(export.writes) + 1
    BY <1>0, <1>s, <1>c DEF FormatInv
  <2>3. Taken = next - 1 /\ Taken' = next - 1
    BY <1>c, <2>1 DEF Taken
  <2>4. ~error' /\ object' # None => object' = written'
    BY <1>0, <1>c, <2>1 DEF DataInv, StoredIsComplete
  <2>5. closed' \in {None, "pending"} => object' = None
    BY <1>c, <2>1
  <2> QED BY <1>c, <2>1, <2>2, <2>3, <2>4, <2>5 DEF FormatInv
<1>1. CASE SkipWrite
  <2>1. error /\ main = "format" /\ main' = "format" /\ next <= Len(export.writes)
        /\ next' = next + 1 /\ UNCHANGED <<export, written, error, closed, object, outcome>>
    BY <1>1 DEF SkipWrite, Formatting
  <2>2. closed = None
    BY <1>0, <2>1 DEF ControlInv
  <2> QED BY <1>0, <1>s, <2>1, <2>2 DEF FormatInv
<1>2. CASE S3Write
  <2>1. Formatting /\ ~error /\ written' = written \o Data /\ export.backend = "s3"
        /\ UNCHANGED <<export, closed, object, outcome>>
    BY <1>2 DEF S3Write
  <2>2. \/ main' = "fill" /\ next' = next
        \/ main' = "format" /\ next' = next + 1
    BY <1>0, <1>2, <2>1, S3WriteCases DEF Formatting
  <2> QED BY <1>w, <2>1, <2>2
<1>3. CASE FillPart
  <2>1. /\ main = "fill" /\ UNCHANGED <<export, written, error, closed, object, outcome>>
        /\ \/ main' = "begin" /\ next' = next
           \/ main' = "format" /\ next' = next + 1
    BY <1>3 DEF FillPart
  <2>2. closed = None /\ next <= Len(export.writes) /\ ~export.stored /\ object = None
        /\ export.backend = "s3"
    BY <1>0, <1>n, <2>1 DEF ControlInv, FormatInv
  <2>3. Taken = next /\ Taken' = next
    BY <1>0, <2>1, <2>2 DEF Taken
  <2>4. next' <= Len(export.writes) + 1 /\ (main' = "begin" => next' <= Len(export.writes))
    BY <1>0, <1>s, <2>1, <2>2
  <2> QED BY <2>1, <2>2, <2>3, <2>4 DEF FormatInv
<1>4. CASE BeginPart
  BY <1>4, <1>n, <1>q DEF BeginPart
<1>5. CASE CountPart
  BY <1>5, <1>n, <1>q DEF CountPart
<1>6. CASE SendPart
  <2>1. /\ main = "send" /\ UNCHANGED <<export, next, written, error, closed, object, outcome>>
        /\ main' = IF closed = None THEN "fill" ELSE "wait"
    BY <1>6 DEF SendPart
  <2>2. outcome = None /\ export.backend = "s3"
    BY <1>0, <1>n, <2>1 DEF ControlInv
  <2> QED BY <1>q, <2>1, <2>2
<1>7. CASE S3Close
  <2>1. /\ main = "format" /\ next > Len(export.writes) /\ closed' # None
        /\ export.backend = "s3"
        /\ UNCHANGED <<export, next, written, error, outcome>>
        /\ object' = object \/ closed' = "success"
    BY <1>7 DEF S3Close, Closing
  <2> QED BY <1>c, <2>1
<1>8. CASE WaitForParts
  <2>1. /\ main = "wait" /\ UNCHANGED <<export, next, written, error, object, outcome>>
        /\ closed' = closed \/ closed' = Answer("error")
    BY <1>8 DEF WaitForParts
  <2>2. closed \in {"pending", "error"}
    BY <1>0, <2>1 DEF ControlInv
  <2>3. closed' \in {"pending", "error"} /\ (closed' = "pending" => closed = "pending")
    BY <2>1, <2>2 DEF Answer
  <2>4. Taken' = Taken
    BY <2>1, <2>2, <2>3 DEF Taken
  <2> QED BY <2>1, <2>2, <2>3, <2>4 DEF FormatInv
<1>9. CASE CompleteUpload
  <2>1. /\ main = "complete" /\ main' \in {"destroy", "return"}
        /\ UNCHANGED <<export, next, written, error, outcome>>
    BY <1>9 DEF CompleteUpload
  <2>2. closed \in {"pending", "error"} /\ ~export.stored /\ outcome # "crash"
        /\ part = <<>> /\ rest = <<>> /\ export.backend = "s3"
    BY <1>0, <1>n, <2>1, ExportFacts DEF ControlInv
  <2>3. closed' \in {"success", "error"}
    BY <1>9, <2>2 DEF CompleteUpload, Answer
  <2>4. object' = object \/ object' = written
    <3>1. CASE object' = object
      BY <3>1
    <3>2. CASE /\ Completes
               /\ object' = Concatenated([i \in DOMAIN parts |-> multiparts[uploadId][parts[i]]])
      <4>1. object' = Sent
        BY <3>2, CompletedIsSent
      <4>2. (Sent \o part) \o rest = written /\ Sent \in Seq(Byte)
        BY <2>2, SentFacts DEF UploadInv, DataInv, UploadTypeOK
      <4>3. Sent \o <<>> = Sent
        BY <4>2, ConcatEmptySeq
      <4> QED BY <2>2, <4>1, <4>2, <4>3
    <3> QED BY <1>9, <3>1, <3>2 DEF CompleteUpload
  <2>5. Taken' = Taken
    BY <2>1, <2>2, <2>3 DEF Taken
  <2> QED BY <2>1, <2>2, <2>3, <2>4, <2>5 DEF FormatInv
<1>10. CASE DestroyWriter
  BY <1>10, <1>n, <1>q DEF DestroyWriter
<1>11. CASE DynamoDbWrite
  BY <1>11, <1>w DEF DynamoDbWrite, Formatting
<1>12. CASE DynamoDbClose
  <2>1. /\ main = "format" /\ next > Len(export.writes) /\ closed' # None
        /\ export.backend = "dynamodb"
        /\ UNCHANGED <<export, next, written, error, outcome>>
        /\ object' = object \/ closed' = "success"
    BY <1>12 DEF DynamoDbClose, Closing
  <2> QED BY <1>c, <2>1
<1>13. CASE FilesystemWrite
  <2>1. /\ Formatting /\ ~error /\ export.backend = "filesystem"
        /\ written' = written \o Data /\ next' = next + 1
        /\ UNCHANGED <<export, closed, main, outcome>>
        /\ ~error' => object # None /\ object' = object \o Data
    BY <1>13 DEF FilesystemWrite
  <2>2. ~error' => object' = written'
    BY <2>1 DEF FormatInv
  <2>3. main' = "format"
    BY <2>1 DEF Formatting
  <2> QED BY <1>w, <2>1, <2>2, <2>3
<1>14. CASE FilesystemClose
  BY <1>14, <1>c DEF FilesystemClose, Closing
<1>15. CASE EndExport
  <2>1. main = "return" /\ outcome' # "crash"
        /\ UNCHANGED <<export, next, written, error, closed, object>>
    BY <1>15 DEF EndExport
  <2>2. closed # None
    BY <1>0, <2>1 DEF ControlInv
  <2> QED BY <1>q, <2>1, <2>2
<1>16. ASSUME NEW k \in DOMAIN uploads, PartStep(k) PROVE FormatInv'
  <2>1. /\ UNCHANGED <<export, next, written, error, closed, object>>
        /\ \/ UNCHANGED <<main, outcome>>
           \/ main' = "ended" /\ outcome' = "crash"
    BY <1>16 DEF PartStep, ReceivePart, EnterPart, WriteBehindParts, LeavePart, FailPart, SetError
  <2>2. export.backend = "s3"
    <3>1. export.backend # "s3" => uploads = <<>>
      BY <1>0 DEF ControlInv
    <3> QED BY <1>16, <3>1
  <2> QED BY <1>q, <2>1, <2>2
<1> QED BY <1>1, <1>2, <1>3, <1>4, <1>5, <1>6, <1>7, <1>8, <1>9, <1>10, <1>11, <1>12, <1>13,
           <1>14, <1>15, <1>16 DEF UploadStep, WriterStep

-----------------------------------------------------------------------------
(* Reading.                                                                *)

(* A number that fits into a size_t is what it was.                        *)
LEMMA SizeTFits ==
    ASSUME NEW n \in 0 .. kLastByteInFile
    PROVE  SizeT(n) = n
BY StorageAssumption DEF SizeT

(* What a backend reads of an object that is no larger than a size_t, for  *)
(* a range that starts within it.                                          *)
LEMMA ReadIsSlice ==
    ASSUME export \in Exports, object \in Seq(Byte), Len(object) <= kLastByteInFile,
           NEW first \in 0 .. kLastByteInFile, NEW last \in 0 .. kLastByteInFile,
           first <= last, first < EndOfRange(last),
           first = 0 \/ last # kLastByteInFile \/ export.backend # "filesystem"
    PROVE  Read(first, last) = Slice(object, first, EndOfRange(last))
<1>0. PICK o \in Seq(Byte), k \in Nat : o = object /\ k = kLastByteInFile
  BY StorageAssumption
<1>1. Len(o) \in Nat /\ Len(o) <= k /\ first \in Nat /\ last \in Nat /\ first <= k /\ last <= k
  BY <1>0, LenProperties
<1>2. export.backend \in {"s3", "dynamodb", "filesystem"}
  BY ExportFacts
<1>3. CASE export.backend = "s3"
  <2>1. first < Smaller(last, Len(o)) /\ EndOfRange(last) = Smaller(last, Len(o))
    BY <1>0, <1>3 DEF EndOfRange
  <2>2. first < last /\ first < Len(o)
    BY <1>1, <2>1 DEF Smaller
  <2>3. Read(first, last) = IF first = 0 /\ last = k THEN o ELSE S3Get(GetRangeString(first, last))
    BY <1>0, <1>3 DEF Read, S3Read
  <2>4. CASE first = 0 /\ last = k
    <3>1. Smaller(last, Len(o)) = Len(o) /\ first + 1 = 1
      BY <1>1, <2>4 DEF Smaller
    <3>2. Slice(o, first, Len(o)) = o
      BY <1>0, <3>1, SubSeqFull DEF Slice
    <3> QED BY <1>0, <2>1, <2>3, <2>4, <3>1, <3>2
  <2>5. CASE ~(first = 0 /\ last = k)
    <3> DEFINE end == IF last = k THEN last ELSE last - 1
    <3>1. last # k => SizeT(last - 1) = last - 1
      <4>1. last - 1 \in 0 .. kLastByteInFile
        BY <1>0, <1>1, <2>2
      <4> QED BY <4>1, SizeTFits
    <3>2. GetRangeString(first, last) = <<first, end>>
      BY <1>0, <3>1 DEF GetRangeString
    <3>3. Smaller(end, Len(o) - 1) + 1 = Smaller(last, Len(o))
      BY <1>1, <2>2 DEF Smaller
    <3>f. first <= end /\ end \in Nat
      BY <1>1, <2>2
    <3> HIDE DEF end
    <3>4. S3Get(<<first, end>>) = Slice(o, first, Smaller(last, Len(o)))
      BY <1>0, <1>1, <2>2, <3>3, <3>f DEF S3Get
    <3> QED BY <1>0, <2>1, <2>3, <2>5, <3>2, <3>4
  <2> QED BY <2>4, <2>5
<1>4. CASE export.backend = "filesystem"
  <2>1. first < Smaller(last, Len(o) - 1) + 1 /\ EndOfRange(last) = Smaller(last, Len(o) - 1) + 1
    BY <1>0, <1>4 DEF EndOfRange
  <2>2. first < Len(o)
    BY <1>1, <2>1 DEF Smaller
  <2> DEFINE wanted == IF last = kLastByteInFile THEN last ELSE SizeT(last - first + 1)
             count == IF SizeT(first + wanted) > Len(object) THEN SizeT(Len(object) - first)
                      ELSE wanted
  <2>3. wanted = IF last = k THEN k ELSE last - first + 1
    <3>1. last # k => last - first + 1 \in 0 .. kLastByteInFile
      BY <1>0, <1>1
    <3> QED BY <1>0, <3>1, SizeTFits
  <2>4. SizeT(first + wanted) = first + wanted
    <3>1. first + wanted \in 0 .. kLastByteInFile
      BY <1>0, <1>1, <1>4, <2>3
    <3> HIDE DEF wanted
    <3> QED BY <3>1, SizeTFits
  <2>5. SizeT(Len(object) - first) = Len(object) - first
    <3>1. Len(object) - first \in 0 .. kLastByteInFile
      BY <1>0, <1>1, <2>2
    <3> QED BY <3>1, SizeTFits
  <2>6. Read(first, last) =
           IF count > Len(object) THEN None ELSE Slice(object, first, first + count)
    BY <1>4 DEF Read, FilesystemRead
  <2> HIDE DEF wanted
  <2>7. first + count = Smaller(last, Len(o) - 1) + 1 /\ count <= Len(o) /\ count \in Int
    BY <1>0, <1>1, <1>4, <2>2, <2>3, <2>4, <2>5 DEF Smaller
  <2> HIDE DEF count
  <2> QED BY <1>0, <1>1, <2>1, <2>6, <2>7
<1>5. CASE export.backend = "dynamodb"
  <2>1. first < Smaller(last, Len(o) - 1) + 1 /\ EndOfRange(last) = Smaller(last, Len(o) - 1) + 1
    BY <1>0, <1>5 DEF EndOfRange
  <2>2. first < Len(o)
    BY <1>1, <2>1 DEF Smaller
  <2>3. Read(first, last) = DynamoDbRead(first, last)
    BY <1>5 DEF Read
  <2> QED BY <1>0, <1>1, <2>1, <2>2, <2>3 DEF DynamoDbRead
<1> QED BY <1>2, <1>3, <1>4, <1>5

(* Whatever the memory that a client of the backend reads into, it gets    *)
(* the bytes that the backend has read.                                    *)
LEMMA ReadIntoMemory ==
    ASSUME NEW body \in Seq(Byte), NEW memory \in ReadMemory, NEW b \in Filled(memory, body)
    PROVE  BufferData(b) = body
<1> DEFINE S == Byte \cup {Zero, "error"}
           fresh == {OwnMemory} \cup {WrapMemory([i \in 1 .. n |-> Zero]) : n \in {0, 2, 9}}
<1>1. Zero \in S /\ "error" \in S /\ Byte \subseteq S
  OBVIOUS
<1>2. body \in Seq(S)
  BY <1>1
<1> HIDE DEF S
<1>3. IsBuffer(OwnMemory, S)
  <2>1. <<>> \in Seq(S)
    OBVIOUS
  <2> QED BY <2>1 DEF OwnMemory, IsBuffer
<1>4. \A n \in Nat : IsBuffer(WrapMemory([i \in 1 .. n |-> Zero]), S)
  <2> SUFFICES ASSUME NEW n \in Nat PROVE IsBuffer(WrapMemory([i \in 1 .. n |-> Zero]), S)
      OBVIOUS
  <2>1. PICK z : z = [i \in 1 .. n |-> Zero]
    OBVIOUS
  <2>2. z \in Seq(S) /\ Len(z) = n
    BY <1>1, <2>1
  <2>3. IsBuffer(WrapMemory(z), S)
    BY <2>2 DEF WrapMemory, IsBuffer
  <2> QED BY <2>1, <2>3
<1>5. \A f \in fresh : IsBuffer(f, S)
  BY <1>3, <1>4
<1> HIDE DEF fresh
<1>6. memory \in fresh \/ \E f \in fresh : memory = Resize(f, 7)
  BY DEF ReadMemory, fresh
<1>7. IsBuffer(memory, S)
  BY <1>1, <1>5, <1>6, ResizeFacts
<1> QED BY <1>1, <1>2, <1>7, FilledFacts

(* An object that is there, after writes that did not fail, is made of     *)
(* every write of the formatter, unless it is a file still being written.  *)
LEMMA WholeObject ==
    ASSUME UploadInv, FormatInv, ReadInv
    PROVE  ObjectIsWhole
<1> SUFFICES ASSUME ~error, object # None
             PROVE  object = Concatenated(IF BeingWritten THEN SubSeq(export.writes, 1, next - 1)
                                          ELSE export.writes)
    BY DEF ObjectIsWhole
<1>0. export \in Exports /\ next \in Nat /\ closed \in {None, "pending", "success", "error"}
      /\ (export.stored => closed = None /\ main = "ended")
      /\ (main = "format" => closed = None /\ outcome = None)
  BY DEF UploadInv, UploadTypeOK, ControlInv
<1>1. export.stored \in BOOLEAN /\ export.writes \in Seq(Seq(Byte)) /\ Len(export.writes) \in Nat
  BY <1>0, ExportFacts, LenProperties
<1>2. CASE BeingWritten
  <2>1. ~export.stored /\ main = "format" /\ closed = None /\ outcome # "crash"
    BY <1>0, <1>2, ConstantFacts DEF BeingWritten
  <2>2. Taken = next - 1
    BY <2>1 DEF Taken
  <2> QED BY <1>2, <2>1, <2>2 DEF FormatInv
<1>3. CASE ~BeingWritten
  <2>1. export.stored \/ closed \notin {None, "pending"} \/ (export.backend = "filesystem" /\ closed # None)
    BY <1>1, <1>3 DEF FormatInv, BeingWritten
  <2>2. outcome # "crash" \/ closed # None
    BY <1>1, <2>1, ConstantFacts DEF ReadInv
  <2>3. Taken = Len(export.writes)
    BY <1>0, <1>1, <2>1, ConstantFacts DEF FormatInv, Taken
  <2>4. object = Concatenated(SubSeq(export.writes, 1, Len(export.writes)))
    BY <2>2, <2>3 DEF FormatInv
  <2> QED BY <1>1, <1>3, <2>4, SubSeqFull
<1> QED BY <1>2, <1>3

(* An export that has ended well leaves a whole object.                    *)
LEMMA WholeInTheEnd ==
    ASSUME UploadInv, ObjectIsWhole, outcome = "success", ~error, object # None
    PROVE  object = Concatenated(export.writes)
<1>1. main = "ended"
  BY ConstantFacts DEF UploadInv, ControlInv
<1> QED BY <1>1 DEF ObjectIsWhole, BeingWritten

(* What an export is made of fits into a size_t.                           *)
LEMMA WritesFit ==
    ASSUME NEW x \in Exports
    PROVE  /\ Concatenated(x.writes) \in Seq(Byte)
           /\ Len(Concatenated(x.writes)) < kLastByteInFile
           /\ Len(Concatenated(x.writes)) <= kLastByteInFile
<1>1. x.writes \in Seq(Seq(Byte)) /\ <<>> \in Seq(Byte)
  BY ExportFacts
<1>2. Concatenated(x.writes) \in Seq(Byte)
  BY <1>1, ConcatenatedAppend
<1>3. Len(Concatenated(x.writes)) \in Nat /\ kLastByteInFile \in Nat
  BY <1>2, StorageAssumption, LenProperties
<1>4. Len(Concatenated(x.writes)) < kLastByteInFile
  BY StorageAssumption
<1> QED BY <1>2, <1>3, <1>4

(* A range of one byte is void in S3, and the whole object is read.        *)
LEMMA VoidRangeIsIgnored ==
    ASSUME export \in Exports, object \in Seq(Byte), Len(object) < kLastByteInFile,
           NEW first \in 0 .. kLastByteInFile, first < Len(object), export.backend = "s3"
    PROVE  Read(first, first) = object
<1>0. PICK o \in Seq(Byte), k \in Nat : o = object /\ k = kLastByteInFile
  BY StorageAssumption
<1>1. Len(o) \in Nat /\ Len(o) < k /\ first \in Nat /\ first < Len(o)
  BY <1>0, LenProperties
<1>2. Read(first, first) = S3Get(GetRangeString(first, first))
  BY <1>0, <1>1 DEF Read, S3Read
<1>3. GetRangeString(first, first) = <<first, SizeT(first - 1)>>
  BY <1>0, <1>1 DEF GetRangeString
<1>4. CASE first = 0
  <2>1. SizeT(first - 1) = k
    <3>1. (0 - 1) % (k + 1) = k
      BY Z3
    <3> QED BY <1>0, <1>4, <3>1 DEF SizeT
  <2>2. Smaller(k, Len(o) - 1) + 1 = Len(o)
    BY <1>1 DEF Smaller
  <2>3. S3Get(<<first, k>>) = Slice(o, 0, Len(o))
    BY <1>0, <1>1, <1>4, <2>2 DEF S3Get
  <2>4. Slice(o, 0, Len(o)) = o
    <3>1. 0 + 1 = 1
      OBVIOUS
    <3> QED BY <3>1, SubSeqFull DEF Slice
  <2> QED BY <1>0, <1>2, <1>3, <2>1, <2>3, <2>4
<1>5. CASE first # 0
  <2>1. first - 1 \in 0 .. kLastByteInFile
    BY <1>0, <1>1, <1>5
  <2>2. SizeT(first - 1) = first - 1
    BY <2>1, SizeTFits
  <2>3. S3Get(<<first, first - 1>>) = o
    BY <1>0, <1>1 DEF S3Get
  <2> QED BY <1>0, <1>2, <1>3, <2>2, <2>3
<1> QED BY <1>4, <1>5

(* From the middle of a file to kLastByteInFile there is nothing to read.  *)
LEMMA WrappedRangeFails ==
    ASSUME object \in Seq(Byte), Len(object) < kLastByteInFile,
           NEW first \in 0 .. kLastByteInFile, first # 0, first < Len(object),
           export.backend = "filesystem"
    PROVE  Read(first, kLastByteInFile) = None
<1>0. PICK o \in Seq(Byte), k \in Nat : o = object /\ k = kLastByteInFile
  BY StorageAssumption
<1>1. Len(o) \in Nat /\ Len(o) < k /\ first \in Nat /\ first < Len(o)
  BY <1>0, LenProperties
<1>2. (first + k) % (k + 1) = first - 1
  BY <1>1, Z3
<1>3. SizeT(first + kLastByteInFile) = first - 1
  BY <1>0, <1>2 DEF SizeT
<1> QED BY <1>0, <1>1, <1>3 DEF Read, FilesystemRead

(* A Read of a range returns what the range has.                           *)
LEMMA ReadStep ==
    ASSUME UploadInv, ObjectIsWhole, ReadInv, ReadByteRange
    PROVE  ReadInv'
<1>0. export \in Exports /\ outcome = "success" /\ object # None /\ ~error
  BY DEF ReadByteRange, UploadInv, UploadTypeOK, ReadInv
<1>1. object \in Seq(Byte) /\ Len(object) < kLastByteInFile /\ Len(object) <= kLastByteInFile
  BY <1>0, WholeInTheEnd, WritesFit
<1>2. PICK range \in ByteRanges :
         /\ range[1] <= range[2] /\ request' = range
         /\ bytes' \in IF Read(range[1], range[2]) = None THEN {None}
                       ELSE {BufferData(b) : b \in UNION {Filled(memory, Read(range[1], range[2])) :
                                                             memory \in ReadMemory}}
  BY DEF ReadByteRange
<1>3. PICK first \in 0 .. kLastByteInFile, last \in 0 .. kLastByteInFile :
         range[1] = first /\ range[2] = last
  BY StorageAssumption
<1>4. UNCHANGED <<export, object, outcome, error>>
  BY DEF ReadByteRange, uploadVars, handlerVars
<1>n. Len(object) \in Nat /\ first \in Nat /\ last \in Nat /\ first <= last
  BY <1>1, <1>2, <1>3, StorageAssumption, LenProperties
<1>b. ASSUME NEW body \in Seq(Byte), body = Read(first, last) PROVE bytes' = body
  <2>1. body # None => \E memory \in ReadMemory : \E b \in Filled(memory, body) :
                          bytes' = BufferData(b)
    BY <1>2, <1>3, <1>b
  <2> QED BY <1>2, <1>3, <1>b, <2>1, ReadIntoMemory
<1>5. ASSUME first < EndOfRange(last), ~FilesystemWraps(first, last)
      PROVE  bytes' = Slice(object, first, EndOfRange(last))
  <2>1. PICK body : body = Read(first, last)
    OBVIOUS
  <2>2. body = Slice(object, first, EndOfRange(last))
    BY <1>0, <1>1, <1>n, <1>5, <2>1, ReadIsSlice DEF FilesystemWraps
  <2>3. body \in Seq(Byte)
    <3>1. EndOfRange(last) \in Int /\ EndOfRange(last) <= Len(object)
      BY <1>n DEF EndOfRange, Smaller
    <3>2. \A i \in first + 1 .. EndOfRange(last) : object[i] \in Byte
      BY <1>1, <1>n, <3>1, ElementOfSeq
    <3> QED BY <1>1, <1>n, <2>2, <3>1, <3>2, SubSeqProperties DEF Slice
  <2> QED BY <1>b, <2>1, <2>2, <2>3
<1>6. ASSUME first < Len(object)
      PROVE  bytes' = IF FilesystemWraps(first, last) THEN None
                      ELSE IF ~S3CutsRange(last) THEN DocumentedRead(first, last)
                      ELSE IF first < last THEN Slice(object, first, last)
                      ELSE object
  <2>1. CASE FilesystemWraps(first, last)
    <3>1. Read(first, last) = None
      BY <1>1, <1>6, <2>1, WrappedRangeFails DEF FilesystemWraps
    <3> QED BY <1>2, <1>3, <2>1, <3>1
  <2>2. CASE ~FilesystemWraps(first, last) /\ ~S3CutsRange(last)
    <3>1. EndOfRange(last) = Smaller(last, Len(object) - 1) + 1
      BY <1>n, <2>2 DEF EndOfRange, S3CutsRange, Smaller
    <3>2. first < EndOfRange(last)
      BY <1>n, <1>6, <3>1 DEF Smaller
    <3> QED BY <1>5, <2>2, <3>1, <3>2 DEF DocumentedRead
  <2>3. CASE ~FilesystemWraps(first, last) /\ S3CutsRange(last) /\ first < last
    <3>1. EndOfRange(last) = last
      BY <1>n, <2>3 DEF EndOfRange, S3CutsRange, Smaller
    <3> QED BY <1>5, <2>3, <3>1
  <2>4. CASE ~FilesystemWraps(first, last) /\ S3CutsRange(last) /\ ~(first < last)
    <3>1. first = last
      BY <1>n, <2>4
    <3>2. Read(first, last) = object
      BY <1>0, <1>1, <1>6, <2>4, <3>1, VoidRangeIsIgnored DEF S3CutsRange
    <3> QED BY <1>1, <1>b, <2>4, <3>2
  <2> QED BY <2>1, <2>2, <2>3, <2>4
<1>7. RangesAreRead'
  BY <1>2, <1>3, <1>4, <1>6 DEF RangesAreRead, FilesystemWraps, S3CutsRange, DocumentedRead
<1> QED BY <1>0, <1>4, <1>7 DEF ReadInv

(* A step of the export or of another import leaves what was read alone.   *)
LEMMA QuietRead ==
    ASSUME UploadInv, ReadInv, UNCHANGED <<request, bytes>>, UNCHANGED uploadVars \/ UploadStep
    PROVE  ReadInv'
<1>0. /\ outcome = None <=> main # "ended"
      /\ export.stored => uploads = <<>> /\ main = "ended"
  BY DEF UploadInv, ControlInv
<1>q. ASSUME UNCHANGED <<export, object, error, outcome>> PROVE ReadInv'
  BY <1>q DEF ReadInv, RangesAreRead, FilesystemWraps, S3CutsRange, DocumentedRead
<1>1. CASE UNCHANGED uploadVars
  BY <1>1, <1>q DEF uploadVars, handlerVars
<1>2. CASE WriterStep
  <2>1. main # "ended" /\ UNCHANGED export
    BY <1>2 DEF WriterStep, SkipWrite, S3Write, FillPart, BeginPart, CountPart, SendPart, S3Close,
       WaitForParts, CompleteUpload, DestroyWriter, DynamoDbWrite, DynamoDbClose,
       FilesystemWrite, FilesystemClose, EndExport, Formatting, Closing, handlerVars
  <2>2. outcome = None /\ ~export.stored /\ request = None
    BY <1>0, <2>1, ConstantFacts DEF ReadInv
  <2>3. outcome' = "success" => ~error'
    <3>1. CASE EndExport
      BY <3>1, ConstantFacts DEF EndExport, handlerVars
    <3>2. CASE ~EndExport
      <4>1. outcome' = outcome
        BY <1>2, <3>2 DEF WriterStep, SkipWrite, S3Write, FillPart, BeginPart, CountPart,
           SendPart, S3Close, WaitForParts, CompleteUpload, DestroyWriter, DynamoDbWrite,
           DynamoDbClose, FilesystemWrite, FilesystemClose
      <4> QED BY <2>2, <4>1, ConstantFacts
    <3> QED BY <3>1, <3>2
  <2> QED BY <2>1, <2>2, <2>3 DEF ReadInv, RangesAreRead
<1>3. ASSUME NEW k \in DOMAIN uploads, PartStep(k) PROVE ReadInv'
  <2>1. /\ UNCHANGED <<export, object, error>>
        /\ UNCHANGED outcome \/ (main # "ended" /\ outcome' = "crash")
    BY <1>3 DEF PartStep, ReceivePart, EnterPart, WriteBehindParts, LeavePart, FailPart, SetError,
       Alive, handlerVars
  <2>2. CASE UNCHANGED outcome
    BY <1>q, <2>1, <2>2
  <2>3. CASE main # "ended" /\ outcome' = "crash"
    <3>1. outcome = None /\ request = None /\ ~export.stored
      BY <1>0, <2>3, ConstantFacts DEF ReadInv
    <3> QED BY <2>1, <2>3, <3>1 DEF ReadInv, RangesAreRead
  <2> QED BY <2>1, <2>2, <2>3
<1> QED BY <1>1, <1>2, <1>3 DEF UploadStep

(* What holds of an object and of a range of it, whatever the steps.       *)
THEOREM StorageInvariant == Spec => [](FormatInv /\ ReadInv)
<1>1. Init => FormatInv /\ ReadInv
  <2> SUFFICES ASSUME Init PROVE ReadInv
      BY FormatInit
  <2>1. request = None /\ error = FALSE /\ (export.stored => outcome = "success")
    BY DEF Init, UploadInit
  <2> QED BY <2>1 DEF ReadInv, RangesAreRead
<1>2. UploadInv /\ UploadInv' /\ FormatInv /\ ReadInv /\ [Next]_vars => FormatInv' /\ ReadInv'
  <2> SUFFICES ASSUME UploadInv, UploadInv', FormatInv, ReadInv, [Next]_vars
               PROVE  FormatInv' /\ ReadInv'
      OBVIOUS
  <2>1. UNCHANGED uploadVars \/ UploadStep
    BY DEF Next, vars, ImportStep, RangeStep, OpenForReading, ReadObjectSync,
           PrecomputeByteRanges, ReadObjectAsync, FinishReading, DecodeParquet,
           ConstructCsvReader, ReadCsvChunk, ReadByteRange, ReceiveRange
  <2>2. UNCHANGED <<request, bytes>> \/ ReadByteRange
    BY DEF Next, vars, readVars, ImportStep, RangeStep, OpenForReading, ReadObjectSync,
           PrecomputeByteRanges, ReadObjectAsync, FinishReading, DecodeParquet,
           ConstructCsvReader, ReadCsvChunk, ReceiveRange, Ends
  <2>3. ASSUME UNCHANGED uploadVars PROVE FormatInv'
    <3> USE <2>3 DEF uploadVars, handlerVars
    <3>1. Taken' = Taken
      BY DEF Taken
    <3> QED BY <3>1 DEF FormatInv
  <2>4. FormatInv'
    BY <2>1, <2>3, FormatStep
  <2>5. ObjectIsWhole
    BY WholeObject
  <2>6. ReadInv'
    BY <2>1, <2>2, <2>5, QuietRead, ReadStep
  <2> QED BY <2>4, <2>6
<1> QED BY <1>1, <1>2, UploadInvariant, PTL DEF Spec

(* ObjectIsWhole, in every order of the callbacks of the parts, whatever   *)
(* Close has reported and for data of any size: in S3 and DynamoDB an      *)
(* export of which no write has failed leaves all or nothing; a file is    *)
(* there from its opening on, grows by whole writes, and is complete once  *)
(* it has been closed.                                                     *)
THEOREM ObjectsAreWhole == Spec => []ObjectIsWhole
<1>1. UploadInv /\ FormatInv /\ ReadInv => ObjectIsWhole
  BY WholeObject
<1> QED BY <1>1, UploadInvariant, StorageInvariant, PTL

(* RangesAreRead, for objects, ranges and a size_t of any size: a Read     *)
(* that begins inside the object returns the documented bytes but in two   *)
(* cases, the last byte of a range that ends inside an object of S3 and    *)
(* the tail of a file, for which the theorem says what is returned         *)
(* instead; neither the memory nor an earlier attempt leaves a byte in it. *)
THEOREM RangesAreReadExactly == Spec => []RangesAreRead
<1>1. ReadInv => RangesAreRead
  BY DEF ReadInv
<1> QED BY <1>1, StorageInvariant, PTL

-----------------------------------------------------------------------------
(* The buffers of an import.                                               *)

(* A range that has a beginning within the object.                         *)
Proper(r) ==
    /\ r \in Nat \X Nat
    /\ r[1] < r[2] /\ r[1] < Len(object) /\ r[2] <= kLastByteInFile

(* The buffer of a range has its bytes.                                    *)
Exact(r) == buffers[r] = Slice(object, r[1], Smaller(r[2], Len(object)))

(* A buffer is exact once its request has been answered without an error.  *)
BufferInv ==
    /\ reader # "idle" => outcome = "success"
    /\ reader \in {"sync", "ranges", "async", "wait", "decode"} => object # None
    /\ reader \in {"idle", "sync", "ranges"} => DOMAIN buffers = {}
    /\ reader = "wait" => export.backend = "s3" /\ requests \subseteq DOMAIN buffers
    /\ \A r \in DOMAIN buffers : Proper(r) =>
          \/ Exact(r)
          \/ reader = "async" /\ buffers[r] = <<>>
          \/ reader = "wait" /\ (r \in requests \/ readError)
          \/ reader \in {"failure", "crash"}

(* All that is to be read is in the object and in some buffer, and no      *)
(* buffer goes beyond the object.                                          *)
Covered(start, n) ==
    /\ start \in Nat /\ n \in Nat /\ start + n <= Len(object)
    /\ \A r \in DOMAIN buffers : Proper(r) /\ r[2] <= Len(object)
    /\ \A p \in start .. start + n - 1 : \E r \in DOMAIN buffers : r[1] <= p /\ p < r[2]

(* ColumnsAreRead for the column chunks that the buffers cover.  That they *)
(* cover all of them is CoverageInv below.                                 *)
CoveredColumnsAreRead ==
    reader = "table" /\ export.format = "kParquet" =>
        \A gc \in DOMAIN chunks :
            LET start == ChunkStart(export.file, gc[1], gc[2])
                n == ChunkLength(export.file.groups[gc[1]][gc[2]])
            IN  Covered(start, n) => chunks[gc] = Slice(object, start, start + n)

(* A bounded set of natural numbers has a greatest member.                 *)
LEMMA GreatestMember ==
    ASSUME NEW m \in Nat, NEW T \in SUBSET (0 .. m), T # {}
    PROVE  \E x \in T : \A y \in T : y <= x
<1> DEFINE U == {m - x : x \in T}
<1>1. U \in SUBSET Nat /\ U # {}
  <2>1. \A x \in T : m - x \in Nat
    OBVIOUS
  <2> QED BY <2>1
<1>2. PICK u \in U : \A v \in U : u <= v
  <2> HIDE DEF U
  <2> QED BY <1>1, LeastMember
<1>3. PICK x \in T : u = m - x
  OBVIOUS
<1>4. \A y \in T : m - y \in U /\ y \in Int
  OBVIOUS
<1>5. \A y \in T : m - x <= m - y
  <2> HIDE DEF U
  <2> QED BY <1>2, <1>3, <1>4
<1>6. \A y \in T : y <= x
  BY <1>4, <1>5
<1> QED BY <1>6

(* There is a first range, and a last one if they are bounded.             *)
LEMMA FirstRangeIsMember ==
    ASSUME NEW R \in SUBSET (Nat \X Nat), R # {}
    PROVE  FirstRange(R) \in R
<1> DEFINE Starts == {r[1] : r \in R}
<1>1. PICK a \in Starts : \A s \in Starts : a <= s
  <2>1. Starts \in SUBSET Nat /\ Starts # {}
    OBVIOUS
  <2> HIDE DEF Starts
  <2> QED BY <2>1, LeastMember
<1> DEFINE Stops == {r[2] : r \in {q \in R : q[1] = a}}
<1>2. PICK b \in Stops : \A s \in Stops : b <= s
  <2>1. Stops \in SUBSET Nat /\ Stops # {}
    OBVIOUS
  <2> HIDE DEF Stops
  <2> QED BY <2>1, LeastMember
<1>3. PICK r \in R : r[1] = a /\ r[2] = b
  OBVIOUS
<1>4. ASSUME NEW q \in R PROVE q = r \/ Before(r, q)
  <2>1. q \in Nat \X Nat /\ r \in Nat \X Nat /\ q[1] \in Starts
    OBVIOUS
  <2>2. q[1] = a => q[2] \in Stops
    OBVIOUS
  <2> HIDE DEF Starts, Stops
  <2>3. CASE q[1] = a
    <3>1. b <= q[2]
      BY <1>2, <2>2, <2>3
    <3> QED BY <1>3, <2>1, <2>3, <3>1 DEF Before
  <2>4. CASE q[1] # a
    <3>1. a <= q[1]
      BY <1>1, <2>1
    <3> QED BY <1>3, <2>1, <2>4, <3>1 DEF Before
  <2> QED BY <2>3, <2>4
<1> QED BY <1>3, <1>4 DEF FirstRange

(* A nonempty set of bounded ranges has a last one.                        *)
LEMMA LastRangeIsMember ==
    ASSUME NEW m \in Nat, NEW R \in SUBSET ((0 .. m) \X (0 .. m)), R # {}
    PROVE  LastRange(R) \in R
<1> DEFINE Starts == {r[1] : r \in R}
<1>1. PICK a \in Starts : \A s \in Starts : s <= a
  <2>1. Starts \in SUBSET (0 .. m) /\ Starts # {}
    OBVIOUS
  <2> HIDE DEF Starts
  <2> QED BY <2>1, GreatestMember
<1> DEFINE Stops == {r[2] : r \in {q \in R : q[1] = a}}
<1>2. PICK b \in Stops : \A s \in Stops : s <= b
  <2>1. Stops \in SUBSET (0 .. m) /\ Stops # {}
    OBVIOUS
  <2> HIDE DEF Stops
  <2> QED BY <2>1, GreatestMember
<1>3. PICK r \in R : r[1] = a /\ r[2] = b
  OBVIOUS
<1>4. ASSUME NEW q \in R PROVE q = r \/ Before(q, r)
  <2>1. q \in Nat \X Nat /\ r \in Nat \X Nat /\ q[1] \in Starts
    OBVIOUS
  <2>2. q[1] = a => q[2] \in Stops
    OBVIOUS
  <2> HIDE DEF Starts, Stops
  <2>3. CASE q[1] = a
    <3>1. q[2] <= b
      BY <1>2, <2>2, <2>3
    <3> QED BY <1>3, <2>1, <2>3, <3>1 DEF Before
  <2>4. CASE q[1] # a
    <3>1. q[1] <= a
      BY <1>1, <2>1
    <3> QED BY <1>3, <2>1, <2>4, <3>1 DEF Before
  <2> QED BY <2>3, <2>4
<1> QED BY <1>3, <1>4 DEF LastRange

(* A slice of an object, byte by byte.                                     *)
LEMMA SliceFacts ==
    ASSUME NEW S, NEW o \in Seq(S), NEW a \in Nat, NEW b \in Nat, a <= b, b <= Len(o)
    PROVE  /\ Slice(o, a, b) \in Seq(S) /\ Len(Slice(o, a, b)) = b - a
           /\ \A i \in 1 .. b - a : Slice(o, a, b)[i] = o[a + i]
<1>1. \A i \in a + 1 .. b : o[i] \in S
  BY LenProperties, ElementOfSeq
<1>2. a + 1 \in Int /\ b \in Int
  OBVIOUS
<1> QED BY <1>1, <1>2, SubSeqProperties DEF Slice

(* Reading from exact buffers gives the bytes of the object, from a single *)
(* buffer and from several ones that overlap.                              *)
LEMMA ReadIsExact ==
    ASSUME object \in Seq(Byte), NEW start, NEW n, Covered(start, n),
           \A r \in DOMAIN buffers : Exact(r)
    PROVE  ReadBuffer(buffers, start, n) = Slice(object, start, start + n)
<1>0. PICK size \in Nat : size = Len(object)
  BY LenProperties
<1>1. /\ start \in Nat /\ n \in Nat /\ start + n \in Nat /\ start + n <= size
      /\ \A r \in DOMAIN buffers : /\ r \in Nat \X Nat /\ r[1] \in Nat /\ r[2] \in Nat
                                   /\ r[1] < r[2] /\ r[2] <= size
  BY <1>0 DEF Covered, Proper
<1>2. ASSUME NEW r \in DOMAIN buffers
      PROVE  /\ buffers[r] \in Seq(Byte) /\ Len(buffers[r]) = r[2] - r[1]
             /\ \A i \in 1 .. r[2] - r[1] : buffers[r][i] = object[r[1] + i]
  <2>1. buffers[r] = Slice(object, r[1], r[2])
    BY <1>0, <1>1 DEF Exact, Smaller
  <2>2. PICK a \in Nat, b \in Nat : a = r[1] /\ b = r[2]
    BY <1>1
  <2>3. a <= b /\ b <= Len(object)
    BY <1>0, <1>1, <2>2
  <2>4. /\ Slice(object, a, b) \in Seq(Byte) /\ Len(Slice(object, a, b)) = b - a
        /\ \A i \in 1 .. b - a : Slice(object, a, b)[i] = object[a + i]
    BY <2>3, SliceFacts
  <2> QED BY <2>1, <2>2, <2>4
<1>3. /\ Slice(object, start, start + n) \in Seq(Byte)
      /\ Len(Slice(object, start, start + n)) = n
      /\ \A i \in 1 .. n : Slice(object, start, start + n)[i] = object[start + i]
  <2>1. PICK b \in Nat : b = start + n
    BY <1>1
  <2>2. start <= b /\ b <= Len(object) /\ b - start = n
    BY <1>0, <1>1, <2>1
  <2>3. /\ Slice(object, start, b) \in Seq(Byte) /\ Len(Slice(object, start, b)) = b - start
        /\ \A i \in 1 .. b - start : Slice(object, start, b)[i] = object[start + i]
    <3>1. PICK a \in Nat : a = start
      BY <1>1
    <3>2. a <= b
      BY <2>2, <3>1
    <3>3. /\ Slice(object, a, b) \in Seq(Byte) /\ Len(Slice(object, a, b)) = b - a
          /\ \A i \in 1 .. b - a : Slice(object, a, b)[i] = object[a + i]
      BY <2>2, <3>2, SliceFacts
    <3> QED BY <3>1, <3>3
  <2> QED BY <2>1, <2>2, <2>3
<1> DEFINE whole == {r \in DOMAIN buffers : r[1] <= start /\ r[2] >= start + n}
           begin == {r \in DOMAIN buffers : r[1] <= start /\ r[2] > start}
           later == {r \in DOMAIN buffers : r[1] > start /\ r[1] < start + n}
           ranges == IF begin = {} THEN {} ELSE begin \cup later
           first == FirstRange(whole)
<1>4. ReadBuffer(buffers, start, n) =
         IF whole # {} THEN Slice(buffers[first], start - first[1], start - first[1] + n)
         ELSE MergeBuffers(buffers, ranges, start, n)
  BY DEF ReadBuffer
<1>5. CASE whole # {}
  <2>1. whole \in SUBSET (Nat \X Nat)
    BY <1>1
  <2>2. first \in whole
    <3> HIDE DEF whole
    <3> QED BY <1>5, <2>1, FirstRangeIsMember
  <2> HIDE DEF first
  <2>3. PICK r \in DOMAIN buffers : r = first /\ r[1] <= start /\ r[2] >= start + n
    BY <2>2
  <2>4. PICK a \in Nat, b \in Nat : a = start - r[1] /\ b = start - r[1] + n
    BY <1>1, <2>3
  <2>5. a <= b /\ b <= Len(buffers[r]) /\ b - a = n
    <3>1. PICK x \in Nat, y \in Nat : x = r[1] /\ y = r[2]
      BY <1>1
    <3>2. a = start - x /\ b = start - x + n /\ y >= start + n /\ Len(buffers[r]) = y - x
      BY <1>2, <2>3, <2>4, <3>1
    <3> QED BY <1>1, <3>2
  <2>6. PICK o \in Seq(Byte) : o = buffers[r]
    BY <1>2
  <2>7. /\ Slice(o, a, b) \in Seq(Byte) /\ Len(Slice(o, a, b)) = n
        /\ \A i \in 1 .. n : Slice(o, a, b)[i] = o[a + i]
    BY <2>5, <2>6, SliceFacts
  <2>8. \A i \in 1 .. n : o[a + i] = object[start + i]
    <3> SUFFICES ASSUME NEW i \in 1 .. n PROVE o[a + i] = object[start + i]
        OBVIOUS
    <3>1. a + i \in 1 .. r[2] - r[1] /\ r[1] + (a + i) = start + i
      <4>1. PICK x \in Nat, y \in Nat : x = r[1] /\ y = r[2]
        BY <1>1
      <4>2. a = start - x /\ x <= start /\ y >= start + n
        BY <2>3, <2>4, <4>1
      <4>3. a + i \in 1 .. y - x /\ x + (a + i) = start + i
        BY <1>1, <4>2
      <4> QED BY <4>1, <4>3
    <3> QED BY <1>2, <2>6, <3>1
  <2>9. Slice(o, a, b) = Slice(object, start, start + n)
    <3>1. PICK t \in Seq(Byte) : t = Slice(object, start, start + n)
      BY <1>3
    <3>2. PICK s \in Seq(Byte) : s = Slice(o, a, b)
      BY <2>7
    <3>3. Len(s) = Len(t) /\ \A i \in 1 .. Len(s) : s[i] = t[i]
      BY <1>3, <2>7, <2>8, <3>1, <3>2
    <3> QED BY <3>1, <3>2, <3>3, SeqEqual
  <2> HIDE DEF whole
  <2> QED BY <1>4, <1>5, <2>3, <2>4, <2>6, <2>9
<1>6. CASE whole = {} /\ n = 0
  <2>1. begin = {}
    BY <1>1, <1>6
  <2>2. ReadBuffer(buffers, start, n) = <<>>
    <3>1. ranges = {}
      BY <2>1
    <3> HIDE DEF ranges, whole
    <3> QED BY <1>4, <1>6, <3>1 DEF MergeBuffers
  <2> QED BY <1>3, <1>6, <2>2, EmptySeq
<1>7. CASE whole = {} /\ n # 0
  <2>1. \A p \in start .. start + n - 1 : \E r \in ranges : r[1] <= p /\ p < r[2]
    <3>1. ASSUME NEW p \in start .. start + n - 1, NEW r \in DOMAIN buffers, r[1] <= p, p < r[2]
          PROVE  r \in begin \cup later
      BY <1>1, <3>1
    <3>2. begin # {}
      <4>1. start \in start .. start + n - 1
        BY <1>1, <1>7
      <4>2. PICK r \in DOMAIN buffers : r[1] <= start /\ start < r[2]
        BY <4>1 DEF Covered
      <4> QED BY <1>1, <4>2
    <3> QED BY <3>1, <3>2 DEF Covered
  <2>2. ranges \subseteq DOMAIN buffers
    OBVIOUS
  <2> HIDE DEF ranges, whole
  <2>3. start + n - 1 \in start .. start + n - 1 /\ start \in start .. start + n - 1
    BY <1>1, <1>7
  <2> DEFINE Ends_ == {r[2] : r \in ranges}
             end == Max(Ends_)
  <2>4. end \in Int /\ end >= start + n
    <3>1. Ends_ \in SUBSET (0 .. size) /\ Ends_ # {}
      BY <1>1, <2>1, <2>2, <2>3
    <3>2. PICK r \in ranges : start + n - 1 < r[2]
      BY <2>1, <2>3
    <3>3. r[2] \in Ends_ /\ r[2] >= start + n
      BY <1>1, <2>2, <3>2
    <3> HIDE DEF Ends_
    <3>4. PICK x \in Ends_ : \A y \in Ends_ : y <= x
      BY <3>1, GreatestMember
    <3>5. \A y \in Ends_ : y \in Int
      BY <3>1
    <3>6. end \in Ends_ /\ \A y \in Ends_ : end >= y
      BY <3>4, <3>5 DEF Max
    <3> QED BY <1>1, <3>3, <3>5, <3>6
  <2>5. Smaller(n, end - start) = n
    BY <1>1, <2>4 DEF Smaller
  <2> DEFINE Holding(p) == {r \in ranges : r[1] <= p /\ p < r[2]}
             ByteAt(p) == IF Holding(p) = {} THEN Zero
                          ELSE LET r == LastRange(Holding(p)) IN buffers[r][p - r[1] + 1]
  <2>6. ASSUME NEW i \in 1 .. n PROVE ByteAt(start + i - 1) = object[start + i]
    <3>1. PICK p \in start .. start + n - 1 : p = start + i - 1
      BY <1>1
    <3>2. Holding(p) # {} /\ Holding(p) \in SUBSET ((0 .. size) \X (0 .. size))
      <4>1. \A r \in ranges : r \in (0 .. size) \X (0 .. size)
        BY <1>1, <2>2
      <4> QED BY <2>1, <4>1
    <3>3. PICK r \in Holding(p) : r = LastRange(Holding(p))
      <4> HIDE DEF Holding
      <4> QED BY <3>2, LastRangeIsMember
    <3>4. r \in DOMAIN buffers /\ r[1] <= p /\ p < r[2]
      BY <2>2, <3>3
    <3>5. p - r[1] + 1 \in 1 .. r[2] - r[1] /\ r[1] + (p - r[1] + 1) = start + i
      <4>1. PICK x \in Nat, y \in Nat : x = r[1] /\ y = r[2]
        BY <1>1, <3>4
      <4>2. p \in Int /\ x <= p /\ p < y /\ p = start + i - 1
        BY <1>1, <3>1, <3>4, <4>1
      <4>3. p - x + 1 \in 1 .. y - x /\ x + (p - x + 1) = start + i
        BY <1>1, <4>2
      <4> QED BY <4>1, <4>3
    <3>6. buffers[r][p - r[1] + 1] = object[start + i]
      BY <1>2, <3>4, <3>5
    <3>7. ByteAt(p) = buffers[r][p - r[1] + 1]
      <4> HIDE DEF Holding
      <4> QED BY <3>2, <3>3
    <3> HIDE DEF ByteAt
    <3> QED BY <3>1, <3>6, <3>7
  <2> DEFINE read == [i \in 1 .. n |-> ByteAt(start + i - 1)]
  <2>7. MergeBuffers(buffers, ranges, start, n) = Computed(read)
    <3>1. ranges # {}
      BY <2>1, <2>3
    <3>2. \A r \in ranges : Len(buffers[r]) = r[2] - r[1]
      BY <1>2, <2>2
    <3>3. MergeBuffers(buffers, ranges, start, n) =
             IF ranges = {} THEN <<>>
             ELSE IF \E r \in ranges : Len(buffers[r]) # r[2] - r[1] THEN AssertionFails
             ELSE Computed([i \in 1 .. Smaller(n, end - start) |-> ByteAt(start + i - 1)])
      BY DEF MergeBuffers
    <3> HIDE DEF ByteAt, end
    <3> QED BY <2>5, <3>1, <3>2, <3>3
  <2> HIDE DEF ByteAt
  <2>8. read = [i \in 1 .. n |-> object[start + i]]
    BY <2>6
  <2>9. read = Slice(object, start, start + n)
    <3>1. DOMAIN Slice(object, start, start + n) = 1 .. n
      BY <1>3, LenProperties
    <3>2. Slice(object, start, start + n) =
             [i \in 1 .. n |-> Slice(object, start, start + n)[i]]
      BY <1>3, <3>1
    <3> QED BY <1>3, <2>8, <3>2
  <2>10. Computed(Slice(object, start, start + n)) = Slice(object, start, start + n)
    BY <1>3, ConcatEmptySeq DEF Computed
  <2> HIDE DEF read
  <2> QED BY <1>4, <1>7, <2>7, <2>9, <2>10
<1> QED BY <1>5, <1>6, <1>7

(* Once an export has ended well, its steps leave the object alone.        *)
LEMMA SettledObject ==
    ASSUME UploadInv, outcome = "success", UNCHANGED uploadVars \/ UploadStep
    PROVE  UNCHANGED <<export, object, error, outcome>>
<1>0. main = "ended"
  BY ConstantFacts DEF UploadInv, ControlInv
<1>1. CASE UNCHANGED uploadVars
  BY <1>1 DEF uploadVars, handlerVars
<1>2. CASE WriterStep
  <2>1. main # "ended"
    BY <1>2 DEF WriterStep, SkipWrite, S3Write, FillPart, BeginPart, CountPart, SendPart, S3Close,
       WaitForParts, CompleteUpload, DestroyWriter, DynamoDbWrite, DynamoDbClose,
       FilesystemWrite, FilesystemClose, EndExport, Formatting, Closing
  <2> QED BY <1>0, <2>1
<1>3. ASSUME NEW k \in DOMAIN uploads, PartStep(k) PROVE UNCHANGED <<export, object, error, outcome>>
  BY <1>0, <1>3 DEF PartStep, ReceivePart, EnterPart, WriteBehindParts, LeavePart, FailPart,
     SetError, Alive, handlerVars
<1> QED BY <1>1, <1>2, <1>3 DEF UploadStep

(* The object of an import, and what a backend reads of a proper range.    *)
LEMMA ImportedObject ==
    ASSUME UploadInv, ObjectIsWhole, ReadInv, outcome = "success", object # None
    PROVE  /\ export \in Exports /\ object \in Seq(Byte) /\ Len(object) <= kLastByteInFile
           /\ Len(object) \in Nat /\ kLastByteInFile \in Nat
           /\ export.format = "kParquet" => FooterRange(export.file)[2] = Len(object)
<1>1. export \in Exports /\ object = Concatenated(export.writes)
  BY WholeInTheEnd DEF UploadInv, UploadTypeOK, ReadInv
<1>2. object \in Seq(Byte) /\ Len(object) <= kLastByteInFile
  BY <1>1, WritesFit
<1> QED BY <1>1, <1>2, LenProperties, StorageAssumption

(* A read of the whole object and of a range of it in S3.                  *)
LEMMA ProperRead ==
    ASSUME export \in Exports, object \in Seq(Byte), Len(object) <= kLastByteInFile,
           NEW r, Proper(r), export.backend = "s3"
    PROVE  /\ S3Read(r[1], r[2]) = Slice(object, r[1], Smaller(r[2], Len(object)))
           /\ S3Read(r[1], r[2]) \in Seq(Byte)
<1>0. PICK size \in Nat : size = Len(object)
  BY LenProperties
<1>1. PICK first \in 0 .. kLastByteInFile, last \in 0 .. kLastByteInFile :
         first = r[1] /\ last = r[2]
  <2>1. r[1] \in Nat /\ r[2] \in Nat /\ r[1] < r[2] /\ r[2] <= kLastByteInFile
        /\ kLastByteInFile \in Nat
    BY StorageAssumption DEF Proper
  <2>2. r[1] \in 0 .. kLastByteInFile /\ r[2] \in 0 .. kLastByteInFile
    BY <2>1
  <2> QED BY <2>2
<1>2. first < last /\ first < size /\ first \in Nat /\ last \in Nat
  BY <1>0, <1>1 DEF Proper
<1>3. EndOfRange(last) = Smaller(last, size) /\ first < Smaller(last, size)
  BY <1>0, <1>2 DEF EndOfRange, Smaller
<1>4. Read(first, last) = Slice(object, first, EndOfRange(last))
  BY <1>1, <1>2, <1>3, ReadIsSlice
<1>5. Read(first, last) = S3Read(first, last)
  BY DEF Read
<1>6. PICK end \in Nat : end = Smaller(last, size)
  BY <1>2 DEF Smaller
<1>7. first <= end /\ end <= Len(object)
  BY <1>0, <1>2, <1>3, <1>6 DEF Smaller
<1>8. Slice(object, first, end) \in Seq(Byte)
  BY <1>2, <1>7, SliceFacts
<1> QED BY <1>0, <1>1, <1>3, <1>4, <1>5, <1>6, <1>8

(* The footer of a Parquet file is the end of its object.                  *)
LEMMA FooterRead ==
    ASSUME export \in Exports, object \in Seq(Byte), Len(object) <= kLastByteInFile,
           NEW r, Proper(r), r[2] = Len(object)
    PROVE  /\ ReadTail(r[2] - r[1]) = Slice(object, r[1], Smaller(r[2], Len(object)))
           /\ ReadTail(r[2] - r[1]) \in Seq(Byte)
<1>0. PICK size \in Nat, k \in Nat : size = Len(object) /\ k = kLastByteInFile
  BY LenProperties, StorageAssumption
<1>1. PICK first \in Nat : first = r[1]
  BY DEF Proper
<1>2. first < size /\ size <= k /\ r[2] = size
  BY <1>0, <1>1 DEF Proper
<1>3. (IF size - first < size THEN size - (size - first) ELSE 0) = first
  BY <1>2
<1>4. PICK last \in 0 .. kLastByteInFile : last = size - 1
  <2>1. size - 1 \in 0 .. kLastByteInFile
    BY <1>0, <1>2
  <2> QED BY <2>1
<1>5. first \in 0 .. kLastByteInFile /\ first <= last /\ last # kLastByteInFile /\ last \in Nat
  BY <1>0, <1>2, <1>4
<1>6. /\ Slice(object, first, size) \in Seq(Byte) /\ Smaller(r[2], Len(object)) = size
      /\ Smaller(last, size - 1) + 1 = size
  <2>1. first <= size /\ size <= Len(object)
    BY <1>0, <1>2
  <2>2. Slice(object, first, size) \in Seq(Byte)
    BY <2>1, SliceFacts
  <2>3. Smaller(r[2], Len(object)) = size /\ Smaller(last, size - 1) + 1 = size
    BY <1>0, <1>2, <1>4 DEF Smaller
  <2> QED BY <2>2, <2>3
<1>7. CASE export.backend = "s3"
  <2>1. ReadTail(size - first) = S3Get(<<first, size - 1>>)
    BY <1>0, <1>3, <1>7 DEF ReadTail, S3ReadTail, GetRangeStringForTail
  <2>2. S3Get(<<first, size - 1>>) = Slice(object, first, Smaller(size - 1, size - 1) + 1)
    BY <1>0, <1>2 DEF S3Get
  <2> QED BY <1>1, <1>2, <1>4, <1>6, <2>1, <2>2
<1>8. CASE export.backend # "s3"
  <2>1. ReadTail(size - first) = Read(first, SizeT(size - 1))
    BY <1>0, <1>3, <1>8 DEF ReadTail
  <2>2. SizeT(size - 1) = last
    BY <1>4, SizeTFits
  <2>3. EndOfRange(last) = size
    BY <1>0, <1>6, <1>8 DEF EndOfRange
  <2>4. first < EndOfRange(last)
    BY <1>2, <2>3
  <2>5. Read(first, last) = Slice(object, first, EndOfRange(last))
    BY <1>5, <2>4, ReadIsSlice
  <2> QED BY <1>1, <1>2, <1>6, <2>1, <2>2, <2>3, <2>5
<1> QED BY <1>7, <1>8

(* A step of the export, or of an import that ends here or leaves its      *)
(* buffers alone.                                                          *)
LEMMA QuietBuffers ==
    ASSUME UploadInv, BufferInv, UNCHANGED uploadVars \/ UploadStep,
           \/ UNCHANGED <<reader, buffers, requests, readError>>
           \/ /\ UNCHANGED <<buffers, requests, readError>>
              /\ reader' \in {"failure", "crash"} /\ outcome = "success"
           \/ /\ UNCHANGED buffers
              /\ reader \in {"decode", "next", "table"} /\ reader' \in {"next", "table"}
    PROVE  BufferInv'
<1>1. CASE outcome = "success"
  <2>1. UNCHANGED <<export, object, outcome>>
    BY <1>1, SettledObject
  <2>2. \A r : Proper(r)' = Proper(r) /\ Exact(r)' = Exact(r)
    BY <2>1 DEF Proper, Exact
  <2> QED BY <1>1, <2>1, <2>2 DEF BufferInv
<1>2. CASE outcome # "success"
  <2>1. reader = "idle" /\ DOMAIN buffers = {}
    BY <1>2 DEF BufferInv
  <2>2. reader' = "idle" /\ DOMAIN buffers' = {}
    BY <1>2, <2>1
  <2> QED BY <2>2 DEF BufferInv
<1> QED BY <1>1, <1>2

(* A step of an import.                                                    *)
LEMMA BufferStep ==
    ASSUME UploadInv, ObjectIsWhole, ReadInv, BufferInv, ImportStep \/ RangeStep
    PROVE  BufferInv'
<1> USE ConstantFacts
<1>1. CASE OpenForReading
  <2>1. /\ reader = "idle" /\ outcome = "success" /\ UNCHANGED uploadVars
        /\ UNCHANGED buffers /\ reader' \in {"failure", "sync", "ranges"}
        /\ reader' # "failure" => object # None
    BY <1>1 DEF OpenForReading, Ends, GetStatus
  <2>2. UNCHANGED <<export, object, outcome>>
    BY <2>1 DEF uploadVars, handlerVars
  <2> QED BY <2>1, <2>2 DEF BufferInv
<1>2. CASE ReadObjectSync
  <2>0. reader = "sync" /\ UNCHANGED uploadVars /\ outcome = "success" /\ object # None
        /\ DOMAIN buffers = {}
    BY <1>2 DEF ReadObjectSync, BufferInv
  <2>1. UNCHANGED <<export, object, outcome>>
    BY <2>0 DEF uploadVars, handlerVars
  <2>2. CASE Ends("failure")
    <3>1. UNCHANGED <<buffers, requests, readError>> /\ reader' = "failure"
      BY <2>2 DEF Ends
    <3> QED BY <2>0, <3>1, QuietBuffers
  <2>3. CASE ~Ends("failure")
    <3>1. PICK b \in Filled(OwnMemory, Read(0, kLastByteInFile)) :
             buffers' = AddBuffer(buffers, <<0, Len(object)>>, BufferData(b))
      BY <1>2, <2>3 DEF ReadObjectSync
    <3>2. reader' = "decode"
      BY <1>2, <2>3 DEF ReadObjectSync
    <3>3. object \in Seq(Byte) /\ Len(object) <= kLastByteInFile /\ Len(object) \in Nat
          /\ kLastByteInFile \in Nat /\ export \in Exports
      BY <2>0, ImportedObject
    <3>4. DOMAIN buffers' = {<<0, Len(object)>>} /\ buffers'[<<0, Len(object)>>] = BufferData(b)
      BY <2>0, <3>1 DEF AddBuffer
    <3>5. ASSUME Proper(<<0, Len(object)>>) PROVE BufferData(b) = Slice(object, 0, Len(object))
      <4>1. 0 < Len(object)
        BY <3>5 DEF Proper
      <4>2. PICK zero \in 0 .. kLastByteInFile, last \in 0 .. kLastByteInFile :
               zero = 0 /\ last = kLastByteInFile
        BY <3>3
      <4>3. EndOfRange(last) = Len(object)
        BY <3>3, <4>1, <4>2 DEF EndOfRange, Smaller
      <4>4. zero <= last /\ zero < EndOfRange(last)
        BY <3>3, <4>1, <4>2, <4>3
      <4>5. Read(zero, last) = Slice(object, zero, EndOfRange(last))
        BY <3>3, <4>2, <4>4, ReadIsSlice
      <4>6. PICK body : body = Read(0, kLastByteInFile)
        OBVIOUS
      <4>7. body = Slice(object, 0, Len(object))
        BY <4>2, <4>3, <4>5, <4>6
      <4>8. body \in Seq(Byte)
        BY <3>3, <4>7, SliceFacts
      <4>9. OwnMemory \in ReadMemory
        BY DEF ReadMemory
      <4> QED BY <3>1, <4>6, <4>7, <4>8, <4>9, ReadIntoMemory
    <3>6. ASSUME NEW r \in DOMAIN buffers', Proper(r)' PROVE Exact(r)'
      <4>1. r = <<0, Len(object)>> /\ Proper(r)
        BY <2>1, <3>4, <3>6 DEF Proper
      <4>2. Smaller(Len(object), Len(object)) = Len(object)
        BY DEF Smaller
      <4> QED BY <2>1, <3>4, <3>5, <4>1, <4>2 DEF Exact
    <3> QED BY <2>0, <2>1, <3>2, <3>6 DEF BufferInv
  <2> QED BY <2>2, <2>3
<1>3. CASE PrecomputeByteRanges
  <2>0. reader = "ranges" /\ UNCHANGED uploadVars /\ outcome = "success" /\ object # None
    BY <1>3 DEF PrecomputeByteRanges, BufferInv
  <2>1. UNCHANGED <<export, object, outcome>>
    BY <2>0 DEF uploadVars, handlerVars
  <2>2. CASE \E how \in {"failure", "crash"} : Ends(how)
    <3>1. UNCHANGED <<buffers, requests, readError>> /\ reader' \in {"failure", "crash"}
      BY <2>2 DEF Ends
    <3> QED BY <2>0, <3>1, QuietBuffers
  <2>3. CASE ~\E how \in {"failure", "crash"} : Ends(how)
    <3> DEFINE footer == FooterRange(export.file)
               ranges == CalculatePageOffsetsForColumnIds(export.file, export.rowGroups, export.columns)
    <3>1. export.format = "kParquet" /\ reader' = "async"
      BY <1>3, <2>3 DEF PrecomputeByteRanges
    <3>2. PICK b \in Filled(OwnMemory, ReadTail(footer[2] - footer[1])) :
             buffers' = AddBuffer([r \in ranges |-> <<>>], footer, BufferData(b))
      BY <1>3, <2>3 DEF PrecomputeByteRanges
    <3> HIDE DEF footer, ranges
    <3>3. object \in Seq(Byte) /\ Len(object) <= kLastByteInFile /\ export \in Exports
          /\ footer[2] = Len(object)
      BY <2>0, <3>1, ImportedObject DEF footer
    <3>4. \A r \in DOMAIN buffers' : buffers'[r] = <<>> \/ (r = footer /\ buffers'[r] = BufferData(b))
      BY <3>2 DEF AddBuffer
    <3>5. ASSUME Proper(footer)
          PROVE  BufferData(b) = Slice(object, footer[1], Smaller(footer[2], Len(object)))
      <4>1. PICK body : body = ReadTail(footer[2] - footer[1])
        OBVIOUS
      <4>2. PICK f : f = footer
        OBVIOUS
      <4>3. Proper(f) /\ f[2] = Len(object)
        BY <3>3, <3>5, <4>2
      <4>4. body = Slice(object, f[1], Smaller(f[2], Len(object))) /\ body \in Seq(Byte)
        BY <3>3, <4>1, <4>2, <4>3, FooterRead
      <4>5. OwnMemory \in ReadMemory
        BY DEF ReadMemory
      <4> QED BY <3>2, <4>1, <4>2, <4>4, <4>5, ReadIntoMemory
    <3>6. ASSUME NEW r \in DOMAIN buffers', Proper(r)' PROVE Exact(r)' \/ buffers'[r] = <<>>
      <4>1. Proper(r)
        BY <2>1, <3>6 DEF Proper
      <4> QED BY <2>1, <3>4, <3>5, <4>1 DEF Exact
    <3> QED BY <2>0, <2>1, <3>1, <3>6 DEF BufferInv
  <2> QED BY <2>2, <2>3
<1>4. CASE ReadObjectAsync
  <2>0. reader = "async" /\ UNCHANGED uploadVars /\ outcome = "success" /\ object # None
    BY <1>4 DEF ReadObjectAsync, BufferInv
  <2>1. UNCHANGED <<export, object, outcome>>
    BY <2>0 DEF uploadVars, handlerVars
  <2>2. CASE export.backend # "s3"
    <3>1. UNCHANGED <<buffers, requests, readError>> /\ reader' = "failure"
      BY <1>4, <2>2 DEF ReadObjectAsync, Ends
    <3> QED BY <2>0, <3>1, QuietBuffers
  <2>3. CASE export.backend = "s3"
    <3>1. requests' = {r \in DOMAIN buffers : buffers[r] = <<>>} /\ reader' = "wait"
          /\ UNCHANGED buffers
      BY <1>4, <2>3 DEF ReadObjectAsync
    <3>2. ASSUME NEW r \in DOMAIN buffers, Proper(r)' PROVE Exact(r)' \/ r \in requests'
      <4>1. Proper(r)
        BY <2>1, <3>2 DEF Proper
      <4>2. Exact(r) \/ buffers[r] = <<>>
        BY <2>0, <4>1 DEF BufferInv
      <4> QED BY <2>1, <3>1, <4>2 DEF Exact
    <3> QED BY <2>0, <2>1, <2>3, <3>1, <3>2 DEF BufferInv
  <2> QED BY <2>2, <2>3
<1>5. CASE FinishReading
  <2>0. reader = "wait" /\ UNCHANGED uploadVars /\ outcome = "success" /\ requests = {}
    BY <1>5 DEF FinishReading, BufferInv
  <2>1. UNCHANGED <<export, object, outcome, buffers, readError>>
        /\ reader' = IF readError THEN "failure" ELSE "decode"
    BY <1>5, <2>0 DEF FinishReading, Ends, uploadVars, handlerVars
  <2>2. \A r : Proper(r)' = Proper(r) /\ Exact(r)' = Exact(r)
    BY <2>1 DEF Proper, Exact
  <2> QED BY <2>0, <2>1, <2>2 DEF BufferInv
<1>6. CASE DecodeParquet \/ ConstructCsvReader
  <2>1. UNCHANGED uploadVars /\ UNCHANGED buffers /\ reader = "decode" /\ reader' \in {"table", "next"}
    BY <1>6 DEF DecodeParquet, ConstructCsvReader
  <2> QED BY <2>1, QuietBuffers
<1>7. CASE ReadCsvChunk
  <2>1. UNCHANGED uploadVars /\ UNCHANGED <<buffers, requests, readError>> /\ reader = "next"
        /\ reader' \in {"table", "next", "failure"} /\ outcome = "success"
    BY <1>7 DEF ReadCsvChunk, Ends, BufferInv
  <2> QED BY <2>1, QuietBuffers
<1>8. CASE ReadByteRange
  <2>1. UNCHANGED uploadVars /\ UNCHANGED buffers /\ reader = "idle" /\ reader' = "table"
        /\ outcome = "success"
    BY <1>8 DEF ReadByteRange
  <2>2. DOMAIN buffers' = {} /\ outcome' = outcome
    BY <2>1 DEF BufferInv, uploadVars
  <2> QED BY <2>1, <2>2 DEF BufferInv
<1>9. ASSUME NEW r \in requests, ReceiveRange(r) PROVE BufferInv'
  <2>0. reader = "wait" /\ outcome = "success" /\ object # None /\ r \in DOMAIN buffers
        /\ export.backend = "s3" /\ requests \subseteq DOMAIN buffers
    BY <1>9 DEF ReceiveRange, BufferInv
  <2>1. /\ UNCHANGED <<export, object, outcome, reader>> /\ requests' = requests \ {r}
    BY <1>9 DEF ReceiveRange, uploadVars, handlerVars
  <2>2. PICK failed \in MayFailToRead("get"), bad \in BOOLEAN :
           /\ bad = (failed \/ S3Read(r[1], r[2]) = None)
           /\ readError' = (readError \/ bad)
           /\ \E b \in IF bad THEN {GetObjectFails(OwnMemory)}
                       ELSE GetObject(OwnMemory, S3Read(r[1], r[2])) :
                 buffers' = [buffers EXCEPT ![r] = BufferData(b)]
    BY <1>9 DEF ReceiveRange
  <2>3. PICK bytes_ : buffers' = [buffers EXCEPT ![r] = bytes_]
          /\ (~bad => \E b \in GetObject(OwnMemory, S3Read(r[1], r[2])) : bytes_ = BufferData(b))
    BY <2>2
  <2>4. DOMAIN buffers' = DOMAIN buffers /\ buffers'[r] = bytes_
        /\ \A q \in DOMAIN buffers : q # r => buffers'[q] = buffers[q]
    BY <2>0, <2>3
  <2>5. ASSUME NEW q \in DOMAIN buffers, Proper(q)'
        PROVE  Exact(q)' \/ q \in requests' \/ readError'
    <3>1. Proper(q)
      BY <2>1, <2>5 DEF Proper
    <3>2. CASE q # r
      <4>1. Exact(q) \/ q \in requests \/ readError
        BY <2>0, <3>1 DEF BufferInv
      <4> QED BY <2>1, <2>2, <2>4, <3>2, <4>1 DEF Exact
    <3>3. CASE q = r /\ ~bad
      <4>1. object \in Seq(Byte) /\ Len(object) <= kLastByteInFile /\ export \in Exports
        BY <2>0, ImportedObject
      <4>2. PICK body : body = S3Read(r[1], r[2])
        OBVIOUS
      <4>3. body = Slice(object, r[1], Smaller(r[2], Len(object))) /\ body \in Seq(Byte)
        BY <2>0, <3>1, <3>3, <4>1, <4>2, ProperRead
      <4>4. PICK b \in Filled(OwnMemory, body) : bytes_ = BufferData(b)
        BY <2>0, <2>3, <3>3, <4>2 DEF Filled
      <4>5. OwnMemory \in ReadMemory
        BY DEF ReadMemory
      <4>6. bytes_ = body
        BY <4>3, <4>4, <4>5, ReadIntoMemory
      <4> QED BY <2>1, <2>4, <3>3, <4>3, <4>6 DEF Exact
    <3>4. CASE q = r /\ bad
      BY <2>2, <3>4
    <3> QED BY <3>2, <3>3, <3>4
  <2>6. requests' \subseteq DOMAIN buffers'
    BY <2>0, <2>1, <2>4
  <2> QED BY <2>0, <2>1, <2>4, <2>5, <2>6 DEF BufferInv
<1> QED BY <1>1, <1>2, <1>3, <1>4, <1>5, <1>6, <1>7, <1>8, <1>9 DEF ImportStep, RangeStep

(* Every buffer of an import that goes on is exact, in any order of the    *)
(* answers, for every object, every range and every attempt.               *)
THEOREM BuffersAreExact == Spec => []BufferInv
<1>1. Init => BufferInv
  <2> SUFFICES ASSUME Init PROVE BufferInv
      OBVIOUS
  <2>1. reader = "idle" /\ DOMAIN buffers = {}
    BY DEF Init, EmptyBuffer
  <2> QED BY <2>1 DEF BufferInv
<1>2. UploadInv /\ ObjectIsWhole /\ ReadInv /\ BufferInv /\ [Next]_vars => BufferInv'
  <2> SUFFICES ASSUME UploadInv, ObjectIsWhole, ReadInv, BufferInv, [Next]_vars
               PROVE  BufferInv'
      OBVIOUS
  <2>1. CASE (UploadStep /\ UNCHANGED readVars) \/ UNCHANGED vars
    <3>1. UNCHANGED <<reader, buffers, requests, readError>>
          /\ (UNCHANGED uploadVars \/ UploadStep)
      BY <2>1 DEF readVars, vars
    <3> QED BY <3>1, QuietBuffers
  <2>2. CASE ImportStep \/ RangeStep
    BY <2>2, BufferStep
  <2> QED BY <2>1, <2>2 DEF Next
<1> QED BY <1>1, <1>2, UploadInvariant, StorageInvariant, ObjectsAreWhole, PTL DEF Spec

(* Only a CSV import reads chunk by chunk.                                 *)
ColumnInv ==
    /\ reader = "next" => export.format # "kParquet"
    /\ CoveredColumnsAreRead

(* The column chunks, when they are read and ever after.                   *)
LEMMA ColumnStep ==
    ASSUME UploadInv, ObjectIsWhole, ReadInv, BufferInv, ColumnInv, [Next]_vars
    PROVE  ColumnInv'
<1>0. UNCHANGED uploadVars \/ UploadStep
  BY DEF Next, vars, ImportStep, RangeStep, OpenForReading, ReadObjectSync,
         PrecomputeByteRanges, ReadObjectAsync, FinishReading, DecodeParquet,
         ConstructCsvReader, ReadCsvChunk, ReadByteRange, ReceiveRange
<1>1. CASE outcome # "success"
  <2>1. reader = "idle"
    BY <1>1 DEF BufferInv
  <2>2. reader' = "idle"
    BY <1>1, <2>1 DEF Next, vars, readVars, ImportStep, RangeStep, OpenForReading,
       ReadObjectSync, PrecomputeByteRanges, ReadObjectAsync, FinishReading, DecodeParquet,
       ConstructCsvReader, ReadCsvChunk, ReadByteRange, ReceiveRange
  <2> QED BY <2>2 DEF ColumnInv, CoveredColumnsAreRead
<1>2. CASE outcome = "success"
  <2>1. UNCHANGED <<export, object>>
    BY <1>0, <1>2, SettledObject
  <2>2. ASSUME UNCHANGED <<reader, buffers, chunks>> PROVE ColumnInv'
    <3>1. \A start, n : Covered(start, n)' = Covered(start, n)
      BY <2>1, <2>2 DEF Covered, Proper
    <3> QED BY <2>1, <2>2, <3>1 DEF ColumnInv, CoveredColumnsAreRead
  <2>3. CASE DecodeParquet
    <3>1. /\ reader = "decode" /\ reader' = "table" /\ UNCHANGED buffers
          /\ chunks' = [gc \in ToSet(export.rowGroups) \X ToSet(export.columns) |->
                          ReadBuffer(buffers, ChunkStart(export.file, gc[1], gc[2]),
                                     ChunkLength(export.file.groups[gc[1]][gc[2]]))]
      BY <2>3 DEF DecodeParquet
    <3>2. object \in Seq(Byte)
      BY <1>2, <3>1, ImportedObject DEF BufferInv
    <3>3. ASSUME NEW gc \in DOMAIN chunks',
                 Covered(ChunkStart(export.file, gc[1], gc[2]),
                         ChunkLength(export.file.groups[gc[1]][gc[2]]))
          PROVE  chunks'[gc] = Slice(object, ChunkStart(export.file, gc[1], gc[2]),
                                     ChunkStart(export.file, gc[1], gc[2])
                                       + ChunkLength(export.file.groups[gc[1]][gc[2]]))
      <4>1. PICK start, n : /\ start = ChunkStart(export.file, gc[1], gc[2])
                            /\ n = ChunkLength(export.file.groups[gc[1]][gc[2]])
        OBVIOUS
      <4>2. Covered(start, n)
        BY <3>3, <4>1
      <4>3. \A r \in DOMAIN buffers : Exact(r)
        BY <3>1, <4>2 DEF Covered, BufferInv
      <4>4. ReadBuffer(buffers, start, n) = Slice(object, start, start + n)
        BY <3>2, <4>2, <4>3, ReadIsExact
      <4>5. chunks'[gc] = ReadBuffer(buffers, start, n)
        BY <3>1, <4>1
      <4> QED BY <4>1, <4>4, <4>5
    <3>4. \A start, n : Covered(start, n)' = Covered(start, n)
      BY <2>1, <3>1 DEF Covered, Proper
    <3> QED BY <2>1, <3>1, <3>3, <3>4 DEF ColumnInv, CoveredColumnsAreRead
  <2>4. CASE ConstructCsvReader \/ ReadByteRange
    <3>1. reader' \in {"next", "table"} /\ export.format # "kParquet"
      BY <2>4 DEF ConstructCsvReader, ReadByteRange
    <3> QED BY <2>1, <3>1 DEF ColumnInv, CoveredColumnsAreRead
  <2>5. CASE ReadCsvChunk
    <3>1. export.format # "kParquet"
      BY <2>5 DEF ReadCsvChunk, ColumnInv
    <3> QED BY <2>1, <3>1 DEF ColumnInv, CoveredColumnsAreRead
  <2>6. CASE \/ OpenForReading \/ ReadObjectSync \/ PrecomputeByteRanges
             \/ ReadObjectAsync \/ FinishReading
    <3>1. reader' \notin {"next", "table"}
      BY <2>6 DEF OpenForReading, ReadObjectSync, PrecomputeByteRanges, ReadObjectAsync,
         FinishReading, Ends
    <3> QED BY <3>1 DEF ColumnInv, CoveredColumnsAreRead
  <2>7. CASE RangeStep
    <3>1. reader' = "wait"
      BY <2>7 DEF RangeStep, ReceiveRange
    <3> QED BY <3>1 DEF ColumnInv, CoveredColumnsAreRead
  <2>8. CASE (UploadStep /\ UNCHANGED readVars) \/ UNCHANGED vars
    BY <2>2, <2>8 DEF readVars, vars
  <2> QED BY <2>3, <2>4, <2>5, <2>6, <2>7, <2>8 DEF Next, ImportStep
<1> QED BY <1>1, <1>2

-----------------------------------------------------------------------------
(* The layout of a Parquet file and the ranges that are computed from it.  *)

(* Induction up to a bound.                                                *)
LEMMA BoundedInduction ==
    ASSUME NEW N \in Nat, NEW T,
           0 \in T, \A n \in 0 .. N - 1 : n \in T => n + 1 \in T
    PROVE  \A n \in 0 .. N : n \in T
<1> DEFINE S == {n \in Nat : n <= N => n \in T}
<1>1. 0 \in S
  OBVIOUS
<1>2. ASSUME NEW n \in S PROVE n + 1 \in S
  <2>1. n \in Nat /\ n + 1 \in Nat /\ (n <= N => n \in T)
    BY <1>2
  <2>2. ASSUME n + 1 <= N PROVE n + 1 \in T
    BY <2>1, <2>2
  <2> QED BY <2>1, <2>2
<1>3. S = Nat
  <2> HIDE DEF S
  <2>1. S \in SUBSET Nat
    BY DEF S
  <2> QED BY <1>1, <1>2, <2>1, SetInduction
<1> QED BY <1>3

(* A value for each number up to N, each computed from the one before.     *)
Iterates(f, N, first, step) ==
    /\ DOMAIN f = 0 .. N /\ f[0] = first
    /\ \A k \in 1 .. N : f[k] = step[k][f[k - 1]]

(* There are such values.                                                  *)
LEMMA Iterations ==
    ASSUME NEW N \in Nat, NEW first, NEW step
    PROVE  \E f : Iterates(f, N, first, step)
<1> DEFINE T == {n \in 0 .. N : \E f : Iterates(f, n, first, step)}
<1>1. 0 \in T
  <2>1. Iterates([k \in 0 .. 0 |-> first], 0, first, step)
    BY DEF Iterates
  <2> QED BY <2>1
<1>2. ASSUME NEW n \in 0 .. N - 1, n \in T PROVE n + 1 \in T
  <2>1. PICK f : Iterates(f, n, first, step)
    BY <1>2
  <2>2. PICK x : x = step[n + 1][f[n]]
    OBVIOUS
  <2>3. PICK g : g = [k \in 0 .. n + 1 |-> IF k = n + 1 THEN x ELSE f[k]]
    OBVIOUS
  <2>4. DOMAIN g = 0 .. n + 1 /\ g[0] = first
    BY <2>1, <2>3 DEF Iterates
  <2>5. ASSUME NEW k \in 1 .. n + 1 PROVE g[k] = step[k][g[k - 1]]
    <3>1. g[k - 1] = f[k - 1]
      BY <2>3
    <3>2. CASE k = n + 1
      BY <2>2, <2>3, <3>1, <3>2
    <3>3. CASE k \in 1 .. n
      <4>1. f[k] = step[k][f[k - 1]]
        BY <2>1, <3>3, Zenon DEF Iterates
      <4>2. g[k] = f[k]
        BY <2>3, <3>3
      <4> QED BY <3>1, <4>1, <4>2, Zenon
    <3> QED BY <3>2, <3>3
  <2>6. Iterates(g, n + 1, first, step)
    <3>1. \A k \in 1 .. n + 1 : g[k] = step[k][g[k - 1]]
      BY <2>5, Zenon
    <3> QED BY <2>4, <3>1, Zenon DEF Iterates
  <2> QED BY <2>6
<1>3. \A n \in 0 .. N : n \in T
  <2> HIDE DEF T
  <2> QED BY <1>1, <1>2, BoundedInduction
<1> QED BY <1>3

(* They stay in a set that no step leaves.                                 *)
LEMMA IterationsStay ==
    ASSUME NEW N \in Nat, NEW Z, NEW first \in Z, NEW step,
           \A k \in 1 .. N, z \in Z : step[k][z] \in Z
    PROVE  \E f : Iterates(f, N, first, step) /\ \A k \in 0 .. N : f[k] \in Z
<1>1. PICK f : Iterates(f, N, first, step)
  BY Iterations
<1>2. f[0] = first /\ \A k \in 1 .. N : f[k] = step[k][f[k - 1]]
  BY <1>1, Zenon DEF Iterates
<1> DEFINE T == {k \in 0 .. N : f[k] \in Z}
<1>3. 0 \in T
  BY <1>2
<1>4. ASSUME NEW m \in 0 .. N - 1, m \in T PROVE m + 1 \in T
  <2>1. m + 1 \in 1 .. N /\ m + 1 \in 0 .. N
    OBVIOUS
  <2>2. f[m + 1] = step[m + 1][f[m]] /\ f[m] \in Z
    BY <1>2, <1>4, <2>1
  <2>3. f[m + 1] \in Z
    BY <2>1, <2>2, Zenon
  <2> QED BY <2>1, <2>3
<1>5. \A m \in 0 .. N : m \in T
  <2> HIDE DEF T
  <2> QED BY <1>3, <1>4, BoundedInduction
<1> QED BY <1>1, <1>5

(* The sum of the first lengths, one after the other.                      *)
LEMMA TotalSteps ==
    ASSUME NEW s, NEW n \in Nat, Len(s) = n, \A i \in 1 .. n : s[i] \in Nat
    PROVE  /\ Total(s, 0) = 0
           /\ \A i \in 0 .. n : Total(s, i) \in Nat
           /\ \A i \in 1 .. n : Total(s, i) = Total(s, i - 1) + s[i]
<1> DEFINE Equation(f) == f = [i \in 0 .. n |-> IF i = 0 THEN 0 ELSE f[i - 1] + s[i]]
           f == CHOOSE f : Equation(f)
<1>1. \A i : Total(s, i) = f[i]
  BY DEF Total
<1>2. \E g : Equation(g) /\ \A k \in 0 .. n : g[k] \in Nat
  <2>1. PICK step : step = [k \in 1 .. n |-> [a \in Nat |-> a + s[k]]]
    OBVIOUS
  <2>2. \A k \in 1 .. n, a \in Nat : step[k][a] = a + s[k] /\ step[k][a] \in Nat
    BY <2>1
  <2>3. PICK h : Iterates(h, n, 0, step) /\ \A k \in 0 .. n : h[k] \in Nat
    BY <2>2, IterationsStay
  <2>4. DOMAIN h = 0 .. n /\ h[0] = 0 /\ \A k \in 1 .. n : h[k] = step[k][h[k - 1]]
    BY <2>3, Zenon DEF Iterates
  <2>5. ASSUME NEW k \in 1 .. n PROVE h[k] = h[k - 1] + s[k]
    <3>1. k - 1 \in 0 .. n
      OBVIOUS
    <3> QED BY <2>2, <2>3, <2>4, <3>1
  <2>6. PICK g : g = [i \in 0 .. n |-> h[i]]
    OBVIOUS
  <2>7. Equation(g)
    <3>1. ASSUME NEW i \in 0 .. n PROVE g[i] = IF i = 0 THEN 0 ELSE g[i - 1] + s[i]
      BY <2>4, <2>5, <2>6
    <3>2. g = [i \in 0 .. n |-> g[i]]
      BY <2>6
    <3> QED BY <3>1, <3>2
  <2> HIDE DEF Equation
  <2> QED BY <2>3, <2>6, <2>7
<1>3. Equation(f)
  <2> HIDE DEF Equation
  <2> QED BY <1>2
<1>4. f[0] = 0 /\ \A i \in 1 .. n : f[i] = f[i - 1] + s[i]
  <2> HIDE DEF f
  <2> QED BY <1>3
<1>5. \A i \in 0 .. n : f[i] \in Nat
  <2> HIDE DEF f, Equation
  <2> DEFINE T == {k \in 0 .. n : f[k] \in Nat}
  <2>1. 0 \in T
    BY <1>4
  <2>2. ASSUME NEW m \in 0 .. n - 1, m \in T PROVE m + 1 \in T
    <3>1. m + 1 \in 1 .. n /\ m + 1 \in 0 .. n /\ (m + 1) - 1 = m
      OBVIOUS
    <3>2. f[m + 1] = f[m] + s[m + 1] /\ f[m] \in Nat /\ s[m + 1] \in Nat
      BY <1>4, <2>2, <3>1
    <3> QED BY <3>1, <3>2
  <2>3. \A m \in 0 .. n : m \in T
    <3> HIDE DEF T
    <3> QED BY <2>1, <2>2, BoundedInduction
  <2> QED BY <2>3
<1> HIDE DEF f, Equation
<1> QED BY <1>1, <1>4, <1>5, Zenon

(* The sum of more of them is not smaller.                                 *)
LEMMA TotalGrows ==
    ASSUME NEW s, NEW n \in Nat, Len(s) = n, \A i \in 1 .. n : s[i] \in Nat,
           NEW i \in 0 .. n, NEW j \in 0 .. n, i <= j
    PROVE  Total(s, i) <= Total(s, j)
<1>1. /\ \A k \in 0 .. n : Total(s, k) \in Nat
      /\ \A k \in 1 .. n : Total(s, k) = Total(s, k - 1) + s[k]
  BY TotalSteps
<1> DEFINE T == {k \in 0 .. n : i <= k => Total(s, i) <= Total(s, k)}
<1>2. 0 \in T
  BY <1>1
<1>3. ASSUME NEW m \in 0 .. n - 1, m \in T PROVE m + 1 \in T
  <2>1. m + 1 \in 1 .. n /\ m + 1 \in 0 .. n /\ (m + 1) - 1 = m /\ m \in 0 .. n
    OBVIOUS
  <2>2. /\ Total(s, m + 1) = Total(s, m) + s[m + 1] /\ s[m + 1] \in Nat
        /\ Total(s, m) \in Nat /\ Total(s, i) \in Nat
    BY <1>1, <2>1
  <2>3. CASE i <= m
    BY <1>3, <2>1, <2>2, <2>3
  <2>4. CASE i = m + 1
    BY <2>1, <2>2, <2>4
  <2> QED BY <2>1, <2>3, <2>4
<1>4. \A m \in 0 .. n : m \in T
  <2> HIDE DEF T
  <2> QED BY <1>2, <1>3, BoundedInduction
<1> QED BY <1>4

(* The column chunks of a row group, one after the other.                  *)
LEMMA ChunksOfGroup ==
    ASSUME NEW group \in Seq([dictionary : Nat, data : Nat \ {0}])
    PROVE  /\ GroupLength(group) \in Nat
           /\ \A c \in DOMAIN group :
                 /\ ChunkLength(group[c]) \in Nat \ {0}
                 /\ Total(ChunkLengths(group), c - 1) \in Nat
                 /\ Total(ChunkLengths(group), c - 1) + ChunkLength(group[c]) <= GroupLength(group)
<1>1. PICK n \in Nat : n = Len(group) /\ DOMAIN group = 1 .. n
  BY LenProperties
<1>2. ASSUME NEW c \in 1 .. n PROVE ChunkLength(group[c]) \in Nat \ {0}
  <2>1. group[c] \in [dictionary : Nat, data : Nat \ {0}]
    BY <1>1, ElementOfSeq
  <2> QED BY <2>1 DEF ChunkLength
<1>3. PICK s : s = ChunkLengths(group)
  OBVIOUS
<1>4. s = [c \in 1 .. n |-> ChunkLength(group[c])]
  BY <1>1, <1>3 DEF ChunkLengths
<1>5. Len(s) = n /\ \A c \in 1 .. n : s[c] = ChunkLength(group[c]) /\ s[c] \in Nat
  BY <1>2, <1>4
<1>6. /\ \A i \in 0 .. n : Total(s, i) \in Nat
      /\ \A i \in 1 .. n : Total(s, i) = Total(s, i - 1) + s[i]
  BY <1>5, TotalSteps
<1>7. GroupLength(group) = Total(s, n)
  BY <1>1, <1>3 DEF GroupLength
<1>8. ASSUME NEW c \in 1 .. n
      PROVE  Total(s, c - 1) \in Nat /\ Total(s, c - 1) + s[c] <= Total(s, n)
  <2>1. c \in 0 .. n /\ n \in 0 .. n /\ c <= n /\ c - 1 \in 0 .. n
    OBVIOUS
  <2>2. Total(s, c) <= Total(s, n)
    BY <1>5, <2>1, TotalGrows
  <2>3. Total(s, c) = Total(s, c - 1) + s[c] /\ Total(s, c - 1) \in Nat
    BY <1>6, <2>1
  <2> QED BY <2>2, <2>3
<1> QED BY <1>1, <1>2, <1>3, <1>5, <1>6, <1>7, <1>8

(* The row groups of a file lie one behind the other before the footer,    *)
(* and their column chunks in them.                                        *)
IsLaidOut(file) ==
    /\ \A g \in DOMAIN file.groups :
          /\ GroupStart(file, g) \in Nat /\ GroupLength(file.groups[g]) \in Nat
          /\ GroupStart(file, g) + GroupLength(file.groups[g]) <= FileSize(file)
          /\ \A h \in DOMAIN file.groups :
                g < h => GroupStart(file, g) + GroupLength(file.groups[g]) <= GroupStart(file, h)
          /\ \A c \in DOMAIN file.groups[1] :
                /\ ChunkStart(file, g, c) \in Nat
                /\ ChunkLength(file.groups[g][c]) \in Nat \ {0}
                /\ GroupStart(file, g) <= ChunkStart(file, g, c)
                /\ ChunkStart(file, g, c) + ChunkLength(file.groups[g][c])
                     <= GroupStart(file, g) + GroupLength(file.groups[g])
    /\ FileSize(file) \in Nat \ {0}
    /\ FooterRange(file) \in Nat \X Nat /\ FooterRange(file)[1] < FileSize(file)
    /\ FooterRange(file)[2] = FileSize(file)

(* A Parquet file is laid out like that.                                   *)
LEMMA ParquetIsLaidOut ==
    ASSUME NEW file, NEW rowGroups, NEW columns, IsParquet(file, rowGroups, columns)
    PROVE  IsLaidOut(file)
<1>0. PICK Column : Column = [dictionary : Nat, data : Nat \ {0}]
  OBVIOUS
<1>1. PICK groups \in Seq(Seq(Column)) : groups = file.groups
  BY <1>0 DEF IsParquet
<1>2. PICK n \in Nat : n = Len(groups) /\ DOMAIN groups = 1 .. n
  BY LenProperties
<1>3. ASSUME NEW g \in 1 .. n PROVE groups[g] \in Seq(Column)
  BY <1>2, ElementOfSeq
<1>4. \A g \in 1 .. n : DOMAIN groups[g] = DOMAIN groups[1]
  <2>1. ASSUME NEW g \in 1 .. n PROVE DOMAIN groups[g] = DOMAIN groups[1]
    <3>1. Len(groups[g]) = Len(groups[1])
      BY <1>1, <1>2 DEF IsParquet
    <3>2. 1 \in 1 .. n
      OBVIOUS
    <3>3. /\ DOMAIN groups[g] = 1 .. Len(groups[g])
          /\ DOMAIN groups[1] = 1 .. Len(groups[1])
      BY <1>3, <3>2, LenProperties
    <3> QED BY <3>1, <3>3
  <2> QED BY <2>1
<1>5. ASSUME NEW g \in 1 .. n
      PROVE  /\ GroupLength(groups[g]) \in Nat
             /\ \A c \in DOMAIN groups[1] :
                   /\ ChunkLength(groups[g][c]) \in Nat \ {0}
                   /\ Total(ChunkLengths(groups[g]), c - 1) \in Nat
                   /\ Total(ChunkLengths(groups[g]), c - 1) + ChunkLength(groups[g][c])
                        <= GroupLength(groups[g])
  <2>1. PICK group \in Seq(Column) : group = groups[g]
    BY <1>3
  <2>2. DOMAIN group = DOMAIN groups[1]
    BY <1>4, <2>1
  <2> QED BY <1>0, <2>1, <2>2, ChunksOfGroup
<1>6. PICK s : s = GroupLengths(file)
  OBVIOUS
<1>7. s = [g \in 1 .. n |-> GroupLength(groups[g])]
  BY <1>1, <1>2, <1>6 DEF GroupLengths
<1>8. Len(s) = n /\ \A g \in 1 .. n : s[g] = GroupLength(groups[g]) /\ s[g] \in Nat
  BY <1>5, <1>7
<1>9. /\ \A i \in 0 .. n : Total(s, i) \in Nat
      /\ \A i \in 1 .. n : Total(s, i) = Total(s, i - 1) + s[i]
  BY <1>8, TotalSteps
<1>10. \A g \in 1 .. n + 1 : GroupStart(file, g) = 1 + Total(s, g - 1)
  BY <1>6 DEF GroupStart
<1>11. \A i \in 0 .. n, j \in 0 .. n : i <= j => Total(s, i) <= Total(s, j)
  BY <1>8, TotalGrows
<1>12. PICK total \in Nat : total = Total(s, n)
  BY <1>9
<1>13. PICK metadata \in Nat, offset \in Nat \ {0}, guess \in Nat :
          /\ metadata = file.metadata /\ offset = kParquetFooterMetadataOffsetBytes
          /\ guess = kParquetFooterSizeBytes /\ guess >= offset
  BY FormatsAssumption DEF IsParquet
<1>14. PICK size \in Nat \ {0} : size = FileSize(file) /\ size = 1 + total + metadata + offset
  <2>1. FooterStart(file) = 1 + total
    <3>1. n + 1 \in 1 .. n + 1 /\ (n + 1) - 1 = n
      OBVIOUS
    <3> QED BY <1>1, <1>2, <1>10, <1>12, <3>1 DEF FooterStart
  <2> QED BY <1>13, <2>1 DEF FileSize
<1>15. ASSUME NEW g \in 1 .. n
       PROVE  /\ GroupStart(file, g) \in Nat /\ GroupLength(groups[g]) \in Nat
              /\ GroupStart(file, g) + GroupLength(groups[g]) = 1 + Total(s, g)
              /\ GroupStart(file, g) + GroupLength(groups[g]) <= size
  <2>1. g \in 0 .. n /\ g - 1 \in 0 .. n /\ n \in 0 .. n /\ g <= n /\ g \in 1 .. n + 1
    OBVIOUS
  <2>2. Total(s, g) <= total /\ Total(s, g) \in Nat /\ Total(s, g - 1) \in Nat
        /\ Total(s, g) = Total(s, g - 1) + s[g]
    BY <1>9, <1>11, <1>12, <2>1
  <2>3. GroupStart(file, g) = 1 + Total(s, g - 1) /\ s[g] = GroupLength(groups[g]) /\ s[g] \in Nat
    BY <1>8, <1>10, <2>1
  <2> QED BY <1>14, <2>2, <2>3
<1>16. ASSUME NEW g \in 1 .. n, NEW h \in 1 .. n, g < h
       PROVE  GroupStart(file, g) + GroupLength(groups[g]) <= GroupStart(file, h)
  <2>1. g \in 0 .. n /\ h - 1 \in 0 .. n /\ g <= h - 1 /\ h \in 1 .. n + 1
    BY <1>16
  <2>2. Total(s, g) <= Total(s, h - 1) /\ Total(s, g) \in Nat /\ Total(s, h - 1) \in Nat
    BY <1>9, <1>11, <2>1
  <2>3. GroupStart(file, h) = 1 + Total(s, h - 1)
    BY <1>10, <2>1
  <2> QED BY <1>15, <2>2, <2>3
<1>17. ASSUME NEW g \in 1 .. n, NEW c \in DOMAIN groups[1]
       PROVE  /\ ChunkStart(file, g, c) \in Nat
              /\ ChunkLength(groups[g][c]) \in Nat \ {0}
              /\ GroupStart(file, g) <= ChunkStart(file, g, c)
              /\ ChunkStart(file, g, c) + ChunkLength(groups[g][c])
                   <= GroupStart(file, g) + GroupLength(groups[g])
  <2>1. PICK start \in Nat, length \in Nat : start = GroupStart(file, g) /\ length = GroupLength(groups[g])
    BY <1>15
  <2>2. PICK before \in Nat, own \in Nat \ {0} :
           /\ before = Total(ChunkLengths(groups[g]), c - 1) /\ own = ChunkLength(groups[g][c])
           /\ before + own <= length
    BY <1>5, <2>1
  <2>3. ChunkStart(file, g, c) = start + before
    BY <1>1, <2>1, <2>2 DEF ChunkStart
  <2>4. start + before \in Nat /\ start <= start + before /\ (start + before) + own <= start + length
    <3>1. before + own <= length
      BY <2>2, Zenon
    <3>2. own \in Nat
      BY SMT
    <3> QED BY <3>1, <3>2
  <2> QED BY <2>1, <2>2, <2>3, <2>4, Zenon
<1>18. FooterRange(file) \in Nat \X Nat /\ FooterRange(file)[1] < size /\ FooterRange(file)[2] = size
  <2>1. PICK first \in Nat \ {0} : first = Smaller(size, guess) /\ first <= size
    BY <1>13, <1>14 DEF Smaller
  <2>2. PICK foot \in Nat \ {0} :
           /\ foot = IF metadata > first - offset THEN metadata + offset ELSE first
           /\ foot <= size
    <3>1. metadata + offset \in Nat \ {0} /\ metadata + offset <= size
      BY <1>14
    <3>2. CASE metadata > first - offset
      BY <3>1, <3>2
    <3>3. CASE ~(metadata > first - offset)
      BY <2>1, <3>3
    <3> QED BY <3>2, <3>3
  <2>3. FooterRange(file) = <<size - foot, size>>
    BY <1>13, <1>14, <2>1, <2>2 DEF FooterRange
  <2> QED BY <2>2, <2>3
<1> QED BY <1>1, <1>2, <1>14, <1>15, <1>16, <1>17, <1>18 DEF IsLaidOut

(* Division with a remainder.                                              *)
LEMMA DivisionFacts ==
    ASSUME NEW m \in Nat, NEW d \in Nat \ {0}
    PROVE  m \div d \in Nat /\ \E r \in 0 .. d - 1 : r = m % d /\ m = d * (m \div d) + r
<1>1. PICK r : r = m % d
  OBVIOUS
<1>2. m \div d \in Int /\ r \in 0 .. d - 1 /\ m = d * (m \div d) + r
  BY <1>1, Z3
<1>3. PICK q \in Int : q = m \div d
  BY <1>2
<1>4. q >= 0
  <2>1. CASE q <= -1
    <3>1. d * q <= -d /\ d * q \in Int
      BY <2>1, Z3
    <3> QED BY <1>2, <1>3, <3>1
  <2> QED BY <2>1
<1> QED BY <1>1, <1>2, <1>3, <1>4

(* A product grows with its factor.                                        *)
LEMMA ProductGrows ==
    ASSUME NEW q \in Nat, NEW n \in Nat, NEW d \in Nat, q <= n
    PROVE  d * q \in Nat /\ d * q <= d * n
<1>1. PICK k \in Nat : n = q + k
  <2>1. n - q \in Nat /\ n = q + (n - q)
    OBVIOUS
  <2> QED BY <2>1
<1>2. d * n = d * q + d * k /\ d * k \in Nat /\ d * q \in Nat
  BY <1>1, Z3
<1> QED BY <1>2

(* The pieces of d bytes that m bytes are divided into: the one byte p is  *)
(* in is one of them.                                                      *)
LEMMA PieceOfByte ==
    ASSUME NEW m \in Nat, NEW d \in Nat \ {0}, NEW p \in 0 .. m - 1
    PROVE  /\ (m + d - 1) \div d \in Nat
           /\ p \div d + 1 \in 1 .. (m + d - 1) \div d
           /\ (p \div d) * d <= p /\ p < (p \div d + 1) * d
           /\ (p \div d) * d \in Nat /\ (p \div d + 1) * d \in Nat
<1>1. PICK q \in Nat, r \in 0 .. d - 1 : q = p \div d /\ p = d * q + r
  BY DivisionFacts
<1>2. m + d - 1 \in Nat
  OBVIOUS
<1>3. PICK n \in Nat, s \in 0 .. d - 1 : n = (m + d - 1) \div d /\ m + d - 1 = d * n + s
  BY <1>2, DivisionFacts
<1>4. d * q \in Nat /\ d * n \in Nat
  BY Z3
<1>5. d * q < d * n
  BY <1>1, <1>3, <1>4
<1>6. q < n
  <2>1. CASE n <= q
    <3>1. d * n <= d * q
      BY <2>1, ProductGrows
    <3> QED BY <1>4, <1>5, <3>1
  <2> QED BY <2>1
<1>7. q * d = d * q /\ (q + 1) * d = d * q + d
  BY Z3
<1>8. q * d <= p /\ p < (q + 1) * d /\ q * d \in Nat /\ (q + 1) * d \in Nat
  BY <1>1, <1>4, <1>7
<1>9. q + 1 \in 1 .. n
  BY <1>6
<1> QED BY <1>1, <1>3, <1>8, <1>9

(* Byte p is in a range that the next one does not cut before it.          *)
HoldsUncut(ranges, p) ==
    \E m \in 1 .. Len(ranges) :
        /\ ranges[m][1] <= p /\ p < ranges[m][2]
        /\ m < Len(ranges) => p < ranges[m + 1][1]

(* R keeps the ranges there are, and has others for every byte from a to b.*)
Lengthens(R, ranges, a, b) ==
    /\ R \in Seq(Nat \X Nat) /\ Len(R) \in Nat /\ Len(ranges) \in Nat
    /\ Len(ranges) <= Len(R)
    /\ \A i \in 1 .. Len(ranges) : R[i] = ranges[i]
    /\ \A i \in Len(ranges) + 1 .. Len(R) : R[i][2] <= b
    /\ Len(ranges) < Len(R) => R[Len(ranges) + 1][1] = a
    /\ \A p \in a .. b - 1 : HoldsUncut(R, p)

(* That is what AddRangesSafe does.                                        *)
LEMMA AddRangesSafeFacts ==
    ASSUME NEW ranges \in Seq(Nat \X Nat), NEW a \in Nat, NEW b \in Nat, a <= b
    PROVE  Lengthens(AddRangesSafe(a, b, ranges), ranges, a, b)
<1>0. PICK R : R = AddRangesSafe(a, b, ranges)
  OBVIOUS
<1>1. PICK d \in Nat \ {0} : d = kS3ReadRequestSizeBytes
  BY FormatsAssumption
<1>2. PICK l \in Nat : l = Len(ranges)
  BY LenProperties
<1>3. PICK n \in Nat : n = ((b - a) + d - 1) \div d
  <2>1. (b - a) + d - 1 \in Nat
    OBVIOUS
  <2> QED BY <2>1, DivisionFacts
<1>4. PICK At : At = [i \in Nat |-> a + i * d]
  OBVIOUS
<1>5. \A i \in Nat : At[i] = a + i * d /\ At[i] \in Nat
  <2>1. \A i \in Nat : i * d \in Nat
    BY Z3
  <2>2. ASSUME NEW i \in Nat PROVE At[i] = a + i * d /\ At[i] \in Nat
    <3>1. PICK j \in Nat : j = i * d
      BY <2>1
    <3>2. At[i] = a + j
      BY <1>4, <3>1
    <3>3. a + j \in Nat
      OBVIOUS
    <3> QED BY <3>1, <3>2, <3>3, Zenon
  <2> QED BY <2>2
<1>6. PICK new : new = [i \in 1 .. n |-> <<At[i - 1], Smaller(At[i], b)>>]
  OBVIOUS
<1>7. ASSUME NEW i \in 1 .. n
      PROVE  /\ new[i] = <<At[i - 1], Smaller(At[i], b)>> /\ new[i] \in Nat \X Nat
             /\ Smaller(At[i], b) \in Nat /\ Smaller(At[i], b) <= b
  <2>1. i - 1 \in Nat /\ i \in Nat
    OBVIOUS
  <2>2. At[i - 1] \in Nat /\ At[i] \in Nat
    BY <1>5, <2>1
  <2> QED BY <1>6, <2>2 DEF Smaller
<1>8. new \in Seq(Nat \X Nat) /\ Len(new) = n
  <2>1. \A i \in 1 .. n : new[i] \in Nat \X Nat
    BY <1>7
  <2> QED BY <1>6, <2>1
<1>9. R = ranges \o new
  <2>1. \A i \in 1 .. n : a + (i - 1) * d = At[i - 1] /\ a + i * d = At[i]
    <3>1. \A i \in 1 .. n : i \in Nat /\ i - 1 \in Nat
      OBVIOUS
    <3> QED BY <1>5, <3>1
  <2>2. (b - a + d - 1) \div d = n
    BY <1>3
  <2>3. new = [i \in 1 .. n |-> <<a + (i - 1) * d, Smaller(a + i * d, b)>>]
    BY <1>6, <2>1
  <2>4. AddRangesSafe(a, b, ranges) =
          ranges \o [i \in 1 .. (b - a + d - 1) \div d |-> <<a + (i - 1) * d, Smaller(a + i * d, b)>>]
    BY <1>1, Zenon DEF AddRangesSafe
  <2> QED BY <1>0, <2>2, <2>3, <2>4, Zenon
<1>10. /\ R \in Seq(Nat \X Nat) /\ Len(R) = l + n
       /\ \A i \in 1 .. l : R[i] = ranges[i]
       /\ \A i \in 1 .. n : R[l + i] = new[i]
  <2>1. R \in Seq(Nat \X Nat) /\ Len(R) = l + n
        /\ \A i \in 1 .. l + n : R[i] = IF i <= l THEN ranges[i] ELSE new[i - l]
    <3>1. PICK T : T = Nat \X Nat
      OBVIOUS
    <3>2. ranges \in Seq(T) /\ new \in Seq(T)
      BY <1>8, <3>1
    <3>3. /\ ranges \o new \in Seq(T) /\ Len(ranges \o new) = Len(ranges) + Len(new)
          /\ \A i \in 1 .. Len(ranges) + Len(new) :
                (ranges \o new)[i] = IF i <= Len(ranges) THEN ranges[i] ELSE new[i - Len(ranges)]
      BY <3>2, ConcatProperties
    <3> QED BY <1>2, <1>8, <1>9, <3>1, <3>3, Zenon
  <2>2. \A i \in 1 .. l : i \in 1 .. l + n /\ i <= l
    OBVIOUS
  <2>3. \A i \in 1 .. n : l + i \in 1 .. l + n /\ ~(l + i <= l) /\ (l + i) - l = i
    OBVIOUS
  <2> QED BY <2>1, <2>2, <2>3
<1>11. ASSUME NEW i \in l + 1 .. l + n PROVE R[i][2] <= b
  <2>1. i - l \in 1 .. n /\ l + (i - l) = i
    OBVIOUS
  <2>2. R[i] = new[i - l]
    BY <1>10, <2>1
  <2> QED BY <1>7, <2>1, <2>2
<1>12. l < l + n => R[l + 1][1] = a
  <2>1. ASSUME l < l + n PROVE R[l + 1][1] = a
    <3>1. 1 \in 1 .. n /\ 0 \in Nat /\ 1 - 1 = 0 /\ 0 * d = 0
      BY <2>1
    <3>2. R[l + 1] = new[1] /\ new[1] = <<At[0], Smaller(At[1], b)>> /\ At[0] = a + 0 * d
      BY <1>5, <1>7, <1>10, <3>1
    <3> QED BY <3>1, <3>2
  <2> QED BY <2>1
<1>13. ASSUME NEW p \in a .. b - 1 PROVE HoldsUncut(R, p)
  <2>1. p - a \in 0 .. (b - a) - 1 /\ b - a \in Nat /\ p \in Nat
    OBVIOUS
  <2>2. PICK q : q = (p - a) \div d
    OBVIOUS
  <2>3. /\ q + 1 \in 1 .. n /\ q * d <= p - a /\ p - a < (q + 1) * d
        /\ q * d \in Nat /\ (q + 1) * d \in Nat
    BY <1>3, <2>1, <2>2, PieceOfByte
  <2>4. q \in Nat /\ q + 1 \in Nat
    <3>1. PICK t \in Nat : t = p - a
      BY <2>1
    <3>2. t \div d \in Nat
      BY DivisionFacts
    <3>3. q \in Nat
      BY <2>2, <3>1, <3>2, Zenon
    <3> QED BY <3>3
  <2>5. At[q] <= p /\ p < At[q + 1] /\ At[q] \in Nat /\ At[q + 1] \in Nat
    BY <1>5, <2>1, <2>3, <2>4
  <2>6. R[l + (q + 1)] = <<At[q], Smaller(At[q + 1], b)>>
    <3>1. (q + 1) - 1 = q
      BY <2>4
    <3> QED BY <1>7, <1>10, <2>3, <3>1
  <2>7. p < Smaller(At[q + 1], b)
    BY <2>5 DEF Smaller
  <2>8. l + (q + 1) < l + n => p < R[(l + (q + 1)) + 1][1]
    <3>1. ASSUME l + (q + 1) < l + n PROVE p < R[(l + (q + 1)) + 1][1]
      <4>1. q + 2 \in 1 .. n /\ (l + (q + 1)) + 1 = l + (q + 2) /\ (q + 2) - 1 = q + 1
        BY <2>4, <3>1
      <4>2. R[l + (q + 2)] = <<At[q + 1], Smaller(At[q + 2], b)>>
        BY <1>7, <1>10, <4>1
      <4> QED BY <2>5, <4>1, <4>2
    <3> QED BY <3>1
  <2>9. l + (q + 1) \in 1 .. l + n
    BY <2>3, <2>4
  <2>10. R[l + (q + 1)][1] <= p /\ p < R[l + (q + 1)][2]
    BY <2>5, <2>6, <2>7
  <2> QED BY <1>10, <2>8, <2>9, <2>10 DEF HoldsUncut
<1>14. Lengthens(R, ranges, a, b)
  BY <1>2, <1>10, <1>11, <1>12, <1>13 DEF Lengthens
<1> QED BY <1>0, <1>14, Zenon

(* Ranges of a file of that size, none of which is empty; and a byte in    *)
(* one of them.                                                            *)
RangesWithin(ranges, size) ==
    \A r \in ranges : r \in Nat \X Nat /\ r[1] < r[2] /\ r[2] <= size
HasByte(ranges, p) == \E r \in ranges : r[1] <= p /\ p < r[2]

(* RemoveOverlaps keeps a byte of a range that is not cut before it.       *)
LEMMA RemoveOverlapsFacts ==
    ASSUME NEW R \in Seq(Nat \X Nat), NEW size \in Nat,
           \A m \in 1 .. Len(R) : R[m][2] <= size
    PROVE  /\ RangesWithin(RemoveOverlaps(R), size)
           /\ \A p \in Nat : HoldsUncut(R, p) => HasByte(RemoveOverlaps(R), p)
<1>1. PICK l \in Nat : l = Len(R) /\ DOMAIN R = 1 .. l
  BY LenProperties
<1>2. \A m \in 1 .. l : R[m] \in Nat \X Nat
  <2>1. ASSUME NEW m \in 1 .. l PROVE R[m] \in Nat \X Nat
    <3>1. PICK T : T = Nat \X Nat
      OBVIOUS
    <3>2. R \in Seq(T)
      BY <3>1
    <3>3. R[m] \in T
      BY <1>1, <3>2, ElementOfSeq
    <3> QED BY <3>1, <3>3
  <2> QED BY <2>1
<1>3. PICK cut : cut = [i \in 1 .. l |-> IF i < l /\ R[i][2] > R[i + 1][1]
                                        THEN <<R[i][1], R[i + 1][1]>> ELSE R[i]]
  OBVIOUS
<1>4. RemoveOverlaps(R) = {cut[i] : i \in {j \in 1 .. l : cut[j][1] < cut[j][2]}}
  <2>1. DOMAIN cut = 1 .. l
    BY <1>3
  <2> QED BY <1>1, <1>3, <2>1 DEF RemoveOverlaps
<1>5. ASSUME NEW i \in 1 .. l
      PROVE  /\ cut[i] \in Nat \X Nat /\ cut[i][1] = R[i][1] /\ cut[i][2] <= size
             /\ (i < l /\ R[i][2] > R[i + 1][1]) => cut[i][2] = R[i + 1][1]
             /\ ~(i < l /\ R[i][2] > R[i + 1][1]) => cut[i][2] = R[i][2]
  <2>1. R[i] \in Nat \X Nat /\ R[i][2] <= size
    BY <1>1, <1>2
  <2>2. CASE i < l /\ R[i][2] > R[i + 1][1]
    <3>1. i + 1 \in 1 .. l
      BY <2>2
    <3>2. R[i + 1] \in Nat \X Nat
      BY <1>2, <3>1
    <3>3. cut[i] = <<R[i][1], R[i + 1][1]>>
      BY <1>3, <2>2
    <3>4. R[i][1] \in Nat /\ R[i][2] \in Nat /\ R[i + 1][1] \in Nat
      BY <2>1, <3>2
    <3>5. cut[i] \in Nat \X Nat /\ cut[i][1] = R[i][1] /\ cut[i][2] = R[i + 1][1]
      BY <3>3, <3>4
    <3>6. R[i + 1][1] <= size
      <4>1. PICK m \in Nat, n \in Nat : m = R[i][2] /\ n = R[i + 1][1]
        BY <3>4, Zenon
      <4>2. m <= size /\ m > n
        BY <2>1, <2>2, <4>1, Zenon
      <4>3. n <= size
        BY <4>2
      <4> QED BY <4>1, <4>3, Zenon
    <3> QED BY <2>2, <3>5, <3>6, Zenon
  <2>3. CASE ~(i < l /\ R[i][2] > R[i + 1][1])
    <3>1. cut[i] = R[i]
      BY <1>3, <2>3
    <3> QED BY <2>1, <2>3, <3>1
  <2> QED BY <2>2, <2>3
<1>6. RangesWithin(RemoveOverlaps(R), size)
  BY <1>4, <1>5 DEF RangesWithin
<1>7. ASSUME NEW p \in Nat, HoldsUncut(R, p) PROVE HasByte(RemoveOverlaps(R), p)
  <2>1. PICK m \in 1 .. l : /\ R[m][1] <= p /\ p < R[m][2]
                            /\ m < l => p < R[m + 1][1]
    BY <1>1, <1>7 DEF HoldsUncut
  <2>2. cut[m][1] <= p /\ p < cut[m][2] /\ cut[m] \in Nat \X Nat
    BY <1>5, <2>1
  <2>3. cut[m] \in RemoveOverlaps(R)
    BY <1>4, <2>2
  <2> QED BY <2>2, <2>3 DEF HasByte
<1> QED BY <1>6, <1>7

(* The ranges of the row groups end at end.                                *)
GroupsEnd(file, rowGroups, n, end) ==
    \A k \in 1 .. n :
        /\ GroupStart(file, rowGroups[k]) \in Nat
        /\ end[k] \in Nat /\ GroupStart(file, rowGroups[k]) <= end[k]
        /\ end[k] = Smaller(GroupStart(file, rowGroups[k]) + kPadding
                              + GroupLength(file.groups[rowGroups[k]]), FileSize(file))

(* The ranges after each of the row groups.                                *)
AddsGroups(f, file, rowGroups, n, end) ==
    /\ f[n] = GroupRanges(file, rowGroups)
    /\ f[0] = <<>> /\ \A k \in 0 .. n : f[k] \in Seq(Nat \X Nat)
    /\ \A k \in 1 .. n : f[k] = AddRangesSafe(GroupStart(file, rowGroups[k]), end[k], f[k - 1])

(* There are such ranges.                                                  *)
LEMMA GroupRangesSteps ==
    ASSUME NEW file, NEW rowGroups, NEW n \in Nat, n = Len(rowGroups), NEW end,
           GroupsEnd(file, rowGroups, n, end)
    PROVE  \E f : AddsGroups(f, file, rowGroups, n, end)
<1>0. \A k \in 1 .. n :
         /\ GroupStart(file, rowGroups[k]) \in Nat
         /\ end[k] \in Nat /\ GroupStart(file, rowGroups[k]) <= end[k]
         /\ end[k] = Smaller(GroupStart(file, rowGroups[k]) + kPadding
                               + GroupLength(file.groups[rowGroups[k]]), FileSize(file))
  BY Zenon DEF GroupsEnd
<1> DEFINE last(g) == Smaller(GroupStart(file, g) + kPadding + GroupLength(file.groups[g]), FileSize(file))
           Equation(f) == f = [i \in 0 .. n |->
               IF i = 0 THEN <<>>
               ELSE AddRangesSafe(GroupStart(file, rowGroups[i]), last(rowGroups[i]), f[i - 1])]
           f == CHOOSE f : Equation(f)
<1>1. GroupRanges(file, rowGroups) = f[n]
  BY Zenon DEF GroupRanges
<1>2. \A k \in 1 .. n : last(rowGroups[k]) = end[k]
  BY <1>0
<1>3. PICK Z : Z = Seq(Nat \X Nat)
  OBVIOUS
<1> HIDE DEF last
<1>4. \E g : Equation(g)
  <2>1. PICK step : step = [k \in 1 .. n |->
                              [z \in Z |-> AddRangesSafe(GroupStart(file, rowGroups[k]), end[k], z)]]
    OBVIOUS
  <2>2. ASSUME NEW k \in 1 .. n, NEW z \in Z
        PROVE  /\ step[k][z] = AddRangesSafe(GroupStart(file, rowGroups[k]), end[k], z)
               /\ step[k][z] \in Z
    <3>1. step[k][z] = AddRangesSafe(GroupStart(file, rowGroups[k]), end[k], z)
      BY <2>1
    <3>2. PICK a \in Nat, b \in Nat : a = GroupStart(file, rowGroups[k]) /\ b = end[k] /\ a <= b
      BY <1>0
    <3>3. AddRangesSafe(a, b, z) \in Seq(Nat \X Nat)
      BY <1>3, <3>2, AddRangesSafeFacts, Zenon DEF Lengthens
    <3> QED BY <1>3, <3>1, <3>2, <3>3, Zenon
  <2>3. <<>> \in Z
    BY <1>3
  <2>4. PICK h : Iterates(h, n, <<>>, step) /\ \A k \in 0 .. n : h[k] \in Z
    BY <2>2, <2>3, IterationsStay
  <2>5. DOMAIN h = 0 .. n /\ h[0] = <<>> /\ \A k \in 1 .. n : h[k] = step[k][h[k - 1]]
    BY <2>4, Zenon DEF Iterates
  <2>6. ASSUME NEW k \in 1 .. n
        PROVE  h[k] = AddRangesSafe(GroupStart(file, rowGroups[k]), last(rowGroups[k]), h[k - 1])
    <3>1. k - 1 \in 0 .. n
      OBVIOUS
    <3>2. PICK z \in Z : z = h[k - 1]
      BY <2>4, <3>1
    <3>3. step[k][z] = AddRangesSafe(GroupStart(file, rowGroups[k]), end[k], z)
      BY <2>2, Zenon
    <3>4. h[k] = step[k][h[k - 1]] /\ last(rowGroups[k]) = end[k]
      BY <1>2, <2>5, Zenon
    <3> QED BY <3>2, <3>3, <3>4, Zenon
  <2>7. PICK g : g = [i \in 0 .. n |-> h[i]]
    OBVIOUS
  <2>8. Equation(g)
    <3>1. ASSUME NEW i \in 0 .. n
          PROVE  g[i] = IF i = 0 THEN <<>>
                        ELSE AddRangesSafe(GroupStart(file, rowGroups[i]), last(rowGroups[i]), g[i - 1])
      <4>1. CASE i = 0
        BY <2>5, <2>7, <4>1
      <4>2. CASE i # 0
        <5>1. i \in 1 .. n /\ i - 1 \in 0 .. n
          BY <4>2
        <5>2. g[i] = h[i] /\ g[i - 1] = h[i - 1]
          BY <2>7, <5>1
        <5> QED BY <2>6, <4>2, <5>1, <5>2, Zenon
      <4> QED BY <4>1, <4>2
    <3>2. g = [i \in 0 .. n |-> g[i]]
      BY <2>7
    <3> QED BY <3>1, <3>2, Zenon
  <2> HIDE DEF Equation
  <2> QED BY <2>8
<1>5. Equation(f)
  <2> HIDE DEF Equation
  <2> QED BY <1>4
<1>6. /\ f[0] = <<>>
      /\ \A k \in 1 .. n : f[k] = AddRangesSafe(GroupStart(file, rowGroups[k]), end[k], f[k - 1])
  <2> HIDE DEF f
  <2>1. \A k \in 1 .. n : k \in 0 .. n /\ k # 0
    OBVIOUS
  <2>2. 0 \in 0 .. n
    OBVIOUS
  <2> QED BY <1>2, <1>5, <2>1, <2>2
<1>7. \A k \in 0 .. n : f[k] \in Z
  <2> HIDE DEF f, Equation
  <2> DEFINE T == {k \in 0 .. n : f[k] \in Z}
  <2>1. 0 \in T
    <3>1. f[0] = <<>> /\ <<>> \in Z
      BY <1>3, <1>6
    <3> QED BY <3>1
  <2>2. ASSUME NEW m \in 0 .. n - 1, m \in T PROVE m + 1 \in T
    <3>1. m + 1 \in 1 .. n /\ m + 1 \in 0 .. n /\ (m + 1) - 1 = m
      OBVIOUS
    <3>2. PICK a \in Nat, b \in Nat : a = GroupStart(file, rowGroups[m + 1]) /\ b = end[m + 1] /\ a <= b
      BY <1>0, <3>1
    <3>3. f[m + 1] = AddRangesSafe(a, b, f[m])
      BY <1>6, <3>1, <3>2
    <3>4. PICK z \in Seq(Nat \X Nat) : z = f[m]
      BY <1>3, <2>2
    <3>5. AddRangesSafe(a, b, z) \in Seq(Nat \X Nat)
      BY <3>2, AddRangesSafeFacts, Zenon DEF Lengthens
    <3>6. f[m + 1] \in Z
      BY <1>3, <3>3, <3>4, <3>5, Zenon
    <3> QED BY <3>1, <3>6
  <2>3. \A m \in 0 .. n : m \in T
    <3> HIDE DEF T
    <3> QED BY <2>1, <2>2, BoundedInduction
  <2> QED BY <2>3
<1> HIDE DEF f, Equation
<1>8. AddsGroups(f, file, rowGroups, n, end)
  BY <1>1, <1>3, <1>6, <1>7, Zenon DEF AddsGroups
<1> QED BY <1>8, Zenon

(* Whole row groups: every byte of them is in a range.                     *)
LEMMA GroupRangesCover ==
    ASSUME NEW file, NEW rowGroups, NEW columns, IsParquet(file, rowGroups, columns),
           NEW ranges, ranges = RemoveOverlaps(GroupRanges(file, rowGroups))
    PROVE  /\ RangesWithin(ranges, FileSize(file))
           /\ \A i \in DOMAIN rowGroups :
                 \A p \in GroupStart(file, rowGroups[i])
                            .. GroupStart(file, rowGroups[i]) + GroupLength(file.groups[rowGroups[i]]) - 1 :
                    HasByte(ranges, p)
<1>0. IsLaidOut(file)
  BY ParquetIsLaidOut
<1>1. PICK n \in Nat : n = Len(rowGroups) /\ DOMAIN rowGroups = 1 .. n
  BY LenProperties DEF IsParquet
<1>2. ASSUME NEW i \in 1 .. n PROVE rowGroups[i] \in DOMAIN file.groups
  <2>1. PICK G : G = DOMAIN file.groups
    OBVIOUS
  <2>2. rowGroups \in Seq(G)
    BY <2>1 DEF IsParquet
  <2>3. rowGroups[i] \in G
    BY <1>1, <2>2, ElementOfSeq
  <2> QED BY <2>1, <2>3
<1>3. PICK size \in Nat : size = FileSize(file)
  BY <1>0 DEF IsLaidOut
<1>4. PICK padding \in Nat : padding = kPadding
  BY FormatsAssumption
<1>5. PICK first : first = [i \in 1 .. n |-> GroupStart(file, rowGroups[i])]
  OBVIOUS
<1>6. PICK length : length = [i \in 1 .. n |-> GroupLength(file.groups[rowGroups[i]])]
  OBVIOUS
<1>7. ASSUME NEW i \in 1 .. n
      PROVE  /\ first[i] = GroupStart(file, rowGroups[i]) /\ first[i] \in Nat
             /\ length[i] = GroupLength(file.groups[rowGroups[i]]) /\ length[i] \in Nat
             /\ first[i] + length[i] <= size
  <2>1. PICK g \in DOMAIN file.groups : g = rowGroups[i]
    BY <1>2
  <2>2. first[i] = GroupStart(file, g) /\ length[i] = GroupLength(file.groups[g])
    BY <1>5, <1>6, <2>1
  <2>3. GroupStart(file, g) \in Nat /\ GroupLength(file.groups[g]) \in Nat
        /\ GroupStart(file, g) + GroupLength(file.groups[g]) <= size
    BY <1>0, <1>3, Zenon DEF IsLaidOut
  <2> QED BY <2>1, <2>2, <2>3, Zenon
<1>8. ASSUME NEW i \in 1 .. n, NEW j \in 1 .. n, i < j PROVE first[i] + length[i] <= first[j]
  <2>1. PICK g \in DOMAIN file.groups, h \in DOMAIN file.groups : g = rowGroups[i] /\ h = rowGroups[j]
    BY <1>2
  <2>2. g < h
    BY <1>1, <1>8, <2>1, Zenon DEF IsParquet
  <2>3. GroupStart(file, g) + GroupLength(file.groups[g]) <= GroupStart(file, h)
    BY <1>0, <2>2, Zenon DEF IsLaidOut
  <2> QED BY <1>7, <2>1, <2>3, Zenon
<1>9. PICK end : end = [i \in 1 .. n |-> Smaller(first[i] + padding + length[i], size)]
  OBVIOUS
<1>10. ASSUME NEW i \in 1 .. n
       PROVE  /\ end[i] = Smaller(first[i] + padding + length[i], size) /\ end[i] \in Nat
              /\ first[i] <= end[i] /\ first[i] + length[i] <= end[i] /\ end[i] <= size
  <2>1. end[i] = Smaller(first[i] + padding + length[i], size)
    BY <1>9
  <2>2. first[i] \in Nat /\ length[i] \in Nat /\ first[i] + length[i] <= size
    BY <1>7
  <2> QED BY <2>1, <2>2 DEF Smaller
<1>11. PICK f : AddsGroups(f, file, rowGroups, n, end)
  <2>1. ASSUME NEW k \in 1 .. n
        PROVE /\ GroupStart(file, rowGroups[k]) \in Nat
              /\ end[k] \in Nat /\ GroupStart(file, rowGroups[k]) <= end[k]
              /\ end[k] = Smaller(GroupStart(file, rowGroups[k]) + kPadding
                                    + GroupLength(file.groups[rowGroups[k]]), FileSize(file))
    BY <1>3, <1>4, <1>7, <1>10, Zenon
  <2>2. GroupsEnd(file, rowGroups, n, end)
    BY <2>1, Zenon DEF GroupsEnd
  <2> QED BY <1>1, <2>2, GroupRangesSteps, Zenon
<1> DEFINE Within(k) == \A m \in 1 .. Len(f[k]) : f[k][m][2] <= size
           Kept(k) == \A i \in 1 .. k : \A p \in first[i] .. first[i] + length[i] - 1 : HoldsUncut(f[k], p)
           T == {k \in 0 .. n : Within(k) /\ Kept(k)}
<1>12. 0 \in T
  <2>1. Len(f[0]) = 0
    <3>1. f[0] = <<>>
      BY <1>11, Zenon DEF AddsGroups
    <3> QED BY <3>1
  <2>2. Within(0) /\ Kept(0)
    BY <2>1
  <2> QED BY <2>2
<1>13. ASSUME NEW k \in 0 .. n - 1, k \in T PROVE k + 1 \in T
  <2>1. k + 1 \in 1 .. n /\ k + 1 \in 0 .. n /\ (k + 1) - 1 = k /\ k \in 0 .. n
    OBVIOUS
  <2>2. PICK old \in Seq(Nat \X Nat) : old = f[k]
    BY <1>11, <2>1, Zenon DEF AddsGroups
  <2>3. PICK a \in Nat, b \in Nat : a = first[k + 1] /\ b = end[k + 1] /\ a <= b /\ b <= size
          /\ a + length[k + 1] <= b
    BY <1>7, <1>10, <2>1
  <2>4. PICK R : R = f[k + 1]
    OBVIOUS
  <2>5. R = AddRangesSafe(a, b, old)
    <3>1. f[k + 1] = AddRangesSafe(GroupStart(file, rowGroups[k + 1]), end[k + 1], f[(k + 1) - 1])
      BY <1>11, <2>1, Zenon DEF AddsGroups
    <3>2. first[k + 1] = GroupStart(file, rowGroups[k + 1])
      BY <1>7, <2>1, Zenon
    <3> QED BY <2>1, <2>2, <2>3, <2>4, <3>1, <3>2, Zenon
  <2>6. /\ R \in Seq(Nat \X Nat) /\ Len(R) \in Nat /\ Len(old) \in Nat
        /\ Len(old) <= Len(R)
        /\ \A i \in 1 .. Len(old) : R[i] = old[i]
        /\ \A i \in Len(old) + 1 .. Len(R) : R[i][2] <= b
        /\ Len(old) < Len(R) => R[Len(old) + 1][1] = a
        /\ \A p \in a .. b - 1 : HoldsUncut(R, p)
    <3>1. Lengthens(AddRangesSafe(a, b, old), old, a, b)
      BY <2>3, AddRangesSafeFacts, Zenon
    <3> QED BY <2>5, <3>1, Zenon DEF Lengthens
  <2>7. PICK l \in Nat, l2 \in Nat : l = Len(old) /\ l2 = Len(R) /\ l <= l2
    BY <2>6
  <2>8. Within(k + 1)
    <3>1. ASSUME NEW m \in 1 .. l2 PROVE R[m][2] <= size
      <4>1. CASE m \in 1 .. l
        <5>1. old[m][2] <= size
          BY <1>13, <2>2, <2>7, <4>1
        <5> QED BY <2>6, <2>7, <4>1, <5>1
      <4>2. CASE m \in l + 1 .. l2
        <5>1. R[m] \in Nat \X Nat
          <6>1. PICK P : P = Nat \X Nat
            OBVIOUS
          <6>2. R \in Seq(P)
            BY <2>6, <6>1
          <6>3. R[m] \in P
            BY <2>7, <6>2, ElementOfSeq
          <6> QED BY <6>1, <6>3
        <5>2. R[m][2] <= b
          BY <2>6, <2>7, <4>2, Zenon
        <5> QED BY <2>3, <5>1, <5>2
      <4> QED BY <4>1, <4>2
    <3> QED BY <2>4, <2>7, <3>1
  <2>9. Kept(k + 1)
    <3> SUFFICES ASSUME NEW i \in 1 .. k + 1, NEW p \in first[i] .. first[i] + length[i] - 1
                 PROVE  HoldsUncut(R, p)
      BY <2>4
    <3>0. i \in 1 .. n
      BY <2>1
    <3>1. CASE i = k + 1
      <4>1. p \in a .. b - 1
        <5>1. length[k + 1] \in Nat
          BY <1>7, <3>0, <3>1, Zenon
        <5>2. PICK y \in Nat : y = length[k + 1] /\ a + y <= b
          BY <2>3, <5>1, Zenon
        <5>3. p \in a .. a + y - 1
          BY <2>3, <3>1, <5>2, Zenon
        <5> QED BY <5>2, <5>3
      <4> QED BY <2>6, <4>1
    <3>2. CASE i # k + 1
      <4>1. i \in 1 .. k /\ i < k + 1
        BY <3>2
      <4>2. HoldsUncut(old, p)
        <5>1. Kept(k)
          BY <1>13
        <5>2. HoldsUncut(f[k], p)
          BY <4>1, <5>1
        <5> QED BY <2>2, <5>2, Zenon
      <4>3. PICK m \in 1 .. l : /\ old[m][1] <= p /\ p < old[m][2]
                                /\ m < l => p < old[m + 1][1]
        BY <2>7, <4>2 DEF HoldsUncut
      <4>4. first[i] + length[i] <= a
        BY <1>8, <2>1, <2>3, <3>0, <4>1
      <4>5. p < a
        <5>1. first[i] \in Nat /\ length[i] \in Nat
          BY <1>7, <3>0, Zenon
        <5>2. PICK x \in Nat, y \in Nat : x = first[i] /\ y = length[i]
          BY <5>1
        <5>3. p \in x .. x + y - 1 /\ x + y <= a /\ a \in Nat
          BY <4>4, <5>2
        <5> QED BY <5>3
      <4>6. m < l2 => p < R[m + 1][1]
        <5>1. ASSUME m < l2 PROVE p < R[m + 1][1]
          <6>1. CASE m < l
            <7>1. m + 1 \in 1 .. l
              BY <6>1
            <7> QED BY <2>6, <2>7, <4>3, <6>1, <7>1
          <6>2. CASE m = l
            BY <2>6, <2>7, <4>5, <5>1, <6>2
          <6> QED BY <6>1, <6>2
        <5> QED BY <5>1
      <4>7. R[m] = old[m] /\ m \in 1 .. l2
        BY <2>6, <2>7
      <4> QED BY <2>7, <4>3, <4>6, <4>7, Zenon DEF HoldsUncut
    <3> QED BY <3>1, <3>2
  <2> HIDE DEF Within, Kept
  <2> QED BY <2>1, <2>8, <2>9
<1>14. \A k \in 0 .. n : k \in T
  <2> HIDE DEF T
  <2> QED BY <1>12, <1>13, BoundedInduction
<1>15. Within(n) /\ Kept(n)
  <2> HIDE DEF Within, Kept
  <2> QED BY <1>14
<1>16. PICK R \in Seq(Nat \X Nat) : R = f[n] /\ ranges = RemoveOverlaps(R)
  <2>1. n \in 0 .. n
    OBVIOUS
  <2> QED BY <1>11, <2>1, Zenon DEF AddsGroups
<1>17. \A m \in 1 .. Len(R) : R[m][2] <= size
  BY <1>15, <1>16
<1>18. /\ RangesWithin(RemoveOverlaps(R), size)
       /\ \A p \in Nat : HoldsUncut(R, p) => HasByte(RemoveOverlaps(R), p)
  BY <1>17, RemoveOverlapsFacts
<1>19. ASSUME NEW i \in 1 .. n, NEW p \in first[i] .. first[i] + length[i] - 1 PROVE HasByte(ranges, p)
  <2>1. HoldsUncut(R, p)
    BY <1>15, <1>16
  <2>2. p \in Nat
    BY <1>7
  <2> QED BY <1>16, <1>18, <2>1, <2>2, Zenon
<1> HIDE DEF Within, Kept, T
<1>20. ASSUME NEW i \in 1 .. n,
              NEW p \in GroupStart(file, rowGroups[i])
                          .. GroupStart(file, rowGroups[i]) + GroupLength(file.groups[rowGroups[i]]) - 1
       PROVE  HasByte(ranges, p)
  <2>1. first[i] = GroupStart(file, rowGroups[i]) /\ length[i] = GroupLength(file.groups[rowGroups[i]])
    BY <1>7
  <2>2. p \in first[i] .. first[i] + length[i] - 1
    BY <2>1, Zenon
  <2> QED BY <1>19, <2>2, Zenon
<1> QED BY <1>1, <1>3, <1>16, <1>18, <1>20, Zenon

(* There is one quotient and one remainder.                                *)
LEMMA DivisionIsUnique ==
    ASSUME NEW a \in Nat, NEW d \in Nat \ {0}, NEW b \in 0 .. d - 1
    PROVE  a * d + b \in Nat /\ (a * d + b) \div d = a /\ (a * d + b) % d = b
<1>1. d * a \in Nat /\ a * d = d * a
  BY Z3
<1>2. PICK m \in Nat : m = a * d + b /\ m = d * a + b
  BY <1>1
<1>3. PICK q \in Nat, r \in 0 .. d - 1 : q = m \div d /\ r = m % d /\ m = d * q + r
  BY DivisionFacts
<1>4. d * q \in Nat
  BY Z3
<1>5. ASSUME q < a PROVE FALSE
  <2>1. q + 1 \in Nat /\ q + 1 <= a
    BY <1>5
  <2>2. d * (q + 1) <= d * a
    BY <2>1, ProductGrows
  <2>3. d * (q + 1) = d * q + d
    BY Z3
  <2> QED BY <1>1, <1>2, <1>3, <1>4, <2>2, <2>3
<1>6. ASSUME a < q PROVE FALSE
  <2>1. a + 1 \in Nat /\ a + 1 <= q
    BY <1>6
  <2>2. d * (a + 1) <= d * q
    BY <2>1, ProductGrows
  <2>3. d * (a + 1) = d * a + d
    BY Z3
  <2> QED BY <1>1, <1>2, <1>3, <1>4, <2>2, <2>3
<1>7. q = a
  BY <1>5, <1>6
<1>8. r = b
  BY <1>1, <1>2, <1>3, <1>7
<1> QED BY <1>2, <1>3, <1>7, <1>8, Zenon

(* Pairs are counted row by row.                                           *)
LEMMA PairOfIndex ==
    ASSUME NEW n \in Nat, NEW w \in Nat, NEW i \in 1 .. n * w
    PROVE  ((i - 1) \div w) + 1 \in 1 .. n /\ ((i - 1) % w) + 1 \in 1 .. w
<1>1. n * w \in Nat /\ w * n = n * w
  BY Z3
<1>2. w # 0
  BY <1>1, Z3
<1>3. PICK m \in Nat : m = i - 1 /\ m < w * n
  BY <1>1
<1>4. PICK q \in Nat, r \in 0 .. w - 1 : q = m \div w /\ r = m % w /\ m = w * q + r
  BY <1>2, DivisionFacts
<1>5. w * q \in Nat
  BY Z3
<1>6. q < n
  <2>1. CASE n <= q
    <3>1. w * n <= w * q
      BY <2>1, ProductGrows
    <3> QED BY <1>1, <1>3, <1>4, <1>5, <3>1
  <2> QED BY <2>1
<1>7. q + 1 \in 1 .. n /\ r + 1 \in 1 .. w
  BY <1>6
<1> QED BY <1>3, <1>4, <1>7, Zenon

(* A pair that is counted.                                                 *)
IsCounted(n, w, j, k) ==
    \E i \in 1 .. n * w : ((i - 1) \div w) + 1 = j /\ ((i - 1) % w) + 1 = k

(* Every pair is.                                                          *)
LEMMA IndexOfPair ==
    ASSUME NEW n \in Nat, NEW w \in Nat, NEW j \in 1 .. n, NEW k \in 1 .. w
    PROVE  IsCounted(n, w, j, k)
<1>1. PICK a \in Nat, b \in 0 .. w - 1 : j = a + 1 /\ k = b + 1 /\ w \in Nat \ {0}
  <2>1. j - 1 \in Nat /\ k - 1 \in 0 .. w - 1 /\ j = (j - 1) + 1 /\ k = (k - 1) + 1 /\ w \in Nat \ {0}
    OBVIOUS
  <2> QED BY <2>1
<1>2. a * w + b \in Nat /\ (a * w + b) \div w = a /\ (a * w + b) % w = b
  BY <1>1, DivisionIsUnique
<1>3. PICK m \in Nat : m = a * w + b
  BY <1>2
<1>4. (m + 1) - 1 = m
  OBVIOUS
<1>5. m + 1 \in 1 .. n * w
  <2>1. a + 1 \in Nat /\ a + 1 <= n
    BY <1>1
  <2>2. w * (a + 1) \in Nat /\ w * (a + 1) <= w * n
    BY <2>1, ProductGrows
  <2>3. w * (a + 1) = a * w + w /\ w * n = n * w /\ a * w \in Nat /\ n * w \in Nat
    BY Z3
  <2> QED BY <1>1, <1>3, <2>2, <2>3
<1>6. (((m + 1) - 1) \div w) + 1 = j /\ (((m + 1) - 1) % w) + 1 = k
  BY <1>1, <1>2, <1>3, <1>4, Zenon
<1> QED BY <1>5, <1>6, Zenon DEF IsCounted

(* The ranges of column chunks: none is empty or ends behind the file.     *)
AreRanges(R, size) ==
    /\ R \in Seq(Nat \X Nat)
    /\ \A m \in 1 .. Len(R) : R[m] \in Nat \X Nat /\ R[m][1] < R[m][2] /\ R[m][2] <= size
InRanges(R, p) == \E m \in 1 .. Len(R) : R[m][1] <= p /\ p < R[m][2]

(* A range behind the others.                                              *)
LEMMA AppendRange ==
    ASSUME NEW R, NEW size \in Nat, AreRanges(R, size),
           NEW a \in Nat, NEW b \in Nat, a < b, b <= size
    PROVE  /\ AreRanges(Append(R, <<a, b>>), size)
           /\ \A p \in Nat : InRanges(R, p) \/ (a <= p /\ p < b) => InRanges(Append(R, <<a, b>>), p)
<1>1. PICK P : P = Nat \X Nat
  OBVIOUS
<1>2. PICK r \in P : r = <<a, b>>
  BY <1>1
<1>3. R \in Seq(P)
  BY <1>1 DEF AreRanges
<1>4. PICK n \in Nat : n = Len(R)
  BY <1>3, LenProperties
<1>5. PICK Q : Q = Append(R, r)
  OBVIOUS
<1>6. /\ Q \in Seq(P) /\ Len(Q) = n + 1 /\ Q[n + 1] = r
      /\ \A m \in 1 .. n : Q[m] = R[m]
  BY <1>3, <1>4, <1>5, AppendProperties
<1>7. ASSUME NEW m \in 1 .. n + 1
      PROVE  Q[m] \in Nat \X Nat /\ Q[m][1] < Q[m][2] /\ Q[m][2] <= size
  <2>1. CASE m \in 1 .. n
    <3>1. R[m] \in Nat \X Nat /\ R[m][1] < R[m][2] /\ R[m][2] <= size
      BY <1>4, <2>1, Zenon DEF AreRanges
    <3>2. Q[m] = R[m]
      BY <1>6, <2>1
    <3> QED BY <3>1, <3>2, Zenon
  <2>2. CASE m = n + 1
    BY <1>2, <1>6, <2>2
  <2> QED BY <2>1, <2>2
<1>8. AreRanges(Q, size)
  BY <1>1, <1>6, <1>7, Zenon DEF AreRanges
<1>9. ASSUME NEW p \in Nat, InRanges(R, p) PROVE InRanges(Q, p)
  <2>1. PICK m \in 1 .. n : R[m][1] <= p /\ p < R[m][2]
    BY <1>4, <1>9 DEF InRanges
  <2>2. m \in 1 .. Len(Q) /\ Q[m] = R[m]
    BY <1>6
  <2> QED BY <2>1, <2>2, Zenon DEF InRanges
<1>10. ASSUME NEW p \in Nat, a <= p, p < b PROVE InRanges(Q, p)
  <2>1. n + 1 \in 1 .. Len(Q) /\ Q[n + 1][1] = a /\ Q[n + 1][2] = b
    BY <1>2, <1>6
  <2> QED BY <1>10, <2>1, Zenon DEF InRanges
<1> QED BY <1>2, <1>5, <1>8, <1>9, <1>10, Zenon

(* The ranges before the last one.                                         *)
LEMMA FrontRanges ==
    ASSUME NEW R, NEW size \in Nat, AreRanges(R, size), R # <<>>
    PROVE  /\ AreRanges(Front(R), size)
           /\ Last(R) \in Nat \X Nat /\ Last(R)[1] < Last(R)[2] /\ Last(R)[2] <= size
           /\ \A p \in Nat : InRanges(R, p) =>
                 InRanges(Front(R), p) \/ (Last(R)[1] <= p /\ p < Last(R)[2])
<1>1. PICK P : P = Nat \X Nat
  OBVIOUS
<1>3. R \in Seq(P)
  BY <1>1 DEF AreRanges
<1>4. PICK n \in Nat : n + 1 = Len(R)
  <2>1. Len(R) \in Nat /\ Len(R) # 0
    BY <1>3, LenProperties, EmptySeq
  <2>2. Len(R) - 1 \in Nat /\ (Len(R) - 1) + 1 = Len(R)
    BY <2>1
  <2> QED BY <2>2
<1>5. PICK Q : Q = Front(R)
  OBVIOUS
<1>6. Q \in Seq(P) /\ Len(Q) = n /\ \A m \in 1 .. n : Q[m] = R[m]
  <2>1. Q = SubSeq(R, 1, n)
    <3>1. Len(R) - 1 = n
      BY <1>4
    <3> QED BY <1>5, <3>1, Zenon DEF Front
  <2>2. \A m \in 1 .. n : R[m] \in P
    BY <1>3, <1>4, ElementOfSeq
  <2> QED BY <2>1, <2>2, SubSeqProperties
<1>7. ASSUME NEW m \in 1 .. n + 1
      PROVE  R[m] \in Nat \X Nat /\ R[m][1] < R[m][2] /\ R[m][2] <= size
  BY <1>4, Zenon DEF AreRanges
<1>8. AreRanges(Q, size)
  <2>1. ASSUME NEW m \in 1 .. n
        PROVE  Q[m] \in Nat \X Nat /\ Q[m][1] < Q[m][2] /\ Q[m][2] <= size
    <3>1. m \in 1 .. n + 1
      OBVIOUS
    <3> QED BY <1>6, <1>7, <3>1, Zenon
  <2> QED BY <1>1, <1>6, <2>1, Zenon DEF AreRanges
<1>9. Last(R) = R[n + 1] /\ n + 1 \in 1 .. n + 1
  BY <1>4 DEF Last
<1>10. ASSUME NEW p \in Nat, InRanges(R, p)
       PROVE  InRanges(Q, p) \/ (R[n + 1][1] <= p /\ p < R[n + 1][2])
  <2>1. PICK m \in 1 .. n + 1 : R[m][1] <= p /\ p < R[m][2]
    BY <1>4, <1>10, Zenon DEF InRanges
  <2>2. CASE m = n + 1
    BY <2>1, <2>2, Zenon
  <2>3. CASE m # n + 1
    <3>1. m \in 1 .. n
      BY <2>3
    <3>2. Q[m] = R[m] /\ m \in 1 .. Len(Q)
      BY <1>6, <3>1, Zenon
    <3> QED BY <2>1, <3>2, Zenon DEF InRanges
  <2> QED BY <2>2, <2>3
<1> QED BY <1>5, <1>7, <1>8, <1>9, <1>10, Zenon

(* R keeps the bytes of ranges and has those from a to b.                  *)
AddsBytes(R, ranges, size, a, b) ==
    /\ AreRanges(R, size)
    /\ \A p \in Nat : InRanges(ranges, p) \/ (a <= p /\ p < b) => InRanges(R, p)

(* ComputeByteRange adds the bytes of a column chunk, in a range of their  *)
(* The end of a range padded for an old file lies behind the column chunk   *)
(* and within the file.                                                     *)
LEMMA PaddedEnd ==
    ASSUME NEW start \in Nat, NEW length \in Nat, NEW size \in Nat, NEW header \in Nat,
           start + length <= size, length > 0
    PROVE  LET end == start + length + Smaller(header, size - (start + length))
           IN  end \in Nat /\ start + length <= end /\ end <= size /\ start < end
<1>1. PICK room \in Nat : room = size - (start + length)
  OBVIOUS
<1>2. PICK more \in Nat : more = Smaller(header, room) /\ more <= room
  BY DEF Smaller
<1> QED BY <1>1, <1>2

(* What lies below one end of a range lies below a later one.              *)
LEMMA BelowALaterEnd ==
    ASSUME NEW p \in Nat, NEW b \in Nat, NEW e \in Nat, p < b, b <= e
    PROVE  p < e /\ p <= e
OBVIOUS

(* own or joined to the previous one.                                      *)
LEMMA ComputeByteRangeFacts ==
    ASSUME NEW file, IsLaidOut(file), file.groups \in Seq(Seq([dictionary : Nat, data : Nat \ {0}])),
           NEW g \in DOMAIN file.groups, NEW c \in DOMAIN file.groups[1], c \in DOMAIN file.groups[g],
           NEW ranges, AreRanges(ranges, FileSize(file))
    PROVE  AddsBytes(ComputeByteRange(file, ranges, <<g, c>>), ranges, FileSize(file),
                     ChunkStart(file, g, c), ChunkStart(file, g, c) + ChunkLength(file.groups[g][c]))
<1>1. PICK size \in Nat : size = FileSize(file)
  BY DEF IsLaidOut
<1>2. PICK start \in Nat, length \in Nat :
         /\ start = ChunkStart(file, g, c) /\ length = ChunkLength(file.groups[g][c])
         /\ start + length <= size /\ length > 0
  <2>1. PICK first \in Nat, all \in Nat :
           /\ first = GroupStart(file, g) /\ all = GroupLength(file.groups[g]) /\ first + all <= size
    BY <1>1 DEF IsLaidOut
  <2>2. PICK start \in Nat, length \in Nat \ {0} :
           /\ start = ChunkStart(file, g, c) /\ length = ChunkLength(file.groups[g][c])
           /\ start + length <= first + all
    BY <2>1, Zenon DEF IsLaidOut
  <2>3. length \in Nat /\ length > 0
    BY SMT
  <2>4. start + length <= size
    BY <2>1, <2>2, <2>3
  <2> QED BY <2>2, <2>3, <2>4, Zenon
<1>3. PICK dictionary \in Nat : dictionary = file.groups[g][c].dictionary
  <2>1. PICK Column : Column = [dictionary : Nat, data : Nat \ {0}]
    OBVIOUS
  <2>2. PICK groups \in Seq(Seq(Column)) : groups = file.groups
    BY <2>1
  <2>3. PICK group \in Seq(Column) : group = groups[g]
    BY <2>2, LenProperties, ElementOfSeq
  <2>4. group[c] \in Column
    BY <2>2, <2>3, LenProperties, ElementOfSeq
  <2> QED BY <2>1, <2>2, <2>3, <2>4
<1>4. DataPageOffset(file, g, c) = start + dictionary /\ DictionaryPageOffset(file, g, c) = start
  BY <1>2, <1>3, Zenon DEF DataPageOffset, DictionaryPageOffset
<1>5. (IF dictionary > 0 /\ start + dictionary > start THEN start ELSE start + dictionary) = start
  <2>1. CASE dictionary > 0 /\ start + dictionary > start
    BY <2>1
  <2>2. CASE ~(dictionary > 0 /\ start + dictionary > start)
    BY <2>2
  <2> QED BY <2>1, <2>2
<1>6. PICK end : end = start + length + (IF file.old THEN Smaller(kMaxDictionaryHeaderSize,
                                                              size - (start + length)) ELSE 0)
  OBVIOUS
<1>7. end \in Nat /\ start + length <= end /\ end <= size /\ start < end
  <2>1. PICK header \in Nat : header = kMaxDictionaryHeaderSize
    BY FormatsAssumption
  <2>0. start + length <= size /\ length > 0
    BY <1>2, Zenon
  <2>2. CASE file.old
    <3>1. end = start + length + Smaller(header, size - (start + length))
      BY <1>6, <2>1, <2>2, Zenon
    <3> QED BY <2>0, <3>1, PaddedEnd, Zenon
  <2>3. CASE ~file.old
    <3>1. end = start + length + 0
      BY <1>6, <2>3, Zenon
    <3> QED BY <2>0, <3>1
  <2> QED BY <2>2, <2>3
<1> DEFINE gap == start - Last(ranges)[2]
           apart == \/ ranges = <<>>
                    \/ gap < 0 \/ gap > kReadRequestPaddingSizeBytes
                    \/ Last(ranges)[2] - Last(ranges)[1] >= kS3ReadRequestSizeBytes
<1>8. PICK R : R = ComputeByteRange(file, ranges, <<g, c>>)
  OBVIOUS
<1>9. R = IF apart THEN Append(ranges, <<start, end>>)
          ELSE Append(Front(ranges), <<Last(ranges)[1], end>>)
  <2>1. <<g, c>>[1] = g /\ <<g, c>>[2] = c
    OBVIOUS
  <2> DEFINE start2 == IF file.groups[g][c].dictionary > 0 /\ DataPageOffset(file, g, c) > DictionaryPageOffset(file, g, c)
                       THEN DictionaryPageOffset(file, g, c) ELSE DataPageOffset(file, g, c)
             length2 == ChunkLength(file.groups[g][c])
             end2 == start2 + length2
                     + (IF file.old THEN Smaller(kMaxDictionaryHeaderSize,
                                                 FileSize(file) - (start2 + length2)) ELSE 0)
             gap2 == start2 - Last(ranges)[2]
  <2>2. start2 = start /\ length2 = length
    BY <1>2, <1>3, <1>4, <1>5, Zenon
  <2>3. ComputeByteRange(file, ranges, <<g, c>>) =
          IF \/ ranges = <<>>
             \/ gap2 < 0 \/ gap2 > kReadRequestPaddingSizeBytes
             \/ Last(ranges)[2] - Last(ranges)[1] >= kS3ReadRequestSizeBytes
          THEN Append(ranges, <<start2, end2>>)
          ELSE Append(Front(ranges), <<Last(ranges)[1], end2>>)
    <3> HIDE DEF start2, length2
    <3> QED BY <2>1, Zenon DEF ComputeByteRange, start2, length2
  <2> HIDE DEF start2, length2
  <2>4. end2 = end /\ gap2 = gap
    BY <1>1, <1>6, <2>2, Zenon
  <2> QED BY <1>8, <2>2, <2>3, <2>4, Zenon
<1>10. AreRanges(ranges, size)
  BY <1>1, Zenon
<1>11. AddsBytes(R, ranges, size, start, start + length)
  <2>1. CASE apart
    <3>1. R = Append(ranges, <<start, end>>)
      BY <1>9, <2>1, Zenon
    <3>2. /\ AreRanges(R, size)
          /\ \A p \in Nat : InRanges(ranges, p) \/ (start <= p /\ p < end) => InRanges(R, p)
      BY <1>7, <1>10, <3>1, AppendRange, Zenon
    <3>3. \A p \in Nat : p < start + length => p < end
      BY <1>7
    <3> QED BY <3>2, <3>3, Zenon DEF AddsBytes
  <2>2. CASE ~apart
    <3>0. ranges # <<>> /\ ~(gap < 0)
      BY <2>2, Zenon
    <3>1. PICK front, back : front = Front(ranges) /\ back = Last(ranges)
      OBVIOUS
    <3>2. /\ AreRanges(front, size)
          /\ back \in Nat \X Nat /\ back[1] < back[2] /\ back[2] <= size
          /\ \A p \in Nat : InRanges(ranges, p) => InRanges(front, p) \/ (back[1] <= p /\ p < back[2])
      BY <1>10, <3>0, <3>1, FrontRanges, Zenon
    <3>3. PICK a \in Nat, b \in Nat : a = back[1] /\ b = back[2] /\ a < b /\ b <= size
      BY <3>2
    <3>4. b <= start
      <4>1. gap = start - b
        BY <3>1, <3>3, Zenon
      <4> QED BY <3>0, <4>1
    <3>5. a < end
      BY <1>7, <3>3, <3>4
    <3>6. R = Append(front, <<a, end>>)
      BY <1>9, <2>2, <3>1, <3>3, Zenon
    <3>7. /\ AreRanges(R, size)
          /\ \A p \in Nat : InRanges(front, p) \/ (a <= p /\ p < end) => InRanges(R, p)
      BY <1>7, <3>2, <3>5, <3>6, AppendRange, Zenon
    <3>8. \A p \in Nat : /\ p < b => p < end
                         /\ start <= p /\ p < start + length => a <= p /\ p < end
      <4>1. a < b /\ b <= start /\ b <= end /\ start + length <= end
        BY <1>7, <3>3, <3>4
      <4>2. ASSUME NEW p \in Nat
            PROVE  /\ p < b => p < end
                   /\ start <= p /\ p < start + length => a <= p /\ p < end
        <5>1. start + length \in Nat
          OBVIOUS
        <5>2. p < b => p < end
          BY <1>7, <4>1, BelowALaterEnd, Zenon
        <5>3. p < start + length => p < end
          BY <1>7, <4>1, <5>1, BelowALaterEnd, Zenon
        <5>4. a < start
          BY <4>1, BelowALaterEnd, Zenon
        <5>5. start <= p => a <= p
          BY <5>4, BelowALaterEnd, Zenon
        <5> QED BY <5>2, <5>3, <5>5, Zenon
      <4> QED BY <4>2, Zenon
    <3>9. \A p \in Nat : InRanges(ranges, p) => InRanges(front, p) \/ (a <= p /\ p < b)
      BY <3>2, <3>3, Zenon
    <3>10. ASSUME NEW p \in Nat, InRanges(ranges, p) \/ (start <= p /\ p < start + length)
           PROVE  InRanges(R, p)
      BY <3>7, <3>8, <3>9, <3>10, Zenon
    <3> QED BY <3>7, <3>10, Zenon DEF AddsBytes
  <2> QED BY <2>1, <2>2
<1> QED BY <1>1, <1>2, <1>8, <1>11, Zenon

(* The column chunk with the number i of those that are asked for.         *)
ChunkAt(rowGroups, columns, i) ==
    <<rowGroups[((i - 1) \div Len(columns)) + 1], columns[((i - 1) % Len(columns)) + 1]>>

(* A number of a column chunk that is asked for, and a column chunk that   *)
(* has a number.                                                           *)
NumbersChunk(rowGroups, columns, i) ==
    \E g \in ToSet(rowGroups), c \in ToSet(columns) : ChunkAt(rowGroups, columns, i) = <<g, c>>
HasNumber(rowGroups, columns, n, g, c) ==
    \E i \in 1 .. n : ChunkAt(rowGroups, columns, i) = <<g, c>>

(* The column chunks that are asked for are column chunks of the file.     *)
LEMMA ChunkAtFacts ==
    ASSUME NEW file, NEW rowGroups, NEW columns, IsParquet(file, rowGroups, columns),
           NEW n, n = Len(rowGroups) * Len(columns)
    PROVE  /\ n \in Nat
           /\ \A g \in ToSet(rowGroups) : g \in DOMAIN file.groups
           /\ \A c \in ToSet(columns), g \in ToSet(rowGroups) :
                 c \in DOMAIN file.groups[1] /\ c \in DOMAIN file.groups[g]
           /\ \A i \in 1 .. n :
                 NumbersChunk(rowGroups, columns, i)
           /\ \A g \in ToSet(rowGroups), c \in ToSet(columns) :
                 HasNumber(rowGroups, columns, n, g, c)
<1>1. PICK l \in Nat, w \in Nat :
         /\ l = Len(rowGroups) /\ DOMAIN rowGroups = 1 .. l
         /\ w = Len(columns) /\ DOMAIN columns = 1 .. w
  BY LenProperties DEF IsParquet
<1>2. ToSet(rowGroups) = {rowGroups[i] : i \in 1 .. l} /\ ToSet(columns) = {columns[i] : i \in 1 .. w}
  BY <1>1 DEF ToSet
<1>3. n = l * w /\ n \in Nat
  <2>1. l * w \in Nat
    BY Z3
  <2> QED BY <1>1, <2>1, Zenon
<1>4. ASSUME NEW i \in 1 .. l PROVE rowGroups[i] \in DOMAIN file.groups
  <2>1. PICK G : G = DOMAIN file.groups
    OBVIOUS
  <2>2. rowGroups \in Seq(G)
    BY <2>1 DEF IsParquet
  <2>3. rowGroups[i] \in G
    BY <1>1, <2>2, ElementOfSeq
  <2> QED BY <2>1, <2>3
<1>5. ASSUME NEW i \in 1 .. w PROVE columns[i] \in DOMAIN file.groups[1]
  <2>1. PICK G : G = DOMAIN file.groups[1]
    OBVIOUS
  <2>2. columns \in Seq(G)
    BY <2>1 DEF IsParquet
  <2>3. columns[i] \in G
    BY <1>1, <2>2, ElementOfSeq
  <2> QED BY <2>1, <2>3
<1>6. ASSUME NEW g \in DOMAIN file.groups PROVE DOMAIN file.groups[g] = DOMAIN file.groups[1]
  <2>1. PICK Group : Group = Seq([dictionary : Nat, data : Nat \ {0}])
    OBVIOUS
  <2>2. PICK groups \in Seq(Group) : groups = file.groups
    BY <2>1 DEF IsParquet
  <2>3. 1 \in DOMAIN groups
    <3>1. PICK m \in Nat : DOMAIN groups = 1 .. m
      BY LenProperties
    <3> QED BY <2>2, <3>1
  <2>4. groups[g] \in Group /\ groups[1] \in Group
    BY <2>2, <2>3, LenProperties, ElementOfSeq
  <2>5. Len(groups[g]) = Len(groups[1])
    BY <2>2 DEF IsParquet
  <2>6. DOMAIN groups[g] = 1 .. Len(groups[g]) /\ DOMAIN groups[1] = 1 .. Len(groups[1])
    BY <2>1, <2>4, LenProperties
  <2> QED BY <2>2, <2>5, <2>6, Zenon
<1>7. ASSUME NEW i \in 1 .. n
      PROVE  NumbersChunk(rowGroups, columns, i)
  <2>1. PICK j \in 1 .. l, k \in 1 .. w : j = ((i - 1) \div w) + 1 /\ k = ((i - 1) % w) + 1
    <3>1. i \in 1 .. l * w
      BY <1>3, Zenon
    <3> QED BY <3>1, PairOfIndex, Zenon
  <2>2. ChunkAt(rowGroups, columns, i) = <<rowGroups[j], columns[k]>>
    BY <1>1, <2>1, Zenon DEF ChunkAt
  <2>3. rowGroups[j] \in ToSet(rowGroups) /\ columns[k] \in ToSet(columns)
    BY <1>2
  <2> QED BY <2>2, <2>3, Zenon DEF NumbersChunk
<1>8. ASSUME NEW g \in ToSet(rowGroups), NEW c \in ToSet(columns)
      PROVE  HasNumber(rowGroups, columns, n, g, c)
  <2>1. PICK j \in 1 .. l, k \in 1 .. w : g = rowGroups[j] /\ c = columns[k]
    BY <1>2
  <2>2. PICK i \in 1 .. n : ((i - 1) \div w) + 1 = j /\ ((i - 1) % w) + 1 = k
    <3>1. IsCounted(l, w, j, k)
      BY IndexOfPair, Zenon
    <3> QED BY <1>3, <3>1, Zenon DEF IsCounted
  <2>3. ChunkAt(rowGroups, columns, i) = <<g, c>>
    BY <1>1, <2>1, <2>2, Zenon DEF ChunkAt
  <2> QED BY <2>3, Zenon DEF HasNumber
<1>9. \A g \in ToSet(rowGroups) : g \in DOMAIN file.groups
  BY <1>2, <1>4
<1>10. \A c \in ToSet(columns) : c \in DOMAIN file.groups[1]
  BY <1>2, <1>5
<1>11. \A c \in ToSet(columns), g \in ToSet(rowGroups) :
         c \in DOMAIN file.groups[1] /\ c \in DOMAIN file.groups[g]
  BY <1>6, <1>9, <1>10, Zenon
<1> QED BY <1>1, <1>3, <1>7, <1>8, <1>9, <1>11, Zenon

(* The ranges after each of the column chunks.                             *)
AddsChunks(f, file, rowGroups, columns, n) ==
    /\ f[n] = ColumnRanges(file, rowGroups, columns)
    /\ f[0] = <<>>
    /\ \A i \in 1 .. n : f[i] = ComputeByteRange(file, f[i - 1], ChunkAt(rowGroups, columns, i))

(* There are such ranges.                                                  *)
LEMMA ColumnRangesSteps ==
    ASSUME NEW file, NEW rowGroups, NEW columns, IsParquet(file, rowGroups, columns),
           NEW n \in Nat, n = Len(rowGroups) * Len(columns)
    PROVE  \E f : AddsChunks(f, file, rowGroups, columns, n)
<1> DEFINE Equation(f) == f = [i \in 0 .. n |->
               IF i = 0 THEN <<>> ELSE ComputeByteRange(file, f[i - 1], ChunkAt(rowGroups, columns, i))]
           f == CHOOSE f : Equation(f)
<1>1. ColumnRanges(file, rowGroups, columns) = f[n]
  BY Zenon DEF ColumnRanges, ChunkAt
<1>2. PICK Z : Z = {R \in Seq(Nat \X Nat) : AreRanges(R, FileSize(file))}
  OBVIOUS
<1>3. ASSUME NEW k \in 1 .. n, NEW z \in Z
      PROVE  ComputeByteRange(file, z, ChunkAt(rowGroups, columns, k)) \in Z
  <2>1. PICK g \in ToSet(rowGroups), c \in ToSet(columns) : ChunkAt(rowGroups, columns, k) = <<g, c>>
    <3>1. NumbersChunk(rowGroups, columns, k)
      BY ChunkAtFacts, Zenon
    <3> QED BY <3>1, Zenon DEF NumbersChunk
  <2>2. g \in DOMAIN file.groups /\ c \in DOMAIN file.groups[1] /\ c \in DOMAIN file.groups[g]
    BY ChunkAtFacts, Zenon
  <2>3. IsLaidOut(file) /\ file.groups \in Seq(Seq([dictionary : Nat, data : Nat \ {0}]))
    BY ParquetIsLaidOut, Zenon DEF IsParquet
  <2>4. AreRanges(z, FileSize(file))
    BY <1>2
  <2>5. AreRanges(ComputeByteRange(file, z, <<g, c>>), FileSize(file))
    BY <2>2, <2>3, <2>4, ComputeByteRangeFacts, Zenon DEF AddsBytes
  <2> QED BY <1>2, <2>1, <2>5 DEF AreRanges
<1>4. \E g : Equation(g)
  <2>1. PICK step : step = [k \in 1 .. n |->
                              [z \in Z |-> ComputeByteRange(file, z, ChunkAt(rowGroups, columns, k))]]
    OBVIOUS
  <2>2. \A k \in 1 .. n, z \in Z :
           /\ step[k][z] = ComputeByteRange(file, z, ChunkAt(rowGroups, columns, k))
           /\ step[k][z] \in Z
    BY <1>3, <2>1
  <2>3. <<>> \in Z
    <3>1. <<>> \in Seq(Nat \X Nat) /\ Len(<<>>) = 0
      OBVIOUS
    <3>2. AreRanges(<<>>, FileSize(file))
      BY <3>1 DEF AreRanges
    <3> QED BY <1>2, <3>1, <3>2
  <2>4. PICK h : Iterates(h, n, <<>>, step) /\ \A k \in 0 .. n : h[k] \in Z
    BY <2>2, <2>3, IterationsStay
  <2>5. DOMAIN h = 0 .. n /\ h[0] = <<>> /\ \A k \in 1 .. n : h[k] = step[k][h[k - 1]]
    BY <2>4, Zenon DEF Iterates
  <2>6. ASSUME NEW k \in 1 .. n
        PROVE  h[k] = ComputeByteRange(file, h[k - 1], ChunkAt(rowGroups, columns, k))
    <3>1. k - 1 \in 0 .. n
      OBVIOUS
    <3>2. PICK z \in Z : z = h[k - 1]
      BY <2>4, <3>1
    <3>3. step[k][z] = ComputeByteRange(file, z, ChunkAt(rowGroups, columns, k))
      BY <2>2, Zenon
    <3>4. h[k] = step[k][h[k - 1]]
      BY <2>5, Zenon
    <3> QED BY <3>2, <3>3, <3>4, Zenon
  <2>7. PICK g : g = [i \in 0 .. n |-> h[i]]
    OBVIOUS
  <2>8. Equation(g)
    <3>1. ASSUME NEW i \in 0 .. n
          PROVE  g[i] = IF i = 0 THEN <<>> ELSE ComputeByteRange(file, g[i - 1], ChunkAt(rowGroups, columns, i))
      <4>1. CASE i = 0
        BY <2>5, <2>7, <4>1
      <4>2. CASE i # 0
        <5>1. i \in 1 .. n /\ i - 1 \in 0 .. n
          BY <4>2
        <5>2. g[i] = h[i] /\ g[i - 1] = h[i - 1]
          BY <2>7, <5>1
        <5> QED BY <2>6, <4>2, <5>1, <5>2, Zenon
      <4> QED BY <4>1, <4>2
    <3>2. g = [i \in 0 .. n |-> g[i]]
      BY <2>7
    <3> QED BY <3>1, <3>2, Zenon
  <2> HIDE DEF Equation
  <2> QED BY <2>8
<1>5. Equation(f)
  <2> HIDE DEF Equation
  <2> QED BY <1>4
<1>6. /\ f[0] = <<>>
      /\ \A k \in 1 .. n : f[k] = ComputeByteRange(file, f[k - 1], ChunkAt(rowGroups, columns, k))
  <2> HIDE DEF f
  <2>1. \A k \in 1 .. n : k \in 0 .. n /\ k # 0
    OBVIOUS
  <2>2. 0 \in 0 .. n
    OBVIOUS
  <2> QED BY <1>5, <2>1, <2>2
<1> HIDE DEF f, Equation
<1>7. AddsChunks(f, file, rowGroups, columns, n)
  BY <1>1, <1>6, Zenon DEF AddsChunks
<1> QED BY <1>7, Zenon

(* Column chunks: every byte of them is in a range.                        *)
LEMMA ColumnRangesCover ==
    ASSUME NEW file, NEW rowGroups, NEW columns, IsParquet(file, rowGroups, columns),
           NEW R, R = ColumnRanges(file, rowGroups, columns)
    PROVE  /\ AreRanges(R, FileSize(file))
           /\ \A g \in ToSet(rowGroups), c \in ToSet(columns) :
                 \A p \in Nat : /\ ChunkStart(file, g, c) <= p
                                /\ p < ChunkStart(file, g, c) + ChunkLength(file.groups[g][c])
                                => InRanges(R, p)
<1>1. PICK n \in Nat : n = Len(rowGroups) * Len(columns)
  BY ChunkAtFacts
<1>2. PICK f : AddsChunks(f, file, rowGroups, columns, n)
  BY <1>1, ColumnRangesSteps, Zenon
<1> DEFINE In(g, c, p) == /\ ChunkStart(file, g, c) <= p
                          /\ p < ChunkStart(file, g, c) + ChunkLength(file.groups[g][c])
           Kept(k) == \A i \in 1 .. k : \A g \in ToSet(rowGroups), c \in ToSet(columns) :
                         ChunkAt(rowGroups, columns, i) = <<g, c>> =>
                            \A p \in Nat : In(g, c, p) => InRanges(f[k], p)
           T == {k \in 0 .. n : AreRanges(f[k], FileSize(file)) /\ Kept(k)}
<1>3. 0 \in T
  <2>1. f[0] = <<>>
    BY <1>2, Zenon DEF AddsChunks
  <2>2. <<>> \in Seq(Nat \X Nat) /\ Len(<<>>) = 0
    OBVIOUS
  <2>3. AreRanges(f[0], FileSize(file))
    BY <2>1, <2>2 DEF AreRanges
  <2>4. Kept(0)
    <3>1. 1 .. 0 = {}
      OBVIOUS
    <3> QED BY <3>1, Zenon
  <2> HIDE DEF Kept
  <2> QED BY <2>3, <2>4
<1>4. ASSUME NEW k \in 0 .. n - 1, k \in T PROVE k + 1 \in T
  <2>1. k + 1 \in 1 .. n /\ k + 1 \in 0 .. n /\ (k + 1) - 1 = k
    OBVIOUS
  <2>2. AreRanges(f[k], FileSize(file)) /\ Kept(k)
    BY <1>4, Zenon
  <2>3. PICK g \in ToSet(rowGroups), c \in ToSet(columns) : ChunkAt(rowGroups, columns, k + 1) = <<g, c>>
    <3>1. NumbersChunk(rowGroups, columns, k + 1)
      BY <1>1, <2>1, ChunkAtFacts, Zenon
    <3> QED BY <3>1, Zenon DEF NumbersChunk
  <2>4. g \in DOMAIN file.groups /\ c \in DOMAIN file.groups[1] /\ c \in DOMAIN file.groups[g]
    BY ChunkAtFacts, Zenon
  <2>5. IsLaidOut(file) /\ file.groups \in Seq(Seq([dictionary : Nat, data : Nat \ {0}]))
    BY ParquetIsLaidOut, Zenon DEF IsParquet
  <2>6. f[k + 1] = ComputeByteRange(file, f[k], <<g, c>>)
    BY <1>2, <2>1, <2>3, Zenon DEF AddsChunks
  <2>7. AddsBytes(f[k + 1], f[k], FileSize(file), ChunkStart(file, g, c),
                  ChunkStart(file, g, c) + ChunkLength(file.groups[g][c]))
    BY <2>2, <2>4, <2>5, <2>6, ComputeByteRangeFacts, Zenon
  <2>8. /\ AreRanges(f[k + 1], FileSize(file))
        /\ \A p \in Nat : InRanges(f[k], p) \/ In(g, c, p) => InRanges(f[k + 1], p)
    BY <2>7, Zenon DEF AddsBytes
  <2>9. ASSUME NEW i \in 1 .. k + 1, NEW h \in ToSet(rowGroups), NEW d \in ToSet(columns),
               ChunkAt(rowGroups, columns, i) = <<h, d>>, NEW p \in Nat, In(h, d, p)
        PROVE  InRanges(f[k + 1], p)
    <3>1. CASE i = k + 1
      <4>1. h = g /\ d = c
        BY <2>3, <2>9, <3>1
      <4> QED BY <2>8, <2>9, <4>1, Zenon
    <3>2. CASE i # k + 1
      <4>1. i \in 1 .. k
        BY <3>2
      <4>2. InRanges(f[k], p)
        BY <2>2, <2>9, <4>1, Zenon
      <4> QED BY <2>8, <4>2, Zenon
    <3> QED BY <3>1, <3>2
  <2>10. Kept(k + 1)
    BY <2>9, Zenon
  <2> HIDE DEF Kept
  <2> QED BY <2>1, <2>8, <2>10
<1>5. \A k \in 0 .. n : k \in T
  <2> HIDE DEF T
  <2> QED BY <1>3, <1>4, BoundedInduction
<1>6. n \in 0 .. n
  OBVIOUS
<1>7. AreRanges(f[n], FileSize(file)) /\ Kept(n) /\ R = f[n]
  BY <1>2, <1>5, <1>6, Zenon DEF AddsChunks
<1>8. ASSUME NEW g \in ToSet(rowGroups), NEW c \in ToSet(columns), NEW p \in Nat, In(g, c, p)
      PROVE  InRanges(R, p)
  <2>1. PICK i \in 1 .. n : ChunkAt(rowGroups, columns, i) = <<g, c>>
    <3>1. HasNumber(rowGroups, columns, n, g, c)
      BY <1>1, ChunkAtFacts, Zenon
    <3> QED BY <3>1, Zenon DEF HasNumber
  <2> QED BY <1>7, <1>8, <2>1, Zenon
<1> QED BY <1>7, <1>8, Zenon

(* All that is to be read, from start on n bytes, is in ranges within the  *)
(* object; and so are all the column chunks an export x is asked for.      *)
CoveredIn(ranges, size, start, n) ==
    /\ start \in Nat /\ n \in Nat /\ start + n <= size
    /\ RangesWithin(ranges, size)
    /\ \A p \in start .. start + n - 1 : HasByte(ranges, p)
AllCovered(ranges, size, x) ==
    \A g \in ToSet(x.rowGroups), c \in ToSet(x.columns) :
        CoveredIn(ranges, size, ChunkStart(x.file, g, c), ChunkLength(x.file.groups[g][c]))

(* Ranges that have the bytes of every column chunk asked for.             *)
HasChunks(ranges, file, rowGroups, columns) ==
    \A g \in ToSet(rowGroups), c \in ToSet(columns) :
        \A p \in ChunkStart(file, g, c) .. ChunkStart(file, g, c) + ChunkLength(file.groups[g][c]) - 1 :
            HasByte(ranges, p)

(* A column chunk asked for is in its row group, and the row group in the  *)
(* file.                                                                   *)
ChunkFits(file, g, c) ==
    /\ GroupStart(file, g) \in Nat /\ GroupLength(file.groups[g]) \in Nat
    /\ ChunkStart(file, g, c) \in Nat /\ ChunkLength(file.groups[g][c]) \in Nat
    /\ GroupStart(file, g) <= ChunkStart(file, g, c)
    /\ ChunkStart(file, g, c) + ChunkLength(file.groups[g][c])
         <= GroupStart(file, g) + GroupLength(file.groups[g])
    /\ GroupStart(file, g) + GroupLength(file.groups[g]) <= FileSize(file)

(* So it is in a Parquet file.                                             *)
LEMMA ChunksFit ==
    ASSUME NEW file, NEW rowGroups, NEW columns, IsParquet(file, rowGroups, columns),
           NEW g \in ToSet(rowGroups), NEW c \in ToSet(columns)
    PROVE  ChunkFits(file, g, c)
<1>1. g \in DOMAIN file.groups /\ c \in DOMAIN file.groups[1]
  BY ChunkAtFacts, Zenon
<1>2. IsLaidOut(file)
  BY ParquetIsLaidOut, Zenon
<1>3. ChunkLength(file.groups[g][c]) \in Nat \ {0}
  BY <1>1, <1>2, Zenon DEF IsLaidOut
<1>4. ChunkLength(file.groups[g][c]) \in Nat
  BY <1>3, Zenon
<1> QED BY <1>1, <1>2, <1>4, Zenon DEF IsLaidOut, ChunkFits

(* CalculatePageOffsetsForColumnIds: the ranges have every byte of every   *)
(* column chunk asked for, and nothing behind the end of the file.         *)
LEMMA PageOffsetsCover ==
    ASSUME NEW file, NEW rowGroups, NEW columns, IsParquet(file, rowGroups, columns),
           NEW ranges, ranges = CalculatePageOffsetsForColumnIds(file, rowGroups, columns)
    PROVE  RangesWithin(ranges, FileSize(file)) /\ HasChunks(ranges, file, rowGroups, columns)
<1>1. CASE Len(columns) = Len(file.groups[1])
  <2>1. ranges = RemoveOverlaps(GroupRanges(file, rowGroups))
    BY <1>1, Zenon DEF CalculatePageOffsetsForColumnIds
  <2>2. /\ RangesWithin(ranges, FileSize(file))
        /\ \A i \in DOMAIN rowGroups :
              \A p \in GroupStart(file, rowGroups[i])
                         .. GroupStart(file, rowGroups[i]) + GroupLength(file.groups[rowGroups[i]]) - 1 :
                 HasByte(ranges, p)
    BY <2>1, GroupRangesCover, Zenon
  <2>3. ASSUME NEW g \in ToSet(rowGroups), NEW c \in ToSet(columns),
               NEW p \in ChunkStart(file, g, c)
                           .. ChunkStart(file, g, c) + ChunkLength(file.groups[g][c]) - 1
        PROVE  HasByte(ranges, p)
    <3>1. PICK i \in DOMAIN rowGroups : g = rowGroups[i]
      BY DEF ToSet
    <3>2. ChunkFits(file, g, c)
      BY ChunksFit, Zenon
    <3>3. p \in GroupStart(file, g) .. GroupStart(file, g) + GroupLength(file.groups[g]) - 1
      BY <3>2 DEF ChunkFits
    <3> QED BY <2>2, <3>1, <3>3, Zenon
  <2> QED BY <2>2, <2>3, Zenon DEF HasChunks
<1>2. CASE Len(columns) # Len(file.groups[1])
  <2>1. PICK R : R = ColumnRanges(file, rowGroups, columns)
    OBVIOUS
  <2>2. ranges = ToSet(R)
    BY <1>2, <2>1, Zenon DEF CalculatePageOffsetsForColumnIds
  <2>3. /\ AreRanges(R, FileSize(file))
        /\ \A g \in ToSet(rowGroups), c \in ToSet(columns) :
              \A p \in Nat : /\ ChunkStart(file, g, c) <= p
                             /\ p < ChunkStart(file, g, c) + ChunkLength(file.groups[g][c])
                             => InRanges(R, p)
    BY <2>1, ColumnRangesCover, Zenon
  <2>4. ranges = {R[m] : m \in 1 .. Len(R)}
    <3>1. DOMAIN R = 1 .. Len(R)
      BY <2>3, LenProperties DEF AreRanges
    <3> QED BY <2>2, <3>1 DEF ToSet
  <2>5. RangesWithin(ranges, FileSize(file))
    BY <2>3, <2>4 DEF AreRanges, RangesWithin
  <2>6. \A p \in Nat : InRanges(R, p) => HasByte(ranges, p)
    BY <2>4 DEF InRanges, HasByte
  <2>7. ASSUME NEW g \in ToSet(rowGroups), NEW c \in ToSet(columns),
               NEW p \in ChunkStart(file, g, c)
                           .. ChunkStart(file, g, c) + ChunkLength(file.groups[g][c]) - 1
        PROVE  HasByte(ranges, p)
    <3>1. ChunkFits(file, g, c)
      BY ChunksFit, Zenon
    <3>2. p \in Nat /\ ChunkStart(file, g, c) <= p
          /\ p < ChunkStart(file, g, c) + ChunkLength(file.groups[g][c])
      BY <3>1 DEF ChunkFits
    <3> QED BY <2>3, <2>6, <3>2, Zenon
  <2> QED BY <2>5, <2>7, Zenon DEF HasChunks
<1> QED BY <1>1, <1>2

(* Ranges that have the column chunks cover them, and more ranges do so,   *)
(* too.                                                                    *)
LEMMA ChunksAreCovered ==
    ASSUME NEW x, IsParquet(x.file, x.rowGroups, x.columns),
           NEW ranges, NEW more, NEW size, size = FileSize(x.file),
           HasChunks(ranges, x.file, x.rowGroups, x.columns),
           ranges \subseteq more, RangesWithin(more, size)
    PROVE  AllCovered(more, size, x)
<1>1. ASSUME NEW g \in ToSet(x.rowGroups), NEW c \in ToSet(x.columns)
      PROVE  CoveredIn(more, size, ChunkStart(x.file, g, c), ChunkLength(x.file.groups[g][c]))
  <2>1. ChunkFits(x.file, g, c)
    BY ChunksFit, Zenon
  <2>2. PICK file : file = x.file
    OBVIOUS
  <2>3. PICK start \in Nat, n \in Nat, a \in Nat, l \in Nat :
           /\ start = ChunkStart(file, g, c) /\ n = ChunkLength(file.groups[g][c])
           /\ a = GroupStart(file, g) /\ l = GroupLength(file.groups[g])
           /\ start + n <= a + l /\ a + l <= size
    BY <2>1, <2>2, Zenon DEF ChunkFits
  <2>4. size \in Nat
    <3>1. IsLaidOut(x.file)
      BY ParquetIsLaidOut, Zenon
    <3>2. FileSize(x.file) \in Nat \ {0}
      BY <3>1, Zenon DEF IsLaidOut
    <3> QED BY <3>2
  <2>5. start + n <= size
    BY <2>3, <2>4
  <2>6. \A p \in start .. start + n - 1 : HasByte(ranges, p)
    BY <2>2, <2>3, Zenon DEF HasChunks
  <2>7. \A p \in start .. start + n - 1 : HasByte(more, p)
    BY <2>6, Zenon DEF HasByte
  <2>8. CoveredIn(more, size, start, n)
    BY <2>3, <2>5, <2>7, Zenon DEF CoveredIn
  <2> QED BY <2>2, <2>3, <2>8, Zenon
<1> QED BY <1>1, Zenon DEF AllCovered

(* The buffers of a Parquet import have every byte of the column chunks it *)
(* is asked for, from when their ranges are known on, and those are the    *)
(* column chunks it has in the end.                                        *)
CoverageInv ==
    /\ reader \in {"async", "wait", "decode", "table"} /\ export.format = "kParquet" =>
          /\ Len(object) \in Nat /\ Len(object) <= kLastByteInFile
          /\ AllCovered(DOMAIN buffers, Len(object), export)
    /\ reader = "table" /\ export.format = "kParquet" =>
          DOMAIN chunks = ToSet(export.rowGroups) \X ToSet(export.columns)

(* The object of a Parquet import is the file of the export.               *)
LEMMA ImportedFile ==
    ASSUME UploadInv, ObjectIsWhole, ReadInv, outcome = "success", object # None,
           export.format = "kParquet"
    PROVE  /\ IsParquet(export.file, export.rowGroups, export.columns)
           /\ Len(object) = FileSize(export.file) /\ IsLaidOut(export.file)
           /\ Len(object) \in Nat /\ Len(object) <= kLastByteInFile
<1>1. export \in Exports /\ Len(object) <= kLastByteInFile /\ Len(object) \in Nat
      /\ FooterRange(export.file)[2] = Len(object)
  BY ImportedObject
<1>2. IsParquet(export.file, export.rowGroups, export.columns)
  BY <1>1, StorageAssumption
<1>3. IsLaidOut(export.file)
  BY <1>2, ParquetIsLaidOut, Zenon
<1>4. FooterRange(export.file)[2] = FileSize(export.file)
  BY <1>3, Zenon DEF IsLaidOut
<1> QED BY <1>1, <1>2, <1>3, <1>4, Zenon

(* The whole object in one buffer covers every column chunk.               *)
LEMMA SyncCovers ==
    ASSUME UploadInv, ObjectIsWhole, ReadInv, outcome = "success", object # None,
           export.format = "kParquet", NEW ranges, ranges = {<<0, Len(object)>>}
    PROVE  AllCovered(ranges, Len(object), export)
<1>1. /\ IsParquet(export.file, export.rowGroups, export.columns)
      /\ Len(object) = FileSize(export.file) /\ IsLaidOut(export.file)
  BY ImportedFile, Zenon
<1>2. PICK size \in Nat \ {0} : size = Len(object) /\ size = FileSize(export.file)
  BY <1>1 DEF IsLaidOut
<1>3. ranges = {<<0, size>>}
  BY <1>2
<1>4. RangesWithin(ranges, size)
  BY <1>3 DEF RangesWithin
<1>5. \A p \in 0 .. size - 1 : HasByte(ranges, p)
  <2>1. PICK r : r = <<0, size>>
    OBVIOUS
  <2>2. r \in ranges
    BY <1>3, <2>1, Zenon
  <2>3. \A p \in 0 .. size - 1 : r[1] <= p /\ p < r[2]
    BY <2>1
  <2> QED BY <2>2, <2>3, Zenon DEF HasByte
<1>6. ASSUME NEW g \in ToSet(export.rowGroups), NEW c \in ToSet(export.columns)
      PROVE  \A p \in ChunkStart(export.file, g, c)
                        .. ChunkStart(export.file, g, c) + ChunkLength(export.file.groups[g][c]) - 1 :
                HasByte(ranges, p)
  <2>1. ChunkFits(export.file, g, c)
    BY <1>1, ChunksFit, Zenon
  <2>2. PICK start \in Nat, n \in Nat, a \in Nat, l \in Nat :
           /\ start = ChunkStart(export.file, g, c) /\ n = ChunkLength(export.file.groups[g][c])
           /\ a = GroupStart(export.file, g) /\ l = GroupLength(export.file.groups[g])
           /\ start + n <= a + l /\ a + l <= size
    BY <1>2, <2>1, Zenon DEF ChunkFits
  <2>3. \A p \in start .. start + n - 1 : p \in 0 .. size - 1
    <3>1. start + n <= a + l /\ a + l <= size /\ size \in Nat
      BY <2>2
    <3> QED BY <3>1
  <2>4. \A p \in start .. start + n - 1 : HasByte(ranges, p)
    BY <1>5, <2>3, Zenon
  <2> QED BY <2>2, <2>4, Zenon
<1>7. HasChunks(ranges, export.file, export.rowGroups, export.columns)
  BY <1>6, Zenon DEF HasChunks
<1>8. PICK x : x = export
  OBVIOUS
<1>9. AllCovered(ranges, size, x)
  <2>1. IsParquet(x.file, x.rowGroups, x.columns) /\ size = FileSize(x.file)
        /\ HasChunks(ranges, x.file, x.rowGroups, x.columns)
    BY <1>1, <1>2, <1>7, <1>8, Zenon
  <2>2. ranges \subseteq ranges
    OBVIOUS
  <2> QED BY <1>4, <2>1, <2>2, ChunksAreCovered, Zenon
<1> QED BY <1>2, <1>8, <1>9, Zenon

(* The ranges that are computed, with the footer, cover them.              *)
LEMMA AsyncCovers ==
    ASSUME UploadInv, ObjectIsWhole, ReadInv, outcome = "success", object # None,
           export.format = "kParquet", NEW ranges,
           ranges = CalculatePageOffsetsForColumnIds(export.file, export.rowGroups, export.columns)
    PROVE  AllCovered(ranges \cup {FooterRange(export.file)}, Len(object), export)
<1>1. /\ IsParquet(export.file, export.rowGroups, export.columns)
      /\ Len(object) = FileSize(export.file) /\ IsLaidOut(export.file)
  BY ImportedFile, Zenon
<1>2. PICK x, size, footer : x = export /\ size = Len(object) /\ footer = FooterRange(export.file)
  OBVIOUS
<1>3. IsParquet(x.file, x.rowGroups, x.columns) /\ size = FileSize(x.file)
  BY <1>1, <1>2, Zenon
<1>4. RangesWithin(ranges, size) /\ HasChunks(ranges, x.file, x.rowGroups, x.columns)
  <2>1. ranges = CalculatePageOffsetsForColumnIds(x.file, x.rowGroups, x.columns)
    BY <1>2, Zenon
  <2> QED BY <1>3, <2>1, PageOffsetsCover, Zenon
<1>5. footer \in Nat \X Nat /\ footer[1] < size /\ footer[2] = size /\ size \in Nat
  BY <1>1, <1>2 DEF IsLaidOut
<1>6. footer[1] < footer[2] /\ footer[2] <= size
  BY <1>5
<1>7. RangesWithin(ranges \cup {footer}, size)
  <2>1. ASSUME NEW r \in ranges \cup {footer} PROVE r \in Nat \X Nat /\ r[1] < r[2] /\ r[2] <= size
    <3>1. CASE r \in ranges
      BY <1>4, <3>1, Zenon DEF RangesWithin
    <3>2. CASE r = footer
      BY <1>5, <1>6, <3>2, Zenon
    <3> QED BY <2>1, <3>1, <3>2
  <2> QED BY <2>1, Zenon DEF RangesWithin
<1>8. ranges \subseteq ranges \cup {footer}
  OBVIOUS
<1>9. AllCovered(ranges \cup {footer}, size, x)
  BY <1>3, <1>4, <1>7, <1>8, ChunksAreCovered, Zenon
<1> QED BY <1>2, <1>9, Zenon

(* A step of the export or of the import.                                  *)
LEMMA CoverageStep ==
    ASSUME UploadInv, ObjectIsWhole, ReadInv, BufferInv, ColumnInv, CoverageInv, [Next]_vars
    PROVE  CoverageInv'
<1>0. UNCHANGED uploadVars \/ UploadStep
  BY DEF Next, vars, ImportStep, RangeStep, OpenForReading, ReadObjectSync,
         PrecomputeByteRanges, ReadObjectAsync, FinishReading, DecodeParquet,
         ConstructCsvReader, ReadCsvChunk, ReadByteRange, ReceiveRange
<1>1. CASE outcome # "success"
  <2>1. reader = "idle"
    BY <1>1 DEF BufferInv
  <2>2. reader' = "idle"
    BY <1>1, <2>1 DEF Next, vars, readVars, ImportStep, RangeStep, OpenForReading,
       ReadObjectSync, PrecomputeByteRanges, ReadObjectAsync, FinishReading, DecodeParquet,
       ConstructCsvReader, ReadCsvChunk, ReadByteRange, ReceiveRange
  <2> QED BY <2>2 DEF CoverageInv
<1>2. CASE outcome = "success"
  <2>1. UNCHANGED <<export, object>>
    BY <1>0, <1>2, SettledObject
  <2>2. ASSUME reader \in {"async", "wait", "decode", "table"},
               DOMAIN buffers' = DOMAIN buffers,
               reader' = "table" => reader = "table" /\ UNCHANGED chunks
        PROVE  CoverageInv'
    BY <2>1, <2>2, Zenon DEF CoverageInv
  <2>3. ASSUME reader' \notin {"async", "wait", "decode", "table"} \/ export.format # "kParquet"
        PROVE  CoverageInv'
    BY <2>1, <2>3, Zenon DEF CoverageInv
  <2>4. CASE OpenForReading \/ ConstructCsvReader \/ ReadByteRange
    <3>1. reader' \notin {"async", "wait", "decode", "table"} \/ export.format # "kParquet"
      BY <2>4 DEF OpenForReading, ConstructCsvReader, ReadByteRange, Ends
    <3> QED BY <2>3, <3>1, Zenon
  <2>5. CASE ReadObjectSync
    <3>1. CASE reader' = "failure" \/ export.format # "kParquet"
      BY <2>3, <3>1
    <3>2. CASE reader' # "failure" /\ export.format = "kParquet"
      <4>1. object # None /\ DOMAIN buffers = {}
        BY <2>5 DEF ReadObjectSync, BufferInv
      <4>2. reader' = "decode" /\ \E d : buffers' = AddBuffer(buffers, <<0, Len(object)>>, d)
        BY <2>5, <3>2 DEF ReadObjectSync, Ends
      <4>3. DOMAIN buffers' = {<<0, Len(object)>>}
        BY <4>1, <4>2 DEF AddBuffer
      <4>4. AllCovered(DOMAIN buffers', Len(object), export)
        BY <1>2, <3>2, <4>1, <4>3, SyncCovers, Zenon
      <4>5. Len(object) \in Nat /\ Len(object) <= kLastByteInFile
        BY <1>2, <3>2, <4>1, ImportedFile, Zenon
      <4>6. reader' # "table"
        BY <4>2
      <4> QED BY <2>1, <4>4, <4>5, <4>6, Zenon DEF CoverageInv
    <3> QED BY <3>1, <3>2
  <2>6. CASE PrecomputeByteRanges
    <3>1. CASE reader' \in {"failure", "crash"} \/ export.format # "kParquet"
      BY <2>3, <3>1
    <3>2. CASE reader' \notin {"failure", "crash"} /\ export.format = "kParquet"
      <4>1. object # None
        BY <2>6 DEF PrecomputeByteRanges, BufferInv
      <4>2. PICK ranges, footer :
               /\ ranges = CalculatePageOffsetsForColumnIds(export.file, export.rowGroups, export.columns)
               /\ footer = FooterRange(export.file)
        OBVIOUS
      <4>3. reader' = "async" /\ \E d : buffers' = AddBuffer([r \in ranges |-> <<>>], footer, d)
        BY <2>6, <3>2, <4>2 DEF PrecomputeByteRanges, Ends
      <4>4. DOMAIN buffers' = ranges \cup {footer}
        BY <4>3 DEF AddBuffer
      <4>5. AllCovered(DOMAIN buffers', Len(object), export)
        BY <1>2, <3>2, <4>1, <4>2, <4>4, AsyncCovers, Zenon
      <4>6. Len(object) \in Nat /\ Len(object) <= kLastByteInFile
        BY <1>2, <3>2, <4>1, ImportedFile, Zenon
      <4>7. reader' # "table"
        BY <4>3
      <4> QED BY <2>1, <4>5, <4>6, <4>7, Zenon DEF CoverageInv
    <3> QED BY <3>1, <3>2
  <2>7. CASE ReadObjectAsync \/ FinishReading
    <3>1. reader \in {"async", "wait"} /\ reader' # "table" /\ UNCHANGED buffers
      BY <2>7 DEF ReadObjectAsync, FinishReading, Ends
    <3> QED BY <2>2, <3>1
  <2>8. CASE RangeStep
    <3>1. reader = "wait" /\ reader' = "wait" /\ DOMAIN buffers' = DOMAIN buffers
      <4>1. PICK r \in requests : ReceiveRange(r)
        BY <2>8 DEF RangeStep
      <4>2. reader = "wait" /\ reader' = "wait" /\ \E d : buffers' = [buffers EXCEPT ![r] = d]
        BY <4>1 DEF ReceiveRange
      <4> QED BY <4>2
    <3> QED BY <2>2, <3>1
  <2>9. CASE DecodeParquet
    <3>1. reader = "decode" /\ UNCHANGED buffers
          /\ DOMAIN chunks' = ToSet(export.rowGroups) \X ToSet(export.columns)
      BY <2>9 DEF DecodeParquet
    <3> QED BY <2>1, <3>1, Zenon DEF CoverageInv
  <2>10. CASE ReadCsvChunk
    <3>1. export.format # "kParquet"
      BY <2>10 DEF ReadCsvChunk, ColumnInv
    <3> QED BY <2>3, <3>1
  <2>11. CASE (UploadStep /\ UNCHANGED readVars) \/ UNCHANGED vars
    <3>1. UNCHANGED <<reader, buffers, chunks>>
      BY <2>11 DEF readVars, vars
    <3> QED BY <2>1, <3>1, Zenon DEF CoverageInv
  <2> QED BY <2>4, <2>5, <2>6, <2>7, <2>8, <2>9, <2>10, <2>11 DEF Next, ImportStep
<1> QED BY <1>1, <1>2

(* The ranges cover what CoveredColumnsAreRead asks them to.               *)
LEMMA CoverageSuffices ==
    ASSUME CoverageInv, CoveredColumnsAreRead
    PROVE  ColumnsAreRead
<1> SUFFICES ASSUME reader = "table" /\ export.format = "kParquet", NEW gc \in DOMAIN chunks
             PROVE  chunks[gc] = Slice(object, ChunkStart(export.file, gc[1], gc[2]),
                                       ChunkStart(export.file, gc[1], gc[2])
                                         + ChunkLength(export.file.groups[gc[1]][gc[2]]))
  BY Zenon DEF ColumnsAreRead
<1>1. /\ Len(object) \in Nat /\ Len(object) <= kLastByteInFile
      /\ AllCovered(DOMAIN buffers, Len(object), export)
      /\ gc \in ToSet(export.rowGroups) \X ToSet(export.columns)
  BY Zenon DEF CoverageInv
<1>2. gc[1] \in ToSet(export.rowGroups) /\ gc[2] \in ToSet(export.columns)
  BY <1>1
<1>3. PICK start, n : /\ start = ChunkStart(export.file, gc[1], gc[2])
                      /\ n = ChunkLength(export.file.groups[gc[1]][gc[2]])
  OBVIOUS
<1>4. CoveredIn(DOMAIN buffers, Len(object), start, n)
  BY <1>1, <1>2, <1>3, Zenon DEF AllCovered
<1>5. ASSUME NEW r \in DOMAIN buffers PROVE Proper(r) /\ r[2] <= Len(object)
  <2>1. r \in Nat \X Nat /\ r[1] < r[2] /\ r[2] <= Len(object)
    BY <1>4, Zenon DEF CoveredIn, RangesWithin
  <2>2. kLastByteInFile \in Nat
    BY StorageAssumption
  <2>3. r[1] < Len(object) /\ r[2] <= kLastByteInFile
    BY <1>1, <2>1, <2>2
  <2> QED BY <2>1, <2>3, Zenon DEF Proper
<1>6. Covered(start, n)
  BY <1>4, <1>5, Zenon DEF CoveredIn, HasByte, Covered
<1>7. Covered(start, n) => chunks[gc] = Slice(object, start, start + n)
  BY <1>3, Zenon DEF CoveredColumnsAreRead
<1> QED BY <1>3, <1>6, <1>7, Zenon

(* A Parquet import that returns has the bytes of every column chunk it    *)
(* asked for: for every file, every choice of row groups and columns and   *)
(* every size of a request, however the ranges were merged and cut.        *)
THEOREM ColumnsAreReadExactly == Spec => []ColumnsAreRead
<1>1. Init => ColumnInv /\ CoverageInv
  <2> SUFFICES ASSUME Init PROVE ColumnInv /\ CoverageInv
      OBVIOUS
  <2>1. reader = "idle"
    BY DEF Init
  <2> QED BY <2>1 DEF ColumnInv, CoveredColumnsAreRead, CoverageInv
<1>2. UploadInv /\ ObjectIsWhole /\ ReadInv /\ BufferInv /\ ColumnInv /\ CoverageInv /\ [Next]_vars
        => ColumnInv' /\ CoverageInv'
  BY ColumnStep, CoverageStep
<1>3. ColumnInv /\ CoverageInv => ColumnsAreRead
  BY CoverageSuffices DEF ColumnInv
<1> QED BY <1>1, <1>2, <1>3, UploadInvariant, StorageInvariant, ObjectsAreWhole,
           BuffersAreExact, PTL DEF Spec
=============================================================================
