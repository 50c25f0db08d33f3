----------------------------- MODULE ByteBuffers -----------------------------
(***************************************************************************)
(* The memory that storage backends read into                              *)
(* (src/lib/storage/io_handle/byte_buffer.cpp), and the stream through     *)
(* which the S3 client writes the body of a response into it               *)
(* (src/lib/storage/backend/stream.cpp).                                   *)
(*                                                                         *)
(* A buffer is [external, size, internal]: the memory of a caller, of      *)
(* which size bytes are used, and memory of its own as an optional, <<>>   *)
(* or <<bytes>>.  No memory of a caller and 0 bytes of it are alike.       *)
(***************************************************************************)
EXTENDS Integers, Sequences

(* The two constructors.                                                   *)
WrapMemory(memory) == [external |-> memory, size |-> Len(memory), internal |-> <<>>]
OwnMemory == [external |-> <<>>, size |-> 0, internal |-> <<<<>>>>]

BufferData(buffer) ==
    IF buffer.internal # <<>> THEN buffer.internal[1]
    ELSE SubSeq(buffer.external, 1, buffer.size)

(* bytes with s from offset on.                                            *)
CopyTo(bytes, offset, s) ==
    [i \in DOMAIN bytes |-> IF i - offset \in DOMAIN s THEN s[i - offset] ELSE bytes[i]]

(* std::vector::resize: new bytes are 0.                                   *)
Zero == "zero"
ResizeVector(bytes, n) == CopyTo([i \in 1 .. n |-> Zero], 0, bytes)

(* A buffer that outgrew the memory of its caller returns to it.           *)
UseExternalDataAgain(buffer, n) ==
    [external |-> CopyTo(buffer.external, 0, SubSeq(buffer.internal[1], 1, n)),
     size |-> n, internal |-> <<>>]

Resize(buffer, n) ==
    LET fits == n <= Len(buffer.external)
    IN  CASE buffer.internal # <<>> /\ buffer.external # <<>> /\ fits -> UseExternalDataAgain(buffer, n)
          [] buffer.internal = <<>> /\ fits -> [buffer EXCEPT !.size = n]
          [] OTHER -> [buffer EXCEPT !.internal = <<ResizeVector(BufferData(buffer), n)>>]

(* std::copy_n to CharData() + offset.                                     *)
CopyN(buffer, offset, s) ==
    IF buffer.internal # <<>> THEN [buffer EXCEPT !.internal[1] = CopyTo(@, offset, s)]
    ELSE [buffer EXCEPT !.external = CopyTo(@, offset, s)]

(***************************************************************************)
(* DelegateStreamBuffer, with the offset of its put pointer.               *)
(***************************************************************************)
Reset(buffer) == [buffer |-> buffer, put |-> 0]

xsputn(stream, s) ==
    LET end == stream.put + Len(s)
        resized == IF end > Len(BufferData(stream.buffer)) THEN Resize(stream.buffer, end) ELSE stream.buffer
    IN  [buffer |-> CopyN(resized, stream.put, s), put |-> end]

(* The factory of CreateGetObjectRequest, called for every attempt.        *)
ResponseStream(buffer) == Reset(Resize(buffer, 0))

(***************************************************************************)
(* The S3 client: an attempt writes a body in two pieces, one of which may *)
(* be empty.  One that it retries may have written a part of the body or   *)
(* an error message.                                                       *)
(***************************************************************************)
WriteBody(buffer, first, second) == xsputn(xsputn(ResponseStream(buffer), first), second).buffer

ErrorBody(n) == [i \in 1 .. n |-> "error"]

Attempts(buffer, body) ==
    {buffer, WriteBody(buffer, SubSeq(body, 1, (Len(body) + 1) \div 2), <<>>),
             WriteBody(buffer, ErrorBody(Len(body) + 1), <<>>)}

GetObject(buffer, body) ==
    {WriteBody(b, SubSeq(body, 1, n), SubSeq(body, n + 1, Len(body))) :
        b \in Attempts(buffer, body), n \in {0, Len(body) \div 2}}

GetObjectFails(buffer) == WriteBody(buffer, ErrorBody(1), <<>>)
=============================================================================
