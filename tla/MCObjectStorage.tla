-------------------------- MODULE MCObjectStorage --------------------------
(* Instances of ObjectStorage: small objects, exported to every backend.   *)
EXTENDS ObjectStorage

(* Tables of one or two columns.  A field is a letter, a digit, a word     *)
(* that names a type, or two digits.                                       *)
Fields == {<<"a">>, <<"1">>, <<"int">>, <<"1", "2">>}
Names(n) == [i \in 1 .. n |-> <<"h">>]
Tables(width, count) ==
    {[names |-> Names(width), rows |-> r] : r \in [1 .. count -> [1 .. width -> Fields]]}

Guessing == [bufferSize |-> 12, guess |-> TRUE, hasHeader |-> FALSE, schema |-> <<>>]
Given(schema) == [bufferSize |-> 10, guess |-> FALSE, hasHeader |-> TRUE, schema |-> schema]

Export(backend, format, writes) ==
    [backend |-> backend, format |-> format, writes |-> writes, stored |-> FALSE]

CsvExport(backend, table, options) ==
    Export(backend, "kCsv", CsvWrites(table)) @@ [table |-> table, options |-> options]

LongTable == [names |-> Names(1), rows |-> [i \in 1 .. 8 |-> <<<<"1", "2">>>>]]

CsvExports ==
    {CsvExport("filesystem", t, [Guessing EXCEPT !.bufferSize = n]) :
        t \in Tables(2, 2) \cup Tables(1, 3), n \in {6, 9, 20}}
    \cup {CsvExport("filesystem", t, [Given(s) EXCEPT !.bufferSize = n]) :
        t \in Tables(2, 2), s \in {<<"kInt", "kString">>, <<"kInt", "kInt">>}, n \in {7, 10}}
    \cup {CsvExport(b, t, Guessing) : b \in {"s3", "dynamodb"}, t \in Tables(1, 2)}
    \cup {CsvExport("filesystem", LongTable, Guessing)}

(* Column chunks with and without a dictionary, files old and new, large   *)
(* and small footers.                                                      *)
Chunk(dictionary, data) == [dictionary |-> dictionary, data |-> data]
Groups == {<<Chunk(0, 5), Chunk(4, 8), Chunk(0, 20)>>, <<Chunk(2, 2), Chunk(0, 3), Chunk(0, 9)>>,
           <<Chunk(0, 30), Chunk(3, 3), Chunk(4, 1)>>}
Files == {[groups |-> g, metadata |-> m[1], old |-> m[2]] :
             g \in [1 .. 2 -> Groups], m \in {<<3, TRUE>>, <<3, FALSE>>, <<30, FALSE>>}}

ParquetObject(backend, f, rowGroups, columns) ==
    [Export(backend, "kParquet", ParquetWrites(f)) EXCEPT !.stored = TRUE]
    @@ [file |-> f, rowGroups |-> rowGroups, columns |-> columns]

SmallFile == [groups |-> <<<<Chunk(0, 3), Chunk(1, 4)>>>>, metadata |-> 3, old |-> FALSE]

ParquetObjects ==
    {ParquetObject("s3", f, g, c) :
        f \in Files, g \in {<<1, 2>>, <<2>>}, c \in {<<1, 2, 3>>, <<1, 3>>, <<3, 1>>, <<2>>}}
    \cup {ParquetObject(b, f, <<1>>, <<2>>) : b \in {"filesystem", "dynamodb"}, f \in Files \cup {SmallFile}}

Uploads ==
    {Export("s3", "none", w) : w \in {<<<<1, 2, 3>>, <<4, 5, 6, 7, 8, 9>>, <<10>>>>,
                                      <<<<1, 2, 3, 4, 5>>, <<>>, <<6, 7, 8>>>>}}

RawObjects ==
    {Export(b, "raw", <<<<"a", "b">>, <<>>, <<"c", "d", "e">>>>) :
        b \in {"filesystem", "dynamodb", "s3"}}

AllExports == CsvExports \cup ParquetObjects \cup Uploads \cup RawObjects
SmallRanges == {r \in ({127} \cup 0 .. 6) \X ({127} \cup 0 .. 6) : r[1] <= r[2]}
=============================================================================
