------------------------------ MODULE ZipFormat ------------------------------
(***************************************************************************)
(* The ZIP archive that stream_zip.py writes and stream_unzip.py reads, as *)
(* a sequence of tokens: a token stands for a signature, a packed struct,  *)
(* one part of a path, or one unit of data.  Numbers that the structs hold *)
(* keep their boundary: Max16 and Max32 are the largest values of a field  *)
(* of 16 and of 32 bits, counted in tokens.  The bounds of 64-bit fields   *)
(* are out of reach of an archive and left out.  A CRC is the data it sums *)
(* up, the CRC of no data being 0 as in the code.                          *)
(***************************************************************************)
EXTENDS Integers, Sequences

CONSTANTS Max16, Max32, ChunkSize

ASSUME ZipAssumption ==
  /\ {Max16, Max32, ChunkSize} \subseteq Nat \ {0}
  /\ Max16 <= Max32

Methods == {"NO_COMPRESSION_32", "NO_COMPRESSION_64", "ZIP_32", "ZIP_64"}
IsZip64(method) == method \in {"NO_COMPRESSION_64", "ZIP_64"}
IsDeflated(method) == method \in {"ZIP_32", "ZIP_64"}

Signature(s) == [sig |-> s]
NameTokens(name) == [i \in 1 .. Len(name) |-> [part |-> name[i]]]
NameOf(tokens) == [i \in 1 .. Len(tokens) |-> tokens[i].part]
Data(bytes) == [i \in 1 .. Len(bytes) |-> [byte |-> bytes[i]]]
BytesOf(tokens) == [i \in 1 .. Len(tokens) |-> tokens[i].byte]

(* The next block of evenly_sized: the generator joins what the iterator   *)
(* yields until it holds ChunkSize or the iterator ends.                   *)
Smaller(a, b) == IF a <= b THEN a ELSE b
NextBlock(rest) == SubSeq(rest, 1, Smaller(ChunkSize, Len(rest)))
AfterBlock(rest) == SubSeq(rest, ChunkSize + 1, Len(rest))

(* A number in a 32-bit field, or the mark that the zip64 extra holds it.  *)
(* The structs whose numbers have 64 bits carry the field long.            *)
Field32(method, n) == IF IsZip64(method) THEN Max32 ELSE n

LocalExtra(method, csize, usize) ==
  IF IsZip64(method)
    THEN <<[long |-> TRUE, usize |-> usize, csize |-> csize]>>
    ELSE <<>>

(* The local header of one file: with a data descriptor the sizes and the  *)
(* CRC follow the data, so the header holds zeros.                         *)
LocalHeader(method, name, crc, size) ==
  LET extra == LocalExtra(method, size, size)
  IN <<Signature("local"),
       [dd |-> IsDeflated(method), deflate |-> IsDeflated(method), crc |-> crc,
        csize |-> Field32(method, size), usize |-> Field32(method, size),
        namelen |-> Len(name), extralen |-> Len(extra)]>>
     \o NameTokens(name) \o extra

DataDescriptor(method, crc, csize, usize) ==
  <<Signature("descriptor"),
    IF IsZip64(method)
      THEN [long |-> TRUE, crc |-> crc, csize |-> csize, usize |-> usize]
      ELSE [crc |-> crc, csize |-> csize, usize |-> usize]>>

(* One entry of the central directory.                                     *)
CentralHeader(method, name, crc, csize, usize, at) ==
  <<Signature("central"),
    [deflate |-> IsDeflated(method), crc |-> crc,
     csize |-> Field32(method, csize), usize |-> Field32(method, usize),
     offset |-> Field32(method, at), namelen |-> Len(name)]>>
  \o NameTokens(name)
  \o (IF IsZip64(method)
        THEN <<[long |-> TRUE, usize |-> usize, csize |-> csize,
                offset |-> at]>>
        ELSE <<>>)

(* The end records; with zip64 a record and its locator come first, and the *)
(* 32-bit record is filled with marks.                                     *)
EndRecords(zip64, entries, cdsize, cdstart, cdend) ==
  IF zip64
    THEN <<Signature("end64"),
           [long |-> TRUE, entries |-> entries, cdsize |-> cdsize,
            cdstart |-> cdstart],
           Signature("locator"), [end64 |-> cdend],
           Signature("end"),
           [entries |-> Max16, cdsize |-> Max32, cdstart |-> Max32]>>
    ELSE <<Signature("end"),
           [entries |-> entries, cdsize |-> cdsize, cdstart |-> cdstart]>>
=============================================================================
