----------------------------- MODULE StreamUnzip -----------------------------
(***************************************************************************)
(* stream_unzip.py (the copy in stream_unzip_orig, which file.py imports): *)
(* the generator that reads an archive from an iterator of chunks.  disk   *)
(* is what the iterator reads from, ReadSize tokens at a time, and taken   *)
(* what it has yielded; chunk and roff are the pair that the byte readers  *)
(* share; want is what the current get_num still lacks, got what it has.   *)
(* rpc says which part of the archive is read, hdr and fname are the       *)
(* header and the name of the current file, body the data of that file and *)
(* dest what the caller has written of it, and of the files before it.     *)
(***************************************************************************)
EXTENDS ZipFormat

CONSTANTS ReadSize, UnzipSize

ASSUME UnzipAssumption == {ReadSize, UnzipSize} \subseteq Nat \ {0}

VARIABLES rpc, disk, taken, chunk, roff, want, got, hdr, fname, body, dest

readerVars == <<taken, chunk, roff, want, got, hdr, fname, body>>
unzipVars == <<rpc, disk, readerVars, dest>>

NoHeader == [none |-> TRUE]
NoBody == [size |-> 0, num |-> 0, unused |-> 0, sum |-> <<>>]

UnzipInit ==
  /\ rpc = "idle"
  /\ taken = 0
  /\ chunk = <<>>
  /\ roff = 0
  /\ want = 0
  /\ got = <<>>
  /\ hdr = NoHeader
  /\ fname = <<>>
  /\ body = NoBody

(* One part of the archive is read with get_num(n), then comes the next.   *)
Get(part, n) == rpc' = part /\ want' = n /\ got' = <<>>

(* The generator raises; its caller's file stays as far as it is written.  *)
RaiseUnzipError ==
  /\ rpc' = "raised"
  /\ UNCHANGED <<want, got, hdr, fname, body, dest>>

(* The reader needs more than the current chunk has.                       *)
Wanting == want > 0 \/ rpc = "drain" \/ (rpc = "body" /\ body.num < body.size)
Reading == rpc \in {"signature", "header", "name", "extra", "body", "drain"}

(* next(it): another chunk, or the iterator has ended.  Only the loop that *)
(* drains the central directory takes the end for what it is.              *)
Fill ==
  /\ Reading
  /\ Wanting
  /\ roff = Len(chunk)
  /\ \/ /\ taken < Len(disk)
        /\ chunk' = SubSeq(disk, taken + 1, Smaller(taken + ReadSize, Len(disk)))
        /\ taken' = taken + Len(chunk')
        /\ roff' = 0
        /\ UNCHANGED <<rpc, want, got, hdr, fname, body, dest>>
     \/ /\ taken = Len(disk)
        /\ rpc # "drain"
        /\ RaiseUnzipError
        /\ UNCHANGED <<taken, chunk, roff>>
     \/ /\ taken = Len(disk)
        /\ rpc = "drain"
        /\ rpc' = "done"
        /\ UNCHANGED <<readerVars, dest>>
  /\ UNCHANGED disk

(* One piece of _yield_num.                                                *)
TakePiece ==
  /\ want > 0
  /\ Reading
  /\ roff < Len(chunk)
  /\ LET n == Smaller(want, Smaller(Len(chunk) - roff, UnzipSize)) IN
     /\ roff' = roff + n
     /\ want' = want - n
     /\ got' = got \o SubSeq(chunk, roff + 1, roff + n)
  /\ UNCHANGED <<rpc, disk, taken, chunk, hdr, fname, body, dest>>

(* all(): a local header, the central directory, or an error.              *)
ReadSignature ==
  /\ rpc = "signature"
  /\ want = 0
  /\ \/ /\ got = <<Signature("local")>>
        /\ Get("header", 1)
        /\ UNCHANGED <<hdr, fname, body, dest>>
     \/ /\ got = <<Signature("central")>>
        /\ Get("drain", 0)
        /\ UNCHANGED <<hdr, fname, body, dest>>
     \/ /\ got \notin {<<Signature("local")>>, <<Signature("central")>>}
        /\ RaiseUnzipError
  /\ UNCHANGED <<disk, taken, chunk, roff>>

(* yield_all() while the central directory is dropped.                     *)
Drain ==
  /\ rpc = "drain"
  /\ roff < Len(chunk)
  /\ roff' = roff + Smaller(Len(chunk) - roff, UnzipSize)
  /\ UNCHANGED <<rpc, disk, taken, chunk, want, got, hdr, fname, body, dest>>

ReadHeader ==
  /\ rpc = "header"
  /\ want = 0
  /\ hdr' = got[1]
  /\ Get("name", got[1].namelen)
  /\ UNCHANGED <<disk, taken, chunk, roff, fname, body, dest>>

ReadName ==
  /\ rpc = "name"
  /\ want = 0
  /\ fname' = NameOf(got)
  /\ Get("extra", hdr.extralen)
  /\ UNCHANGED <<disk, taken, chunk, roff, hdr, body, dest>>

(* Both sizes are the mark: the true size is in the zip64 extra.           *)
MarkedZip64 == hdr.csize = Max32 /\ hdr.usize = Max32

(* A file whose size the header does not know: the data descriptor and     *)
(* deflate leave uncompressed_size None, which get_decompressor_none then  *)
(* subtracts from (TypeError, on the first chunk).                         *)
SizeUnknown == hdr.dd /\ hdr.deflate
TrueSize == IF MarkedZip64 THEN got[1].usize ELSE hdr.usize

(* The caller opens the file it is told of for writing, which empties it.  *)
(* Mutated form: it is opened for appending.                               *)
OpenedForAppending ==
  [n \in DOMAIN dest \cup {fname} |-> IF n \in DOMAIN dest THEN dest[n] ELSE <<>>]
Opened ==
  [n \in DOMAIN dest \cup {fname} |-> IF n = fname THEN <<>> ELSE dest[n]]

(* The counters of a fresh get_decompressor_none.  Mutated form: they are  *)
(* those of the last file, and num_unused is not set back.                 *)
ReusedDecompressor(n) == [body EXCEPT !.size = n, !.num = 0, !.sum = <<>>]
Decompressor(n) == [NoBody EXCEPT !.size = n]

(* The rest of yield_file, up to its return.                               *)
ReadExtra ==
  /\ rpc = "extra"
  /\ want = 0
  /\ \/ /\ MarkedZip64 /\ got = <<>>
        /\ RaiseUnzipError
     \/ /\ ~(MarkedZip64 /\ got = <<>>)
        /\ dest' = Opened
        /\ IF SizeUnknown
             THEN rpc' = "raised" /\ UNCHANGED <<want, got, body>>
             ELSE /\ Get("body", 0)
                  /\ body' = Decompressor(TrueSize)
        /\ UNCHANGED <<hdr, fname>>
  /\ UNCHANGED <<disk, taken, chunk, roff>>

(* One piece of yield_all goes through the decompressor, which passes on   *)
(* what belongs to the file and counts what does not; the caller writes.   *)
ReadBody ==
  /\ rpc = "body"
  /\ body.num < body.size
  /\ roff < Len(chunk)
  /\ LET piece == Smaller(Len(chunk) - roff, UnzipSize)
         keep == Smaller(piece, body.size - body.num)
         data == SubSeq(chunk, roff + 1, roff + keep)
     IN /\ roff' = roff + piece
        /\ body' = [body EXCEPT !.num = @ + keep, !.unused = piece - keep,
                                !.sum = @ \o BytesOf(data)]
        /\ dest' = [dest EXCEPT ![fname] = @ \o BytesOf(data)]
  /\ UNCHANGED <<rpc, disk, taken, chunk, want, got, hdr, fname>>

(* What is left of the last piece, for _return_unused, and the comparison  *)
(* of the CRC with that of the header.  Mutated forms: nothing is left, or *)
(* the CRC is ignored, as read_data_and_crc_32_ignore would do.            *)
NothingUnused == 0
Unused == body.unused
CrcIgnored == TRUE
CrcMatches == body.sum = hdr.crc

FinishBody ==
  /\ rpc = "body"
  /\ body.num = body.size
  /\ roff' = roff - Unused
  /\ \/ ~CrcMatches /\ RaiseUnzipError
     \/ CrcMatches /\ Get("signature", 1)
        /\ UNCHANGED <<hdr, fname, body, dest>>
  /\ UNCHANGED <<disk, taken, chunk>>

UnzipNext ==
  \/ Fill \/ TakePiece \/ ReadSignature \/ Drain \/ ReadHeader \/ ReadName
  \/ ReadExtra \/ ReadBody \/ FinishBody
=============================================================================
