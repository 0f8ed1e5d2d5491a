------------------------------ MODULE StreamZip ------------------------------
(***************************************************************************)
(* stream_zip.py: the generator that writes an archive.  files is what the *)
(* caller's iterator still has to yield, entry holds the locals of the     *)
(* function that writes one file, out is everything yielded so far and     *)
(* offset the running total that _ keeps.  A write of the model is a run   *)
(* of yields with no check in between.                                     *)
(***************************************************************************)
EXTENDS ZipFormat, TLC

VARIABLES wpc, files, entry, zip64, out, offset, central, cdstart, listed

zipVars == <<wpc, files, entry, zip64, out, offset, central, cdstart, listed>>

NoEntry == [none |-> TRUE]

ZipInit(fs) ==
  /\ wpc = "next"
  /\ files = fs
  /\ entry = NoEntry
  /\ zip64 = FALSE
  /\ out = <<>>
  /\ offset = 0
  /\ central = <<>>
  /\ cdstart = 0
  /\ listed = 0

(* Mutated form: a chunk is yielded without passing through _.             *)
EmitUncounted(tokens) == out' = out \o tokens /\ UNCHANGED offset
Emit(tokens) == out' = out \o tokens /\ offset' = offset + Len(tokens)

(* _raise_if_beyond with the 32-bit maximum, for the methods that have it. *)
Beyond32Late(method, n) == ~IsZip64(method) /\ n > Max32 + 1
Beyond32(method, n) == ~IsZip64(method) /\ n > Max32

RaiseZipError ==
  /\ wpc' = "raised"
  /\ UNCHANGED <<entry, out, offset, central, cdstart, listed>>

(* The loop over the files, up to the first block of data: a name or an    *)
(* offset that does not fit ends the generator.  A deflated file has its   *)
(* local header written before its data is read.                           *)
TakeFile ==
  /\ wpc = "next"
  /\ files # <<>>
  /\ files' = Tail(files)
  /\ LET f == Head(files) IN
     /\ zip64' = (zip64 \/ IsZip64(f.method))
     /\ \/ /\ Len(f.name) > Max16 \/ Beyond32(f.method, offset)
           /\ RaiseZipError
        \/ /\ Len(f.name) <= Max16 /\ ~Beyond32(f.method, offset)
           /\ entry' = [name |-> f.name, method |-> f.method, at |-> offset,
                        rest |-> f.content, read |-> <<>>, left |-> <<>>,
                        held |-> <<>>, csize |-> 0]
           /\ IF IsDeflated(f.method)
                THEN /\ Emit(LocalHeader(f.method, f.name, <<>>, 0))
                     /\ wpc' = "deflate"
                ELSE wpc' = "buffer" /\ UNCHANGED <<out, offset>>
           /\ UNCHANGED <<central, cdstart, listed>>

(* _no_compression_buffered_data_size_crc_32 takes one block: all of them  *)
(* are kept, since the size and the CRC precede the data.                  *)
BufferBlock ==
  /\ wpc = "buffer"
  /\ entry.rest # <<>>
  /\ LET read == entry.read \o NextBlock(entry.rest) IN
     \/ /\ Beyond32(entry.method, Len(read))
        /\ RaiseZipError
     \/ /\ ~Beyond32(entry.method, Len(read))
        /\ entry' = [entry EXCEPT !.read = read, !.rest = AfterBlock(@)]
        /\ UNCHANGED <<wpc, out, offset, central, cdstart, listed>>
  /\ UNCHANGED <<files, zip64>>

(* The local header of a file that is stored, once all of it is read.      *)
WriteStoredHeader ==
  /\ wpc = "buffer"
  /\ entry.rest = <<>>
  /\ Emit(LocalHeader(entry.method, entry.name, entry.read, Len(entry.read)))
  /\ entry' = [entry EXCEPT !.left = entry.read, !.csize = Len(entry.read)]
  /\ wpc' = "stored"
  /\ UNCHANGED <<files, zip64, central, cdstart, listed>>

WriteStoredBlock ==
  /\ wpc = "stored"
  /\ entry.left # <<>>
  /\ Emit(Data(NextBlock(entry.left)))
  /\ entry' = [entry EXCEPT !.left = AfterBlock(@)]
  /\ UNCHANGED <<wpc, files, zip64, central, cdstart, listed>>

(* The header that the file will have in the central directory is packed   *)
(* when its data is out.                                                   *)
EntryOf(e, csize) ==
  [name |-> e.name, method |-> e.method, crc |-> e.read, csize |-> csize,
   usize |-> Len(e.read), at |-> e.at]

FinishStored ==
  /\ wpc = "stored"
  /\ entry.left = <<>>
  /\ central' = Append(central, EntryOf(entry, entry.csize))
  /\ entry' = NoEntry
  /\ wpc' = "next"
  /\ UNCHANGED <<files, zip64, out, offset, cdstart, listed>>

(* _zip_data takes one block.  The compressor, external code, holds back   *)
(* any part of what it was given (held) and yields the rest.               *)
DeflateBlock ==
  /\ wpc = "deflate"
  /\ entry.rest # <<>>
  /\ LET read == entry.read \o NextBlock(entry.rest)
         given == entry.held \o NextBlock(entry.rest)
     IN \E k \in 0 .. Len(given) :
          \/ /\ \/ Beyond32(entry.method, Len(read))
                \/ Beyond32(entry.method, entry.csize + k)
             /\ RaiseZipError
          \/ /\ ~Beyond32(entry.method, Len(read))
             /\ ~Beyond32(entry.method, entry.csize + k)
             /\ entry' = [entry EXCEPT !.read = read, !.rest = AfterBlock(@),
                                       !.held = SubSeq(given, k + 1, Len(given)),
                                       !.csize = @ + k]
             /\ Emit(Data(SubSeq(given, 1, k)))
             /\ UNCHANGED <<wpc, central, cdstart, listed>>
  /\ UNCHANGED <<files, zip64>>

(* flush() yields what was held and an end mark; the descriptor follows.   *)
FinishDeflated ==
  /\ wpc = "deflate"
  /\ entry.rest = <<>>
  /\ LET csize == entry.csize + Len(entry.held) + 1 IN
     \/ /\ Beyond32(entry.method, csize)
        /\ RaiseZipError
     \/ /\ ~Beyond32(entry.method, csize)
        /\ Emit(Data(entry.held) \o <<[byte |-> 0]>>
                \o DataDescriptor(entry.method, entry.read, csize,
                                  Len(entry.read)))
        /\ central' = Append(central, EntryOf(entry, csize))
        /\ entry' = NoEntry
        /\ wpc' = "next"
        /\ UNCHANGED <<cdstart, listed>>
  /\ UNCHANGED <<files, zip64>>

(* The checks before the central directory, on archives without zip64.     *)
StartDirectory ==
  /\ wpc = "next"
  /\ files = <<>>
  /\ \/ /\ ~zip64
        /\ offset > Max32 \/ Len(central) > Max16
        /\ RaiseZipError
     \/ /\ zip64 \/ (offset <= Max32 /\ Len(central) <= Max16)
        /\ wpc' = "central"
        /\ cdstart' = offset
        /\ UNCHANGED <<entry, out, offset, central, listed>>
  /\ UNCHANGED <<files, zip64>>

(* One entry of the central directory; its size is checked when it is out. *)
WriteEntry ==
  /\ wpc = "central"
  /\ listed < Len(central)
  /\ LET c == central[listed + 1] IN
     Emit(CentralHeader(c.method, c.name, c.crc, c.csize, c.usize, c.at))
  /\ listed' = listed + 1
  /\ wpc' = IF ~zip64 /\ offset' - cdstart > Max32 THEN "raised" ELSE wpc
  /\ UNCHANGED <<files, entry, zip64, central, cdstart>>

WriteEnd ==
  /\ wpc = "central"
  /\ listed = Len(central)
  /\ Emit(EndRecords(zip64, Len(central), offset - cdstart, cdstart, offset))
  /\ wpc' = "done"
  /\ UNCHANGED <<files, entry, zip64, central, cdstart, listed>>

ZipNext ==
  \/ TakeFile \/ BufferBlock \/ WriteStoredHeader \/ WriteStoredBlock
  \/ FinishStored \/ DeflateBlock \/ FinishDeflated
  \/ StartDirectory \/ WriteEntry \/ WriteEnd
-----------------------------------------------------------------------------
(* Properties of what is written.                                          *)

(* What the directory says of a file is where and what the file is: the    *)
(* offset of its entry is that of its local header, and behind the header  *)
(* come as many tokens of data as the entry says, before the next header.  *)
EntryIsTrue(c) ==
  LET header == LocalHeader(c.method, c.name, c.crc, c.csize)
      data == c.at + Len(header)
  IN /\ out[c.at + 1] = Signature("local")
     /\ SubSeq(out, c.at + 3, c.at + 2 + Len(c.name)) = NameTokens(c.name)
     /\ \A i \in data + 1 .. data + c.csize : DOMAIN out[i] = {"byte"}
     /\ "sig" \in DOMAIN out[data + c.csize + 1]

(* The directory of a finished archive is true, starts where the end       *)
(* record says and is as long (offset and the sizes that stream_zip keeps  *)
(* while its chunks pass through several generators).                      *)
DirectoryIsTrue ==
  wpc = "done" =>
    LET end == IF zip64 THEN out[Len(out) - 4] ELSE out[Len(out)]
        last == Len(out) - (IF zip64 THEN 6 ELSE 2)
    IN /\ offset = Len(out)
       /\ \A i \in 1 .. Len(central) : EntryIsTrue(central[i])
       /\ end.entries = Len(central)
       /\ end.cdstart + end.cdsize = last
       /\ out[end.cdstart + 1] = Signature(IF central # <<>> THEN "central"
                                           ELSE "end")
       /\ zip64 => out[Len(out) - 2].end64 = last

(* No number is packed that its field cannot hold: struct.pack would raise *)
(* an error that is none of the overflow errors.                           *)
FieldsFit ==
  \A i \in 1 .. Len(out) :
    LET t == out[i] IN
    "long" \in DOMAIN t \/
      /\ \A f \in DOMAIN t \cap {"csize", "usize", "offset", "cdsize", "cdstart"} :
           t[f] <= Max32
      /\ \A f \in DOMAIN t \cap {"namelen", "entries"} : t[f] <= Max16
=============================================================================
