------------------------------- MODULE Archive -------------------------------
(***************************************************************************)
(* pipeman/file.py: a folder is archived (archive_local_folder), the       *)
(* archive is kept in a store, and it is extracted (extract_archive_to) by *)
(* a later call, into a folder that may already hold files.  In between    *)
(* the store may lose the tail of the file, which nothing in the code      *)
(* syncs, or damage a unit of its data.  Libraries, datasets and outputs   *)
(* of components all go this way; the program uses NO_COMPRESSION_64 only, *)
(* the other methods are those of the library.                             *)
(***************************************************************************)
EXTENDS StreamZip, StreamUnzip, FiniteSets, SequencesExt

CONSTANTS Trees,    \* the folders: sets of files with name, content, method
          Contents  \* what the destination may hold before

(* A folder has finitely many files, of different names. No byte is -1,    *)
(* which stands for a damaged one.                                         *)
ASSUME ArchiveAssumption ==
  \A tree \in Trees :
    /\ IsFiniteSet(tree)
    /\ tree \subseteq [name : Seq(STRING), content : Seq(Nat), method : Methods]
    /\ \A f, g \in tree : f.name = g.name => f = g

VARIABLES phase, source, before, damage

vars == <<zipVars, unzipVars, phase, source, before, damage>>

(* The files below directory d.  A path is a sequence of parts.            *)
Below(d, f) == IsStrictPrefix(d, f.name)

(* traverse_directory: all of a directory is yielded before what follows   *)
(* it, in the order of os.scandir, which is arbitrary.  An empty directory *)
(* yields nothing.                                                         *)
TraverseDirectory(tree) ==
  {s \in SetToSeqs(tree) :
     \A i, j \in 1 .. Len(s) : \A d \in Prefixes(s[i].name) :
       (i < j /\ Below(d, s[i]) /\ Below(d, s[j])) =>
         \A k \in i .. j : Below(d, s[k])}

Init ==
  /\ source \in Trees
  /\ \E s \in TraverseDirectory(source) : ZipInit(s)
  /\ UnzipInit
  /\ before \in Contents
  /\ dest = before
  /\ disk = <<>>
  /\ phase = "archive"
  /\ damage = "none"

(* archive_local_folder pulls the chunks of stream_zip and writes them.    *)
ArchiveStep ==
  /\ phase = "archive"
  /\ ZipNext
  /\ UNCHANGED <<unzipVars, phase, source, before, damage>>

(* It returns, and the archive is stored; when the generator raises the    *)
(* error leaves archive_local_folder and nothing is stored.                *)
ArchiveReturns ==
  /\ phase = "archive"
  /\ \/ wpc = "done" /\ phase' = "stored" /\ disk' = out
     \/ wpc = "raised" /\ phase' = "failed" /\ UNCHANGED disk
  /\ UNCHANGED <<zipVars, rpc, readerVars, dest, source, before, damage>>

LoseTail ==
  /\ phase = "stored"
  /\ damage = "none"
  /\ \E n \in 0 .. Len(disk) - 1 : disk' = SubSeq(disk, 1, n)
  /\ damage' = "tail"
  /\ UNCHANGED <<zipVars, rpc, readerVars, dest, phase, source, before>>

DamageData ==
  /\ phase = "stored"
  /\ damage = "none"
  /\ \E i \in 1 .. Len(disk) :
       /\ DOMAIN disk[i] = {"byte"}
       /\ disk' = [disk EXCEPT ![i] = [byte |-> -1]]
  /\ damage' = "data"
  /\ UNCHANGED <<zipVars, rpc, readerVars, dest, phase, source, before>>

(* extract_archive_to: goto_dir, then the loop over stream_unzip, of which *)
(* UnzipNext has the writes.                                               *)
StartExtract ==
  /\ phase = "stored"
  /\ phase' = "extract"
  /\ Get("signature", 1)
  /\ UNCHANGED <<zipVars, disk, taken, chunk, roff, hdr, fname, body, dest,
                 source, before, damage>>

ExtractStep ==
  /\ phase = "extract"
  /\ UnzipNext
  /\ UNCHANGED <<zipVars, phase, source, before, damage>>

Next ==
  \/ ArchiveStep \/ ArchiveReturns \/ LoseTail \/ DamageData
  \/ StartExtract \/ ExtractStep

(* The two calls run to their end, one after the other.                    *)
Spec ==
  /\ Init /\ [][Next]_vars
  /\ WF_vars(ArchiveStep \/ ArchiveReturns \/ StartExtract \/ ExtractStep)
-----------------------------------------------------------------------------
TypeOK ==
  /\ phase \in {"archive", "stored", "failed", "extract"}
  /\ wpc \in {"next", "buffer", "stored", "deflate", "central", "done",
              "raised"}
  /\ rpc \in {"idle", "signature", "header", "name", "extra", "body", "drain",
              "done", "raised"}
  /\ damage \in {"none", "tail", "data"}
  /\ listed \in 0 .. Len(central)
  /\ taken \in 0 .. Len(disk)
  /\ roff \in 0 .. Len(chunk)
  /\ body.num \in 0 .. body.size

Named(name) == CHOOSE f \in source : f.name = name
Whole(f) == f.name \in DOMAIN dest /\ dest[f.name] = f.content

(* An extraction that ends without an error has restored every file,       *)
(* whatever happened to the archive: a loss of its tail goes unnoticed     *)
(* only when all of the files came before it.                              *)
AcceptedIsComplete ==
  rpc = "done" => \A f \in source : Whole(f)

(* The files that the archive does not name are left as they were, and of  *)
(* those it names only the last one that was opened may be broken: the     *)
(* folder that a failed extraction leaves behind.                          *)
OnlyLastIsBroken ==
  \A name \in DOMAIN dest :
    \/ name \in DOMAIN before /\ dest[name] = before[name]
    \/ name = fname /\ \E f \in source : f.name = name
    \/ \E f \in source : f.name = name /\ Whole(f)

(* The folders whose undamaged archive the reader takes: those with a file *)
(* (the archive of no file starts with the end record, which the reader    *)
(* does not expect), stored without compression, and none of them of the   *)
(* size that stands for "see the zip64 extra" where there is no extra.     *)
Readable ==
  /\ source # {}
  /\ \A f \in source :
       /\ ~IsDeflated(f.method)
       /\ f.method = "NO_COMPRESSION_32" => Len(f.content) # Max32

(* stream_unzip reads what stream_zip writes, at every position of the     *)
(* chunks of the three loops.                                              *)
WrittenIsRead ==
  (phase = "stored" /\ damage = "none" /\ Readable)
    ~> (rpc = "done" \/ damage # "none")

(* Whenever the reader asks for a signature the archive has one there, or  *)
(* has ended: what the reader returned at the end of a file is exactly     *)
(* what did not belong to it.                                              *)
Position == taken - Len(chunk) + roff
ReaderIsAligned ==
  (rpc = "signature" /\ want = 1 /\ Position < Len(disk))
    => "sig" \in DOMAIN disk[Position + 1]
=============================================================================
