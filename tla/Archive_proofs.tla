----------------------------- MODULE Archive_proofs -----------------------------
(***************************************************************************)
(* What is archived is restored, for every folder, every size of field and *)
(* of chunk, and wherever the archive is cut short or damaged.             *)
(*                                                                         *)
(* The writer: the files that the central directory will list lie one      *)
(* behind the other in the output, each where its entry says, and the file *)
(* in progress lies behind them as far as it has come (WriterPhase). Each  *)
(* file of the folder is ahead, in progress or listed (Provenance). The    *)
(* reader: it is at a known part of the k-th file, which starts where the  *)
(* writer put it, and the files before it are restored (ReaderPhase).      *)
(***************************************************************************)
EXTENDS Archive, SequenceTheorems, FiniteSetTheorems, TLAPS

(* A sequence, of whatever. *)
IsSeq(s) == s \in Seq(Range(s))

(* p is o with more behind it. *)
Grown(o, p) == Len(o) <= Len(p) /\ \A i \in 1 .. Len(o) : p[i] = o[i]

------------------------------------------------------------------------------
(* Where a file lies. c is an entry of the directory or the one in         *)
(* progress, o the output.                                                 *)

ExtraLen(c) == IF IsZip64(c.method) THEN 1 ELSE 0
HeaderLen(c) == 2 + Len(c.name) + ExtraLen(c)
DataAt(c) == c.at + HeaderLen(c)
EndOf(c) == DataAt(c) + c.csize + (IF IsDeflated(c.method) THEN 2 ELSE 0)

LocalStruct(c, crc, size) ==
  [dd |-> IsDeflated(c.method), deflate |-> IsDeflated(c.method), crc |-> crc,
   csize |-> Field32(c.method, size), usize |-> Field32(c.method, size),
   namelen |-> Len(c.name), extralen |-> ExtraLen(c)]

HeaderLaid(o, c, crc, size) ==
  /\ DataAt(c) <= Len(o)
  /\ o[c.at + 1] = Signature("local")
  /\ o[c.at + 2] = LocalStruct(c, crc, size)
  /\ \A i \in 1 .. Len(c.name) : o[c.at + 2 + i] = [part |-> c.name[i]]
  /\ IsZip64(c.method) =>
       o[DataAt(c)] = [long |-> TRUE, usize |-> size, csize |-> size]

BytesLaid(o, from, to) == \A i \in from + 1 .. to : DOMAIN o[i] = {"byte"}
DataLaid(o, from, bytes, n) ==
  \A i \in 1 .. n : o[from + i] = [byte |-> bytes[i]]

StoredLaid(o, c) ==
  /\ c.csize = Len(c.crc)
  /\ HeaderLaid(o, c, c.crc, c.csize)
  /\ DataLaid(o, DataAt(c), c.crc, c.csize)
DeflatedLaid(o, c) ==
  /\ HeaderLaid(o, c, <<>>, 0)
  /\ BytesLaid(o, DataAt(c), DataAt(c) + c.csize)
  /\ o[EndOf(c) - 1] = Signature("descriptor")
FileLaid(o, c) ==
  /\ EndOf(c) <= Len(o)
  /\ IsDeflated(c.method) => DeflatedLaid(o, c)
  /\ ~IsDeflated(c.method) => StoredLaid(o, c)

(* What is packed fits. *)
EntryFits(c) ==
  /\ Len(c.name) <= Max16
  /\ ~IsZip64(c.method) => c.at <= Max32 /\ c.csize <= Max32

FileName == Seq(STRING)
Content == Seq(Nat)
ListedEntry ==
  [name : FileName, method : Methods, crc : Content, csize : Nat, usize : Nat,
   at : Nat]
OpenEntry ==
  [name : FileName, method : Methods, at : Nat, rest : Content,
   read : Content, left : Content, held : Content, csize : Nat]

FilesEnd(cs) == IF cs = <<>> THEN 0 ELSE EndOf(cs[Len(cs)])
Start(cs, i) == IF i <= Len(cs) THEN cs[i].at ELSE FilesEnd(cs)

FilesLaid ==
  /\ central \in Seq(ListedEntry)
  /\ \A i \in 1 .. Len(central) :
       /\ FileLaid(out, central[i])
       /\ EntryFits(central[i])
       /\ ~IsZip64(central[i].method) => central[i].usize <= Max32
       /\ central[i].usize = Len(central[i].crc)
       /\ central[i].at = IF i = 1 THEN 0 ELSE EndOf(central[i - 1])

------------------------------------------------------------------------------
(* The writer *)

Writing == wpc \in {"buffer", "stored", "deflate"}

EntryOpen ==
  /\ entry \in OpenEntry
  /\ entry.at = FilesEnd(central)
  /\ EntryFits(entry)
  /\ ~IsZip64(entry.method) => Len(entry.read) <= Max32

BufferPhase ==
  /\ EntryOpen /\ ~IsDeflated(entry.method)
  /\ Len(out) = entry.at
StoredPhase ==
  /\ EntryOpen /\ ~IsDeflated(entry.method)
  /\ entry.rest = <<>> /\ entry.csize = Len(entry.read)
  /\ Len(entry.left) <= Len(entry.read)
  /\ LET n == Len(entry.read) - Len(entry.left) IN
     /\ \A i \in 1 .. Len(entry.left) : entry.left[i] = entry.read[n + i]
     /\ Len(out) = DataAt(entry) + n
     /\ HeaderLaid(out, entry, entry.read, Len(entry.read))
     /\ DataLaid(out, DataAt(entry), entry.read, n)
DeflatePhase ==
  /\ EntryOpen /\ IsDeflated(entry.method)
  /\ Len(out) = DataAt(entry) + entry.csize
  /\ HeaderLaid(out, entry, <<>>, 0)
  /\ BytesLaid(out, DataAt(entry), Len(out))

(* The archive behind the files. *)
DirectoryStarted ==
  /\ files = <<>> /\ cdstart = FilesEnd(central)
  /\ listed \in 0 .. Len(central)
DirectoryPhase ==
  /\ DirectoryStarted
  /\ IF listed = 0 THEN Len(out) = cdstart
     ELSE cdstart < Len(out) /\ out[cdstart + 1] = Signature("central")
  /\ ~zip64 => /\ Len(central) <= Max16
               /\ cdstart <= Max32 /\ Len(out) - cdstart <= Max32
DonePhase ==
  /\ DirectoryStarted
  /\ cdstart < Len(out)
  /\ out[cdstart + 1] = Signature(IF central # <<>> THEN "central" ELSE "end")
  /\ LET last == Len(out) - (IF zip64 THEN 6 ELSE 2)
         end == IF zip64 THEN out[Len(out) - 4] ELSE out[Len(out)]
     IN /\ end.entries = Len(central)
        /\ end.cdstart = cdstart /\ cdstart + end.cdsize = last
        /\ zip64 => out[Len(out) - 2].end64 = last

WriterPhase ==
  /\ IsSeq(out) /\ offset = Len(out)
  /\ cdstart \in Nat
  /\ listed \in 0 .. Len(central)
  /\ zip64 \in BOOLEAN
  /\ wpc \in {"next", "buffer", "stored", "deflate", "central", "done",
              "raised"}
  /\ wpc = "next" => Len(out) = FilesEnd(central)
  /\ wpc = "buffer" => BufferPhase
  /\ wpc = "stored" => StoredPhase
  /\ wpc = "deflate" => DeflatePhase
  /\ wpc = "central" => DirectoryPhase
  /\ wpc = "done" => DonePhase
  /\ wpc \in {"next", "buffer", "stored", "deflate"} => listed = 0
  /\ zip64 => central # <<>> \/ wpc \in {"buffer", "stored", "deflate", "raised"}

(* Each file of the folder is in one place. *)
FileOf(c) == [name |-> c.name, content |-> c.crc, method |-> c.method]
Current == [name |-> entry.name, content |-> entry.read \o entry.rest,
            method |-> entry.method]
Ahead == {files[i] : i \in 1 .. Len(files)}
Behind == {FileOf(central[i]) : i \in 1 .. Len(central)}

Provenance ==
  /\ source \in Trees
  /\ files \in Seq(source)
  /\ \A i, j \in 1 .. Len(files) : i # j => files[i] # files[j]
  /\ Behind \subseteq source /\ Behind \cap Ahead = {}
  /\ \A i, j \in 1 .. Len(central) :
       i # j => FileOf(central[i]) # FileOf(central[j])
  /\ Writing => Current \in source \ (Ahead \cup Behind)
  /\ wpc # "raised" =>
       source \subseteq Ahead \cup Behind \cup (IF Writing THEN {Current} ELSE {})

WriterInv == FilesLaid /\ WriterPhase /\ Provenance /\ FieldsFit

------------------------------------------------------------------------------
(* The reader *)

OnDisk(d, o) ==
  /\ Len(d) <= Len(o)
  /\ \A i \in 1 .. Len(d) :
       \/ d[i] = o[i]
       \/ d[i] = [byte |-> -1] /\ DOMAIN o[i] = {"byte"}

BufferIs ==
  /\ IsSeq(disk) /\ IsSeq(chunk)
  /\ taken \in 0 .. Len(disk) /\ Len(chunk) <= taken
  /\ roff \in 0 .. Len(chunk)
  /\ \A i \in 1 .. Len(chunk) : chunk[i] = disk[taken - Len(chunk) + i]

(* got is what was read from p on, of a part of n tokens. *)
Part(p, n) ==
  /\ want \in Nat /\ IsSeq(got)
  /\ Len(got) + want = n
  /\ Position = p + Len(got)
  /\ \A i \in 1 .. Len(got) : got[i] = disk[p + i]

BodyOf(c) ==
  /\ want = 0
  /\ body.size = c.csize
  /\ body.unused \in 0 .. roff
  /\ body.num < body.size => body.unused = 0
  /\ Position = DataAt(c) + body.num + body.unused
  /\ IsSeq(body.sum) /\ Len(body.sum) = body.num
  /\ \A i \in 1 .. body.num : body.sum[i] = disk[DataAt(c) + i].byte
  /\ fname \in DOMAIN dest /\ dest[fname] = body.sum

InFile(c) ==
  \/ rpc = "header" /\ Part(c.at + 1, 1)
  \/ rpc = "name" /\ hdr = out[c.at + 2] /\ Part(c.at + 2, Len(c.name))
  \/ /\ rpc = "extra" /\ hdr = out[c.at + 2] /\ fname = c.name
     /\ Part(c.at + 2 + Len(c.name), ExtraLen(c))
  \/ /\ rpc = "body" /\ hdr = out[c.at + 2] /\ fname = c.name
     /\ ~IsDeflated(c.method)
     /\ BodyOf(c)
ReaderAt(k) ==
  \/ rpc = "signature" /\ Part(Start(central, k), 1)
  \/ rpc = "drain" /\ want = 0 /\ k = Len(central) + 1
  \/ k <= Len(central) /\ InFile(central[k])

(* The files before the k-th are restored, the k-th is perhaps begun, and  *)
(* the others are as they were.                                            *)
Restored(c) ==
  c.name \in DOMAIN dest /\ dest[c.name] = c.crc /\ ~IsDeflated(c.method)
DestAt(k) ==
  /\ \A j \in 1 .. k - 1 : Restored(central[j])
  /\ \A n \in DOMAIN dest :
       \/ n \in DOMAIN before /\ dest[n] = before[n]
       \/ \E j \in 1 .. k - 1 : n = central[j].name
       \/ k <= Len(central) /\ rpc = "body" /\ n = central[k].name

BodyTyped ==
  /\ DOMAIN body = {"size", "num", "unused", "sum"}
  /\ body.size \in Nat /\ body.num \in 0 .. body.size

ReaderPhase ==
  /\ BufferIs /\ BodyTyped
  /\ phase \in {"archive", "stored", "failed", "extract"}
  /\ damage \in {"none", "tail", "data"}
  /\ phase # "extract" => /\ rpc = "idle" /\ dest = before
                          /\ taken = 0 /\ chunk = <<>>
  /\ phase \in {"archive", "failed"} => disk = <<>>
  /\ phase \in {"stored", "extract"} => wpc = "done" /\ OnDisk(disk, out)
  /\ phase = "extract" =>
       \/ \E k \in 1 .. Len(central) + 1 : ReaderAt(k) /\ DestAt(k)
       \/ rpc = "raised" /\ OnlyLastIsBroken
       \/ rpc = "done" /\ DestAt(Len(central) + 1)

ArchiveInv == WriterInv /\ ReaderPhase
------------------------------------------------------------------------------
(* Sequences *)

LEMMA SeqIsSeq ==
  ASSUME NEW S, NEW s \in Seq(S)
  PROVE  IsSeq(s)
BY SeqOfRange DEF IsSeq

LEMMA IsSeqFacts ==
  ASSUME NEW s, IsSeq(s)
  PROVE  Len(s) \in Nat /\ DOMAIN s = 1 .. Len(s)
BY LenProperties DEF IsSeq

LEMMA EqualSeqs ==
  ASSUME NEW s, NEW t, IsSeq(s), IsSeq(t), Len(s) = Len(t),
         \A i \in 1 .. Len(s) : s[i] = t[i]
  PROVE  s = t
<1>. DEFINE S == Range(s) \cup Range(t)
<1>1. s \in Seq(S)  BY SeqMonotonic DEF IsSeq
<1>2. t \in Seq(S)  BY SeqMonotonic DEF IsSeq
<1>. QED  BY <1>1, <1>2, SeqEqual

(* u is s with t behind it. *)
Joins(u, s, t) ==
  /\ IsSeq(u) /\ Len(u) = Len(s) + Len(t)
  /\ \A i \in 1 .. Len(s) : u[i] = s[i]
  /\ \A i \in 1 .. Len(t) : u[Len(s) + i] = t[i]

LEMMA Joined ==
  ASSUME NEW s, NEW t, IsSeq(s), IsSeq(t)
  PROVE  Joins(s \o t, s, t)
<1>. DEFINE S == Range(s) \cup Range(t)
<1>1. s \in Seq(S) /\ t \in Seq(S)  BY SeqMonotonic DEF IsSeq
<1>2. /\ s \o t \in Seq(S)
      /\ Len(s \o t) = Len(s) + Len(t)
      /\ \A i \in 1 .. Len(s) + Len(t) :
           (s \o t)[i] = IF i <= Len(s) THEN s[i] ELSE t[i - Len(s)]
  BY <1>1, ConcatProperties
<1>3. IsSeq(s \o t)  BY <1>2, SeqIsSeq
<1>4. Len(s) \in Nat /\ Len(t) \in Nat  BY IsSeqFacts
<1>. HIDE DEF S
<1>5. \A i \in 1 .. Len(s) : (s \o t)[i] = s[i]  BY <1>2, <1>4
<1>6. ASSUME NEW i \in 1 .. Len(t)
      PROVE  (s \o t)[Len(s) + i] = t[i]
  <2>1. Len(s) + i \in 1 .. Len(s) + Len(t) /\ ~(Len(s) + i <= Len(s))
    BY <1>4
  <2>2. Len(s) + i - Len(s) = i  BY <1>4
  <2>. QED  BY <2>1, <2>2, <1>2
<1>. QED  BY <1>2, <1>3, <1>5, <1>6 DEF Joins

LEMMA JoinedIsGrown ==
  ASSUME NEW s, NEW t, NEW u, IsSeq(s), IsSeq(t), Joins(u, s, t)
  PROVE  Grown(s, u)
BY IsSeqFacts DEF Joins, Grown

(* u is s from m to n. *)
Cuts(u, s, m, n) ==
  /\ IsSeq(u)
  /\ Len(u) = IF m <= n THEN n - m + 1 ELSE 0
  /\ \A i \in 1 .. n - m + 1 : u[i] = s[m + i - 1]

LEMMA Cut ==
  ASSUME NEW s, IsSeq(s), NEW m \in Nat \ {0}, NEW n \in Nat, n <= Len(s)
  PROVE  Cuts(SubSeq(s, m, n), s, m, n)
<1>1. Len(s) \in Nat  BY IsSeqFacts
<1>2. \A i \in m .. n : s[i] \in Range(s)
  BY <1>1, ElementOfSeq DEF IsSeq
<1>3. /\ SubSeq(s, m, n) \in Seq(Range(s))
      /\ Len(SubSeq(s, m, n)) = IF m <= n THEN n - m + 1 ELSE 0
      /\ \A i \in 1 .. n - m + 1 : SubSeq(s, m, n)[i] = s[m + i - 1]
  BY <1>2, SubSeqProperties
<1>. QED  BY <1>3, SeqIsSeq DEF Cuts

LEMMA CutIn ==
  ASSUME NEW S, NEW s \in Seq(S), NEW m \in Nat \ {0}, NEW n \in Nat,
         n <= Len(s)
  PROVE  SubSeq(s, m, n) \in Seq(S)
<1>1. \A i \in m .. n : s[i] \in S  BY ElementOfSeq, LenProperties
<1>. QED  BY <1>1, SubSeqProperties

LEMMA NothingIsSeq == IsSeq(<<>>) /\ Len(<<>>) = 0
BY EmptySeq, SeqIsSeq

LEMMA OneToken ==
  ASSUME NEW a
  PROVE  IsSeq(<<a>>) /\ Len(<<a>>) = 1 /\ <<a>>[1] = a
<1>1. <<a>> \in Seq({a})  OBVIOUS
<1>. QED  BY <1>1, SeqIsSeq

LEMMA TwoTokens ==
  ASSUME NEW a, NEW b
  PROVE  /\ IsSeq(<<a, b>>) /\ Len(<<a, b>>) = 2
         /\ <<a, b>>[1] = a /\ <<a, b>>[2] = b
<1>1. <<a, b>> \in Seq({a, b})  OBVIOUS
<1>. QED  BY <1>1, SeqIsSeq

LEMMA SixTokens ==
  ASSUME NEW a, NEW b, NEW c, NEW d, NEW e, NEW f
  PROVE  /\ IsSeq(<<a, b, c, d, e, f>>) /\ Len(<<a, b, c, d, e, f>>) = 6
         /\ <<a, b, c, d, e, f>>[1] = a /\ <<a, b, c, d, e, f>>[2] = b
         /\ <<a, b, c, d, e, f>>[3] = c /\ <<a, b, c, d, e, f>>[4] = d
         /\ <<a, b, c, d, e, f>>[5] = e /\ <<a, b, c, d, e, f>>[6] = f
<1>1. <<a, b, c, d, e, f>> \in Seq({a, b, c, d, e, f})  OBVIOUS
<1>. QED  BY <1>1, SeqIsSeq

LEMMA NamesAreSeqs ==
  ASSUME NEW name \in FileName
  PROVE  /\ IsSeq(NameTokens(name)) /\ Len(NameTokens(name)) = Len(name)
         /\ \A i \in 1 .. Len(name) : NameTokens(name)[i] = [part |-> name[i]]
<1>1. Len(name) \in Nat  BY LenProperties DEF FileName
<1>. DEFINE S == {[part |-> name[i]] : i \in 1 .. Len(name)}
<1>2. NameTokens(name) \in [1 .. Len(name) -> S]  BY DEF NameTokens
<1>3. NameTokens(name) \in Seq(S)  BY <1>1, <1>2, SeqDef
<1>4. Len(NameTokens(name)) = Len(name)  BY <1>1, <1>2, <1>3, LenProperties
<1>. QED  BY <1>3, <1>4, SeqIsSeq DEF NameTokens

LEMMA DataIsSeq ==
  ASSUME NEW bytes \in Content
  PROVE  /\ IsSeq(Data(bytes)) /\ Len(Data(bytes)) = Len(bytes)
         /\ \A i \in 1 .. Len(bytes) : Data(bytes)[i] = [byte |-> bytes[i]]
<1>1. Len(bytes) \in Nat  BY LenProperties DEF Content
<1>. DEFINE S == {[byte |-> bytes[i]] : i \in 1 .. Len(bytes)}
<1>2. Data(bytes) \in [1 .. Len(bytes) -> S]  BY DEF Data
<1>3. Data(bytes) \in Seq(S)  BY <1>1, <1>2, SeqDef
<1>4. Len(Data(bytes)) = Len(bytes)  BY <1>1, <1>2, <1>3, LenProperties
<1>. QED  BY <1>3, <1>4, SeqIsSeq DEF Data

LEMMA BytesAreSeqs ==
  ASSUME NEW tokens, IsSeq(tokens)
  PROVE  /\ IsSeq(BytesOf(tokens)) /\ Len(BytesOf(tokens)) = Len(tokens)
         /\ \A i \in 1 .. Len(tokens) : BytesOf(tokens)[i] = tokens[i].byte
<1>1. Len(tokens) \in Nat  BY IsSeqFacts
<1>. DEFINE S == {tokens[i].byte : i \in 1 .. Len(tokens)}
<1>2. BytesOf(tokens) \in [1 .. Len(tokens) -> S]  BY DEF BytesOf
<1>3. BytesOf(tokens) \in Seq(S)  BY <1>1, <1>2, SeqDef
<1>4. Len(BytesOf(tokens)) = Len(tokens)  BY <1>1, <1>2, <1>3, LenProperties
<1>. QED  BY <1>3, <1>4, SeqIsSeq DEF BytesOf

LEMMA NameIsRead ==
  ASSUME NEW name \in FileName, NEW tokens, Len(tokens) = Len(name),
         \A i \in 1 .. Len(name) : tokens[i] = [part |-> name[i]]
  PROVE  NameOf(tokens) = name
<1>1. ASSUME NEW i \in 1 .. Len(name)
      PROVE  tokens[i].part = name[i]
  <2>1. tokens[i] = [part |-> name[i]]  OBVIOUS
  <2>2. [part |-> name[i]].part = name[i]  OBVIOUS
  <2>. QED  BY <2>1, <2>2, Zenon
<1>2. NameOf(tokens) = [i \in 1 .. Len(name) |-> name[i]]
  BY <1>1, Zenon DEF NameOf
<1>3. name = [i \in 1 .. Len(name) |-> name[i]]
  BY LenProperties DEF FileName
<1>. QED  BY <1>2, <1>3

------------------------------------------------------------------------------
(* What is packed *)

TokenFits(t) ==
  "long" \in DOMAIN t \/
    /\ \A f \in DOMAIN t \cap {"csize", "usize", "offset", "cdsize", "cdstart"} :
         t[f] <= Max32
    /\ \A f \in DOMAIN t \cap {"namelen", "entries"} : t[f] <= Max16
AllFit(o) == \A i \in 1 .. Len(o) : TokenFits(o[i])

LEMMA SmallTokensFit ==
  /\ \A s : TokenFits(Signature(s))
  /\ \A x : TokenFits([part |-> x]) /\ TokenFits([byte |-> x])
  /\ \A x : TokenFits([end64 |-> x])
<1>1. \A s : DOMAIN Signature(s) = {"sig"}  BY DEF Signature
<1>2. \A x : /\ DOMAIN [part |-> x] = {"part"}
             /\ DOMAIN [byte |-> x] = {"byte"}
             /\ DOMAIN [end64 |-> x] = {"end64"}
  OBVIOUS
<1>3. ASSUME NEW t, \E f \in {"sig", "part", "byte", "end64"} : DOMAIN t = {f}
      PROVE  TokenFits(t)
  BY <1>3 DEF TokenFits
<1>. QED  BY <1>1, <1>2, <1>3

LEMMA JoinedFit ==
  ASSUME NEW s, NEW t, NEW u, IsSeq(s), IsSeq(t), Joins(u, s, t),
         AllFit(s), AllFit(t)
  PROVE  AllFit(u)
<1>1. ASSUME NEW i \in 1 .. Len(u)  PROVE TokenFits(u[i])
  <2>1. Len(s) \in Nat /\ Len(t) \in Nat /\ Len(u) = Len(s) + Len(t)
    BY IsSeqFacts DEF Joins
  <2>2. CASE i <= Len(s)
    <3>1. i \in 1 .. Len(s)  BY <2>1, <2>2
    <3>2. u[i] = s[i]  BY <3>1 DEF Joins
    <3>. QED  BY <3>1, <3>2 DEF AllFit
  <2>3. CASE ~(i <= Len(s))
    <3>1. PICK j \in 1 .. Len(t) : i = Len(s) + j
      <4>1. i - Len(s) \in 1 .. Len(t) /\ i = Len(s) + (i - Len(s))
        BY <2>1, <2>3
      <4>. QED  BY <4>1
    <3>2. u[i] = t[j]  BY <3>1 DEF Joins
    <3>. QED  BY <3>1, <3>2 DEF AllFit
  <2>. QED  BY <2>2, <2>3
<1>. QED  BY <1>1 DEF AllFit

LEMMA LocalStructFits ==
  ASSUME NEW c, c.name \in FileName, NEW crc, NEW size \in Nat,
         Len(c.name) <= Max16, ~IsZip64(c.method) => size <= Max32
  PROVE  TokenFits(LocalStruct(c, crc, size))
<1>1. PICK t : t = LocalStruct(c, crc, size)  OBVIOUS
<1>2. Field32(c.method, size) <= Max32  BY ZipAssumption DEF Field32
<1>3. /\ DOMAIN t = {"dd", "deflate", "crc", "csize", "usize", "namelen",
                     "extralen"}
      /\ t.csize = Field32(c.method, size) /\ t.usize = Field32(c.method, size)
      /\ t.namelen = Len(c.name)
  BY <1>1 DEF LocalStruct
<1>4. ASSUME NEW f \in DOMAIN t \cap {"csize", "usize", "offset", "cdsize",
                                      "cdstart"}
      PROVE  t[f] <= Max32
  BY <1>2, <1>3
<1>5. ASSUME NEW f \in DOMAIN t \cap {"namelen", "entries"}
      PROVE  t[f] <= Max16
  BY <1>3
<1>. QED  BY <1>1, <1>4, <1>5 DEF TokenFits

(* h is the local header of c, token by token. *)
HeaderIs(h, c, crc, size) ==
  /\ IsSeq(h) /\ Len(h) = HeaderLen(c)
  /\ h[1] = Signature("local")
  /\ h[2] = LocalStruct(c, crc, size)
  /\ \A i \in 1 .. Len(c.name) : h[2 + i] = [part |-> c.name[i]]
  /\ IsZip64(c.method) =>
       h[HeaderLen(c)] = [long |-> TRUE, usize |-> size, csize |-> size]

LEMMA HeaderTokens ==
  ASSUME NEW c, c.name \in FileName, NEW crc, NEW size,
         NEW h, h = LocalHeader(c.method, c.name, crc, size)
  PROVE  HeaderIs(h, c, crc, size)
<1>. DEFINE long == [long |-> TRUE, usize |-> size, csize |-> size]
<1>. HIDE DEF long
<1>1. PICK extra : extra = LocalExtra(c.method, size, size)  OBVIOUS
<1>2. PICK name : name = NameTokens(c.name)  OBVIOUS
<1>3. PICK first : first = <<Signature("local"), LocalStruct(c, crc, size)>>
  OBVIOUS
<1>4. PICK both : both = first \o name  OBVIOUS
<1>5. /\ IsSeq(extra) /\ Len(extra) = ExtraLen(c)
      /\ IsZip64(c.method) => extra[1] = long
  <2>1. CASE IsZip64(c.method)
    <3>1. extra = <<long>>  BY <1>1, <2>1 DEF LocalExtra, long
    <3>2. IsSeq(<<long>>) /\ Len(<<long>>) = 1 /\ <<long>>[1] = long
      BY OneToken
    <3>. QED  BY <2>1, <3>1, <3>2 DEF ExtraLen
  <2>2. CASE ~IsZip64(c.method)
    BY <1>1, <2>2, NothingIsSeq DEF LocalExtra, ExtraLen
  <2>. QED  BY <2>1, <2>2
<1>6. h = both \o extra
  BY <1>1, <1>2, <1>3, <1>4, <1>5 DEF LocalHeader, LocalStruct
<1>7. /\ IsSeq(first) /\ Len(first) = 2
      /\ first[1] = Signature("local") /\ first[2] = LocalStruct(c, crc, size)
  BY <1>3, TwoTokens
<1>8. /\ IsSeq(name) /\ Len(name) = Len(c.name) /\ Len(c.name) \in Nat
      /\ \A i \in 1 .. Len(c.name) : name[i] = [part |-> c.name[i]]
  BY <1>2, NamesAreSeqs, LenProperties DEF FileName
<1>9. /\ IsSeq(both) /\ Len(both) = 2 + Len(c.name)
      /\ both[1] = first[1] /\ both[2] = first[2]
      /\ \A i \in 1 .. Len(c.name) : both[2 + i] = name[i]
  <2>1. /\ IsSeq(both) /\ Len(both) = Len(first) + Len(name)
        /\ \A i \in 1 .. Len(first) : both[i] = first[i]
        /\ \A i \in 1 .. Len(name) : both[Len(first) + i] = name[i]
    <3>1. Joins(both, first, name)  BY <1>4, <1>7, <1>8, Joined
    <3>. QED  BY <3>1 DEF Joins
  <2>. QED  BY <1>7, <1>8, <2>1
<1>10. ExtraLen(c) \in 0 .. 1 /\ (IsZip64(c.method) => ExtraLen(c) = 1)
  BY DEF ExtraLen
<1>11. /\ IsSeq(h) /\ Len(h) = HeaderLen(c)
       /\ \A i \in 1 .. 2 + Len(c.name) : h[i] = both[i]
       /\ \A i \in 1 .. ExtraLen(c) : h[2 + Len(c.name) + i] = extra[i]
  <2>1. /\ IsSeq(h) /\ Len(h) = Len(both) + Len(extra)
        /\ \A i \in 1 .. Len(both) : h[i] = both[i]
        /\ \A i \in 1 .. Len(extra) : h[Len(both) + i] = extra[i]
    <3>1. Joins(h, both, extra)  BY <1>5, <1>6, <1>9, Joined
    <3>. QED  BY <3>1 DEF Joins
  <2>. QED  BY <1>5, <1>9, <2>1 DEF HeaderLen
<1>12. h[1] = both[1] /\ h[2] = both[2]
  BY <1>8, <1>11
<1>13. \A i \in 1 .. Len(c.name) : h[2 + i] = both[2 + i]
  BY <1>8, <1>11
<1>14. ASSUME IsZip64(c.method)  PROVE h[HeaderLen(c)] = long
  <2>1. HeaderLen(c) = 2 + Len(c.name) + 1 /\ 1 \in 1 .. ExtraLen(c)
    BY <1>10, <1>14 DEF HeaderLen
  <2>2. h[2 + Len(c.name) + 1] = extra[1]  BY <1>11, <2>1
  <2>. QED  BY <1>5, <1>14, <2>1, <2>2
<1>. QED  BY <1>7, <1>8, <1>9, <1>11, <1>12, <1>13, <1>14
     DEF long, HeaderIs

LEMMA HeaderFits ==
  ASSUME NEW c, c.name \in FileName, NEW crc, NEW size \in Nat,
         NEW h, h = LocalHeader(c.method, c.name, crc, size),
         Len(c.name) <= Max16, ~IsZip64(c.method) => size <= Max32
  PROVE  AllFit(h)
<1>0. HeaderIs(h, c, crc, size)  BY HeaderTokens
<1>1. /\ Len(h) = HeaderLen(c)
      /\ h[1] = Signature("local") /\ h[2] = LocalStruct(c, crc, size)
      /\ \A i \in 1 .. Len(c.name) : h[2 + i] = [part |-> c.name[i]]
      /\ IsZip64(c.method) =>
           h[HeaderLen(c)] = [long |-> TRUE, usize |-> size, csize |-> size]
  BY <1>0 DEF HeaderIs
<1>2. Len(c.name) \in Nat  BY LenProperties DEF FileName
<1>3. ASSUME NEW i \in 1 .. Len(h)  PROVE TokenFits(h[i])
  <2>1. CASE i = 1  BY <1>1, <2>1, SmallTokensFit
  <2>2. CASE i = 2  BY <1>1, <2>2, LocalStructFits
  <2>3. CASE i > 2 /\ i <= 2 + Len(c.name)
    <3>1. PICK j \in 1 .. Len(c.name) : i = 2 + j
      <4>1. i - 2 \in 1 .. Len(c.name) /\ i = 2 + (i - 2)  BY <1>2, <2>3
      <4>. QED  BY <4>1
    <3>. QED  BY <1>1, <3>1, SmallTokensFit
  <2>4. CASE i > 2 + Len(c.name)
    <3>1. i <= HeaderLen(c)  BY <1>1
    <3>2. ExtraLen(c) = 1 /\ IsZip64(c.method)
      <4>1. i <= 2 + Len(c.name) + ExtraLen(c)  BY <3>1 DEF HeaderLen
      <4>2. CASE IsZip64(c.method)  BY <4>2 DEF ExtraLen
      <4>3. CASE ~IsZip64(c.method)
        <5>1. ExtraLen(c) = 0  BY <4>3 DEF ExtraLen
        <5>. QED  BY <1>2, <2>4, <4>1, <5>1
      <4>. QED  BY <4>2, <4>3
    <3>3. i = HeaderLen(c)  BY <1>2, <2>4, <3>1, <3>2 DEF HeaderLen
    <3>4. h[i] = [long |-> TRUE, usize |-> size, csize |-> size]
      BY <1>1, <3>2, <3>3
    <3>5. "long" \in DOMAIN [long |-> TRUE, usize |-> size, csize |-> size]
      OBVIOUS
    <3>. QED  BY <3>4, <3>5 DEF TokenFits
  <2>. QED  BY <1>2, <2>1, <2>2, <2>3, <2>4
<1>. QED  BY <1>3 DEF AllFit

(* An entry of the central directory. *)
CentralStruct(c) ==
  [deflate |-> IsDeflated(c.method), crc |-> c.crc,
   csize |-> Field32(c.method, c.csize), usize |-> Field32(c.method, c.usize),
   offset |-> Field32(c.method, c.at), namelen |-> Len(c.name)]

LEMMA CentralStructFits ==
  ASSUME NEW c \in ListedEntry, EntryFits(c),
         ~IsZip64(c.method) => c.usize <= Max32
  PROVE  TokenFits(CentralStruct(c))
<1>1. PICK t : t = CentralStruct(c)  OBVIOUS
<1>2. PICK cs, us, at : /\ cs = Field32(c.method, c.csize)
                        /\ us = Field32(c.method, c.usize)
                        /\ at = Field32(c.method, c.at)
  OBVIOUS
<1>3. cs <= Max32 /\ us <= Max32 /\ at <= Max32
  BY <1>2, ZipAssumption DEF Field32, EntryFits
<1>4. /\ DOMAIN t = {"deflate", "crc", "csize", "usize", "offset", "namelen"}
      /\ t.csize = cs /\ t.usize = us /\ t.offset = at
      /\ t.namelen = Len(c.name)
  BY <1>1, <1>2 DEF CentralStruct
<1>5. ASSUME NEW f \in DOMAIN t \cap {"csize", "usize", "offset", "cdsize",
                                      "cdstart"}
      PROVE  t[f] <= Max32
  BY <1>3, <1>4
<1>6. ASSUME NEW f \in DOMAIN t \cap {"namelen", "entries"}
      PROVE  t[f] <= Max16
  BY <1>4 DEF EntryFits
<1>. QED  BY <1>1, <1>5, <1>6 DEF TokenFits

LEMMA CentralTokens ==
  ASSUME NEW c \in ListedEntry, EntryFits(c),
         ~IsZip64(c.method) => c.usize <= Max32,
         NEW h, h = CentralHeader(c.method, c.name, c.crc, c.csize, c.usize, c.at)
  PROVE  /\ IsSeq(h) /\ Len(h) >= 1 /\ AllFit(h)
         /\ h[1] = Signature("central")
<1>. DEFINE long == [long |-> TRUE, usize |-> c.usize, csize |-> c.csize,
                     offset |-> c.at]
<1>0. c.name \in FileName  BY DEF ListedEntry
<1>. HIDE DEF long
<1>1. PICK extra : extra = IF IsZip64(c.method) THEN <<long>> ELSE <<>>
  OBVIOUS
<1>2. PICK name : name = NameTokens(c.name)  OBVIOUS
<1>3. PICK first : first = <<Signature("central"), CentralStruct(c)>>
  OBVIOUS
<1>4. PICK both : both = first \o name  OBVIOUS
<1>5. IsSeq(extra) /\ AllFit(extra)
  <2>1. CASE IsZip64(c.method)
    <3>1. extra = <<long>>  BY <1>1, <2>1
    <3>2. IsSeq(extra) /\ Len(extra) = 1 /\ extra[1] = long
      BY <3>1, OneToken
    <3>3. TokenFits(long)  BY DEF TokenFits, long
    <3>. QED  BY <3>2, <3>3 DEF AllFit
  <2>2. CASE ~IsZip64(c.method)
    <3>1. IsSeq(extra) /\ Len(extra) = 0  BY <1>1, <2>2, NothingIsSeq
    <3>. QED  BY <3>1 DEF AllFit
  <2>. QED  BY <2>1, <2>2
<1>6. h = both \o extra
  BY <1>1, <1>2, <1>3, <1>4 DEF CentralHeader, CentralStruct, long
<1>7. /\ IsSeq(first) /\ Len(first) = 2
      /\ first[1] = Signature("central") /\ first[2] = CentralStruct(c)
  BY <1>3, TwoTokens
<1>8. /\ IsSeq(name) /\ Len(name) = Len(c.name) /\ Len(c.name) \in Nat
      /\ \A i \in 1 .. Len(c.name) : name[i] = [part |-> c.name[i]]
  BY <1>0, <1>2, NamesAreSeqs, LenProperties DEF FileName
<1>9. AllFit(first)
  <2>1. TokenFits(first[1]) /\ TokenFits(first[2])
    BY <1>7, SmallTokensFit, CentralStructFits
  <2>. QED  BY <1>7, <2>1 DEF AllFit
<1>10. AllFit(name)  BY <1>8, SmallTokensFit DEF AllFit
<1>11. Joins(both, first, name)  BY <1>4, <1>7, <1>8, Joined
<1>12. IsSeq(both) /\ Len(both) >= 2 /\ both[1] = first[1]
  BY <1>7, <1>8, <1>11 DEF Joins
<1>13. AllFit(both)  BY <1>7, <1>8, <1>9, <1>10, <1>11, JoinedFit
<1>14. Joins(h, both, extra)  BY <1>5, <1>6, <1>12, Joined
<1>15. AllFit(h)  BY <1>5, <1>12, <1>13, <1>14, JoinedFit
<1>16. Len(both) \in Nat /\ Len(extra) \in Nat  BY <1>5, <1>12, IsSeqFacts
<1>17. IsSeq(h) /\ Len(h) >= 1 /\ h[1] = both[1]
  BY <1>12, <1>14, <1>16 DEF Joins
<1>. QED  BY <1>7, <1>12, <1>15, <1>17

LEMMA DescriptorTokens ==
  ASSUME NEW method, NEW crc, NEW csize \in Nat, NEW usize \in Nat,
         ~IsZip64(method) => csize <= Max32 /\ usize <= Max32,
         NEW h, h = DataDescriptor(method, crc, csize, usize)
  PROVE  /\ IsSeq(h) /\ Len(h) = 2 /\ AllFit(h)
         /\ h[1] = Signature("descriptor")
<1>. DEFINE long == [long |-> TRUE, crc |-> crc, csize |-> csize,
                     usize |-> usize]
            short == [crc |-> crc, csize |-> csize, usize |-> usize]
<1>1. PICK t : t = IF IsZip64(method) THEN long ELSE short  OBVIOUS
<1>2. h = <<Signature("descriptor"), t>>  BY <1>1 DEF DataDescriptor
<1>3. TokenFits(t)
  <2>1. CASE IsZip64(method)
    <3>1. "long" \in DOMAIN t  BY <1>1, <2>1
    <3>. QED  BY <3>1 DEF TokenFits
  <2>2. CASE ~IsZip64(method)
    <3>1. /\ DOMAIN t = {"crc", "csize", "usize"}
          /\ t.csize = csize /\ t.usize = usize
      BY <1>1, <2>2
    <3>2. \A f \in DOMAIN t \cap {"csize", "usize", "offset", "cdsize",
                                  "cdstart"} : t[f] <= Max32
      BY <2>2, <3>1
    <3>3. \A f \in DOMAIN t \cap {"namelen", "entries"} : t[f] <= Max16
      BY <3>1
    <3>. QED  BY <3>2, <3>3 DEF TokenFits
  <2>. QED  BY <2>1, <2>2
<1>4. /\ IsSeq(h) /\ Len(h) = 2
      /\ h[1] = Signature("descriptor") /\ h[2] = t
  BY <1>2, TwoTokens
<1>5. TokenFits(h[1]) /\ TokenFits(h[2])  BY <1>3, <1>4, SmallTokensFit
<1>. QED  BY <1>4, <1>5 DEF AllFit

(* The end records, the last token but four or the last one having what    *)
(* the directory is.                                                       *)
EndsWith(h, zip, entries, cdsize, start, end) ==
  /\ IsSeq(h) /\ Len(h) = (IF zip THEN 6 ELSE 2) /\ AllFit(h)
  /\ h[1] = Signature(IF zip THEN "end64" ELSE "end")
  /\ LET e == IF zip THEN h[2] ELSE h[Len(h)]
     IN e.entries = entries /\ e.cdsize = cdsize /\ e.cdstart = start
  /\ zip => h[4].end64 = end

LEMMA EndTokens ==
  ASSUME NEW zip \in BOOLEAN, NEW entries \in Nat, NEW cdsize \in Nat,
         NEW start \in Nat, NEW end \in Nat,
         ~zip => entries <= Max16 /\ cdsize <= Max32 /\ start <= Max32,
         NEW h, h = EndRecords(zip, entries, cdsize, start, end)
  PROVE  EndsWith(h, zip, entries, cdsize, start, end)
<1>1. CASE zip
  <2>1. PICK t, u, v :
          /\ t = [long |-> TRUE, entries |-> entries, cdsize |-> cdsize,
                  cdstart |-> start]
          /\ u = [end64 |-> end]
          /\ v = [entries |-> Max16, cdsize |-> Max32, cdstart |-> Max32]
    OBVIOUS
  <2>2. PICK a, b, c : /\ a = Signature("end64") /\ b = Signature("locator")
                       /\ c = Signature("end")
    OBVIOUS
  <2>3. h = <<a, t, b, u, c, v>>  BY <1>1, <2>1, <2>2 DEF EndRecords
  <2>4. /\ IsSeq(h) /\ Len(h) = 6
        /\ h[1] = a /\ h[2] = t /\ h[3] = b /\ h[4] = u /\ h[5] = c /\ h[6] = v
    BY <2>3, SixTokens
  <2>5. TokenFits(t)
    <3>1. "long" \in DOMAIN t  BY <2>1
    <3>. QED  BY <3>1 DEF TokenFits
  <2>6. TokenFits(v)
    <3>1. /\ DOMAIN v = {"entries", "cdsize", "cdstart"}
          /\ v.entries = Max16 /\ v.cdsize = Max32 /\ v.cdstart = Max32
      BY <2>1
    <3>2. Max16 <= Max16 /\ Max32 <= Max32  BY ZipAssumption
    <3>3. \A f \in DOMAIN v \cap {"csize", "usize", "offset", "cdsize",
                                  "cdstart"} : v[f] <= Max32
      BY <3>1, <3>2
    <3>4. \A f \in DOMAIN v \cap {"namelen", "entries"} : v[f] <= Max16
      BY <3>1, <3>2
    <3>. QED  BY <3>3, <3>4 DEF TokenFits
  <2>7. TokenFits(a) /\ TokenFits(b) /\ TokenFits(c) /\ TokenFits(u)
    BY <2>1, <2>2, SmallTokensFit
  <2>8. AllFit(h)
    <3>1. \A i \in 1 .. 6 : i \in {1, 2, 3, 4, 5, 6}  OBVIOUS
    <3>. QED  BY <2>4, <2>5, <2>6, <2>7, <3>1 DEF AllFit
  <2>9. t.entries = entries /\ t.cdsize = cdsize /\ t.cdstart = start
        /\ u.end64 = end
    BY <2>1
  <2>. QED  BY <1>1, <2>2, <2>4, <2>8, <2>9 DEF EndsWith
<1>2. CASE ~zip
  <2>1. PICK t : t = [entries |-> entries, cdsize |-> cdsize, cdstart |-> start]
    OBVIOUS
  <2>2. h = <<Signature("end"), t>>  BY <1>2, <2>1 DEF EndRecords
  <2>3. IsSeq(h) /\ Len(h) = 2 /\ h[1] = Signature("end") /\ h[2] = t
    BY <2>2, TwoTokens
  <2>4. /\ DOMAIN t = {"entries", "cdsize", "cdstart"}
        /\ t.entries = entries /\ t.cdsize = cdsize /\ t.cdstart = start
    BY <2>1
  <2>5. TokenFits(t)
    <3>1. \A f \in DOMAIN t \cap {"csize", "usize", "offset", "cdsize",
                                  "cdstart"} : t[f] <= Max32
      BY <1>2, <2>4
    <3>2. \A f \in DOMAIN t \cap {"namelen", "entries"} : t[f] <= Max16
      BY <1>2, <2>4
    <3>. QED  BY <3>1, <3>2 DEF TokenFits
  <2>6. AllFit(h)
    <3>1. TokenFits(h[1]) /\ TokenFits(h[2])  BY <2>3, <2>5, SmallTokensFit
    <3>. QED  BY <2>3, <3>1 DEF AllFit
  <2>. QED  BY <1>2, <2>3, <2>4, <2>6 DEF EndsWith
<1>. QED  BY <1>1, <1>2

------------------------------------------------------------------------------
(* Where files lie *)

LEMMA Sizes ==
  ASSUME NEW c, c.name \in FileName, c.at \in Nat
  PROVE  /\ Len(c.name) \in Nat /\ ExtraLen(c) \in 0 .. 1
         /\ HeaderLen(c) = 2 + Len(c.name) + ExtraLen(c)
         /\ HeaderLen(c) \in Nat /\ HeaderLen(c) >= 2
         /\ DataAt(c) \in Nat /\ DataAt(c) = c.at + HeaderLen(c)
         /\ c.csize \in Nat =>
              /\ EndOf(c) \in Nat /\ EndOf(c) > c.at + 1
              /\ EndOf(c) >= DataAt(c) + c.csize
              /\ IsDeflated(c.method) => EndOf(c) = DataAt(c) + c.csize + 2
              /\ ~IsDeflated(c.method) => EndOf(c) = DataAt(c) + c.csize
<1>1. Len(c.name) \in Nat  BY LenProperties DEF FileName
<1>2. ExtraLen(c) \in 0 .. 1  BY DEF ExtraLen
<1>3. HeaderLen(c) = 2 + Len(c.name) + ExtraLen(c)  BY DEF HeaderLen
<1>4. HeaderLen(c) \in Nat /\ HeaderLen(c) >= 2  BY <1>1, <1>2, <1>3
<1>5. DataAt(c) = c.at + HeaderLen(c)  BY DEF DataAt
<1>6. DataAt(c) \in Nat  BY <1>4, <1>5
<1>7. ASSUME c.csize \in Nat
      PROVE  /\ EndOf(c) \in Nat /\ EndOf(c) > c.at + 1
             /\ EndOf(c) >= DataAt(c) + c.csize
             /\ IsDeflated(c.method) => EndOf(c) = DataAt(c) + c.csize + 2
             /\ ~IsDeflated(c.method) => EndOf(c) = DataAt(c) + c.csize
  <2>1. PICK mark \in {0, 2} : /\ EndOf(c) = DataAt(c) + c.csize + mark
                               /\ mark = IF IsDeflated(c.method) THEN 2 ELSE 0
    BY DEF EndOf
  <2>. QED  BY <1>4, <1>5, <1>6, <1>7, <2>1
<1>. QED  BY <1>1, <1>2, <1>3, <1>4, <1>5, <1>6, <1>7

LEMMA HeaderGrown ==
  ASSUME NEW o, NEW p, IsSeq(o), IsSeq(p), Grown(o, p),
         NEW c, c.name \in FileName, c.at \in Nat, NEW crc, NEW size,
         HeaderLaid(o, c, crc, size)
  PROVE  HeaderLaid(p, c, crc, size)
<1>1. Len(o) \in Nat /\ Len(p) \in Nat  BY IsSeqFacts
<1>2. DataAt(c) <= Len(o)  BY DEF HeaderLaid
<1>3. /\ Len(c.name) \in Nat /\ HeaderLen(c) = 2 + Len(c.name) + ExtraLen(c)
      /\ ExtraLen(c) \in 0 .. 1
      /\ DataAt(c) \in Nat /\ DataAt(c) = c.at + HeaderLen(c)
  BY Sizes
<1>4. DataAt(c) <= Len(p)  BY <1>1, <1>2, <1>3 DEF Grown
<1>5. /\ c.at + 1 \in 1 .. Len(o) /\ c.at + 2 \in 1 .. Len(o)
      /\ DataAt(c) \in 1 .. Len(o)
      /\ \A i \in 1 .. Len(c.name) : c.at + 2 + i \in 1 .. Len(o)
  <2>1. PICK at \in Nat, n \in Nat, x \in 0 .. 1 :
          at = c.at /\ n = Len(c.name) /\ x = ExtraLen(c)
    BY <1>3
  <2>2. at + 2 + n + x <= Len(o) /\ DataAt(c) = at + 2 + n + x
    <3>1. PICK d \in Nat, h \in Nat : d = DataAt(c) /\ h = HeaderLen(c)  BY <1>3
    <3>2. h = 2 + n + x  BY <1>3, <2>1, <3>1
    <3>3. d = at + h  BY <1>3, <2>1, <3>1
    <3>4. d = at + 2 + n + x  BY <3>2, <3>3
    <3>. QED  BY <1>2, <3>1, <3>4
  <2>3. /\ at + 1 \in 1 .. Len(o) /\ at + 2 \in 1 .. Len(o)
        /\ at + 2 + n + x \in 1 .. Len(o)
        /\ \A i \in 1 .. n : at + 2 + i \in 1 .. Len(o)
    BY <1>1, <2>2
  <2>. QED  BY <2>1, <2>2, <2>3
<1>6. /\ p[c.at + 1] = o[c.at + 1] /\ p[c.at + 2] = o[c.at + 2]
      /\ p[DataAt(c)] = o[DataAt(c)]
      /\ \A i \in 1 .. Len(c.name) : p[c.at + 2 + i] = o[c.at + 2 + i]
  BY <1>5 DEF Grown
<1>. QED  BY <1>4, <1>6 DEF HeaderLaid

LEMMA HeaderWritten ==
  ASSUME NEW o, IsSeq(o), NEW c, c.name \in FileName, c.at \in Nat,
         Len(o) = c.at, NEW crc, NEW size,
         NEW h, HeaderIs(h, c, crc, size), NEW p, Joins(p, o, h)
  PROVE  Len(p) = DataAt(c) /\ HeaderLaid(p, c, crc, size)
<1>1. IsSeq(h) /\ Len(h) = HeaderLen(c)  BY DEF HeaderIs
<1>2. /\ IsSeq(p) /\ Len(p) = c.at + HeaderLen(c)
      /\ \A i \in 1 .. HeaderLen(c) : p[c.at + i] = h[i]
  BY <1>1 DEF Joins
<1>3. /\ Len(c.name) \in Nat /\ HeaderLen(c) = 2 + Len(c.name) + ExtraLen(c)
      /\ ExtraLen(c) \in 0 .. 1
      /\ DataAt(c) \in Nat /\ DataAt(c) = c.at + HeaderLen(c)
      /\ HeaderLen(c) \in Nat /\ HeaderLen(c) >= 2
  BY Sizes
<1>4. /\ p[c.at + 1] = h[1] /\ p[c.at + 2] = h[2]
      /\ p[DataAt(c)] = h[HeaderLen(c)]
  <2>1. 1 \in 1 .. HeaderLen(c) /\ 2 \in 1 .. HeaderLen(c)
        /\ HeaderLen(c) \in 1 .. HeaderLen(c)
    BY <1>3
  <2>. QED  BY <1>2, <1>3, <2>1
<1>5. ASSUME NEW i \in 1 .. Len(c.name)  PROVE p[c.at + 2 + i] = h[2 + i]
  <2>1. 2 + i \in 1 .. HeaderLen(c)  BY <1>3
  <2>2. p[c.at + (2 + i)] = h[2 + i]  BY <1>2, <2>1
  <2>3. PICK at \in Nat : at = c.at  OBVIOUS
  <2>4. i \in Nat  BY <1>3
  <2>5. at + (2 + i) = at + 2 + i  BY <2>4
  <2>6. c.at + (2 + i) = c.at + 2 + i  BY <2>3, <2>5, Zenon
  <2>. QED  BY <2>2, <2>6
<1>6. DataAt(c) <= Len(p)  BY <1>2, <1>3
<1>. QED  BY <1>2, <1>3, <1>4, <1>5, <1>6 DEF HeaderIs, HeaderLaid

LEMMA FileGrown ==
  ASSUME NEW o, NEW p, IsSeq(o), IsSeq(p), Grown(o, p),
         NEW c \in ListedEntry, FileLaid(o, c)
  PROVE  FileLaid(p, c)
<1>1. Len(o) \in Nat /\ Len(p) \in Nat  BY IsSeqFacts
<1>2. c.name \in FileName /\ c.at \in Nat /\ c.csize \in Nat
  BY DEF ListedEntry
<1>3. /\ DataAt(c) \in Nat /\ EndOf(c) \in Nat
      /\ EndOf(c) >= DataAt(c) + c.csize /\ EndOf(c) > c.at + 1
  BY <1>2, Sizes
<1>4. EndOf(c) <= Len(o)  BY DEF FileLaid
<1>5. EndOf(c) <= Len(p)  BY <1>1, <1>3, <1>4 DEF Grown
<1>6. CASE IsDeflated(c.method)
  <2>1. DeflatedLaid(o, c)  BY <1>6 DEF FileLaid
  <2>2. HeaderLaid(p, c, <<>>, 0)
    BY <1>2, <2>1, HeaderGrown DEF DeflatedLaid
  <2>3. \A i \in DataAt(c) + 1 .. DataAt(c) + c.csize : p[i] = o[i]
    BY <1>1, <1>2, <1>3, <1>4 DEF Grown
  <2>4. BytesLaid(p, DataAt(c), DataAt(c) + c.csize)
    BY <2>1, <2>3 DEF DeflatedLaid, BytesLaid
  <2>5. p[EndOf(c) - 1] = o[EndOf(c) - 1]
    BY <1>1, <1>2, <1>3, <1>4 DEF Grown
  <2>. QED  BY <1>5, <1>6, <2>1, <2>2, <2>4, <2>5 DEF DeflatedLaid, FileLaid
<1>7. CASE ~IsDeflated(c.method)
  <2>1. StoredLaid(o, c)  BY <1>7 DEF FileLaid
  <2>2. HeaderLaid(p, c, c.crc, c.csize)
    BY <1>2, <2>1, HeaderGrown DEF StoredLaid
  <2>3. \A i \in 1 .. c.csize : p[DataAt(c) + i] = o[DataAt(c) + i]
    <3>1. PICK d \in Nat, n \in Nat : d = DataAt(c) /\ n = c.csize
      BY <1>2, <1>3
    <3>2. d + n <= Len(o)  BY <1>1, <1>3, <1>4, <3>1
    <3>3. \A i \in 1 .. n : d + i \in 1 .. Len(o)  BY <1>1, <3>2
    <3>4. \A i \in 1 .. n : p[d + i] = o[d + i]  BY <3>3 DEF Grown
    <3>. QED  BY <3>1, <3>4, Zenon
  <2>4. DataLaid(p, DataAt(c), c.crc, c.csize)
    BY <2>1, <2>3 DEF StoredLaid, DataLaid
  <2>. QED  BY <1>5, <1>7, <2>1, <2>2, <2>4 DEF StoredLaid, FileLaid
<1>. QED  BY <1>6, <1>7

(* The two parts of what is still to be read. *)
LEMMA Blocks ==
  ASSUME NEW rest \in Content
  PROVE  /\ NextBlock(rest) \in Content /\ AfterBlock(rest) \in Content
         /\ Len(rest) = Len(NextBlock(rest)) + Len(AfterBlock(rest))
         /\ \A i \in 1 .. Len(NextBlock(rest)) : NextBlock(rest)[i] = rest[i]
         /\ \A i \in 1 .. Len(AfterBlock(rest)) :
              AfterBlock(rest)[i] = rest[Len(NextBlock(rest)) + i]
<1>1. Len(rest) \in Nat /\ IsSeq(rest)
  BY LenProperties, SeqIsSeq DEF Content
<1>2. ChunkSize \in Nat /\ ChunkSize > 0  BY ZipAssumption
<1>3. PICK n : n = Smaller(ChunkSize, Len(rest))  OBVIOUS
<1>4. n \in Nat /\ n <= Len(rest) /\ (n = ChunkSize \/ n = Len(rest))
      /\ n <= ChunkSize
  BY <1>1, <1>2, <1>3 DEF Smaller
<1>5. PICK next, after : next = NextBlock(rest) /\ after = AfterBlock(rest)
  OBVIOUS
<1>6. next = SubSeq(rest, 1, n) /\ after = SubSeq(rest, ChunkSize + 1, Len(rest))
  BY <1>3, <1>5 DEF NextBlock, AfterBlock
<1>7. next \in Content  BY <1>1, <1>4, <1>6, CutIn DEF Content
<1>8. after \in Content  BY <1>1, <1>2, <1>6, CutIn DEF Content
<1>9. Len(next) = n /\ \A i \in 1 .. n : next[i] = rest[i]
  <2>1. /\ Len(next) = IF 1 <= n THEN n - 1 + 1 ELSE 0
        /\ \A i \in 1 .. n - 1 + 1 : next[i] = rest[1 + i - 1]
    BY <1>1, <1>4, <1>6, Cut DEF Cuts
  <2>. QED  BY <1>4, <2>1
<1>10. /\ Len(after) = Len(rest) - n
       /\ \A i \in 1 .. Len(after) : after[i] = rest[n + i]
  <2>1. /\ Len(after) = IF ChunkSize + 1 <= Len(rest)
                          THEN Len(rest) - (ChunkSize + 1) + 1 ELSE 0
        /\ \A i \in 1 .. Len(rest) - (ChunkSize + 1) + 1 :
             after[i] = rest[ChunkSize + 1 + i - 1]
    BY <1>1, <1>2, <1>6, Cut DEF Cuts
  <2>2. CASE ChunkSize + 1 <= Len(rest)
    <3>1. n = ChunkSize  BY <1>1, <1>2, <1>4, <2>2
    <3>2. Len(after) = Len(rest) - (ChunkSize + 1) + 1  BY <2>1, <2>2
    <3>3. Len(after) = Len(rest) - n  BY <1>1, <1>2, <3>1, <3>2
    <3>. QED  BY <1>1, <1>2, <2>1, <2>2, <3>1, <3>3
  <2>3. CASE ~(ChunkSize + 1 <= Len(rest))
    BY <1>1, <1>2, <1>4, <2>1, <2>3
  <2>. QED  BY <2>2, <2>3
<1>. QED  BY <1>1, <1>4, <1>5, <1>7, <1>8, <1>9, <1>10

LEMMA ContentJoins ==
  ASSUME NEW s \in Content, NEW t \in Content, NEW u \in Content
  PROVE  (s \o t) \o u = s \o (t \o u)
BY ConcatAssociative DEF Content

LEMMA BlocksJoin ==
  ASSUME NEW read \in Content, NEW rest \in Content
  PROVE  /\ read \o NextBlock(rest) \in Content
         /\ (read \o NextBlock(rest)) \o AfterBlock(rest) = read \o rest
<1>1. PICK next, after : next = NextBlock(rest) /\ after = AfterBlock(rest)
  OBVIOUS
<1>2. /\ next \in Seq(Nat) /\ after \in Seq(Nat)
      /\ read \in Seq(Nat) /\ rest \in Seq(Nat)
      /\ Len(rest) = Len(next) + Len(after)
      /\ \A i \in 1 .. Len(next) : next[i] = rest[i]
      /\ \A i \in 1 .. Len(after) : after[i] = rest[Len(next) + i]
  BY <1>1, Blocks DEF Content
<1>3. PICK u : u = next \o after  OBVIOUS
<1>4. Joins(u, next, after)  BY <1>2, <1>3, Joined, SeqIsSeq
<1>5. Len(next) \in Nat /\ Len(after) \in Nat  BY <1>2, LenProperties
<1>6. ASSUME NEW i \in 1 .. Len(u)  PROVE u[i] = rest[i]
  <2>1. Len(u) = Len(next) + Len(after)  BY <1>4 DEF Joins
  <2>2. CASE i <= Len(next)
    <3>1. i \in 1 .. Len(next)  BY <1>5, <2>1, <2>2
    <3>. QED  BY <1>2, <1>4, <3>1 DEF Joins
  <2>3. CASE ~(i <= Len(next))
    <3>1. PICK j \in 1 .. Len(after) : i = Len(next) + j
      <4>1. i - Len(next) \in 1 .. Len(after) /\ i = Len(next) + (i - Len(next))
        BY <1>5, <2>1, <2>3
      <4>. QED  BY <4>1
    <3>. QED  BY <1>2, <1>4, <3>1 DEF Joins
  <2>. QED  BY <2>2, <2>3
<1>7. u = rest  BY <1>2, <1>4, <1>6, SeqIsSeq, EqualSeqs DEF Joins
<1>8. (read \o next) \o after = read \o (next \o after)
  BY <1>1, Blocks, ContentJoins, Zenon
<1>9. read \o next \in Seq(Nat)  BY <1>2, ConcatProperties
<1>. QED  BY <1>1, <1>3, <1>7, <1>8, <1>9 DEF Content

------------------------------------------------------------------------------
(* The parts of the writer's invariant that its steps share *)

LEMMA FieldsFitIsAllFit == FieldsFit <=> AllFit(out)
BY DEF FieldsFit, AllFit, TokenFits

LEMMA SameLayout ==
  ASSUME NEW c, NEW e, c.name = e.name, c.method = e.method, c.at = e.at
  PROVE  /\ DataAt(c) = DataAt(e)
         /\ \A o, crc, size :
              HeaderLaid(o, c, crc, size) <=> HeaderLaid(o, e, crc, size)
<1>1. DataAt(c) = DataAt(e)  BY DEF DataAt, HeaderLen, ExtraLen
<1>2. \A crc, size : LocalStruct(c, crc, size) = LocalStruct(e, crc, size)
  BY DEF LocalStruct, ExtraLen
<1>. QED  BY <1>1, <1>2 DEF HeaderLaid

LEMMA ListedFields ==
  ASSUME NEW c \in ListedEntry
  PROVE  /\ c.name \in FileName /\ c.method \in Methods /\ c.crc \in Content
         /\ c.csize \in Nat /\ c.usize \in Nat /\ c.at \in Nat
BY DEF ListedEntry

LEMMA OpenFields ==
  ASSUME NEW e \in OpenEntry
  PROVE  /\ e.name \in FileName /\ e.method \in Methods /\ e.at \in Nat
         /\ e.rest \in Content /\ e.read \in Content /\ e.left \in Content
         /\ e.held \in Content /\ e.csize \in Nat
BY DEF OpenEntry

LEMMA FilesEndIsNat ==
  ASSUME FilesLaid
  PROVE  FilesEnd(central) \in Nat /\ Len(central) \in Nat
<1>1. central \in Seq(ListedEntry)  BY DEF FilesLaid
<1>2. Len(central) \in Nat  BY <1>1, LenProperties
<1>3. ASSUME central # <<>>  PROVE EndOf(central[Len(central)]) \in Nat
  <2>1. Len(central) \in 1 .. Len(central)  BY <1>1, <1>3, EmptySeq
  <2>2. central[Len(central)] \in ListedEntry  BY <1>1, <2>1, ElementOfSeq
  <2>. QED  BY <2>2, ListedFields, Sizes
<1>. QED  BY <1>2, <1>3 DEF FilesEnd

LEMMA FilesStay ==
  ASSUME FilesLaid, IsSeq(out), IsSeq(out'), Grown(out, out'),
         central' = central
  PROVE  FilesLaid'
<1>1. central \in Seq(ListedEntry)  BY DEF FilesLaid
<1>2. ASSUME NEW i \in 1 .. Len(central)  PROVE FileLaid(out', central[i])
  <2>1. central[i] \in ListedEntry  BY <1>1, ElementOfSeq
  <2>2. FileLaid(out, central[i])  BY DEF FilesLaid
  <2>. QED  BY <2>1, <2>2, FileGrown
<1>. QED  BY <1>1, <1>2 DEF FilesLaid

LEMMA FileAdded ==
  ASSUME FilesLaid, IsSeq(out), IsSeq(out'), Grown(out, out'),
         NEW c \in ListedEntry, central' = Append(central, c),
         FileLaid(out', c), EntryFits(c), c.usize = Len(c.crc),
         ~IsZip64(c.method) => c.usize <= Max32, c.at = FilesEnd(central)
  PROVE  FilesLaid' /\ FilesEnd(central') = EndOf(c)
<1>. PICK cs : cs = central'  OBVIOUS
<1>1. central \in Seq(ListedEntry)  BY DEF FilesLaid
<1>2. /\ cs \in Seq(ListedEntry) /\ cs # <<>>
      /\ Len(cs) = Len(central) + 1 /\ Len(central) \in Nat
      /\ \A i \in 1 .. Len(central) : cs[i] = central[i]
      /\ cs[Len(central) + 1] = c
  BY <1>1, AppendProperties, LenProperties
<1>3. FilesEnd(cs) = EndOf(c)  BY <1>2 DEF FilesEnd
<1>4. ASSUME NEW i \in 1 .. Len(cs)
      PROVE  /\ FileLaid(out', cs[i])
             /\ EntryFits(cs[i])
             /\ ~IsZip64(cs[i].method) => cs[i].usize <= Max32
             /\ cs[i].usize = Len(cs[i].crc)
             /\ cs[i].at = IF i = 1 THEN 0 ELSE EndOf(cs[i - 1])
  <2>1. CASE i \in 1 .. Len(central)
    <3>1. cs[i] = central[i] /\ (i # 1 => cs[i - 1] = central[i - 1])
      BY <1>2, <2>1
    <3>2. central[i] \in ListedEntry  BY <1>1, <2>1, ElementOfSeq
    <3>3. /\ FileLaid(out, central[i]) /\ EntryFits(central[i])
          /\ ~IsZip64(central[i].method) => central[i].usize <= Max32
          /\ central[i].usize = Len(central[i].crc)
          /\ central[i].at = IF i = 1 THEN 0 ELSE EndOf(central[i - 1])
      BY <2>1 DEF FilesLaid
    <3>4. FileLaid(out', central[i])  BY <3>2, <3>3, FileGrown
    <3>. QED  BY <3>1, <3>3, <3>4
  <2>2. CASE i = Len(central) + 1
    <3>1. c.at = IF i = 1 THEN 0 ELSE EndOf(cs[i - 1])
      <4>1. CASE central = <<>>
        <5>1. Len(central) = 0  BY <4>1, EmptySeq
        <5>. QED  BY <2>2, <4>1, <5>1 DEF FilesEnd
      <4>2. CASE central # <<>>
        <5>1. Len(central) > 0  BY <1>1, <4>2, EmptySeq
        <5>2. i # 1 /\ i - 1 = Len(central) /\ cs[i - 1] = central[i - 1]
          BY <1>2, <2>2, <5>1
        <5>. QED  BY <4>2, <5>2 DEF FilesEnd
      <4>. QED  BY <4>1, <4>2
    <3>. QED  BY <1>2, <2>2, <3>1
  <2>. QED  BY <1>2, <2>1, <2>2
<1>5. FilesLaid'  BY <1>2, <1>4 DEF FilesLaid
<1>. QED  BY <1>3, <1>5

LEMMA ProvenanceStays ==
  ASSUME Provenance, wpc # "raised", UNCHANGED <<files, central, source>>,
         \/ Writing /\ Writing' /\ Current' = Current
         \/ ~Writing /\ ~Writing'
  PROVE  Provenance'
<1>1. Ahead' = Ahead /\ Behind' = Behind  BY DEF Ahead, Behind
<1>. QED  BY <1>1 DEF Provenance

LEMMA Raised ==
  ASSUME WriterInv, RaiseZipError, UNCHANGED source, zip64' \in BOOLEAN,
         files' = files \/ (files # <<>> /\ files' = Tail(files))
  PROVE  WriterInv'
<1>. USE DEF RaiseZipError
<1>1. FilesLaid' /\ FieldsFit'  BY DEF WriterInv, FilesLaid, FieldsFit
<1>2. WriterPhase'  BY DEF WriterInv, WriterPhase
<1>3. Provenance'
  <2>1. /\ source \in Trees /\ files \in Seq(source)
        /\ \A i, j \in 1 .. Len(files) : i # j => files[i] # files[j]
        /\ Behind \subseteq source /\ Behind \cap Ahead = {}
        /\ \A i, j \in 1 .. Len(central) :
             i # j => FileOf(central[i]) # FileOf(central[j])
    BY DEF WriterInv, Provenance
  <2>2. /\ files' \in Seq(source)
        /\ \A i, j \in 1 .. Len(files') : i # j => files'[i] # files'[j]
        /\ Ahead' \subseteq Ahead
    <3>1. CASE files' = files  BY <2>1, <3>1 DEF Ahead
    <3>2. CASE files # <<>> /\ files' = Tail(files)
      <4>1. /\ files' \in Seq(source) /\ Len(files') = Len(files) - 1
            /\ \A i \in 1 .. Len(files') : files'[i] = files[i + 1]
            /\ Len(files) \in Nat
        BY <2>1, <3>2, HeadTailProperties, LenProperties
      <4>2. \A i \in 1 .. Len(files') : i + 1 \in 1 .. Len(files)
        BY <4>1
      <4>3. \A i, j \in 1 .. Len(files') : i # j => files'[i] # files'[j]
        BY <2>1, <4>1, <4>2
      <4>. QED  BY <4>1, <4>2, <4>3 DEF Ahead
    <3>. QED  BY <3>1, <3>2
  <2>3. Behind' = Behind  BY DEF Behind
  <2>4. ~Writing' /\ wpc' = "raised"  BY DEF Writing
  <2>. QED  BY <2>1, <2>2, <2>3, <2>4 DEF Provenance
<1>. QED  BY <1>1, <1>2, <1>3 DEF WriterInv

LEMMA EmitFacts ==
  ASSUME WriterInv, NEW tokens, IsSeq(tokens), AllFit(tokens), Emit(tokens)
  PROVE  /\ IsSeq(out') /\ offset' = Len(out') /\ Grown(out, out')
         /\ Joins(out', out, tokens) /\ FieldsFit'
         /\ IsSeq(out) /\ offset = Len(out) /\ Len(out) \in Nat
         /\ Len(tokens) \in Nat /\ Len(out') = Len(out) + Len(tokens)
<1>1. IsSeq(out) /\ offset = Len(out) /\ AllFit(out)
  BY FieldsFitIsAllFit DEF WriterInv, WriterPhase
<1>2. out' = out \o tokens /\ offset' = offset + Len(tokens)  BY DEF Emit
<1>3. Joins(out', out, tokens)  BY <1>1, <1>2, Joined
<1>4. IsSeq(out') /\ Len(out') = Len(out) + Len(tokens)  BY <1>3 DEF Joins
<1>5. Grown(out, out')  BY <1>1, <1>3, JoinedIsGrown
<1>6. AllFit(out')  BY <1>1, <1>3, JoinedFit
<1>7. FieldsFit'  BY <1>6 DEF FieldsFit, AllFit, TokenFits
<1>8. Len(out) \in Nat /\ Len(tokens) \in Nat  BY <1>1, IsSeqFacts
<1>. QED  BY <1>1, <1>2, <1>3, <1>4, <1>5, <1>7, <1>8

------------------------------------------------------------------------------
(* The steps of the writer *)

LEMMA WriterTakesFile ==
  ASSUME WriterInv, TakeFile, UNCHANGED source
  PROVE  WriterInv'
<1>. PICK f : f = Head(files)  OBVIOUS
<1>1. /\ wpc = "next" /\ files # <<>> /\ files' = Tail(files)
      /\ zip64' = (zip64 \/ IsZip64(f.method))
      /\ \/ RaiseZipError
         \/ /\ Len(f.name) <= Max16 /\ ~Beyond32(f.method, offset)
            /\ entry' = [name |-> f.name, method |-> f.method, at |-> offset,
                         rest |-> f.content, read |-> <<>>, left |-> <<>>,
                         held |-> <<>>, csize |-> 0]
            /\ IF IsDeflated(f.method)
                 THEN /\ Emit(LocalHeader(f.method, f.name, <<>>, 0))
                      /\ wpc' = "deflate"
                 ELSE wpc' = "buffer" /\ UNCHANGED <<out, offset>>
            /\ UNCHANGED <<central, cdstart, listed>>
  BY DEF TakeFile
<1>2. /\ IsSeq(out) /\ offset = Len(out) /\ Len(out) = FilesEnd(central)
      /\ listed = 0 /\ cdstart \in Nat /\ zip64 \in BOOLEAN /\ FilesLaid
      /\ Len(out) \in Nat /\ AllFit(out) /\ 0 \in 0 .. Len(central)
  BY <1>1, IsSeqFacts, FieldsFitIsAllFit DEF WriterInv, WriterPhase
<1>3. zip64' \in BOOLEAN  BY <1>1, <1>2, Zenon
<1>4. CASE RaiseZipError
  BY <1>1, <1>3, <1>4, Raised
<1>5. CASE /\ Len(f.name) <= Max16 /\ ~Beyond32(f.method, offset)
           /\ entry' = [name |-> f.name, method |-> f.method, at |-> offset,
                        rest |-> f.content, read |-> <<>>, left |-> <<>>,
                        held |-> <<>>, csize |-> 0]
           /\ IF IsDeflated(f.method)
                THEN /\ Emit(LocalHeader(f.method, f.name, <<>>, 0))
                     /\ wpc' = "deflate"
                ELSE wpc' = "buffer" /\ UNCHANGED <<out, offset>>
           /\ UNCHANGED <<central, cdstart, listed>>
  <2>1. /\ source \in Trees /\ files \in Seq(source)
        /\ \A i, j \in 1 .. Len(files) : i # j => files[i] # files[j]
        /\ Behind \subseteq source /\ Behind \cap Ahead = {}
        /\ \A i, j \in 1 .. Len(central) :
             i # j => FileOf(central[i]) # FileOf(central[j])
        /\ source \subseteq Ahead \cup Behind
    BY <1>1 DEF WriterInv, Provenance, Writing
  <2>2. /\ f \in source /\ files' \in Seq(source)
        /\ Len(files') = Len(files) - 1 /\ Len(files) \in Nat
        /\ \A i \in 1 .. Len(files') : files'[i] = files[i + 1]
        /\ f = files[1] /\ Len(files) > 0
    BY <1>1, <2>1, HeadTailProperties, LenProperties, EmptySeq
  <2>3. /\ f = [name |-> f.name, content |-> f.content, method |-> f.method]
        /\ f.name \in FileName /\ f.content \in Content /\ f.method \in Methods
    BY <2>1, <2>2, ArchiveAssumption DEF FileName, Content
  <2>. PICK e : e = entry'  OBVIOUS
  <2>4. /\ e.name = f.name /\ e.method = f.method /\ e.at = offset
        /\ e.rest = f.content /\ e.read = <<>> /\ e.csize = 0
    BY <1>5
  <2>5. e \in OpenEntry
    <3>1. <<>> \in Content  BY EmptySeq DEF Content
    <3>2. offset \in Nat  BY <1>2
    <3>. QED  BY <1>5, <2>3, <3>1, <3>2 DEF OpenEntry
  <2>6. EntryFits(e) /\ Len(e.read) = 0
    <3>1. ~IsZip64(e.method) => e.at <= Max32
      BY <1>2, <1>5, <2>4, ZipAssumption DEF Beyond32
    <3>2. e.csize <= Max32  BY <2>4, ZipAssumption
    <3>. QED  BY <1>5, <2>4, <3>1, <3>2, NothingIsSeq DEF EntryFits
  <2>7. /\ IsSeq(out') /\ offset' = Len(out') /\ Grown(out, out') /\ AllFit(out')
        /\ \/ /\ IsDeflated(e.method) /\ wpc' = "deflate"
              /\ Len(out') = DataAt(e) /\ HeaderLaid(out', e, <<>>, 0)
           \/ /\ ~IsDeflated(e.method) /\ wpc' = "buffer" /\ Len(out') = e.at
    <3>1. CASE IsDeflated(f.method)
      <4>. PICK h : h = LocalHeader(e.method, e.name, <<>>, 0)  OBVIOUS
      <4>1. Emit(h) /\ wpc' = "deflate"  BY <1>5, <2>4, <3>1
      <4>2. HeaderIs(h, e, <<>>, 0)  BY <2>3, <2>4, HeaderTokens
      <4>3. IsSeq(h)  BY <4>2 DEF HeaderIs
      <4>4. AllFit(h)
        <5>1. 0 \in Nat /\ 0 <= Max32  BY ZipAssumption
        <5>. QED  BY <2>3, <2>4, <2>6, <5>1, HeaderFits DEF EntryFits
      <4>5. /\ IsSeq(out') /\ offset' = Len(out') /\ Grown(out, out')
            /\ FieldsFit' /\ Joins(out', out, h)
        BY <4>1, <4>3, <4>4, EmitFacts
      <4>6. AllFit(out')  BY <4>5 DEF FieldsFit, AllFit, TokenFits
      <4>7. Len(out') = DataAt(e) /\ HeaderLaid(out', e, <<>>, 0)
        <5>1. /\ IsSeq(out) /\ e.name \in FileName /\ e.at \in Nat
              /\ Len(out) = e.at
          BY <1>2, <2>3, <2>4
        <5>. QED  BY <4>2, <4>5, <5>1, HeaderWritten
      <4>. QED  BY <2>4, <3>1, <4>1, <4>5, <4>6, <4>7
    <3>2. CASE ~IsDeflated(f.method)
      <4>1. wpc' = "buffer" /\ out' = out /\ offset' = offset  BY <1>5, <3>2
      <4>2. Grown(out, out)  BY <1>2 DEF Grown
      <4>. QED  BY <1>2, <2>4, <3>2, <4>1, <4>2
    <3>. QED  BY <3>1, <3>2
  <2>8. FilesLaid'  BY <1>2, <1>5, <2>7, FilesStay
  <2>9. EntryOpen'
    <3>1. e.at = FilesEnd(central')  BY <1>2, <1>5, <2>4
    <3>2. 0 <= Max32  BY ZipAssumption
    <3>. QED  BY <2>5, <2>6, <3>1, <3>2 DEF EntryOpen
  <2>10. wpc' = "buffer" => BufferPhase'
    BY <2>7, <2>9 DEF BufferPhase
  <2>11. wpc' = "deflate" => DeflatePhase'
    <3>1. ASSUME wpc' = "deflate"  PROVE DeflatePhase'
      <4>1. /\ IsDeflated(e.method) /\ Len(out') = DataAt(e)
            /\ HeaderLaid(out', e, <<>>, 0)
        BY <2>7, <3>1
      <4>2. DataAt(e) \in Nat  BY <2>5, OpenFields, Sizes
      <4>3. Len(out') = DataAt(e) + e.csize  BY <2>4, <4>1, <4>2
      <4>4. BytesLaid(out', DataAt(e), Len(out'))
        BY <4>1, <4>2 DEF BytesLaid
      <4>. QED  BY <2>9, <4>1, <4>3, <4>4 DEF DeflatePhase
    <3>. QED  BY <3>1
  <2>12. wpc' \in {"buffer", "deflate"}  BY <2>7
  <2>13. WriterPhase'
    BY <1>2, <1>3, <1>5, <2>7, <2>10, <2>11, <2>12 DEF WriterPhase
  <2>14. Provenance'
    <3>1. Current' = f
      <4>1. <<>> \o f.content = f.content
        BY <2>3, ConcatEmptySeq DEF Content
      <4>. QED  BY <2>3, <2>4, <4>1 DEF Current
    <3>2. \A i \in 1 .. Len(files') : i + 1 \in 1 .. Len(files) /\ i + 1 # 1
      BY <2>2
    <3>3. \A i, j \in 1 .. Len(files') : i # j => files'[i] # files'[j]
      BY <2>1, <2>2, <3>2
    <3>4. f \in Ahead  BY <2>2 DEF Ahead
    <3>5. Ahead' \subseteq Ahead /\ f \notin Ahead'
      BY <2>1, <2>2, <3>2 DEF Ahead
    <3>6. Ahead \subseteq Ahead' \cup {f}
      <4>1. ASSUME NEW i \in 1 .. Len(files), i # 1
            PROVE  files[i] \in Ahead'
        <5>1. i - 1 \in 1 .. Len(files') /\ files'[i - 1] = files[i]
          BY <2>2, <4>1
        <5>. QED  BY <5>1 DEF Ahead
      <4>. QED  BY <2>2, <4>1 DEF Ahead
    <3>7. Behind' = Behind /\ Writing'  BY <1>5, <2>12 DEF Behind, Writing
    <3>8. /\ source' \in Trees /\ files' \in Seq(source')
          /\ Behind' \subseteq source' /\ Behind' \cap Ahead' = {}
          /\ \A i, j \in 1 .. Len(central') :
               i # j => FileOf(central'[i]) # FileOf(central'[j])
      BY <1>5, <2>1, <2>2, <3>5, <3>7
    <3>9. Current' \in source' \ (Ahead' \cup Behind')
      BY <2>1, <2>2, <3>1, <3>4, <3>5, <3>7
    <3>10. source' \subseteq Ahead' \cup Behind' \cup {Current'}
      BY <2>1, <3>1, <3>6, <3>7
    <3>. QED  BY <3>3, <3>7, <3>8, <3>9, <3>10 DEF Provenance
  <2>15. FieldsFit'  BY <2>7 DEF FieldsFit, AllFit, TokenFits
  <2>. QED  BY <2>8, <2>13, <2>14, <2>15 DEF WriterInv
<1>. QED  BY <1>1, <1>4, <1>5

LEMMA WriterBuffers ==
  ASSUME WriterInv, BufferBlock, UNCHANGED source
  PROVE  WriterInv'
<1>0. PICK e, read, rest :
       e = entry /\ read = e.read \o NextBlock(e.rest) /\ rest = AfterBlock(e.rest)
  OBVIOUS
<1>1. /\ wpc = "buffer" /\ UNCHANGED <<files, zip64>>
      /\ \/ RaiseZipError
         \/ /\ ~Beyond32(e.method, Len(read))
            /\ entry' = [e EXCEPT !.read = read, !.rest = rest]
            /\ UNCHANGED <<wpc, out, offset, central, cdstart, listed>>
  BY <1>0 DEF BufferBlock
<1>2. /\ e \in OpenEntry /\ EntryOpen /\ ~IsDeflated(e.method)
      /\ Len(out) = e.at /\ zip64 \in BOOLEAN
  BY <1>0, <1>1 DEF WriterInv, WriterPhase, BufferPhase, EntryOpen
<1>3. /\ read \in Content /\ rest \in Content /\ read \o rest = e.read \o e.rest
  BY <1>0, <1>2, OpenFields, BlocksJoin, Blocks
<1>4. CASE RaiseZipError
  BY <1>1, <1>2, <1>4, Raised
<1>5. CASE /\ ~Beyond32(e.method, Len(read))
           /\ entry' = [e EXCEPT !.read = read, !.rest = rest]
           /\ UNCHANGED <<wpc, out, offset, central, cdstart, listed>>
  <2>0. PICK d : d = entry'  OBVIOUS
  <2>1. /\ d \in OpenEntry
        /\ d.name = e.name /\ d.method = e.method /\ d.at = e.at
        /\ d.read = read /\ d.rest = rest /\ d.csize = e.csize
    <3>1. d = [e EXCEPT !.read = read, !.rest = rest]  BY <1>5, <2>0
    <3>. QED  BY <1>2, <1>3, <3>1 DEF OpenEntry
  <2>2. EntryOpen'
    <3>1. d.at = FilesEnd(central') /\ EntryFits(d)
      BY <1>0, <1>2, <1>5, <2>1 DEF EntryOpen, EntryFits
    <3>2. Len(read) \in Nat  BY <1>3, LenProperties DEF Content
    <3>3. IsZip64(e.method) \/ ~(Len(read) > Max32)  BY <1>5 DEF Beyond32
    <3>4. ~IsZip64(d.method) => Len(d.read) <= Max32
      BY <2>1, <3>2, <3>3, ZipAssumption
    <3>. QED  BY <2>0, <2>1, <3>1, <3>4 DEF EntryOpen
  <2>3. BufferPhase'  BY <1>2, <1>5, <2>0, <2>1, <2>2 DEF BufferPhase
  <2>4. wpc' = "buffer"  BY <1>1, <1>5
  <2>5. WriterPhase'
    BY <1>1, <1>5, <2>3, <2>4 DEF WriterInv, WriterPhase
  <2>6. Current' = Current
    BY <1>0, <1>3, <2>0, <2>1 DEF Current
  <2>7. Writing /\ Writing'  BY <1>1, <2>4 DEF Writing
  <2>8. Provenance'
    BY <1>1, <1>5, <2>6, <2>7, ProvenanceStays DEF WriterInv
  <2>9. FilesLaid' /\ FieldsFit'
    BY <1>5 DEF WriterInv, FilesLaid, FieldsFit
  <2>. QED  BY <2>5, <2>8, <2>9 DEF WriterInv
<1>. QED  BY <1>1, <1>4, <1>5

LEMMA WriterWritesHeader ==
  ASSUME WriterInv, WriteStoredHeader, UNCHANGED source
  PROVE  WriterInv'
<1>0. PICK e, d, h : /\ e = entry /\ d = entry'
                     /\ h = LocalHeader(e.method, e.name, e.read, Len(e.read))
  OBVIOUS
<1>1. /\ wpc = "buffer" /\ e.rest = <<>> /\ Emit(h)
      /\ d = [e EXCEPT !.left = e.read, !.csize = Len(e.read)]
      /\ wpc' = "stored"
      /\ UNCHANGED <<files, zip64, central, cdstart, listed>>
  BY <1>0 DEF WriteStoredHeader
<1>2. /\ e \in OpenEntry /\ EntryOpen /\ ~IsDeflated(e.method)
      /\ Len(out) = e.at /\ IsSeq(out)
  BY <1>0, <1>1 DEF WriterInv, WriterPhase, BufferPhase, EntryOpen
<1>3. /\ e.name \in FileName /\ e.at \in Nat /\ e.read \in Content
      /\ Len(e.read) \in Nat /\ EntryFits(e) /\ e.at = FilesEnd(central)
      /\ ~IsZip64(e.method) => Len(e.read) <= Max32
  BY <1>0, <1>2, OpenFields, LenProperties DEF EntryOpen, Content
<1>4. /\ d \in OpenEntry
      /\ d.name = e.name /\ d.method = e.method /\ d.at = e.at
      /\ d.read = e.read /\ d.rest = e.rest
      /\ d.left = e.read /\ d.csize = Len(e.read)
  BY <1>1, <1>2, <1>3 DEF OpenEntry
<1>5. HeaderIs(h, e, e.read, Len(e.read)) /\ IsSeq(h)
  <2>1. HeaderIs(h, e, e.read, Len(e.read))  BY <1>0, <1>3, HeaderTokens
  <2>. QED  BY <2>1 DEF HeaderIs
<1>6. AllFit(h)  BY <1>0, <1>3, HeaderFits DEF EntryFits
<1>7. /\ IsSeq(out') /\ offset' = Len(out') /\ Grown(out, out') /\ FieldsFit'
      /\ Joins(out', out, h)
  BY <1>1, <1>5, <1>6, EmitFacts
<1>8. Len(out') = DataAt(e) /\ HeaderLaid(out', e, e.read, Len(e.read))
  BY <1>2, <1>3, <1>5, <1>7, HeaderWritten
<1>9. DataAt(d) = DataAt(e) /\ HeaderLaid(out', d, d.read, Len(d.read))
  BY <1>4, <1>8, SameLayout
<1>10. EntryOpen'
  BY <1>0, <1>1, <1>3, <1>4 DEF EntryOpen, EntryFits
<1>11. StoredPhase'
  <2>0. PICK m : m = Len(e.read)  OBVIOUS
  <2>1. Len(d.left) = m /\ Len(d.read) = m /\ m \in Nat /\ m - m = 0
    BY <1>3, <1>4, <2>0
  <2>2. \A i \in 1 .. m : d.left[i] = d.read[0 + i]  BY <1>4, <2>1
  <2>3. DataAt(e) + 0 = DataAt(e)  BY <1>3, Sizes
  <2>4. DataLaid(out', DataAt(d), d.read, 0)  BY DEF DataLaid
  <2>. QED  BY <1>0, <1>1, <1>2, <1>4, <1>8, <1>9, <1>10, <2>1, <2>2, <2>3,
               <2>4 DEF StoredPhase
<1>12. WriterPhase'
  BY <1>1, <1>7, <1>11 DEF WriterInv, WriterPhase
<1>13. Current' = Current  BY <1>0, <1>4 DEF Current
<1>14. Writing /\ Writing' /\ wpc # "raised"  BY <1>1 DEF Writing
<1>15. Provenance'  BY <1>1, <1>13, <1>14, ProvenanceStays DEF WriterInv
<1>16. FilesLaid'  BY <1>1, <1>2, <1>7, FilesStay DEF WriterInv
<1>. QED  BY <1>7, <1>12, <1>15, <1>16 DEF WriterInv

LEMMA WriterWritesBlock ==
  ASSUME WriterInv, WriteStoredBlock, UNCHANGED source
  PROVE  WriterInv'
<1>0. PICK e, d, next, after, h :
       /\ e = entry /\ d = entry' /\ next = NextBlock(e.left)
       /\ after = AfterBlock(e.left) /\ h = Data(next)
  OBVIOUS
<1>1. /\ wpc = "stored" /\ Emit(h) /\ d = [e EXCEPT !.left = after]
      /\ UNCHANGED <<wpc, files, zip64, central, cdstart, listed>>
  BY <1>0 DEF WriteStoredBlock
<1>2. /\ e \in OpenEntry /\ EntryOpen /\ ~IsDeflated(e.method) /\ IsSeq(out)
      /\ e.rest = <<>> /\ e.csize = Len(e.read)
      /\ Len(e.left) <= Len(e.read)
      /\ \A i \in 1 .. Len(e.left) :
           e.left[i] = e.read[Len(e.read) - Len(e.left) + i]
      /\ Len(out) = DataAt(e) + (Len(e.read) - Len(e.left))
      /\ HeaderLaid(out, e, e.read, Len(e.read))
      /\ DataLaid(out, DataAt(e), e.read, Len(e.read) - Len(e.left))
  BY <1>0, <1>1 DEF WriterInv, WriterPhase, StoredPhase, EntryOpen
<1>3. /\ e.name \in FileName /\ e.at \in Nat /\ e.read \in Content
      /\ e.left \in Content /\ EntryFits(e) /\ e.at = FilesEnd(central)
      /\ Len(e.read) \in Nat /\ Len(e.left) \in Nat /\ DataAt(e) \in Nat
  BY <1>0, <1>2, OpenFields, LenProperties, Sizes DEF EntryOpen, Content
<1>4. /\ next \in Content /\ after \in Content
      /\ Len(e.left) = Len(next) + Len(after)
      /\ Len(next) \in Nat /\ Len(after) \in Nat
      /\ \A i \in 1 .. Len(next) : next[i] = e.left[i]
      /\ \A i \in 1 .. Len(after) : after[i] = e.left[Len(next) + i]
  BY <1>0, <1>3, Blocks, LenProperties DEF Content
<1>5. /\ d \in OpenEntry
      /\ d.name = e.name /\ d.method = e.method /\ d.at = e.at
      /\ d.read = e.read /\ d.rest = e.rest
      /\ d.left = after /\ d.csize = e.csize
  BY <1>1, <1>2, <1>4 DEF OpenEntry
<1>6. /\ IsSeq(h) /\ Len(h) = Len(next)
      /\ \A i \in 1 .. Len(next) : h[i] = [byte |-> next[i]]
  BY <1>0, <1>4, DataIsSeq
<1>7. AllFit(h)
  <2>1. ASSUME NEW i \in 1 .. Len(h)  PROVE TokenFits(h[i])
    <3>1. h[i] = [byte |-> next[i]]  BY <1>6
    <3>. QED  BY <3>1, SmallTokensFit
  <2>. QED  BY <2>1 DEF AllFit
<1>8. /\ IsSeq(out') /\ offset' = Len(out') /\ Grown(out, out') /\ FieldsFit'
      /\ Joins(out', out, h) /\ Len(out') = Len(out) + Len(h)
  BY <1>1, <1>6, <1>7, EmitFacts
<1>9. DataAt(d) = DataAt(e) /\ HeaderLaid(out', d, d.read, Len(d.read))
  <2>1. HeaderLaid(out', e, e.read, Len(e.read))
    BY <1>2, <1>3, <1>8, HeaderGrown
  <2>. QED  BY <1>5, <2>1, SameLayout
<1>10. EntryOpen'
  BY <1>0, <1>1, <1>2, <1>5 DEF EntryOpen, EntryFits
<1>00. PICK m, l, k, a, at, o : /\ m = Len(e.read) /\ l = Len(e.left)
                                /\ k = Len(next) /\ a = Len(after)
                                /\ at = DataAt(e) /\ o = Len(out)
  OBVIOUS
<1>11. /\ m \in Nat /\ l \in Nat /\ k \in Nat /\ a \in Nat /\ at \in Nat
       /\ l = k + a /\ l <= m
       /\ o = at + (m - l)
  BY <1>00, <1>2, <1>3, <1>4
<1>12. /\ Len(out') = at + (m - a) /\ a <= m
  <2>1. Len(out') = o + k  BY <1>00, <1>6, <1>8
  <2>. QED  BY <1>11, <2>1
<1>13. \A i \in 1 .. a : d.left[i] = d.read[m - a + i]
  <2>1. ASSUME NEW i \in 1 .. a  PROVE after[i] = e.read[m - a + i]
    <3>1. k + i \in 1 .. l /\ m - l + (k + i) = m - a + i  BY <1>11
    <3>2. after[i] = e.left[k + i]  BY <1>00, <1>4
    <3>3. e.left[k + i] = e.read[m - l + (k + i)]  BY <1>00, <1>2, <3>1
    <3>. QED  BY <3>1, <3>2, <3>3
  <2>. QED  BY <1>5, <2>1
<1>14. DataLaid(out', at, d.read, m - a)
  <2>1. ASSUME NEW i \in 1 .. m - a
        PROVE  out'[at + i] = [byte |-> e.read[i]]
    <3>1. CASE i <= m - l
      <4>1. i \in 1 .. m - l /\ at + i \in 1 .. o  BY <1>11, <3>1
      <4>2. out[at + i] = [byte |-> e.read[i]]
        BY <1>00, <1>2, <4>1 DEF DataLaid
      <4>. QED  BY <1>00, <1>8, <4>1, <4>2 DEF Grown
    <3>2. CASE ~(i <= m - l)
      <4>1. PICK j \in 1 .. k : i = m - l + j
        <5>1. i - (m - l) \in 1 .. k /\ i = m - l + (i - (m - l))
          BY <1>11, <3>2
        <5>. QED  BY <5>1
      <4>2. at + i = o + j  BY <1>11, <4>1
      <4>3. out'[o + j] = h[j]  BY <1>00, <1>6, <1>8, <4>1 DEF Joins
      <4>4. j \in 1 .. l  BY <1>11, <4>1
      <4>5. next[j] = e.left[j] /\ e.left[j] = e.read[m - l + j]
        BY <1>00, <1>2, <1>4, <4>1, <4>4
      <4>6. h[j] = [byte |-> next[j]]  BY <1>00, <1>6, <4>1
      <4>. QED  BY <4>1, <4>2, <4>3, <4>5, <4>6
    <3>. QED  BY <3>1, <3>2
  <2>. QED  BY <1>5, <2>1 DEF DataLaid
<1>15. StoredPhase'
  <2>1. /\ ~IsDeflated(d.method) /\ d.rest = <<>> /\ d.csize = Len(d.read)
        /\ Len(d.read) = m /\ Len(d.left) = a
    BY <1>00, <1>2, <1>5
  <2>2. PICK n : n = Len(d.read) - Len(d.left) /\ n = m - a  BY <2>1
  <2>3. DataAt(d) = at  BY <1>00, <1>9
  <2>4. /\ Len(d.left) <= Len(d.read)
        /\ \A i \in 1 .. Len(d.left) : d.left[i] = d.read[n + i]
        /\ Len(out') = DataAt(d) + n
    BY <1>12, <1>13, <2>1, <2>2, <2>3
  <2>5. DataLaid(out', DataAt(d), d.read, n)  BY <1>14, <2>2, <2>3
  <2>. QED
    BY <1>0, <1>9, <1>10, <2>1, <2>2, <2>4, <2>5 DEF StoredPhase
<1>16. WriterPhase'
  BY <1>1, <1>8, <1>15 DEF WriterInv, WriterPhase
<1>17. Current' = Current  BY <1>0, <1>5 DEF Current
<1>18. Writing /\ Writing' /\ wpc # "raised"  BY <1>1 DEF Writing
<1>19. Provenance'  BY <1>1, <1>17, <1>18, ProvenanceStays DEF WriterInv
<1>20. FilesLaid'  BY <1>1, <1>2, <1>8, FilesStay DEF WriterInv
<1>. QED  BY <1>8, <1>16, <1>19, <1>20 DEF WriterInv

(* The file in progress becomes the last one listed. *)
LEMMA CurrentIsListed ==
  ASSUME WriterInv, Writing, wpc' = "next",
         NEW c \in ListedEntry, FileOf(c) = Current,
         central' = Append(central, c), UNCHANGED <<files, source>>
  PROVE  Provenance'
<1>0. PICK cs, fs, g : cs = central' /\ fs = files' /\ g = FileOf(c)  OBVIOUS
<1>1. /\ source \in Trees /\ files \in Seq(source)
      /\ \A i, j \in 1 .. Len(files) : i # j => files[i] # files[j]
      /\ Behind \subseteq source /\ Behind \cap Ahead = {}
      /\ \A i, j \in 1 .. Len(central) :
           i # j => FileOf(central[i]) # FileOf(central[j])
      /\ g \in source \ (Ahead \cup Behind)
      /\ source \subseteq Ahead \cup Behind \cup {g}
  BY <1>0 DEF WriterInv, Provenance, Writing
<1>2. /\ Len(cs) = Len(central) + 1 /\ Len(central) \in Nat
      /\ \A i \in 1 .. Len(central) : cs[i] = central[i]
      /\ cs[Len(central) + 1] = c
  BY <1>0, AppendProperties, LenProperties DEF WriterInv, FilesLaid
<1>3. Ahead' = Ahead  BY DEF Ahead
<1>4. Behind' = Behind \cup {g}
  <2>1. \A i \in 1 .. Len(cs) : i \in 1 .. Len(central) \/ i = Len(central) + 1
    BY <1>2
  <2>2. 1 .. Len(central) \subseteq 1 .. Len(cs)
        /\ Len(central) + 1 \in 1 .. Len(cs)
    BY <1>2
  <2>3. Behind' = {FileOf(cs[i]) : i \in 1 .. Len(cs)}  BY <1>0 DEF Behind
  <2>4. \A i \in 1 .. Len(central) : FileOf(cs[i]) = FileOf(central[i])
    BY <1>2
  <2>5. FileOf(cs[Len(central) + 1]) = g  BY <1>0, <1>2
  <2>. QED  BY <2>1, <2>2, <2>3, <2>4, <2>5 DEF Behind
<1>5. ASSUME NEW i \in 1 .. Len(cs), NEW j \in 1 .. Len(cs), i # j
      PROVE  FileOf(cs[i]) # FileOf(cs[j])
  <2>1. \A k \in 1 .. Len(cs) : \/ k \in 1 .. Len(central)
                                \/ k = Len(central) + 1
    BY <1>2
  <2>2. \A k \in 1 .. Len(central) : FileOf(central[k]) \in Behind
    BY DEF Behind
  <2>3. CASE i \in 1 .. Len(central) /\ j \in 1 .. Len(central)
    BY <1>1, <1>2, <1>5, <2>3
  <2>4. CASE i \in 1 .. Len(central) /\ j = Len(central) + 1
    BY <1>0, <1>1, <1>2, <2>2, <2>4
  <2>5. CASE j \in 1 .. Len(central) /\ i = Len(central) + 1
    BY <1>0, <1>1, <1>2, <2>2, <2>5
  <2>. QED  BY <1>5, <2>1, <2>3, <2>4, <2>5
<1>6. ~Writing'  BY DEF Writing
<1>7. Behind' \subseteq source /\ Behind' \cap Ahead' = {}
      /\ source \subseteq Ahead' \cup Behind'
  BY <1>1, <1>3, <1>4
<1>. QED  BY <1>0, <1>1, <1>5, <1>6, <1>7 DEF Provenance

LEMMA WriterFinishesStored ==
  ASSUME WriterInv, FinishStored, UNCHANGED source
  PROVE  WriterInv'
<1>0. PICK e, c : e = entry /\ c = EntryOf(e, e.csize)  OBVIOUS
<1>1. /\ wpc = "stored" /\ e.left = <<>> /\ central' = Append(central, c)
      /\ wpc' = "next"
      /\ UNCHANGED <<files, zip64, out, offset, cdstart, listed>>
  BY <1>0 DEF FinishStored
<1>2. /\ e \in OpenEntry /\ EntryOpen /\ ~IsDeflated(e.method) /\ IsSeq(out)
      /\ e.rest = <<>> /\ e.csize = Len(e.read)
      /\ Len(out) = DataAt(e) + (Len(e.read) - Len(e.left))
      /\ HeaderLaid(out, e, e.read, Len(e.read))
      /\ DataLaid(out, DataAt(e), e.read, Len(e.read) - Len(e.left))
      /\ FilesLaid /\ listed = 0
  BY <1>0, <1>1 DEF WriterInv, WriterPhase, StoredPhase, EntryOpen
<1>3. /\ e.name \in FileName /\ e.at \in Nat /\ e.read \in Content
      /\ e.method \in Methods /\ EntryFits(e) /\ e.at = FilesEnd(central)
      /\ ~IsZip64(e.method) => Len(e.read) <= Max32
      /\ Len(e.read) \in Nat /\ DataAt(e) \in Nat
  BY <1>0, <1>2, OpenFields, LenProperties, Sizes DEF EntryOpen, Content
<1>4. /\ c \in ListedEntry
      /\ c.name = e.name /\ c.method = e.method /\ c.at = e.at
      /\ c.crc = e.read /\ c.csize = Len(e.read) /\ c.usize = Len(e.read)
  BY <1>0, <1>2, <1>3 DEF EntryOf, ListedEntry
<1>5. Len(out) = DataAt(e) + Len(e.read)
      /\ DataLaid(out, DataAt(e), e.read, Len(e.read))
  <2>1. Len(e.left) = 0  BY <1>1, NothingIsSeq
  <2>2. Len(e.read) - Len(e.left) = Len(e.read)  BY <1>3, <2>1
  <2>. QED  BY <1>2, <2>2
<1>6. DataAt(c) = DataAt(e) /\ HeaderLaid(out, c, e.read, Len(e.read))
  BY <1>2, <1>4, SameLayout
<1>7. EndOf(c) = DataAt(c) + c.csize
  <2>1. c.name \in FileName /\ c.at \in Nat /\ c.csize \in Nat
        /\ ~IsDeflated(c.method)
    BY <1>2, <1>3, <1>4
  <2>. QED  BY <2>1, Sizes
<1>8. FileLaid(out, c) /\ EndOf(c) = Len(out)
  <2>1. EndOf(c) = Len(out)  BY <1>4, <1>5, <1>6, <1>7
  <2>2. StoredLaid(out, c)  BY <1>4, <1>5, <1>6 DEF StoredLaid
  <2>3. EndOf(c) <= Len(out)
    <3>1. Len(out) \in Nat  BY <1>2, IsSeqFacts
    <3>. QED  BY <2>1, <3>1
  <2>. QED  BY <1>2, <1>4, <2>1, <2>2, <2>3 DEF FileLaid
<1>9. EntryFits(c)
  BY <1>3, <1>4 DEF EntryFits
<1>10. Grown(out, out')
  BY <1>1, <1>2, IsSeqFacts DEF Grown
<1>11. FilesLaid' /\ FilesEnd(central') = EndOf(c)
  <2>1. c.usize = Len(c.crc) /\ c.at = FilesEnd(central)
        /\ (~IsZip64(c.method) => c.usize <= Max32)
    BY <1>3, <1>4
  <2>2. IsSeq(out') /\ FileLaid(out', c)  BY <1>1, <1>2, <1>8
  <2>. QED  BY <1>1, <1>2, <1>4, <1>9, <1>10, <2>1, <2>2, FileAdded
<1>12. WriterPhase'
  <2>1. central' # <<>> /\ 0 \in 0 .. Len(central')
    BY <1>1, <1>4, AppendProperties, LenProperties DEF WriterInv, FilesLaid
  <2>2. Len(out') = FilesEnd(central')  BY <1>1, <1>8, <1>11
  <2>. QED  BY <1>1, <1>2, <2>1, <2>2 DEF WriterInv, WriterPhase
<1>13. FileOf(c) = Current
  <2>1. e.read \o e.rest = e.read
    BY <1>2, <1>3, ConcatEmptySeq DEF Content
  <2>. QED  BY <1>0, <1>4, <2>1 DEF FileOf, Current
<1>14. Provenance'
  <2>1. Writing  BY <1>1 DEF Writing
  <2>. QED  BY <1>1, <1>4, <1>13, <2>1, CurrentIsListed
<1>15. FieldsFit'  BY <1>1 DEF WriterInv, FieldsFit
<1>. QED  BY <1>11, <1>12, <1>14, <1>15 DEF WriterInv

LEMMA WriterDeflates ==
  ASSUME WriterInv, DeflateBlock, UNCHANGED source
  PROVE  WriterInv'
<1>0. PICK e, d, next, read, rest, given :
        /\ e = entry /\ d = entry' /\ next = NextBlock(e.rest)
        /\ read = e.read \o next /\ rest = AfterBlock(e.rest)
        /\ given = e.held \o next
  OBVIOUS
<1>1. wpc = "deflate" /\ UNCHANGED <<files, zip64>>
  BY DEF DeflateBlock
<1>2. PICK k \in 0 .. Len(given) :
        \/ RaiseZipError
        \/ /\ ~Beyond32(e.method, Len(read))
           /\ ~Beyond32(e.method, e.csize + k)
           /\ d = [e EXCEPT !.read = read, !.rest = rest,
                            !.held = SubSeq(given, k + 1, Len(given)),
                            !.csize = e.csize + k]
           /\ Emit(Data(SubSeq(given, 1, k)))
           /\ UNCHANGED <<wpc, central, cdstart, listed>>
  BY <1>0 DEF DeflateBlock
<1>3. /\ e \in OpenEntry /\ EntryOpen /\ IsDeflated(e.method) /\ IsSeq(out)
      /\ Len(out) = DataAt(e) + e.csize /\ HeaderLaid(out, e, <<>>, 0)
      /\ BytesLaid(out, DataAt(e), Len(out)) /\ zip64 \in BOOLEAN
  BY <1>0, <1>1 DEF WriterInv, WriterPhase, DeflatePhase, EntryOpen
<1>4. /\ e.name \in FileName /\ e.at \in Nat /\ e.read \in Content
      /\ e.rest \in Content /\ e.held \in Content /\ e.csize \in Nat
      /\ EntryFits(e) /\ e.at = FilesEnd(central)
  BY <1>0, <1>3, OpenFields DEF EntryOpen
<1>5. /\ read \in Content /\ rest \in Content /\ read \o rest = e.read \o e.rest
      /\ next \in Content
  BY <1>0, <1>4, BlocksJoin, Blocks
<1>6. given \in Content /\ Len(given) \in Nat
  BY <1>0, <1>4, <1>5, ConcatProperties, LenProperties DEF Content
<1>7. CASE RaiseZipError
  BY <1>1, <1>3, <1>7, Raised
<1>8. CASE /\ ~Beyond32(e.method, Len(read))
           /\ ~Beyond32(e.method, e.csize + k)
           /\ d = [e EXCEPT !.read = read, !.rest = rest,
                            !.held = SubSeq(given, k + 1, Len(given)),
                            !.csize = e.csize + k]
           /\ Emit(Data(SubSeq(given, 1, k)))
           /\ UNCHANGED <<wpc, central, cdstart, listed>>
  <2>0. PICK yield, held, size, h :
          /\ yield = SubSeq(given, 1, k) /\ held = SubSeq(given, k + 1, Len(given))
          /\ size = e.csize + k /\ h = Data(yield)
    OBVIOUS
  <2>1. k \in Nat /\ k <= Len(given) /\ size \in Nat /\ size = e.csize + k
    BY <1>4, <1>6, <2>0
  <2>2. yield \in Content /\ held \in Content /\ Len(yield) = k
    <3>1. yield \in Content /\ held \in Content
      BY <1>6, <2>0, <2>1, CutIn DEF Content
    <3>2. IsSeq(given)  BY <1>6, SeqIsSeq DEF Content
    <3>3. Len(yield) = IF 1 <= k THEN k - 1 + 1 ELSE 0
      BY <2>0, <2>1, <3>2, Cut DEF Cuts
    <3>. QED  BY <2>1, <3>1, <3>3
  <2>3. d = [e EXCEPT !.read = read, !.rest = rest, !.held = held,
                      !.csize = size]
    BY <1>8, <2>0
  <2>4. /\ d \in OpenEntry
        /\ d.name = e.name /\ d.method = e.method /\ d.at = e.at
        /\ d.read = read /\ d.rest = rest /\ d.csize = size
    BY <1>3, <1>5, <2>1, <2>2, <2>3 DEF OpenEntry
  <2>5. /\ IsSeq(h) /\ Len(h) = k
        /\ \A i \in 1 .. k : h[i] = [byte |-> yield[i]]
    BY <2>0, <2>2, DataIsSeq
  <2>6. AllFit(h)
    <3>1. ASSUME NEW i \in 1 .. Len(h)  PROVE TokenFits(h[i])
      <4>1. h[i] = [byte |-> yield[i]]  BY <2>5
      <4>. QED  BY <4>1, SmallTokensFit
    <3>. QED  BY <3>1 DEF AllFit
  <2>7. /\ IsSeq(out') /\ offset' = Len(out') /\ Grown(out, out') /\ FieldsFit'
        /\ Joins(out', out, h) /\ Len(out') = Len(out) + k /\ Len(out) \in Nat
    <3>1. Emit(h)  BY <1>8, <2>0
    <3>. QED  BY <2>5, <2>6, <3>1, EmitFacts
  <2>8. EntryOpen'
    <3>1. Len(read) \in Nat  BY <1>5, LenProperties DEF Content
    <3>2. ~IsZip64(e.method) => ~(Len(read) > Max32) /\ ~(size > Max32)
      BY <1>8, <2>0 DEF Beyond32
    <3>3. ~IsZip64(e.method) => Len(read) <= Max32 /\ size <= Max32
      BY <2>1, <3>1, <3>2, ZipAssumption
    <3>4. EntryFits(d)  BY <1>4, <2>4, <3>3 DEF EntryFits
    <3>5. d.at = FilesEnd(central')  BY <1>4, <1>8, <2>4
    <3>. QED  BY <1>0, <2>4, <3>3, <3>4, <3>5 DEF EntryOpen
  <2>9. DataAt(d) = DataAt(e) /\ HeaderLaid(out', d, <<>>, 0)
    <3>1. HeaderLaid(out', e, <<>>, 0)  BY <1>3, <1>4, <2>7, HeaderGrown
    <3>. QED  BY <2>4, <3>1, SameLayout
  <2>10. Len(out') = DataAt(d) + d.csize
    <3>0. PICK o, a, m : o = Len(out) /\ a = DataAt(e) /\ m = e.csize
      OBVIOUS
    <3>1. a \in Nat /\ m \in Nat /\ o = a + m  BY <1>3, <1>4, <3>0, Sizes
    <3>2. o + k = a + (m + k)  BY <2>1, <3>1
    <3>. QED  BY <2>1, <2>4, <2>7, <2>9, <3>0, <3>2
  <2>11. BytesLaid(out', DataAt(d), Len(out'))
    <3>0. PICK o, a : o = Len(out) /\ a = DataAt(e)  OBVIOUS
    <3>1. a \in Nat /\ o \in Nat /\ Len(out') = o + k
      BY <1>4, <2>7, <3>0, Sizes
    <3>2. ASSUME NEW i \in a + 1 .. o + k  PROVE DOMAIN out'[i] = {"byte"}
      <4>1. CASE i <= o
        <5>1. i \in a + 1 .. o /\ i \in 1 .. o  BY <2>1, <3>1, <4>1
        <5>2. DOMAIN out[i] = {"byte"}  BY <1>3, <3>0, <5>1 DEF BytesLaid
        <5>. QED  BY <2>7, <3>0, <5>1, <5>2 DEF Grown
      <4>2. CASE ~(i <= o)
        <5>1. PICK j \in 1 .. k : i = o + j
          <6>1. i - o \in 1 .. k /\ i = o + (i - o)  BY <2>1, <3>1, <4>2
          <6>. QED  BY <6>1
        <5>2. out'[o + j] = h[j]  BY <2>5, <2>7, <3>0, <5>1 DEF Joins
        <5>3. h[j] = [byte |-> yield[j]]  BY <2>5, <5>1
        <5>. QED  BY <5>1, <5>2, <5>3
      <4>. QED  BY <4>1, <4>2
    <3>. QED  BY <2>9, <3>0, <3>1, <3>2 DEF BytesLaid
  <2>12. DeflatePhase'
    BY <1>0, <1>3, <2>4, <2>8, <2>9, <2>10, <2>11 DEF DeflatePhase
  <2>13. WriterPhase'
    BY <1>1, <1>8, <2>7, <2>12 DEF WriterInv, WriterPhase
  <2>14. Current' = Current  BY <1>0, <1>5, <2>4 DEF Current
  <2>15. Writing /\ Writing' /\ wpc # "raised"  BY <1>1, <1>8 DEF Writing
  <2>16. Provenance'
    BY <1>1, <1>8, <2>14, <2>15, ProvenanceStays DEF WriterInv
  <2>17. FilesLaid'  BY <1>3, <1>8, <2>7, FilesStay DEF WriterInv
  <2>. QED  BY <2>7, <2>13, <2>16, <2>17 DEF WriterInv
<1>. QED  BY <1>2, <1>7, <1>8

LEMMA WriterFinishesDeflated ==
  ASSUME WriterInv, FinishDeflated, UNCHANGED source
  PROVE  WriterInv'
<1>0. PICK e, size, c : /\ e = entry /\ size = e.csize + Len(e.held) + 1
                        /\ c = EntryOf(e, size)
  OBVIOUS
<1>1. /\ wpc = "deflate" /\ e.rest = <<>> /\ UNCHANGED <<files, zip64>>
      /\ \/ RaiseZipError
         \/ /\ ~Beyond32(e.method, size)
            /\ Emit(Data(e.held) \o <<[byte |-> 0]>>
                      \o DataDescriptor(e.method, e.read, size, Len(e.read)))
            /\ central' = Append(central, c)
            /\ wpc' = "next"
            /\ UNCHANGED <<cdstart, listed>>
  BY <1>0 DEF FinishDeflated
<1>2. /\ e \in OpenEntry /\ EntryOpen /\ IsDeflated(e.method) /\ IsSeq(out)
      /\ Len(out) = DataAt(e) + e.csize /\ HeaderLaid(out, e, <<>>, 0)
      /\ BytesLaid(out, DataAt(e), Len(out)) /\ zip64 \in BOOLEAN /\ listed = 0
      /\ FilesLaid
  BY <1>0, <1>1 DEF WriterInv, WriterPhase, DeflatePhase, EntryOpen
<1>3. /\ e.name \in FileName /\ e.at \in Nat /\ e.read \in Content
      /\ e.method \in Methods /\ e.held \in Content /\ e.csize \in Nat
      /\ EntryFits(e) /\ e.at = FilesEnd(central)
      /\ ~IsZip64(e.method) => Len(e.read) <= Max32
      /\ Len(e.read) \in Nat /\ Len(e.held) \in Nat /\ DataAt(e) \in Nat
  BY <1>0, <1>2, OpenFields, LenProperties, Sizes DEF EntryOpen, Content
<1>4. size \in Nat
  <2>0. PICK m, n : m = e.csize /\ n = Len(e.held)  OBVIOUS
  <2>1. m \in Nat /\ n \in Nat /\ size = m + n + 1  BY <1>0, <1>3, <2>0
  <2>. QED  BY <2>1
<1>5. CASE RaiseZipError
  BY <1>1, <1>2, <1>5, Raised
<1>6. CASE /\ ~Beyond32(e.method, size)
           /\ Emit(Data(e.held) \o <<[byte |-> 0]>>
                     \o DataDescriptor(e.method, e.read, size, Len(e.read)))
           /\ central' = Append(central, c)
           /\ wpc' = "next"
           /\ UNCHANGED <<cdstart, listed>>
  <2>0. PICK data, mark, desc, all, h :
          /\ data = Data(e.held) /\ mark = <<[byte |-> 0]>>
          /\ desc = DataDescriptor(e.method, e.read, size, Len(e.read))
          /\ all = data \o mark /\ h = all \o desc
    OBVIOUS
  <2>1. ~IsZip64(e.method) => size <= Max32
    <3>1. ~IsZip64(e.method) => ~(size > Max32)  BY <1>6 DEF Beyond32
    <3>. QED  BY <1>4, <3>1, ZipAssumption
  <2>2. /\ IsSeq(data) /\ Len(data) = Len(e.held)
        /\ \A i \in 1 .. Len(e.held) : data[i] = [byte |-> e.held[i]]
    BY <1>3, <2>0, DataIsSeq
  <2>3. IsSeq(mark) /\ Len(mark) = 1 /\ mark[1] = [byte |-> 0]
    BY <2>0, OneToken
  <2>4. /\ IsSeq(desc) /\ Len(desc) = 2 /\ AllFit(desc)
        /\ desc[1] = Signature("descriptor")
    BY <1>3, <1>4, <2>0, <2>1, DescriptorTokens
  <2>5. AllFit(data)
    <3>1. ASSUME NEW i \in 1 .. Len(data)  PROVE TokenFits(data[i])
      <4>1. data[i] = [byte |-> e.held[i]]  BY <2>2
      <4>. QED  BY <4>1, SmallTokensFit
    <3>. QED  BY <3>1 DEF AllFit
  <2>6. AllFit(mark)
    <3>1. TokenFits(mark[1])  BY <2>3, SmallTokensFit
    <3>. QED  BY <2>3, <3>1 DEF AllFit
  <2>7. Joins(all, data, mark)  BY <2>0, <2>2, <2>3, Joined
  <2>8. AllFit(all)  BY <2>2, <2>3, <2>5, <2>6, <2>7, JoinedFit
  <2>9. IsSeq(all) /\ Len(all) = Len(e.held) + 1
    BY <2>2, <2>3, <2>7 DEF Joins
  <2>10. Joins(h, all, desc)  BY <2>0, <2>4, <2>9, Joined
  <2>11. AllFit(h)  BY <2>4, <2>8, <2>9, <2>10, JoinedFit
  <2>12. IsSeq(h)  BY <2>10 DEF Joins
  <2>13. /\ IsSeq(out') /\ offset' = Len(out') /\ Grown(out, out') /\ FieldsFit'
         /\ Joins(out', out, h) /\ Len(out') = Len(out) + Len(h)
         /\ Len(out) \in Nat
    <3>1. Emit(h)  BY <1>6, <2>0
    <3>. QED  BY <2>11, <2>12, <3>1, EmitFacts
  <2>14. PICK o, a, m, n : /\ o = Len(out) /\ a = DataAt(e) /\ m = e.csize
                           /\ n = Len(e.held)
    OBVIOUS
  <2>15. /\ o \in Nat /\ a \in Nat /\ m \in Nat /\ n \in Nat
         /\ o = a + m /\ size = m + n + 1
    BY <1>0, <1>2, <1>3, <2>13, <2>14
  <2>16. Len(h) = n + 1 + 2  BY <2>4, <2>9, <2>10, <2>14 DEF Joins
  <2>17. \A i \in 1 .. n + 1 : h[i] = all[i]
    BY <2>9, <2>10, <2>14 DEF Joins
  <2>18. h[n + 2] = Signature("descriptor")
    <3>1. h[Len(all) + 1] = desc[1]  BY <2>4, <2>10 DEF Joins
    <3>2. Len(all) + 1 = n + 2  BY <2>9, <2>14, <2>15
    <3>. QED  BY <2>4, <3>1, <3>2
  <2>19. ASSUME NEW i \in 1 .. n + 1  PROVE DOMAIN h[i] = {"byte"}
    <3>1. CASE i <= n
      <4>1. i \in 1 .. n  BY <2>15, <3>1
      <4>2. all[i] = data[i]  BY <2>2, <2>7, <2>14, <4>1 DEF Joins
      <4>3. data[i] = [byte |-> e.held[i]]  BY <2>2, <2>14, <4>1
      <4>4. h[i] = [byte |-> e.held[i]]  BY <2>17, <4>2, <4>3
      <4>. QED  BY <4>4
    <3>2. CASE ~(i <= n)
      <4>1. i = n + 1  BY <2>15, <3>2
      <4>2. all[n + 1] = mark[1]  BY <2>2, <2>3, <2>7, <2>14 DEF Joins
      <4>3. h[i] = [byte |-> 0]  BY <2>3, <2>17, <4>1, <4>2
      <4>. QED  BY <4>3
    <3>. QED  BY <3>1, <3>2
  <2>20. /\ c \in ListedEntry
         /\ c.name = e.name /\ c.method = e.method /\ c.at = e.at
         /\ c.crc = e.read /\ c.csize = size /\ c.usize = Len(e.read)
    BY <1>0, <1>3, <1>4 DEF EntryOf, ListedEntry
  <2>21. DataAt(c) = a /\ HeaderLaid(out', c, <<>>, 0)
    <3>1. HeaderLaid(out', e, <<>>, 0)  BY <1>2, <1>3, <2>13, HeaderGrown
    <3>. QED  BY <2>14, <2>20, <3>1, SameLayout
  <2>22. EndOf(c) = a + size + 2
    <3>1. /\ c.name \in FileName /\ c.at \in Nat /\ c.csize \in Nat
          /\ IsDeflated(c.method)
      BY <1>2, <1>3, <1>4, <2>20
    <3>. QED  BY <2>20, <2>21, <3>1, Sizes
  <2>23. Len(out') = a + size + 2
    <3>1. Len(out') = o + (n + 1 + 2)  BY <2>13, <2>14, <2>16
    <3>. QED  BY <2>15, <3>1
  <2>24. BytesLaid(out', a, a + size)
    <3>1. ASSUME NEW i \in a + 1 .. a + size  PROVE DOMAIN out'[i] = {"byte"}
      <4>1. CASE i <= o
        <5>1. i \in a + 1 .. o /\ i \in 1 .. o  BY <2>15, <4>1
        <5>2. DOMAIN out[i] = {"byte"}  BY <1>2, <2>14, <5>1 DEF BytesLaid
        <5>. QED  BY <2>13, <2>14, <5>1, <5>2 DEF Grown
      <4>2. CASE ~(i <= o)
        <5>1. PICK j \in 1 .. n + 1 : i = o + j
          <6>1. i - o \in 1 .. n + 1 /\ i = o + (i - o)  BY <2>15, <4>2
          <6>. QED  BY <6>1
        <5>2. j \in 1 .. n + 1 + 2  BY <2>15
        <5>3. out'[o + j] = h[j]  BY <2>13, <2>14, <2>16, <5>2 DEF Joins
        <5>4. DOMAIN h[j] = {"byte"}  BY <2>19
        <5>. QED  BY <5>1, <5>3, <5>4
      <4>. QED  BY <4>1, <4>2
    <3>. QED  BY <3>1 DEF BytesLaid
  <2>25. out'[EndOf(c) - 1] = Signature("descriptor")
    <3>1. EndOf(c) - 1 = o + (n + 2)  BY <2>15, <2>22
    <3>2. n + 2 \in 1 .. n + 1 + 2  BY <2>15
    <3>3. out'[o + (n + 2)] = h[n + 2]  BY <2>13, <2>14, <2>16, <3>2 DEF Joins
    <3>. QED  BY <2>18, <3>1, <3>3
  <2>26. FileLaid(out', c) /\ Len(out') = EndOf(c)
    <3>1. DeflatedLaid(out', c)
      BY <2>20, <2>21, <2>24, <2>25 DEF DeflatedLaid
    <3>2. EndOf(c) <= Len(out')  BY <2>15, <2>22, <2>23, <1>4
    <3>. QED  BY <1>2, <2>20, <2>22, <2>23, <3>1, <3>2 DEF FileLaid
  <2>27. EntryFits(c)  BY <1>3, <2>1, <2>20 DEF EntryFits
  <2>28. FilesLaid' /\ FilesEnd(central') = EndOf(c)
    <3>1. c.usize = Len(c.crc) /\ c.at = FilesEnd(central)
          /\ (~IsZip64(c.method) => c.usize <= Max32)
      BY <1>3, <2>20
    <3>. QED  BY <1>2, <1>6, <2>13, <2>20, <2>26, <2>27, <3>1, FileAdded
  <2>29. WriterPhase'
    <3>1. central' # <<>> /\ 0 \in 0 .. Len(central')
      BY <1>6, <2>20, AppendProperties, LenProperties DEF WriterInv, FilesLaid
    <3>2. Len(out') = FilesEnd(central')  BY <2>26, <2>28
    <3>. QED  BY <1>1, <1>2, <1>6, <2>13, <3>1, <3>2 DEF WriterInv, WriterPhase
  <2>30. FileOf(c) = Current
    <3>1. e.read \o e.rest = e.read
      BY <1>1, <1>3, ConcatEmptySeq DEF Content
    <3>. QED  BY <1>0, <2>20, <3>1 DEF FileOf, Current
  <2>31. Provenance'
    <3>1. Writing  BY <1>1 DEF Writing
    <3>. QED  BY <1>1, <1>6, <2>20, <2>30, <3>1, CurrentIsListed
  <2>. QED  BY <2>13, <2>28, <2>29, <2>31 DEF WriterInv
<1>. QED  BY <1>1, <1>5, <1>6

LEMMA WriterStartsDirectory ==
  ASSUME WriterInv, StartDirectory, UNCHANGED source
  PROVE  WriterInv'
<1>1. /\ wpc = "next" /\ files = <<>> /\ UNCHANGED <<files, zip64>>
      /\ \/ RaiseZipError
         \/ /\ zip64 \/ (offset <= Max32 /\ Len(central) <= Max16)
            /\ wpc' = "central" /\ cdstart' = offset
            /\ UNCHANGED <<entry, out, offset, central, listed>>
  BY DEF StartDirectory
<1>2. /\ IsSeq(out) /\ offset = Len(out) /\ Len(out) = FilesEnd(central)
      /\ listed = 0 /\ zip64 \in BOOLEAN /\ (zip64 => central # <<>>)
      /\ Len(out) \in Nat /\ FilesLaid /\ 0 \in 0 .. Len(central)
  BY <1>1, IsSeqFacts DEF WriterInv, WriterPhase
<1>3. CASE RaiseZipError
  BY <1>1, <1>2, <1>3, Raised
<1>4. CASE /\ zip64 \/ (offset <= Max32 /\ Len(central) <= Max16)
           /\ wpc' = "central" /\ cdstart' = offset
           /\ UNCHANGED <<entry, out, offset, central, listed>>
  <2>1. DirectoryStarted'
    BY <1>1, <1>2, <1>4 DEF DirectoryStarted
  <2>2. DirectoryPhase'
    <3>1. PICK n : n = Len(out)  OBVIOUS
    <3>2. n - n <= Max32  BY <1>2, <3>1, ZipAssumption
    <3>3. ~zip64 => /\ Len(central) <= Max16
                    /\ n <= Max32 /\ n - n <= Max32
      BY <1>2, <1>4, <3>1, <3>2
    <3>. QED  BY <1>1, <1>2, <1>4, <2>1, <3>1, <3>3 DEF DirectoryPhase
  <2>3. WriterPhase'  BY <1>1, <1>2, <1>4, <2>2 DEF WriterPhase
  <2>4. ~Writing /\ ~Writing' /\ wpc # "raised"  BY <1>1, <1>4 DEF Writing
  <2>5. Provenance'  BY <1>1, <1>4, <2>4, ProvenanceStays DEF WriterInv
  <2>6. FilesLaid' /\ FieldsFit'
    BY <1>4 DEF WriterInv, FilesLaid, FieldsFit
  <2>. QED  BY <2>3, <2>5, <2>6 DEF WriterInv
<1>. QED  BY <1>1, <1>3, <1>4

LEMMA WriterListsEntry ==
  ASSUME WriterInv, WriteEntry, UNCHANGED source
  PROVE  WriterInv'
<1>0. PICK c, h :
        /\ c = central[listed + 1]
        /\ h = CentralHeader(c.method, c.name, c.crc, c.csize, c.usize, c.at)
  OBVIOUS
<1>1. /\ wpc = "central" /\ listed < Len(central) /\ Emit(h)
      /\ listed' = listed + 1
      /\ wpc' = (IF ~zip64 /\ offset' - cdstart > Max32 THEN "raised" ELSE wpc)
      /\ UNCHANGED <<files, entry, zip64, central, cdstart>>
  BY <1>0 DEF WriteEntry
<1>2. /\ DirectoryPhase /\ DirectoryStarted /\ FilesLaid /\ IsSeq(out)
      /\ zip64 \in BOOLEAN /\ cdstart \in Nat
  BY <1>1 DEF WriterInv, WriterPhase, DirectoryPhase
<1>3. /\ listed \in Nat /\ listed + 1 \in 1 .. Len(central)
      /\ Len(central) \in Nat
  BY <1>1, <1>2, LenProperties DEF DirectoryStarted, FilesLaid
<1>4. /\ c \in ListedEntry /\ EntryFits(c)
      /\ ~IsZip64(c.method) => c.usize <= Max32
  BY <1>0, <1>2, <1>3, ElementOfSeq DEF FilesLaid
<1>5. /\ IsSeq(h) /\ Len(h) >= 1 /\ AllFit(h)
      /\ h[1] = Signature("central")
  BY <1>0, <1>4, CentralTokens
<1>6. /\ IsSeq(out') /\ offset' = Len(out') /\ Grown(out, out') /\ FieldsFit'
      /\ Joins(out', out, h) /\ Len(out') = Len(out) + Len(h)
      /\ Len(out) \in Nat /\ Len(h) \in Nat
  BY <1>1, <1>5, EmitFacts
<1>7. cdstart < Len(out') /\ out'[cdstart + 1] = Signature("central")
  <2>1. CASE listed = 0
    <3>1. Len(out) = cdstart  BY <1>2, <2>1 DEF DirectoryPhase
    <3>2. out'[Len(out) + 1] = h[1]  BY <1>5, <1>6 DEF Joins
    <3>. QED  BY <1>5, <1>6, <3>1, <3>2
  <2>2. CASE listed # 0
    <3>1. cdstart < Len(out) /\ out[cdstart + 1] = Signature("central")
      BY <1>2, <2>2 DEF DirectoryPhase
    <3>2. cdstart + 1 \in 1 .. Len(out)  BY <1>2, <1>6, <3>1
    <3>. QED  BY <1>2, <1>5, <1>6, <3>1, <3>2 DEF Grown
  <2>. QED  BY <2>1, <2>2
<1>8. FilesLaid'  BY <1>1, <1>2, <1>6, FilesStay
<1>9. DirectoryStarted' /\ listed' \in 0 .. Len(central') /\ listed' # 0
  BY <1>1, <1>2, <1>3 DEF DirectoryStarted
<1>10. CASE ~zip64 /\ offset' - cdstart > Max32
  <2>1. wpc' = "raised"  BY <1>1, <1>10
  <2>2. WriterPhase'  BY <1>1, <1>2, <1>6, <1>9, <2>1 DEF WriterPhase
  <2>3. ~Writing' /\ ~Writing /\ wpc # "raised"  BY <1>1, <2>1 DEF Writing
  <2>4. Provenance'  BY <1>1, <2>3, ProvenanceStays DEF WriterInv
  <2>. QED  BY <1>6, <1>8, <2>2, <2>4 DEF WriterInv
<1>11. CASE ~(~zip64 /\ offset' - cdstart > Max32)
  <2>1. wpc' = "central"  BY <1>1, <1>11
  <2>2. ~zip64 => /\ Len(central) <= Max16
                  /\ cdstart <= Max32 /\ Len(out') - cdstart <= Max32
    <3>1. PICK d : d = Len(out') - cdstart  OBVIOUS
    <3>2. d \in Int  BY <1>2, <1>6, <3>1
    <3>3. ~zip64 => ~(d > Max32)  BY <1>6, <1>11, <3>1
    <3>4. ~zip64 => d <= Max32  BY <3>2, <3>3, ZipAssumption
    <3>. QED  BY <1>2, <3>1, <3>4 DEF DirectoryPhase
  <2>3. DirectoryPhase'
    BY <1>1, <1>7, <1>9, <2>2 DEF DirectoryPhase
  <2>4. zip64 => central # <<>>
    BY <1>1 DEF WriterInv, WriterPhase
  <2>5. WriterPhase'
    BY <1>1, <1>2, <1>6, <1>9, <2>1, <2>3, <2>4 DEF WriterPhase
  <2>6. ~Writing' /\ ~Writing /\ wpc # "raised"  BY <1>1, <2>1 DEF Writing
  <2>7. Provenance'  BY <1>1, <2>6, ProvenanceStays DEF WriterInv
  <2>. QED  BY <1>6, <1>8, <2>5, <2>7 DEF WriterInv
<1>. QED  BY <1>10, <1>11

LEMMA WriterEnds ==
  ASSUME WriterInv, WriteEnd, UNCHANGED source
  PROVE  WriterInv'
<1>0. PICK h, n, size, o :
        /\ n = Len(central) /\ size = offset - cdstart /\ o = Len(out)
        /\ h = EndRecords(zip64, n, size, cdstart, offset)
  OBVIOUS
<1>1. /\ wpc = "central" /\ listed = n /\ Emit(h) /\ wpc' = "done"
      /\ UNCHANGED <<files, entry, zip64, central, cdstart, listed>>
  BY <1>0 DEF WriteEnd
<1>2. /\ DirectoryPhase /\ DirectoryStarted /\ FilesLaid /\ IsSeq(out)
      /\ zip64 \in BOOLEAN /\ cdstart \in Nat /\ offset = o
      /\ zip64 => central # <<>>
  BY <1>0, <1>1 DEF WriterInv, WriterPhase, DirectoryPhase
<1>3. n \in Nat /\ o \in Nat
  BY <1>0, <1>2, LenProperties, IsSeqFacts DEF FilesLaid
<1>4. /\ IF n = 0 THEN o = cdstart
         ELSE cdstart < o /\ out[cdstart + 1] = Signature("central")
      /\ ~zip64 => n <= Max16 /\ cdstart <= Max32 /\ o - cdstart <= Max32
  BY <1>0, <1>1, <1>2 DEF DirectoryPhase
<1>5. size \in Nat /\ size = o - cdstart
  BY <1>0, <1>2, <1>3, <1>4
<1>6. EndsWith(h, zip64, n, size, cdstart, offset)
  <2>1. ~zip64 => n <= Max16 /\ size <= Max32 /\ cdstart <= Max32
    BY <1>4, <1>5
  <2>2. zip64 \in BOOLEAN /\ n \in Nat /\ size \in Nat /\ cdstart \in Nat
        /\ offset \in Nat
    BY <1>2, <1>3, <1>5
  <2>. QED  BY <1>0, <2>1, <2>2, EndTokens
<1>7. PICK l \in {2, 6} : l = (IF zip64 THEN 6 ELSE 2)  BY <1>2
<1>8. IsSeq(h) /\ Len(h) = l /\ AllFit(h)  BY <1>6, <1>7 DEF EndsWith
<1>9. /\ IsSeq(out') /\ offset' = Len(out') /\ Grown(out, out') /\ FieldsFit'
      /\ Joins(out', out, h) /\ Len(out') = o + l
  BY <1>0, <1>1, <1>8, EmitFacts
<1>10. \A i \in 1 .. l : out'[o + i] = h[i]
  BY <1>0, <1>8, <1>9 DEF Joins
<1>11. cdstart < Len(out')
       /\ out'[cdstart + 1]
            = Signature(IF central # <<>> THEN "central" ELSE "end")
  <2>1. CASE central = <<>>
    <3>1. n = 0 /\ ~zip64  BY <1>0, <1>2, <2>1, NothingIsSeq
    <3>2. o = cdstart  BY <1>4, <3>1
    <3>3. 1 \in 1 .. l  BY <1>7
    <3>4. out'[o + 1] = h[1]  BY <1>10, <3>3
    <3>5. h[1] = Signature("end")  BY <1>6, <3>1 DEF EndsWith
    <3>. QED  BY <1>7, <1>3, <1>9, <2>1, <3>2, <3>4, <3>5
  <2>2. CASE central # <<>>
    <3>1. n # 0  BY <1>0, <2>2, EmptySeq DEF WriterInv, FilesLaid
    <3>2. cdstart < o /\ out[cdstart + 1] = Signature("central")
      BY <1>4, <3>1
    <3>3. cdstart + 1 \in 1 .. o  BY <1>2, <1>3, <3>2
    <3>4. out'[cdstart + 1] = out[cdstart + 1]
      BY <1>0, <1>9, <3>3 DEF Grown
    <3>. QED  BY <1>2, <1>3, <1>7, <1>9, <2>2, <3>2, <3>4
  <2>. QED  BY <2>1, <2>2
<1>12. PICK last, end, p :
         /\ p = Len(out') /\ last = p - l
         /\ end = (IF zip64 THEN out'[p - 4] ELSE out'[p])
  OBVIOUS
<1>13. /\ last = o /\ cdstart + size = last
  BY <1>2, <1>3, <1>5, <1>7, <1>9, <1>12
<1>14. /\ end.entries = n /\ end.cdsize = size /\ end.cdstart = cdstart
       /\ zip64 => out'[p - 2].end64 = last
  <2>1. CASE zip64
    <3>1. l = 6 /\ p = o + 6  BY <1>7, <1>9, <1>12, <2>1
    <3>2. p - 4 = o + 2 /\ p - 2 = o + 4 /\ 2 \in 1 .. l /\ 4 \in 1 .. l
      BY <1>3, <3>1
    <3>3. end = h[2] /\ out'[p - 2] = h[4]  BY <1>10, <1>12, <2>1, <3>2
    <3>4. /\ h[2].entries = n /\ h[2].cdsize = size /\ h[2].cdstart = cdstart
          /\ h[4].end64 = offset
      BY <1>6, <2>1 DEF EndsWith
    <3>. QED  BY <1>2, <1>13, <3>3, <3>4
  <2>2. CASE ~zip64
    <3>1. l = 2 /\ p = o + 2 /\ 2 \in 1 .. l  BY <1>7, <1>9, <1>12, <2>2
    <3>2. end = h[2]  BY <1>10, <1>12, <2>2, <3>1
    <3>3. h[2].entries = n /\ h[2].cdsize = size /\ h[2].cdstart = cdstart
      BY <1>6, <1>8, <2>2, <3>1 DEF EndsWith
    <3>. QED  BY <2>2, <3>2, <3>3
  <2>. QED  BY <2>1, <2>2
<1>15. DonePhase'
  <2>1. DirectoryStarted'  BY <1>0, <1>1, <1>2 DEF DirectoryStarted
  <2>2. last = Len(out') - (IF zip64' THEN 6 ELSE 2)
    BY <1>1, <1>7, <1>12
  <2>3. end = IF zip64' THEN out'[Len(out') - 4] ELSE out'[Len(out')]
    BY <1>1, <1>12
  <2>4. /\ end.entries = Len(central') /\ end.cdstart = cdstart'
        /\ cdstart' + end.cdsize = last
        /\ zip64' => out'[Len(out') - 2].end64 = last
    BY <1>0, <1>1, <1>12, <1>13, <1>14
  <2>5. /\ cdstart' < Len(out')
        /\ out'[cdstart' + 1]
             = Signature(IF central' # <<>> THEN "central" ELSE "end")
    BY <1>1, <1>11
  <2>. QED  BY <2>1, <2>2, <2>3, <2>4, <2>5 DEF DonePhase
<1>16. WriterPhase'
  <2>1. listed' \in 0 .. Len(central')
    BY <1>1, <1>2 DEF DirectoryStarted
  <2>. QED  BY <1>1, <1>2, <1>9, <1>15, <2>1 DEF WriterPhase
<1>17. ~Writing' /\ ~Writing /\ wpc # "raised"  BY <1>1 DEF Writing
<1>18. Provenance'  BY <1>1, <1>17, ProvenanceStays DEF WriterInv
<1>19. FilesLaid'  BY <1>1, <1>2, <1>9, FilesStay
<1>. QED  BY <1>9, <1>16, <1>18, <1>19 DEF WriterInv

LEMMA WriterSteps ==
  ASSUME WriterInv, ZipNext, UNCHANGED source
  PROVE  WriterInv'
BY WriterTakesFile, WriterBuffers, WriterWritesHeader, WriterWritesBlock,
   WriterFinishesStored, WriterDeflates, WriterFinishesDeflated,
   WriterStartsDirectory, WriterListsEntry, WriterEnds DEF ZipNext

LEMMA WriterStays ==
  ASSUME WriterInv, UNCHANGED <<zipVars, source>>
  PROVE  WriterInv'
<1>1. UNCHANGED <<wpc, files, entry, zip64, out, offset, central, cdstart,
                  listed, source>>
  BY DEF zipVars
<1>2. FilesLaid' /\ FieldsFit'
  BY <1>1 DEF WriterInv, FilesLaid, FieldsFit
<1>3. Provenance'
  <2>1. /\ Ahead' = Ahead /\ Behind' = Behind /\ Current' = Current
        /\ Writing' = Writing
    BY <1>1 DEF Ahead, Behind, Current, Writing
  <2>. QED  BY <1>1, <2>1 DEF WriterInv, Provenance
<1>4. WriterPhase'
  <2>1. /\ BufferPhase => BufferPhase'
        /\ StoredPhase => StoredPhase'
        /\ DeflatePhase => DeflatePhase'
    BY <1>1 DEF BufferPhase, StoredPhase, DeflatePhase, EntryOpen
  <2>2. /\ DirectoryPhase => DirectoryPhase'
        /\ DonePhase => DonePhase'
    BY <1>1 DEF DirectoryPhase, DonePhase, DirectoryStarted
  <2>. QED  BY <1>1, <2>1, <2>2 DEF WriterInv, WriterPhase
<1>. QED  BY <1>2, <1>3, <1>4 DEF WriterInv

LEMMA WriterStarts ==
  ASSUME Init
  PROVE  WriterInv
<1>1. PICK s \in TraverseDirectory(source) : ZipInit(s)  BY DEF Init
<1>2. source \in Trees /\ IsFiniteSet(source)
  BY ArchiveAssumption DEF Init
<1>3. /\ wpc = "next" /\ files = s /\ zip64 = FALSE /\ out = <<>> /\ offset = 0
      /\ central = <<>> /\ cdstart = 0 /\ listed = 0
  BY <1>1 DEF ZipInit
<1>4. PICK n : n = Cardinality(source)  OBVIOUS
<1>5. n \in Nat  BY <1>2, <1>4, FS_CardinalityType
<1>6. /\ s \in [1 .. n -> source]
      /\ \A i, j \in 1 .. n : i # j => s[i] # s[j]
  BY <1>4 DEF TraverseDirectory, SetToSeqs
<1>7. s \in Seq(source) /\ Len(s) = n
  <2>1. s \in Seq(source)  BY <1>5, <1>6, SeqDef
  <2>. QED  BY <1>5, <1>6, <2>1, LenProperties
<1>8. \A f \in source : \E i \in 1 .. n : s[i] = f
  <2>1. IsInjective(s)  BY <1>6 DEF IsInjective
  <2>2. s \in Injection(1 .. n, source)  BY <1>6, <2>1 DEF Injection
  <2>3. Cardinality(1 .. n) = n
    <3>1. Cardinality(1 .. n) = IF 1 > n THEN 0 ELSE n - 1 + 1
      BY <1>5, FS_Interval
    <3>. QED  BY <1>5, <3>1
  <2>4. Cardinality(1 .. n) = Cardinality(source)  BY <1>4, <2>3
  <2>5. s \in Surjection(1 .. n, source)  BY <1>2, <2>2, <2>4, FS_Injection
  <2>. QED  BY <2>5 DEF Surjection
<1>9. IsSeq(out) /\ Len(out) = 0 /\ Len(central) = 0  BY <1>3, NothingIsSeq
<1>10. FilesLaid
  <2>1. central \in Seq(ListedEntry)  BY <1>3, EmptySeq
  <2>. QED  BY <1>9, <2>1 DEF FilesLaid
<1>11. WriterPhase
  <2>1. FilesEnd(central) = 0  BY <1>3 DEF FilesEnd
  <2>2. listed \in 0 .. Len(central) /\ cdstart \in Nat  BY <1>3, <1>9
  <2>3. zip64 \in BOOLEAN /\ ~zip64  BY <1>3
  <2>4. offset = Len(out)  BY <1>3, <1>9
  <2>. QED  BY <1>3, <1>9, <2>1, <2>2, <2>3, <2>4 DEF WriterPhase
<1>12. Provenance
  <2>1. Behind = {}  BY <1>9 DEF Behind
  <2>2. source \subseteq Ahead  BY <1>3, <1>7, <1>8 DEF Ahead
  <2>3. ~Writing  BY <1>3 DEF Writing
  <2>4. \A i, j \in 1 .. Len(central) :
          i # j => FileOf(central[i]) # FileOf(central[j])
    BY <1>9
  <2>. QED  BY <1>2, <1>3, <1>6, <1>7, <2>1, <2>2, <2>3, <2>4 DEF Provenance
<1>13. FieldsFit  BY <1>9 DEF FieldsFit
<1>. QED  BY <1>10, <1>11, <1>12, <1>13 DEF WriterInv

------------------------------------------------------------------------------
(* The finished archive *)

LEMMA ListedIsTrue ==
  ASSUME WriterInv, wpc = "done", NEW i \in 1 .. Len(central)
  PROVE  EntryIsTrue(central[i])
<1>0. PICK c, o : c = central[i] /\ o = out  OBVIOUS
<1>1. /\ central \in Seq(ListedEntry) /\ FileLaid(o, c)
      /\ Len(central) \in Nat
  BY <1>0, LenProperties DEF WriterInv, FilesLaid
<1>2. c \in ListedEntry  BY <1>0, <1>1, ElementOfSeq
<1>3. /\ c.name \in FileName /\ c.at \in Nat /\ c.csize \in Nat
      /\ c.crc \in Content
  BY <1>2, ListedFields
<1>4. /\ Len(c.name) \in Nat /\ HeaderLen(c) = 2 + Len(c.name) + ExtraLen(c)
      /\ ExtraLen(c) \in 0 .. 1
      /\ DataAt(c) \in Nat /\ DataAt(c) = c.at + HeaderLen(c)
      /\ EndOf(c) \in Nat
      /\ IsDeflated(c.method) => EndOf(c) = DataAt(c) + c.csize + 2
      /\ ~IsDeflated(c.method) => EndOf(c) = DataAt(c) + c.csize
  BY <1>3, Sizes
<1>5. IsSeq(o) /\ Len(o) \in Nat
  BY <1>0, IsSeqFacts DEF WriterInv, WriterPhase
<1>6. Len(LocalHeader(c.method, c.name, c.crc, c.csize)) = HeaderLen(c)
  <2>1. PICK h : h = LocalHeader(c.method, c.name, c.crc, c.csize)  OBVIOUS
  <2>2. HeaderIs(h, c, c.crc, c.csize)  BY <1>3, <2>1, HeaderTokens
  <2>. QED  BY <2>1, <2>2 DEF HeaderIs
<1>7. PICK data, csize, at, name :
        data = DataAt(c) /\ csize = c.csize /\ at = c.at /\ name = c.name
  OBVIOUS
<1>8. PICK crc, size : HeaderLaid(o, c, crc, size)
  BY <1>1 DEF FileLaid, DeflatedLaid, StoredLaid
<1>9. /\ data <= Len(o) /\ o[at + 1] = Signature("local")
      /\ \A j \in 1 .. Len(name) : o[at + 2 + j] = [part |-> name[j]]
  BY <1>7, <1>8 DEF HeaderLaid
<1>10. /\ data \in Nat /\ at \in Nat /\ csize \in Nat /\ name \in FileName
       /\ Len(name) \in Nat /\ at + 2 + Len(name) <= data
  <2>1. /\ data \in Nat /\ at \in Nat /\ csize \in Nat /\ name \in FileName
        /\ Len(name) \in Nat
    BY <1>3, <1>4, <1>7
  <2>2. PICK l, e : l = Len(name) /\ e = ExtraLen(c)  OBVIOUS
  <2>3. data = at + (2 + l + e) /\ e \in 0 .. 1  BY <1>4, <1>7, <2>2
  <2>4. at + 2 + l <= data  BY <2>1, <2>2, <2>3
  <2>. QED  BY <2>1, <2>2, <2>4
<1>11. SubSeq(o, at + 3, at + 2 + Len(name)) = NameTokens(name)
  <2>1. PICK part, n, from, to :
          /\ n = Len(name) /\ from = at + 3 /\ to = at + 2 + n
          /\ part = SubSeq(o, from, to)
    OBVIOUS
  <2>2. /\ IsSeq(part)
        /\ Len(part) = IF from <= to THEN to - from + 1 ELSE 0
        /\ \A j \in 1 .. to - from + 1 : part[j] = o[from + j - 1]
    <3>1. from \in Nat \ {0} /\ to \in Nat /\ to <= Len(o)
      BY <1>5, <1>9, <1>10, <2>1
    <3>2. Cuts(part, o, from, to)  BY <1>5, <2>1, <3>1, Cut
    <3>. QED  BY <3>2 DEF Cuts
  <2>3. to - from + 1 = n /\ n \in Nat /\ (from <= to <=> n > 0)
    BY <1>10, <2>1
  <2>4. Len(part) = n  BY <2>2, <2>3
  <2>5. \A j \in 1 .. n : part[j] = o[at + 2 + j]
    <3>1. \A j \in 1 .. n : from + j - 1 = at + 2 + j  BY <1>10, <2>1
    <3>. QED  BY <2>2, <2>3, <3>1
  <2>6. PICK t : t = NameTokens(name)  OBVIOUS
  <2>7. /\ IsSeq(t) /\ Len(t) = n
        /\ \A j \in 1 .. n : t[j] = [part |-> name[j]]
    BY <1>10, <2>1, <2>6, NamesAreSeqs
  <2>8. ASSUME NEW j \in 1 .. Len(part)  PROVE part[j] = t[j]
    <3>1. j \in 1 .. n  BY <2>4
    <3>2. t[j] = [part |-> name[j]]  BY <2>7, <3>1
    <3>3. o[at + 2 + j] = [part |-> name[j]]  BY <1>9, <2>1, <3>1
    <3>4. part[j] = o[at + 2 + j]  BY <2>5, <3>1
    <3>. QED  BY <3>2, <3>3, <3>4, Zenon
  <2>9. part = t  BY <2>2, <2>4, <2>7, <2>8, EqualSeqs
  <2>. QED  BY <2>1, <2>6, <2>9
<1>12. ASSUME NEW j \in data + 1 .. data + csize  PROVE DOMAIN o[j] = {"byte"}
  <2>1. CASE IsDeflated(c.method)
    BY <1>1, <1>7, <2>1 DEF FileLaid, DeflatedLaid, BytesLaid
  <2>2. CASE ~IsDeflated(c.method)
    <3>1. PICK k \in 1 .. csize : j = data + k
      <4>1. j - data \in 1 .. csize /\ j = data + (j - data)  BY <1>10
      <4>. QED  BY <4>1
    <3>2. o[data + k] = [byte |-> c.crc[k]]
      BY <1>1, <1>7, <2>2 DEF FileLaid, StoredLaid, DataLaid
    <3>. QED  BY <3>1, <3>2
  <2>. QED  BY <2>1, <2>2
<1>13. \A s : "sig" \in DOMAIN Signature(s)  BY DEF Signature
<1>14. "sig" \in DOMAIN o[data + csize + 1]
  <2>1. CASE IsDeflated(c.method)
    <3>1. o[EndOf(c) - 1] = Signature("descriptor")
      BY <1>1, <2>1 DEF FileLaid, DeflatedLaid
    <3>2. EndOf(c) = data + csize + 2  BY <1>4, <1>7, <2>1
    <3>3. EndOf(c) - 1 = data + csize + 1  BY <1>10, <3>2
    <3>. QED  BY <1>13, <3>1, <3>3
  <2>2. CASE ~IsDeflated(c.method) /\ i = Len(central)
    <3>1. data + csize = EndOf(c)  BY <1>4, <1>7, <2>2
    <3>2. EndOf(c) = cdstart
      <4>1. cdstart = FilesEnd(central)
        BY DEF WriterInv, WriterPhase, DonePhase, DirectoryStarted
      <4>2. central # <<>>  BY <2>2, NothingIsSeq
      <4>. QED  BY <1>0, <2>2, <4>1, <4>2 DEF FilesEnd
    <3>3. \E s : o[cdstart + 1] = Signature(s)
      BY <1>0 DEF WriterInv, WriterPhase, DonePhase
    <3>. QED  BY <1>13, <3>1, <3>2, <3>3
  <2>3. CASE ~IsDeflated(c.method) /\ i # Len(central)
    <3>1. data + csize = EndOf(c)  BY <1>4, <1>7, <2>3
    <3>2. i + 1 \in 1 .. Len(central) /\ i + 1 # 1 /\ i + 1 - 1 = i
      BY <1>1, <2>3
    <3>3. PICK e : e = central[i + 1]  OBVIOUS
    <3>4. e.at = EndOf(c) /\ FileLaid(o, e)
      BY <1>0, <3>2, <3>3 DEF WriterInv, FilesLaid
    <3>5. \E crce, sizee : HeaderLaid(o, e, crce, sizee)
      BY <3>4 DEF FileLaid, DeflatedLaid, StoredLaid
    <3>6. o[e.at + 1] = Signature("local")  BY <3>5 DEF HeaderLaid
    <3>. QED  BY <1>13, <3>1, <3>4, <3>6
  <2>. QED  BY <2>1, <2>2, <2>3
<1>. QED
  BY <1>0, <1>4, <1>6, <1>7, <1>9, <1>11, <1>12, <1>14 DEF EntryIsTrue

LEMMA ArchiveIsTrue ==
  ASSUME WriterInv
  PROVE  DirectoryIsTrue
<1>1. SUFFICES ASSUME wpc = "done"
               PROVE  DirectoryIsTrue
  BY DEF DirectoryIsTrue
<1>2. \A i \in 1 .. Len(central) : EntryIsTrue(central[i])
  BY <1>1, ListedIsTrue
<1>3. DonePhase /\ offset = Len(out)  BY <1>1 DEF WriterInv, WriterPhase
<1>. QED  BY <1>2, <1>3 DEF DonePhase, DirectoryIsTrue

------------------------------------------------------------------------------
(* What the reader relies on *)

LEMMA EntryAt ==
  ASSUME WriterInv, NEW k \in 1 .. Len(central), NEW c, c = central[k]
  PROVE  /\ c \in ListedEntry /\ FileLaid(out, c)
         /\ Start(central, k) = c.at /\ Start(central, k + 1) = EndOf(c)
         /\ FileOf(c) \in source
<1>1. /\ central \in Seq(ListedEntry) /\ Len(central) \in Nat
      /\ \A i \in 1 .. Len(central) :
           /\ FileLaid(out, central[i])
           /\ central[i].at = IF i = 1 THEN 0 ELSE EndOf(central[i - 1])
  BY LenProperties DEF WriterInv, FilesLaid
<1>2. c \in ListedEntry /\ FileLaid(out, c)  BY <1>1, ElementOfSeq
<1>3. Start(central, k) = c.at
  <2>1. k <= Len(central)  BY <1>1
  <2>. QED  BY <2>1 DEF Start
<1>4. Start(central, k + 1) = EndOf(c)
  <2>1. CASE k = Len(central)
    <3>1. ~(k + 1 <= Len(central)) /\ central # <<>>
      BY <1>1, <2>1, NothingIsSeq
    <3>. QED  BY <2>1, <3>1 DEF Start, FilesEnd
  <2>2. CASE k # Len(central)
    <3>1. k + 1 \in 1 .. Len(central) /\ k + 1 # 1 /\ k + 1 - 1 = k
          /\ k + 1 <= Len(central)
      BY <1>1, <2>2
    <3>2. central[k + 1].at = EndOf(central[k])  BY <1>1, <3>1
    <3>. QED  BY <3>1, <3>2 DEF Start
  <2>. QED  BY <2>1, <2>2
<1>5. FileOf(c) \in source
  <2>1. FileOf(c) \in Behind  BY DEF Behind
  <2>. QED  BY <2>1 DEF WriterInv, Provenance
<1>. QED  BY <1>2, <1>3, <1>4, <1>5

LEMMA NamesDiffer ==
  ASSUME WriterInv, NEW i \in 1 .. Len(central), NEW j \in 1 .. Len(central),
         i # j
  PROVE  central[i].name # central[j].name
<1>1. PICK f, g : f = FileOf(central[i]) /\ g = FileOf(central[j])  OBVIOUS
<1>2. f \in source /\ g \in source /\ f # g
  <2>1. f \in Behind /\ g \in Behind  BY <1>1 DEF Behind
  <2>. QED  BY <1>1, <2>1 DEF WriterInv, Provenance
<1>3. source \in Trees  BY DEF WriterInv, Provenance
<1>4. f.name # g.name  BY <1>2, <1>3, ArchiveAssumption
<1>. QED  BY <1>1, <1>4 DEF FileOf

LEMMA AllAreListed ==
  ASSUME WriterInv, wpc = "done", NEW f \in source
  PROVE  \E i \in 1 .. Len(central) : f = FileOf(central[i])
<1>1. files = <<>>
  BY DEF WriterInv, WriterPhase, DonePhase, DirectoryStarted
<1>2. Ahead = {}  BY <1>1, NothingIsSeq DEF Ahead
<1>3. ~Writing  BY DEF Writing
<1>4. f \in Behind  BY <1>2, <1>3 DEF WriterInv, Provenance
<1>. QED  BY <1>4 DEF Behind

LEMMA StartIsSigned ==
  ASSUME WriterInv, wpc = "done", NEW k \in 1 .. Len(central) + 1
  PROVE  /\ Start(central, k) \in Nat /\ Start(central, k) < Len(out)
         /\ k <= Len(central) =>
              out[Start(central, k) + 1] = Signature("local")
         /\ ~(k <= Len(central)) =>
              \E s \in {"central", "end"} :
                out[Start(central, k) + 1] = Signature(s)
<1>1. Len(central) \in Nat /\ FilesEnd(central) \in Nat
  BY FilesEndIsNat DEF WriterInv
<1>2. CASE k <= Len(central)
  <2>1. PICK c : c = central[k]  OBVIOUS
  <2>2. k \in 1 .. Len(central)  BY <1>1, <1>2
  <2>3. c \in ListedEntry /\ FileLaid(out, c) /\ Start(central, k) = c.at
    BY <2>1, <2>2, EntryAt
  <2>4. c.name \in FileName /\ c.at \in Nat /\ c.csize \in Nat
    BY <2>3, ListedFields
  <2>5. EndOf(c) \in Nat /\ EndOf(c) > c.at + 1  BY <2>4, Sizes
  <2>6. EndOf(c) <= Len(out)  BY <2>3 DEF FileLaid
  <2>7. Len(out) \in Nat  BY IsSeqFacts DEF WriterInv, WriterPhase
  <2>8. PICK at, end, n : at = c.at /\ end = EndOf(c) /\ n = Len(out)  OBVIOUS
  <2>9. at < n  BY <2>4, <2>5, <2>6, <2>7, <2>8
  <2>10. \E crc, size : HeaderLaid(out, c, crc, size)
    BY <2>3 DEF FileLaid, DeflatedLaid, StoredLaid
  <2>11. out[c.at + 1] = Signature("local")  BY <2>10 DEF HeaderLaid
  <2>. QED  BY <1>2, <2>3, <2>4, <2>8, <2>9, <2>11
<1>3. CASE ~(k <= Len(central))
  <2>1. Start(central, k) = FilesEnd(central)  BY <1>3 DEF Start
  <2>2. /\ cdstart = FilesEnd(central) /\ cdstart < Len(out)
        /\ out[cdstart + 1]
             = Signature(IF central # <<>> THEN "central" ELSE "end")
    BY DEF WriterInv, WriterPhase, DonePhase, DirectoryStarted
  <2>. QED  BY <1>1, <1>3, <2>1, <2>2
<1>. QED  BY <1>2, <1>3

LEMMA Undamaged ==
  ASSUME NEW d, NEW o, OnDisk(d, o), NEW i \in 1 .. Len(d),
         DOMAIN o[i] # {"byte"}
  PROVE  d[i] = o[i]
BY DEF OnDisk

LEMMA ReaderIsSomewhere ==
  ASSUME ReaderPhase, phase = "extract", rpc # "raised", rpc # "done"
  PROVE  \E k \in 1 .. Len(central) + 1 : ReaderAt(k) /\ DestAt(k)
BY DEF ReaderPhase

(* Positions are numbers, and what is in got lies before the position. *)
LEMMA Positions ==
  ASSUME BufferIs
  PROVE  /\ Len(disk) \in Nat /\ Len(chunk) \in Nat /\ taken \in Nat
         /\ roff \in Nat /\ roff <= Len(chunk)
         /\ Len(chunk) <= taken /\ taken <= Len(disk)
         /\ Position \in Nat /\ Position = taken - Len(chunk) + roff
         /\ Position <= Len(disk)
<1>1. Len(disk) \in Nat /\ Len(chunk) \in Nat  BY IsSeqFacts DEF BufferIs
<1>. QED  BY <1>1 DEF BufferIs, Position

LEMMA ReadTokens ==
  ASSUME BufferIs, NEW p \in Nat, NEW n \in Nat, Part(p, n), want = 0
  PROVE  /\ Len(got) = n /\ Position = p + n
         /\ \A i \in 1 .. n : p + i \in 1 .. Len(disk) /\ got[i] = disk[p + i]
<1>1. Len(got) \in Nat /\ Len(got) = n  BY IsSeqFacts DEF Part
<1>2. Position = p + n /\ \A i \in 1 .. n : got[i] = disk[p + i]
  BY <1>1 DEF Part
<1>. QED  BY <1>1, <1>2, Positions

LEMMA NextPart ==
  ASSUME BufferIs, NEW p, p = Position, NEW n \in Nat, want' = n, got' = <<>>,
         UNCHANGED <<disk, taken, chunk, roff>>
  PROVE  Part(p, n)'
<1>1. IsSeq(got') /\ Len(got') = 0  BY NothingIsSeq
<1>2. Position' = Position /\ Position \in Nat
  BY Positions DEF Position
<1>3. Len(got') + want' = n /\ want' \in Nat  BY <1>1
<1>4. Position' = p + Len(got')  BY <1>1, <1>2
<1>. QED  BY <1>1, <1>3, <1>4 DEF Part

LEMMA BufferStays ==
  ASSUME BufferIs, UNCHANGED <<disk, taken, chunk, roff>>
  PROVE  BufferIs' /\ Position' = Position
BY DEF BufferIs, Position

(* Wherever the reader is, only the file it writes may be broken. *)
LEMMA RestoredIsWhole ==
  ASSUME WriterInv, NEW j \in 1 .. Len(central), Restored(central[j])
  PROVE  \E f \in source : f.name = central[j].name /\ Whole(f)
<1>1. PICK c : c = central[j]  OBVIOUS
<1>2. FileOf(c) \in source  BY <1>1, EntryAt
<1>3. FileOf(c).name = c.name /\ FileOf(c).content = c.crc  BY DEF FileOf
<1>4. Whole(FileOf(c))  BY <1>1, <1>3 DEF Restored, Whole
<1>. QED  BY <1>1, <1>2, <1>3, <1>4

LEMMA OnlyOneIsBroken ==
  ASSUME WriterInv, NEW k \in 1 .. Len(central) + 1, ReaderAt(k), DestAt(k)
  PROVE  OnlyLastIsBroken
<1>1. Len(central) \in Nat  BY FilesEndIsNat DEF WriterInv
<1>2. ASSUME NEW n \in DOMAIN dest
      PROVE  \/ n \in DOMAIN before /\ dest[n] = before[n]
             \/ n = fname /\ \E f \in source : f.name = n
             \/ \E f \in source : f.name = n /\ Whole(f)
  <2>1. CASE n \in DOMAIN before /\ dest[n] = before[n]  BY <2>1
  <2>2. CASE \E j \in 1 .. k - 1 : n = central[j].name
    <3>1. PICK j \in 1 .. k - 1 : n = central[j].name  BY <2>2
    <3>2. j \in 1 .. Len(central)  BY <1>1
    <3>3. Restored(central[j])  BY DEF DestAt
    <3>. QED  BY <3>1, <3>2, <3>3, RestoredIsWhole
  <2>3. CASE k <= Len(central) /\ rpc = "body" /\ n = central[k].name
    <3>1. k \in 1 .. Len(central)  BY <1>1, <2>3
    <3>2. fname = central[k].name  BY <2>3 DEF ReaderAt, InFile
    <3>3. FileOf(central[k]) \in source  BY <3>1, EntryAt
    <3>4. FileOf(central[k]).name = central[k].name  BY DEF FileOf
    <3>. QED  BY <2>3, <3>2, <3>3, <3>4
  <2>. QED  BY <2>1, <2>2, <2>3 DEF DestAt
<1>. QED  BY <1>2 DEF OnlyLastIsBroken

ReaderPlace ==
  \/ \E k \in 1 .. Len(central) + 1 : ReaderAt(k) /\ DestAt(k)
  \/ rpc = "raised" /\ OnlyLastIsBroken
  \/ rpc = "done" /\ DestAt(Len(central) + 1)

(* The variables that no step of the reader changes. *)
readerConsts == <<zipVars, phase, source, before, damage>>

LEMMA ReaderMoves ==
  ASSUME ArchiveInv, phase = "extract", UNCHANGED <<readerConsts, disk>>,
         BufferIs', BodyTyped', ReaderPlace'
  PROVE  ReaderPhase'
<1>1. /\ phase' = "extract" /\ UNCHANGED <<wpc, out, central, damage, disk>>
  BY DEF readerConsts, zipVars
<1>2. wpc = "done" /\ OnDisk(disk, out) /\ damage \in {"none", "tail", "data"}
  BY DEF ArchiveInv, ReaderPhase
<1>. QED  BY <1>1, <1>2 DEF ReaderPhase, ReaderPlace

LEMMA ReaderRaises ==
  ASSUME ArchiveInv, phase = "extract", UNCHANGED <<readerConsts, disk>>,
         rpc # "raised", rpc # "done", RaiseUnzipError, BufferIs'
  PROVE  ReaderPhase'
<1>1. PICK k \in 1 .. Len(central) + 1 : ReaderAt(k) /\ DestAt(k)
  BY ReaderIsSomewhere DEF ArchiveInv
<1>2. OnlyLastIsBroken  BY <1>1, OnlyOneIsBroken DEF ArchiveInv
<1>3. UNCHANGED <<dest, before, source, fname, body>> /\ rpc' = "raised"
  BY DEF RaiseUnzipError, readerConsts
<1>4. OnlyLastIsBroken'  BY <1>2, <1>3 DEF OnlyLastIsBroken, Whole
<1>5. BodyTyped'  BY <1>3 DEF ArchiveInv, ReaderPhase, BodyTyped
<1>6. ReaderPlace'  BY <1>3, <1>4 DEF ReaderPlace
<1>. QED  BY <1>5, <1>6, ReaderMoves

LEMMA DestStays ==
  ASSUME NEW k, DestAt(k), UNCHANGED <<dest, before, central>>,
         rpc = "body" => rpc' = "body"
  PROVE  DestAt(k)'
<1>1. \A j : Restored(central[j]) => Restored(central[j])'  BY DEF Restored
<1>. QED  BY <1>1 DEF DestAt

LEMMA HeaderAt ==
  ASSUME WriterInv, NEW k \in 1 .. Len(central), NEW c, c = central[k]
  PROVE  \E crc, size :
           /\ HeaderLaid(out, c, crc, size)
           /\ ~IsDeflated(c.method) => crc = c.crc /\ size = c.csize
<1>1. FileLaid(out, c)  BY EntryAt
<1>2. CASE IsDeflated(c.method)  BY <1>1, <1>2 DEF FileLaid, DeflatedLaid
<1>3. CASE ~IsDeflated(c.method)  BY <1>1, <1>3 DEF FileLaid, StoredLaid
<1>. QED  BY <1>2, <1>3

(* The token at a place of the archive where no data is, as it is read.    *)
LEMMA SameToken ==
  ASSUME ReaderPhase, phase = "extract", NEW i \in 1 .. Len(disk), NEW t,
         out[i] = t, DOMAIN t # {"byte"}
  PROVE  disk[i] = t
<1>1. OnDisk(disk, out)  BY DEF ReaderPhase
<1>. QED  BY <1>1, Undamaged

(* A reader that stays within the k-th file.                               *)
LEMMA StaysAt ==
  ASSUME ArchiveInv, phase = "extract", UNCHANGED <<readerConsts, disk, dest>>,
         BufferIs', BodyTyped',
         NEW k \in 1 .. Len(central) + 1, DestAt(k), ReaderAt(k)',
         rpc = "body" => rpc' = "body"
  PROVE  ReaderPhase'
<1>1. UNCHANGED <<before, central>>  BY DEF readerConsts, zipVars
<1>2. DestAt(k)'  BY <1>1, DestStays
<1>3. ReaderPlace'  BY <1>1, <1>2 DEF ReaderPlace
<1>. QED  BY <1>3, ReaderMoves

LEMMA PieceIsTaken ==
  ASSUME BufferIs, want \in Nat, TakePiece
  PROVE  /\ BufferIs'
         /\ \A p, n \in Nat : Part(p, n) => Part(p, n)'
<1>0. PICK m : m = Smaller(want, Smaller(Len(chunk) - roff, UnzipSize))
  OBVIOUS
<1>1. /\ want > 0 /\ roff < Len(chunk) /\ roff' = roff + m /\ want' = want - m
      /\ got' = got \o SubSeq(chunk, roff + 1, roff + m)
      /\ UNCHANGED <<disk, taken, chunk>>
  BY <1>0 DEF TakePiece
<1>2. /\ Len(disk) \in Nat /\ Len(chunk) \in Nat /\ taken \in Nat
      /\ roff \in Nat /\ Len(chunk) <= taken
      /\ Position = taken - Len(chunk) + roff
  BY Positions
<1>3. UnzipSize \in Nat \ {0}  BY UnzipAssumption
<1>4. m \in Nat /\ m <= want /\ roff + m <= Len(chunk)
  BY <1>0, <1>1, <1>2, <1>3 DEF Smaller
<1>5. BufferIs'
  <2>1. roff' \in 0 .. Len(chunk)  BY <1>1, <1>2, <1>4
  <2>. QED  BY <1>1, <2>1 DEF BufferIs
<1>6. ASSUME NEW p \in Nat, NEW n \in Nat, Part(p, n)
      PROVE  Part(p, n)'
  <2>1. /\ want \in Nat /\ IsSeq(got) /\ Len(got) \in Nat
        /\ Len(got) + want = n /\ Position = p + Len(got)
        /\ \A i \in 1 .. Len(got) : got[i] = disk[p + i]
    BY <1>6, IsSeqFacts DEF Part
  <2>2. m \in Nat /\ m <= want /\ roff + m <= Len(chunk)  BY <1>4, <2>1
  <2>3. PICK s : s = SubSeq(chunk, roff + 1, roff + m)  OBVIOUS
  <2>4. Cuts(s, chunk, roff + 1, roff + m)
    <3>1. roff + 1 \in Nat \ {0} /\ roff + m \in Nat  BY <1>2, <2>2
    <3>2. IsSeq(chunk)  BY DEF BufferIs
    <3>. QED  BY <2>2, <2>3, <3>1, <3>2, Cut
  <2>5. /\ IsSeq(s) /\ Len(s) = m
        /\ \A i \in 1 .. m : s[i] = chunk[roff + i]
    <3>2. PICK from, to : from = roff + 1 /\ to = roff + m  OBVIOUS
    <3>3. /\ IsSeq(s) /\ Len(s) = IF from <= to THEN to - from + 1 ELSE 0
          /\ \A i \in 1 .. to - from + 1 : s[i] = chunk[from + i - 1]
      BY <2>4, <3>2 DEF Cuts
    <3>4. /\ to - from + 1 = m /\ (from <= to <=> m > 0)
          /\ \A i \in 1 .. m : from + i - 1 = roff + i
      BY <1>2, <2>2, <3>2
    <3>5. Len(s) = m  BY <2>2, <3>3, <3>4
    <3>. QED  BY <3>3, <3>4, <3>5
  <2>6. Joins(got', got, s)  BY <1>1, <2>1, <2>3, <2>5, Joined
  <2>7. IsSeq(got') /\ Len(got') = Len(got) + m  BY <2>5, <2>6 DEF Joins
  <2>8. ASSUME NEW i \in 1 .. m  PROVE got'[Len(got) + i] = disk[p + (Len(got) + i)]
    <3>1. got'[Len(got) + i] = s[i]  BY <2>5, <2>6 DEF Joins
    <3>2. roff + i \in 1 .. Len(chunk)  BY <1>2, <2>2
    <3>3. chunk[roff + i] = disk[taken - Len(chunk) + (roff + i)]
      BY <3>2 DEF BufferIs
    <3>4. taken - Len(chunk) + (roff + i) = p + (Len(got) + i)
      BY <1>2, <2>1, <2>2
    <3>. QED  BY <2>5, <3>1, <3>3, <3>4
  <2>9. \A i \in 1 .. Len(got) : got'[i] = disk[p + i]
    BY <2>1, <2>6 DEF Joins
  <2>10. ASSUME NEW i \in 1 .. Len(got')  PROVE got'[i] = disk[p + i]
    <3>1. CASE i <= Len(got)
      <4>1. i \in 1 .. Len(got)  BY <2>1, <3>1
      <4>. QED  BY <2>9, <4>1
    <3>2. CASE ~(i <= Len(got))
      <4>1. PICK j \in 1 .. m : i = Len(got) + j
        <5>1. i - Len(got) \in 1 .. m /\ i = Len(got) + (i - Len(got))
          BY <2>1, <2>2, <2>7, <3>2
        <5>. QED  BY <5>1
      <4>. QED  BY <2>8, <4>1
    <3>. QED  BY <3>1, <3>2
  <2>11. want' \in Nat /\ Len(got') + want' = n
    <3>1. PICK a, b, w, v : /\ a = Len(got) /\ b = Len(got')
                            /\ w = want /\ v = want'
      OBVIOUS
    <3>2. /\ a \in Nat /\ w \in Nat /\ a + w = n /\ b = a + m /\ v = w - m
          /\ m <= w
      BY <1>1, <2>1, <2>2, <2>7, <3>1
    <3>3. v \in Nat /\ b + v = n  BY <2>2, <3>2
    <3>. QED  BY <3>1, <3>3
  <2>12. Position' = p + Len(got')
    <3>1. Position' = taken - Len(chunk) + (roff + m)  BY <1>1 DEF Position
    <3>2. PICK a, b, c : a = Len(got) /\ b = Len(got') /\ c = Len(chunk)
      OBVIOUS
    <3>3. /\ a \in Nat /\ c \in Nat /\ b = a + m
          /\ taken - c + roff = p + a
      BY <1>2, <2>1, <2>7, <3>2
    <3>4. taken - c + (roff + m) = p + b  BY <1>2, <2>2, <3>3
    <3>. QED  BY <3>1, <3>2, <3>4
  <2>. QED  BY <1>1, <2>7, <2>10, <2>11, <2>12 DEF Part
<1>. QED  BY <1>5, <1>6

------------------------------------------------------------------------------
(* The steps of the reader                                                 *)

LEMMA ReaderTakesPiece ==
  ASSUME ArchiveInv, phase = "extract", TakePiece, UNCHANGED readerConsts
  PROVE  ReaderPhase'
<1>1. /\ want > 0 /\ Reading
      /\ UNCHANGED <<rpc, disk, taken, chunk, hdr, fname, body, dest>>
  BY DEF TakePiece
<1>2. PICK k \in 1 .. Len(central) + 1 : ReaderAt(k) /\ DestAt(k)
  BY <1>1, ReaderIsSomewhere DEF ArchiveInv, Reading
<1>3. UNCHANGED <<central, out, before>>  BY DEF readerConsts, zipVars
<1>4. Len(central) \in Nat /\ Start(central, k) \in Nat
  BY FilesEndIsNat, StartIsSigned DEF ArchiveInv, WriterInv, ReaderPhase
<1>5. CASE rpc = "signature" /\ Part(Start(central, k), 1)
  <2>1. want \in Nat  BY <1>5 DEF Part
  <2>2. PICK at : at = Start(central, k) /\ BufferIs' /\ Part(at, 1)'
    <3>1. BufferIs' /\ \A p, n \in Nat : Part(p, n) => Part(p, n)'
      BY <2>1, PieceIsTaken DEF ArchiveInv, ReaderPhase
    <3>2. PICK at : at = Start(central, k)  OBVIOUS
    <3>3. at \in Nat /\ Part(at, 1)  BY <1>4, <1>5, <3>2
    <3>4. Part(at, 1)'  BY <3>1, <3>3
    <3>. QED  BY <3>1, <3>2, <3>4
  <2>3. ReaderAt(k)'
    <3>1. Start(central', k) = at  BY <1>3, <2>2
    <3>. QED  BY <1>1, <1>5, <2>2, <3>1 DEF ReaderAt
  <2>4. BodyTyped'  BY <1>1 DEF ArchiveInv, ReaderPhase, BodyTyped
  <2>. QED  BY <1>1, <1>2, <2>2, <2>3, <2>4, StaysAt
<1>6. CASE k <= Len(central) /\ InFile(central[k])
  <2>1. PICK c : c = central[k]  OBVIOUS
  <2>2. k \in 1 .. Len(central)  BY <1>4, <1>6
  <2>3. c.name \in FileName /\ c.at \in Nat /\ c.csize \in Nat
    <3>1. c \in ListedEntry  BY <2>1, <2>2, EntryAt DEF ArchiveInv
    <3>. QED  BY <3>1, ListedFields
  <2>4. /\ Len(c.name) \in Nat /\ ExtraLen(c) \in Nat
    BY <2>3, Sizes
  <2>5. InFile(c) /\ rpc # "body"  BY <1>1, <1>6, <2>1 DEF InFile, BodyOf
  <2>6. PICK p \in Nat, n \in Nat :
          /\ Part(p, n)
          /\ \/ rpc = "header" /\ p = c.at + 1 /\ n = 1
             \/ /\ rpc = "name" /\ hdr = out[c.at + 2]
                /\ p = c.at + 2 /\ n = Len(c.name)
             \/ /\ rpc = "extra" /\ hdr = out[c.at + 2] /\ fname = c.name
                /\ p = c.at + 2 + Len(c.name) /\ n = ExtraLen(c)
    <3>1. PICK a, l : a = c.at /\ l = Len(c.name)  OBVIOUS
    <3>2. a + 1 \in Nat /\ a + 2 \in Nat /\ a + 2 + l \in Nat /\ l \in Nat
      <4>1. a \in Nat /\ l \in Nat  BY <2>3, <2>4, <3>1
      <4>. QED  BY <4>1
    <3>3. CASE rpc = "header" /\ Part(a + 1, 1)  BY <3>1, <3>2, <3>3
    <3>4. CASE rpc = "name" /\ hdr = out[c.at + 2] /\ Part(a + 2, l)
      BY <3>1, <3>2, <3>4
    <3>5. CASE /\ rpc = "extra" /\ hdr = out[c.at + 2] /\ fname = c.name
               /\ Part(a + 2 + l, ExtraLen(c))
      BY <2>4, <3>1, <3>2, <3>5
    <3>. QED  BY <2>5, <3>1, <3>3, <3>4, <3>5 DEF InFile
  <2>7. BufferIs' /\ Part(p, n)'
    <3>1. want \in Nat  BY <2>6 DEF Part
    <3>. QED  BY <2>6, <3>1, PieceIsTaken DEF ArchiveInv, ReaderPhase
  <2>8. InFile(c)'  BY <1>1, <1>3, <2>6, <2>7 DEF InFile
  <2>9. ReaderAt(k)'  BY <1>3, <1>6, <2>1, <2>8 DEF ReaderAt
  <2>10. BodyTyped'  BY <1>1 DEF ArchiveInv, ReaderPhase, BodyTyped
  <2>. QED  BY <1>1, <1>2, <2>7, <2>9, <2>10, StaysAt
<1>. QED  BY <1>1, <1>2, <1>5, <1>6 DEF ReaderAt

LEMMA ReaderDrains ==
  ASSUME ArchiveInv, phase = "extract", Drain, UNCHANGED readerConsts
  PROVE  ReaderPhase'
<1>1. /\ rpc = "drain" /\ roff < Len(chunk)
      /\ roff' = roff + Smaller(Len(chunk) - roff, UnzipSize)
      /\ UNCHANGED <<rpc, disk, taken, chunk, want, got, hdr, fname, body, dest>>
  BY DEF Drain
<1>2. PICK k \in 1 .. Len(central) + 1 : ReaderAt(k) /\ DestAt(k)
  BY <1>1, ReaderIsSomewhere DEF ArchiveInv
<1>3. UNCHANGED <<central, out, before>>  BY DEF readerConsts, zipVars
<1>4. want = 0 /\ k = Len(central) + 1  BY <1>1, <1>2 DEF ReaderAt, InFile
<1>5. ReaderAt(k)'  BY <1>1, <1>3, <1>4 DEF ReaderAt
<1>6. BodyTyped'  BY <1>1 DEF ArchiveInv, ReaderPhase, BodyTyped
<1>7. BufferIs'
  <2>1. Len(chunk) \in Nat /\ roff \in Nat /\ UnzipSize \in Nat
    BY Positions, UnzipAssumption DEF ArchiveInv, ReaderPhase
  <2>2. PICK w : w = Smaller(Len(chunk) - roff, UnzipSize)  OBVIOUS
  <2>3. w \in Nat /\ roff + w <= Len(chunk)
    BY <1>1, <2>1, <2>2 DEF Smaller
  <2>4. roff' \in 0 .. Len(chunk)  BY <1>1, <2>1, <2>2, <2>3
  <2>. QED  BY <1>1, <2>4 DEF ArchiveInv, ReaderPhase, BufferIs
<1>. QED  BY <1>1, <1>2, <1>5, <1>6, <1>7, StaysAt

LEMMA ReaderReadsSignature ==
  ASSUME ArchiveInv, phase = "extract", ReadSignature, UNCHANGED readerConsts
  PROVE  ReaderPhase'
<1>1. rpc = "signature" /\ want = 0 /\ UNCHANGED <<disk, taken, chunk, roff>>
  BY DEF ReadSignature
<1>2. PICK k \in 1 .. Len(central) + 1 : ReaderAt(k) /\ DestAt(k)
  BY <1>1, ReaderIsSomewhere DEF ArchiveInv
<1>3. UNCHANGED <<central, out, before>>  BY DEF readerConsts, zipVars
<1>4. wpc = "done" /\ BufferIs /\ WriterInv /\ ReaderPhase
  BY DEF ArchiveInv, ReaderPhase
<1>5. BufferIs' /\ Position' = Position  BY <1>1, <1>4, BufferStays
<1>6. CASE RaiseUnzipError  BY <1>1, <1>5, <1>6, ReaderRaises
<1>7. CASE ~RaiseUnzipError
  <2>1. PICK at : at = Start(central, k)  OBVIOUS
  <2>2. Part(at, 1)  BY <1>1, <1>2, <2>1 DEF ReaderAt, InFile
  <2>3. at \in Nat /\ Len(central) \in Nat
    BY <1>4, <2>1, StartIsSigned, FilesEndIsNat DEF WriterInv
  <2>4. Len(got) = 1 /\ Position = at + 1 /\ at + 1 \in 1 .. Len(disk)
        /\ got[1] = disk[at + 1]
    <3>1. /\ Len(got) = 1 /\ Position = at + 1
          /\ \A i \in 1 .. 1 : at + i \in 1 .. Len(disk)
                               /\ got[i] = disk[at + i]
      BY <1>1, <1>4, <2>2, <2>3, ReadTokens
    <3>. QED  BY <3>1
  <2>5. \A s : DOMAIN Signature(s) # {"byte"}  BY DEF Signature
  <2>6. \A s, t : Signature(s) = Signature(t) => s = t  BY DEF Signature
  <2>7. UNCHANGED <<hdr, fname, body, dest>>
    BY <1>7 DEF ReadSignature
  <2>8. BodyTyped'  BY <2>7 DEF ArchiveInv, ReaderPhase, BodyTyped
  <2>9. CASE k <= Len(central)
    <3>1. out[at + 1] = Signature("local")
      BY <1>4, <2>1, <2>9, StartIsSigned
    <3>2. got[1] = Signature("local")
      BY <1>4, <2>4, <2>5, <3>1, SameToken
    <3>3. got # <<Signature("central")>>
      <4>1. <<Signature("central")>>[1] = Signature("central")  BY OneToken
      <4>. QED  BY <2>6, <3>2, <4>1
    <3>4. rpc' = "header" /\ want' = 1 /\ got' = <<>>
      BY <1>7, <3>3 DEF ReadSignature, Get
    <3>5. Part(at + 1, 1)'
      <4>1. PICK p : p = Position  OBVIOUS
      <4>2. Part(p, 1)'  BY <1>1, <1>4, <3>4, <4>1, NextPart
      <4>. QED  BY <2>4, <4>1, <4>2
    <3>6. k \in 1 .. Len(central)  BY <2>3, <2>9
    <3>7. central[k].at = at  BY <1>4, <2>1, <3>6, EntryAt
    <3>8. InFile(central[k])'  BY <1>3, <3>4, <3>5, <3>7 DEF InFile
    <3>9. ReaderAt(k)'  BY <1>3, <2>9, <3>8 DEF ReaderAt
    <3>. QED  BY <1>1, <1>2, <1>5, <2>7, <2>8, <3>9, StaysAt
  <2>10. CASE ~(k <= Len(central))
    <3>1. PICK s \in {"central", "end"} : out[at + 1] = Signature(s)
      BY <1>4, <2>1, <2>10, StartIsSigned
    <3>2. got[1] = Signature(s)  BY <1>4, <2>4, <2>5, <3>1, SameToken
    <3>3. got # <<Signature("local")>>
      <4>1. <<Signature("local")>>[1] = Signature("local")  BY OneToken
      <4>2. s # "local"  BY <3>1
      <4>. QED  BY <2>6, <3>2, <4>1, <4>2
    <3>4. rpc' = "drain" /\ want' = 0
      BY <1>7, <3>3 DEF ReadSignature, Get
    <3>5. k = Len(central) + 1  BY <2>3, <2>10
    <3>6. ReaderAt(k)'  BY <1>3, <3>4, <3>5 DEF ReaderAt
    <3>. QED  BY <1>1, <1>2, <1>5, <2>7, <2>8, <3>6, StaysAt
  <2>. QED  BY <2>9, <2>10
<1>. QED  BY <1>6, <1>7

(* In the k-th file: where it is, what the reader has of it.               *)
LEMMA ReaderInFile ==
  ASSUME ArchiveInv, phase = "extract", rpc \in {"header", "name", "extra", "body"}
  PROVE  \E k \in 1 .. Len(central), c \in ListedEntry :
           /\ c = central[k] /\ InFile(c) /\ DestAt(k)
           /\ k \in 1 .. Len(central) + 1 /\ k + 1 \in 1 .. Len(central) + 1
<1>1. PICK k \in 1 .. Len(central) + 1 : ReaderAt(k) /\ DestAt(k)
  BY ReaderIsSomewhere DEF ArchiveInv
<1>2. Len(central) \in Nat  BY FilesEndIsNat DEF ArchiveInv, WriterInv
<1>3. k <= Len(central) /\ InFile(central[k])  BY <1>1 DEF ReaderAt
<1>4. k \in 1 .. Len(central) /\ k + 1 \in 1 .. Len(central) + 1
  BY <1>2, <1>3
<1>5. central[k] \in ListedEntry  BY <1>4, EntryAt DEF ArchiveInv
<1>. QED  BY <1>1, <1>3, <1>4, <1>5

LEMMA ReaderReadsHeader ==
  ASSUME ArchiveInv, phase = "extract", ReadHeader, UNCHANGED readerConsts
  PROVE  ReaderPhase'
<1>1. /\ rpc = "header" /\ want = 0 /\ hdr' = got[1]
      /\ rpc' = "name" /\ want' = got[1].namelen /\ got' = <<>>
      /\ UNCHANGED <<disk, taken, chunk, roff, fname, body, dest>>
  BY DEF ReadHeader, Get
<1>2. PICK k \in 1 .. Len(central), c \in ListedEntry :
        /\ c = central[k] /\ InFile(c) /\ DestAt(k)
        /\ k \in 1 .. Len(central) + 1
  BY <1>1, ReaderInFile
<1>3. UNCHANGED <<central, out, before>>  BY DEF readerConsts, zipVars
<1>4. WriterInv /\ ReaderPhase /\ BufferIs  BY DEF ArchiveInv, ReaderPhase
<1>5. c.name \in FileName /\ c.at \in Nat /\ Len(c.name) \in Nat
  <2>1. c.name \in FileName /\ c.at \in Nat  BY <1>2, ListedFields
  <2>2. ExtraLen(c) \in 0 .. 1 /\ Len(c.name) \in Nat  BY <2>1, Sizes
  <2>. QED  BY <2>1, <2>2
<1>6. Part(c.at + 1, 1)  BY <1>1, <1>2 DEF InFile
<1>7. PICK at : at = c.at + 1 /\ at \in Nat /\ at + 1 = c.at + 2  BY <1>5
<1>8. /\ Position = at + 1 /\ at + 1 \in 1 .. Len(disk)
      /\ got[1] = disk[at + 1]
  <2>1. /\ Position = at + 1
        /\ \A i \in 1 .. 1 : at + i \in 1 .. Len(disk) /\ got[i] = disk[at + i]
    BY <1>1, <1>4, <1>6, <1>7, ReadTokens
  <2>. QED  BY <2>1
<1>9. PICK crc, size : HeaderLaid(out, c, crc, size)
  BY <1>2, <1>4, HeaderAt
<1>10. PICK t : t = LocalStruct(c, crc, size)  OBVIOUS
<1>11. t.namelen = Len(c.name) /\ DOMAIN t # {"byte"}
  BY <1>10 DEF LocalStruct
<1>12. out[at + 1] = t  BY <1>7, <1>9, <1>10 DEF HeaderLaid
<1>13. got[1] = t  BY <1>4, <1>8, <1>11, <1>12, SameToken
<1>14. BufferIs'  BY <1>1, <1>4, BufferStays
<1>15. Part(c.at + 2, Len(c.name))'
  <2>1. PICK p, n : p = Position /\ n = Len(c.name)  OBVIOUS
  <2>2. want' = n /\ n \in Nat  BY <1>1, <1>5, <1>11, <1>13, <2>1
  <2>3. Part(p, n)'  BY <1>1, <1>4, <2>1, <2>2, NextPart
  <2>. QED  BY <1>7, <1>8, <2>1, <2>3
<1>16. InFile(c)'
  BY <1>1, <1>3, <1>7, <1>12, <1>13, <1>15 DEF InFile
<1>17. ReaderAt(k)'
  <2>1. k <= Len(central)  BY <1>2
  <2>. QED  BY <1>2, <1>3, <1>16, <2>1 DEF ReaderAt
<1>18. BodyTyped'  BY <1>1, <1>4 DEF ReaderPhase, BodyTyped
<1>. QED  BY <1>1, <1>2, <1>14, <1>17, <1>18, StaysAt

LEMMA ReaderReadsName ==
  ASSUME ArchiveInv, phase = "extract", ReadName, UNCHANGED readerConsts
  PROVE  ReaderPhase'
<1>1. /\ rpc = "name" /\ want = 0 /\ fname' = NameOf(got)
      /\ rpc' = "extra" /\ want' = hdr.extralen /\ got' = <<>>
      /\ UNCHANGED <<disk, taken, chunk, roff, hdr, body, dest>>
  BY DEF ReadName, Get
<1>2. PICK k \in 1 .. Len(central), c \in ListedEntry :
        /\ c = central[k] /\ InFile(c) /\ DestAt(k)
        /\ k \in 1 .. Len(central) + 1
  BY <1>1, ReaderInFile
<1>3. UNCHANGED <<central, out, before>>  BY DEF readerConsts, zipVars
<1>4. WriterInv /\ ReaderPhase /\ BufferIs  BY DEF ArchiveInv, ReaderPhase
<1>5. /\ c.name \in FileName /\ c.at \in Nat /\ Len(c.name) \in Nat
      /\ ExtraLen(c) \in Nat
  <2>1. c.name \in FileName /\ c.at \in Nat  BY <1>2, ListedFields
  <2>2. ExtraLen(c) \in 0 .. 1 /\ Len(c.name) \in Nat  BY <2>1, Sizes
  <2>. QED  BY <2>1, <2>2
<1>6. hdr = out[c.at + 2] /\ Part(c.at + 2, Len(c.name))
  BY <1>1, <1>2 DEF InFile
<1>7. PICK at, n : at = c.at + 2 /\ n = Len(c.name) /\ at \in Nat /\ n \in Nat
  BY <1>5
<1>8. /\ Len(got) = n /\ Position = at + n
      /\ \A i \in 1 .. n : at + i \in 1 .. Len(disk) /\ got[i] = disk[at + i]
  BY <1>1, <1>4, <1>6, <1>7, ReadTokens
<1>9. PICK crc, size : HeaderLaid(out, c, crc, size)
  BY <1>2, <1>4, HeaderAt
<1>10. hdr.extralen = ExtraLen(c)
  <2>1. hdr = LocalStruct(c, crc, size)  BY <1>6, <1>9 DEF HeaderLaid
  <2>. QED  BY <2>1 DEF LocalStruct
<1>11. NameOf(got) = c.name
  <2>1. ASSUME NEW i \in 1 .. n  PROVE got[i] = [part |-> c.name[i]]
    <3>1. PICK t : t = [part |-> c.name[i]]  OBVIOUS
    <3>2. DOMAIN t # {"byte"}  BY <3>1
    <3>3. out[at + i] = t  BY <1>7, <1>9, <3>1 DEF HeaderLaid
    <3>4. at + i \in 1 .. Len(disk) /\ got[i] = disk[at + i]  BY <1>8
    <3>5. disk[at + i] = t  BY <1>4, <3>2, <3>3, <3>4, SameToken
    <3>. QED  BY <3>1, <3>4, <3>5
  <2>. QED  BY <1>5, <1>7, <1>8, <2>1, NameIsRead
<1>12. BufferIs'  BY <1>1, <1>4, BufferStays
<1>13. Part(c.at + 2 + Len(c.name), ExtraLen(c))'
  <2>1. PICK p, m : p = Position /\ m = ExtraLen(c)  OBVIOUS
  <2>2. want' = m /\ m \in Nat  BY <1>1, <1>5, <1>10, <2>1
  <2>3. Part(p, m)'  BY <1>1, <1>4, <2>1, <2>2, NextPart
  <2>. QED  BY <1>7, <1>8, <2>1, <2>3
<1>14. InFile(c)'  BY <1>1, <1>3, <1>6, <1>11, <1>13 DEF InFile
<1>15. ReaderAt(k)'
  <2>1. k <= Len(central)  BY <1>2
  <2>. QED  BY <1>2, <1>3, <1>14, <2>1 DEF ReaderAt
<1>16. BodyTyped'  BY <1>1, <1>4 DEF ReaderPhase, BodyTyped
<1>. QED  BY <1>1, <1>2, <1>12, <1>15, <1>16, StaysAt

LEMMA OpenedFacts ==
  /\ DOMAIN Opened = DOMAIN dest \cup {fname}
  /\ Opened[fname] = <<>>
  /\ \A n \in DOMAIN dest : n # fname => Opened[n] = dest[n]
BY DEF Opened

LEMMA ReaderReadsExtra ==
  ASSUME ArchiveInv, phase = "extract", ReadExtra, UNCHANGED readerConsts
  PROVE  ReaderPhase'
<1>1. rpc = "extra" /\ want = 0 /\ UNCHANGED <<disk, taken, chunk, roff>>
  BY DEF ReadExtra
<1>2. PICK k \in 1 .. Len(central), c \in ListedEntry :
        /\ c = central[k] /\ InFile(c) /\ DestAt(k)
        /\ k \in 1 .. Len(central) + 1
  BY <1>1, ReaderInFile
<1>3. UNCHANGED <<central, out, before, source>>  BY DEF readerConsts, zipVars
<1>4. WriterInv /\ ReaderPhase /\ BufferIs  BY DEF ArchiveInv, ReaderPhase
<1>5. BufferIs' /\ Position' = Position  BY <1>1, <1>4, BufferStays
<1>6. CASE RaiseUnzipError  BY <1>1, <1>5, <1>6, ReaderRaises
<1>7. CASE ~RaiseUnzipError
  <2>1. /\ ~(MarkedZip64 /\ got = <<>>)
        /\ dest' = Opened
        /\ UNCHANGED <<hdr, fname>>
        /\ SizeUnknown => rpc' = "raised" /\ UNCHANGED <<want, got, body>>
        /\ ~SizeUnknown => /\ rpc' = "body" /\ want' = 0
                           /\ body' = Decompressor(TrueSize)
    BY <1>7 DEF ReadExtra, Get
  <2>2. hdr = out[c.at + 2] /\ fname = c.name
        /\ Part(c.at + 2 + Len(c.name), ExtraLen(c))
    BY <1>1, <1>2 DEF InFile
  <2>3. /\ c.name \in FileName /\ c.at \in Nat /\ c.csize \in Nat
        /\ Len(c.name) \in Nat /\ ExtraLen(c) \in Nat /\ DataAt(c) \in Nat
        /\ DataAt(c) = c.at + HeaderLen(c)
        /\ HeaderLen(c) = 2 + Len(c.name) + ExtraLen(c)
    <3>1. c.name \in FileName /\ c.at \in Nat /\ c.csize \in Nat
      BY <1>2, ListedFields
    <3>. QED  BY <3>1, Sizes
  <2>4. PICK at, n : /\ at = c.at + 2 + Len(c.name) /\ n = ExtraLen(c)
                     /\ at \in Nat /\ n \in Nat /\ at + n = DataAt(c)
    <3>1. PICK a, l, e : a = c.at /\ l = Len(c.name) /\ e = ExtraLen(c)
      OBVIOUS
    <3>2. /\ a \in Nat /\ l \in Nat /\ e \in Nat
          /\ DataAt(c) = a + (2 + l + e)
      BY <2>3, <3>1
    <3>3. a + 2 + l \in Nat /\ a + 2 + l + e = DataAt(c)  BY <3>2
    <3>. QED  BY <3>1, <3>2, <3>3
  <2>5. /\ Len(got) = n /\ Position = at + n
        /\ \A i \in 1 .. n : at + i \in 1 .. Len(disk) /\ got[i] = disk[at + i]
    BY <1>1, <1>4, <2>2, <2>4, ReadTokens
  <2>6. /\ DOMAIN dest' = DOMAIN dest \cup {fname}
        /\ dest'[fname] = <<>>
        /\ \A name \in DOMAIN dest : name # fname => dest'[name] = dest[name]
    BY <2>1, OpenedFacts
  <2>7. \A j \in 1 .. k - 1 : j \in 1 .. Len(central) /\ j # k
    BY <1>2, FilesEndIsNat DEF ArchiveInv, WriterInv
  <2>8. ASSUME NEW j \in 1 .. k - 1  PROVE Restored(central[j])'
    <3>1. central[j].name # fname
      BY <1>2, <1>4, <2>2, <2>7, NamesDiffer
    <3>2. Restored(central[j])  BY <1>2 DEF DestAt
    <3>. QED  BY <1>3, <2>6, <3>1, <3>2 DEF Restored
  <2>9. ASSUME NEW name \in DOMAIN dest'
        PROVE  \/ name = fname
               \/ name \in DOMAIN before /\ dest'[name] = before[name]
               \/ \E j \in 1 .. k - 1 : name = central[j].name
    BY <1>1, <1>2, <2>6 DEF DestAt
  <2>10. CASE SizeUnknown
    <3>1. OnlyLastIsBroken'
      <4>1. ASSUME NEW name \in DOMAIN dest'
            PROVE  \/ name \in DOMAIN before /\ dest'[name] = before[name]
                   \/ name = fname /\ \E f \in source : f.name = name
                   \/ \E f \in source : f.name = name /\ Whole(f)'
        <5>1. CASE name = fname
          <6>1. FileOf(c) \in source  BY <1>2, <1>4, EntryAt
          <6>2. FileOf(c).name = c.name  BY DEF FileOf
          <6>. QED  BY <2>2, <5>1, <6>1, <6>2
        <5>2. CASE name \in DOMAIN before /\ dest'[name] = before[name]
          BY <5>2
        <5>3. CASE \E j \in 1 .. k - 1 : name = central[j].name
          <6>1. PICK j \in 1 .. k - 1 : name = central[j].name  BY <5>3
          <6>2. PICK f : f = FileOf(central[j])  OBVIOUS
          <6>3. f \in source  BY <1>4, <2>7, <6>2, EntryAt
          <6>4. f.name = name /\ f.content = central[j].crc
            BY <6>1, <6>2 DEF FileOf
          <6>5. Restored(central[j])'  BY <2>8
          <6>6. Whole(f)'
            BY <1>3, <6>1, <6>4, <6>5 DEF Restored, Whole
          <6>. QED  BY <6>3, <6>4, <6>6
        <5>. QED  BY <2>9, <5>1, <5>2, <5>3
      <4>. QED  BY <1>3, <2>1, <4>1 DEF OnlyLastIsBroken, Whole
    <3>2. ReaderPlace'  BY <2>1, <2>10, <3>1 DEF ReaderPlace
    <3>3. BodyTyped'
      BY <1>4, <2>1, <2>10 DEF ReaderPhase, BodyTyped
    <3>. QED  BY <1>1, <1>5, <3>2, <3>3, ReaderMoves
  <2>11. CASE ~SizeUnknown
    <3>1. PICK crc, size :
            /\ HeaderLaid(out, c, crc, size)
            /\ ~IsDeflated(c.method) => crc = c.crc /\ size = c.csize
      BY <1>2, <1>4, HeaderAt
    <3>2. hdr = LocalStruct(c, crc, size)  BY <2>2, <3>1 DEF HeaderLaid
    <3>3. ~IsDeflated(c.method)  BY <2>11, <3>2 DEF SizeUnknown, LocalStruct
    <3>4. TrueSize = c.csize
      <4>1. CASE IsZip64(c.method)
        <5>1. PICK t : t = [long |-> TRUE, usize |-> size, csize |-> size]
          OBVIOUS
        <5>2. n = 1  BY <2>4, <4>1 DEF ExtraLen
        <5>3. at + 1 \in 1 .. Len(disk) /\ got[1] = disk[at + 1]
              /\ at + 1 = DataAt(c)
          BY <2>4, <2>5, <5>2
        <5>4. out[at + 1] = t  BY <3>1, <4>1, <5>1, <5>3 DEF HeaderLaid
        <5>5. DOMAIN t # {"byte"} /\ t.usize = size  BY <5>1
        <5>6. got[1].usize = size
          BY <1>4, <5>3, <5>4, <5>5, SameToken
        <5>7. MarkedZip64
          BY <3>2, <4>1 DEF MarkedZip64, LocalStruct, Field32
        <5>. QED  BY <3>1, <3>3, <5>6, <5>7 DEF TrueSize
      <4>2. CASE ~IsZip64(c.method)
        <5>1. n = 0  BY <2>4, <4>2 DEF ExtraLen
        <5>2. got = <<>>
          <6>1. IsSeq(got)  BY <2>2 DEF Part
          <6>. QED  BY <2>5, <5>1, <6>1, EmptySeq DEF IsSeq
        <5>3. ~MarkedZip64  BY <2>1, <5>2
        <5>4. hdr.usize = size  BY <3>2, <4>2 DEF LocalStruct, Field32
        <5>. QED  BY <3>1, <3>3, <5>3, <5>4 DEF TrueSize
      <4>. QED  BY <4>1, <4>2
    <3>5. body' = [size |-> c.csize, num |-> 0, unused |-> 0, sum |-> <<>>]
      BY <2>1, <2>11, <3>4 DEF Decompressor, NoBody
    <3>6. BodyTyped'  BY <2>3, <3>5 DEF BodyTyped
    <3>7. BodyOf(c)'
      <4>1. body'.num = 0 /\ body'.unused = 0 /\ body'.sum = <<>>
            /\ body'.size = c.csize
        BY <3>5
      <4>2. IsSeq(<<>>) /\ Len(<<>>) = 0  BY NothingIsSeq
      <4>3. Position' = DataAt(c) + body'.num + body'.unused
        BY <1>5, <2>3, <2>4, <2>5, <4>1
      <4>4. roff' \in Nat  BY <1>1, <1>4, Positions
      <4>5. body'.unused \in 0 .. roff'  BY <4>1, <4>4
      <4>6. fname' \in DOMAIN dest' /\ dest'[fname'] = body'.sum
        BY <2>1, <2>6, <4>1
      <4>7. want' = 0  BY <2>1, <2>11
      <4>8. IsSeq(body'.sum) /\ Len(body'.sum) = body'.num
        BY <4>1, <4>2
      <4>9. \A i \in 1 .. body'.num :
              body'.sum[i] = (disk[DataAt(c) + i].byte)'
        BY <4>1
      <4>. QED
        BY <4>1, <4>3, <4>5, <4>6, <4>7, <4>8, <4>9 DEF BodyOf
    <3>8. InFile(c)'
      BY <1>3, <2>1, <2>2, <2>11, <3>3, <3>7 DEF InFile
    <3>9. ReaderAt(k)' /\ k <= Len(central)
      <4>1. k <= Len(central)  BY <1>2
      <4>. QED  BY <1>2, <1>3, <3>8, <4>1 DEF ReaderAt
    <3>10. DestAt(k)'
      BY <1>2, <1>3, <2>1, <2>2, <2>8, <2>9, <2>11, <3>9 DEF DestAt
    <3>11. ReaderPlace'  BY <1>2, <1>3, <3>9, <3>10 DEF ReaderPlace
    <3>. QED  BY <1>1, <1>5, <3>6, <3>11, ReaderMoves
  <2>. QED  BY <2>10, <2>11
<1>. QED  BY <1>6, <1>7

LEMMA ChunkIsRead ==
  ASSUME BufferIs, Fill, taken < Len(disk)
  PROVE  /\ BufferIs' /\ Position' = Position
         /\ UNCHANGED <<rpc, disk, want, got, hdr, fname, body, dest>>
<1>1. PICK to : to = Smaller(taken + ReadSize, Len(disk))  OBVIOUS
<1>2. /\ Len(disk) \in Nat /\ Len(chunk) \in Nat /\ taken \in Nat
      /\ roff \in Nat /\ Len(chunk) <= taken
      /\ Position = taken - Len(chunk) + roff
  BY Positions
<1>3. /\ roff = Len(chunk) /\ chunk' = SubSeq(disk, taken + 1, to)
      /\ taken' = taken + Len(chunk') /\ roff' = 0
      /\ UNCHANGED <<rpc, disk, want, got, hdr, fname, body, dest>>
  BY <1>1, <1>2 DEF Fill
<1>4. to \in Nat /\ taken < to /\ to <= Len(disk)
  BY <1>1, <1>2, UnzipAssumption DEF Smaller
<1>5. PICK s, from : s = chunk' /\ from = taken + 1  OBVIOUS
<1>6. Cuts(s, disk, from, to)
  <2>1. from \in Nat \ {0} /\ IsSeq(disk)  BY <1>2, <1>5 DEF BufferIs
  <2>. QED  BY <1>3, <1>4, <1>5, <2>1, Cut
<1>7. /\ IsSeq(s) /\ Len(s) = to - taken
      /\ \A i \in 1 .. Len(s) : s[i] = disk[taken + i]
  <2>1. /\ IsSeq(s) /\ Len(s) = IF from <= to THEN to - from + 1 ELSE 0
        /\ \A i \in 1 .. to - from + 1 : s[i] = disk[from + i - 1]
    BY <1>6 DEF Cuts
  <2>2. /\ from <= to /\ to - from + 1 = to - taken
        /\ \A i \in 1 .. to - taken : from + i - 1 = taken + i
    BY <1>2, <1>4, <1>5
  <2>. QED  BY <2>1, <2>2
<1>8. taken' = to /\ Len(s) \in Nat /\ Len(s) <= to /\ to - Len(s) = taken
  BY <1>2, <1>3, <1>4, <1>5, <1>7
<1>9. BufferIs'
  <2>1. IsSeq(disk) /\ taken' \in 0 .. Len(disk) /\ roff' \in 0 .. Len(s)
    BY <1>2, <1>3, <1>4, <1>8 DEF BufferIs
  <2>. QED  BY <1>3, <1>5, <1>7, <1>8, <2>1 DEF BufferIs
<1>10. Position' = Position
  <2>1. Position' = to - Len(s) + 0  BY <1>3, <1>5, <1>8 DEF Position
  <2>. QED  BY <1>2, <1>3, <1>8, <2>1
<1>. QED  BY <1>3, <1>9, <1>10

LEMMA ReaderFills ==
  ASSUME ArchiveInv, phase = "extract", Fill, UNCHANGED readerConsts
  PROVE  ReaderPhase'
<1>1. Wanting /\ Reading /\ UNCHANGED disk  BY DEF Fill
<1>2. PICK k \in 1 .. Len(central) + 1 : ReaderAt(k) /\ DestAt(k)
  BY <1>1, ReaderIsSomewhere DEF ArchiveInv, Reading
<1>3. UNCHANGED <<central, out, before>>  BY DEF readerConsts, zipVars
<1>4. WriterInv /\ ReaderPhase /\ BufferIs /\ BodyTyped
  BY DEF ArchiveInv, ReaderPhase
<1>5. taken < Len(disk) \/ taken = Len(disk)  BY <1>4, Positions
<1>6. CASE taken < Len(disk)
  <2>1. /\ BufferIs' /\ Position' = Position
        /\ UNCHANGED <<rpc, disk, want, got, hdr, fname, body, dest>>
    BY <1>4, <1>6, ChunkIsRead
  <2>2. \A p, n : Part(p, n) => Part(p, n)'  BY <2>1 DEF Part
  <2>3. ASSUME NEW c, rpc = "body", BodyOf(c)  PROVE BodyOf(c)'
    <3>1. body.unused = 0  BY <1>1, <2>3 DEF Wanting, BodyOf
    <3>2. roff' \in Nat  BY <2>1 DEF BufferIs
    <3>3. body.unused \in 0 .. roff'  BY <2>1, <3>1, <3>2, Positions
    <3>. QED  BY <2>1, <2>3, <3>3 DEF BodyOf
  <2>4. \A c : InFile(c) => InFile(c)'  BY <1>3, <2>1, <2>2, <2>3 DEF InFile
  <2>5. ReaderAt(k)'
    <3>1. PICK at : at = Start(central, k)  OBVIOUS
    <3>2. Start(central', k) = at  BY <1>3, <3>1
    <3>3. ReaderAt(k)  BY <1>2
    <3>. QED  BY <1>3, <2>1, <2>2, <2>4, <3>1, <3>2, <3>3 DEF ReaderAt
  <2>6. BodyTyped'  BY <1>4, <2>1 DEF BodyTyped
  <2>. QED  BY <1>2, <2>1, <2>5, <2>6, StaysAt
<1>7. CASE taken = Len(disk) /\ rpc # "drain"
  <2>1. ~(taken < Len(disk))  BY <1>4, <1>7, Positions
  <2>2. RaiseUnzipError /\ UNCHANGED <<taken, chunk, roff>>
    BY <1>7, <2>1 DEF Fill
  <2>3. BufferIs'  BY <1>1, <1>4, <2>2, BufferStays
  <2>4. rpc # "raised" /\ rpc # "done"  BY <1>1 DEF Reading
  <2>. QED  BY <1>1, <2>2, <2>3, <2>4, ReaderRaises
<1>8. CASE taken = Len(disk) /\ rpc = "drain"
  <2>1. ~(taken < Len(disk))  BY <1>4, <1>8, Positions
  <2>2. rpc' = "done" /\ UNCHANGED <<readerVars, dest>>
    BY <1>8, <2>1 DEF Fill
  <2>3. BufferIs'  BY <1>1, <1>4, <2>2, BufferStays DEF readerVars
  <2>4. k = Len(central) + 1  BY <1>2, <1>8 DEF ReaderAt, InFile
  <2>5. DestAt(k)'  BY <1>2, <1>3, <1>8, <2>2, DestStays
  <2>6. ReaderPlace'  BY <1>3, <2>2, <2>4, <2>5 DEF ReaderPlace
  <2>7. BodyTyped'  BY <1>4, <2>2 DEF BodyTyped, readerVars
  <2>. QED  BY <1>1, <2>3, <2>6, <2>7, ReaderMoves
<1>. QED  BY <1>5, <1>6, <1>7, <1>8

(* dest says what is written of the k-th file only while it is open. *)
LEMMA ReaderFinishesBody ==
  ASSUME ArchiveInv, phase = "extract", FinishBody, UNCHANGED readerConsts
  PROVE  ReaderPhase'
<1>1. /\ rpc = "body" /\ body.num = body.size /\ roff' = roff - body.unused
      /\ UNCHANGED <<disk, taken, chunk>>
  BY DEF FinishBody, Unused
<1>2. PICK k \in 1 .. Len(central), c \in ListedEntry :
        /\ c = central[k] /\ InFile(c) /\ DestAt(k)
        /\ k + 1 \in 1 .. Len(central) + 1
  BY <1>1, ReaderInFile
<1>3. UNCHANGED <<central, out, before>>  BY DEF readerConsts, zipVars
<1>4. WriterInv /\ ReaderPhase /\ BufferIs /\ BodyTyped
  BY DEF ArchiveInv, ReaderPhase
<1>5. /\ hdr = out[c.at + 2] /\ fname = c.name /\ ~IsDeflated(c.method)
      /\ BodyOf(c)
  BY <1>1, <1>2 DEF InFile
<1>6. /\ body.size = c.csize /\ body.unused \in 0 .. roff
      /\ Position = DataAt(c) + body.num + body.unused
      /\ fname \in DOMAIN dest /\ dest[fname] = body.sum
  BY <1>5 DEF BodyOf
<1>7. /\ Len(chunk) \in Nat /\ taken \in Nat /\ roff \in Nat
      /\ roff <= Len(chunk) /\ Position = taken - Len(chunk) + roff
  BY <1>4, Positions
<1>8. BufferIs'
  <2>1. roff' \in 0 .. Len(chunk)  BY <1>1, <1>6, <1>7
  <2>. QED  BY <1>1, <1>4, <2>1 DEF BufferIs
<1>9. CASE RaiseUnzipError  BY <1>1, <1>8, <1>9, ReaderRaises
<1>10. CASE ~RaiseUnzipError
  <2>1. /\ body.sum = hdr.crc /\ rpc' = "signature" /\ want' = 1 /\ got' = <<>>
        /\ UNCHANGED <<hdr, fname, body, dest>>
    BY <1>10 DEF FinishBody, CrcMatches, Get
  <2>2. /\ DataAt(c) \in Nat /\ c.csize \in Nat
        /\ EndOf(c) = DataAt(c) + c.csize
    <3>1. c.name \in FileName /\ c.at \in Nat /\ c.csize \in Nat
      BY <1>2, ListedFields
    <3>. QED  BY <1>5, <3>1, Sizes
  <2>3. Start(central, k + 1) = EndOf(c)  BY <1>2, <1>4, EntryAt
  <2>4. Position' = EndOf(c)
    <3>1. PICK n, u : n = body.num /\ u = body.unused  OBVIOUS
    <3>2. n = c.csize /\ u \in 0 .. roff  BY <1>1, <1>6, <3>1
    <3>3. Position' = taken - Len(chunk) + (roff - u)
      BY <1>1, <3>1 DEF Position
    <3>4. taken - Len(chunk) + roff = DataAt(c) + n + u
      BY <1>6, <1>7, <3>1
    <3>5. PICK l, d : l = Len(chunk) /\ d = DataAt(c)  OBVIOUS
    <3>6. taken - l + (roff - u) = d + n
      BY <1>7, <2>2, <3>2, <3>4, <3>5
    <3>. QED  BY <2>2, <3>2, <3>3, <3>5, <3>6
  <2>5. Part(EndOf(c), 1)'
    <3>1. IsSeq(got') /\ Len(got') = 0  BY <2>1, NothingIsSeq
    <3>2. PICK e : e = EndOf(c) /\ e \in Nat  BY <2>2
    <3>3. Position' = e + Len(got')  BY <2>4, <3>1, <3>2
    <3>4. Part(e, 1)'  BY <2>1, <3>1, <3>3 DEF Part
    <3>. QED  BY <3>2, <3>4
  <2>6. ReaderAt(k + 1)'  BY <1>3, <2>1, <2>3, <2>5 DEF ReaderAt
  <2>7. hdr.crc = c.crc
    <3>1. HeaderLaid(out, c, c.crc, c.csize)
      BY <1>2, <1>4, <1>5, HeaderAt
    <3>2. hdr = LocalStruct(c, c.crc, c.csize)
      BY <1>5, <3>1 DEF HeaderLaid
    <3>. QED  BY <3>2 DEF LocalStruct
  <2>8. Restored(c)'  BY <1>5, <1>6, <2>1, <2>7 DEF Restored
  <2>9. DestAt(k + 1)'
    <3>1. \A j \in 1 .. k : j \in 1 .. k - 1 \/ j = k
      BY <1>2, FilesEndIsNat DEF ArchiveInv, WriterInv
    <3>2. k + 1 - 1 = k /\ k \in 1 .. k /\ 1 .. k - 1 \subseteq 1 .. k
      BY <1>2, FilesEndIsNat DEF ArchiveInv, WriterInv
    <3>3. \A j \in 1 .. k : Restored(central[j])'
      BY <1>2, <1>3, <2>1, <2>8, <3>1 DEF DestAt, Restored
    <3>4. ASSUME NEW n \in DOMAIN dest
          PROVE  \/ n \in DOMAIN before /\ dest[n] = before[n]
                 \/ \E j \in 1 .. k : n = central[j].name
      BY <1>2, <3>2 DEF DestAt
    <3>5. PICK m : m = k + 1 /\ m - 1 = k  BY <3>2
    <3>6. DestAt(m)'  BY <1>3, <2>1, <3>3, <3>4, <3>5 DEF DestAt
    <3>. QED  BY <3>5, <3>6
  <2>10. ReaderPlace'  BY <1>2, <1>3, <2>6, <2>9 DEF ReaderPlace
  <2>11. BodyTyped'  BY <1>4, <2>1 DEF BodyTyped
  <2>. QED  BY <1>1, <1>8, <2>10, <2>11, ReaderMoves
<1>. QED  BY <1>9, <1>10

LEMMA ReaderReadsBody ==
  ASSUME ArchiveInv, phase = "extract", ReadBody, UNCHANGED readerConsts
  PROVE  ReaderPhase'
<1>1. /\ rpc = "body" /\ body.num < body.size /\ roff < Len(chunk)
      /\ UNCHANGED <<rpc, disk, taken, chunk, want, got, hdr, fname>>
  BY DEF ReadBody
<1>2. PICK piece, keep, data :
        /\ piece = Smaller(Len(chunk) - roff, UnzipSize)
        /\ keep = Smaller(piece, body.size - body.num)
        /\ data = SubSeq(chunk, roff + 1, roff + keep)
        /\ roff' = roff + piece
        /\ body' = [body EXCEPT !.num = @ + keep, !.unused = piece - keep,
                                !.sum = @ \o BytesOf(data)]
        /\ dest' = [dest EXCEPT ![fname] = @ \o BytesOf(data)]
  BY DEF ReadBody
<1>3. PICK k \in 1 .. Len(central), c \in ListedEntry :
        /\ c = central[k] /\ InFile(c) /\ DestAt(k)
        /\ k \in 1 .. Len(central) + 1
  BY <1>1, ReaderInFile
<1>4. UNCHANGED <<central, out, before>>  BY DEF readerConsts, zipVars
<1>5. WriterInv /\ ReaderPhase /\ BufferIs /\ BodyTyped
  BY DEF ArchiveInv, ReaderPhase
<1>6. /\ hdr = out[c.at + 2] /\ fname = c.name /\ ~IsDeflated(c.method)
      /\ BodyOf(c)
  BY <1>1, <1>3 DEF InFile
<1>7. PICK num, size, sum, d :
        /\ num = body.num /\ size = body.size /\ sum = body.sum
        /\ d = DataAt(c)
  OBVIOUS
<1>8. /\ num \in Nat /\ size \in Nat /\ num < size /\ d \in Nat
  <2>1. c.name \in FileName /\ c.at \in Nat /\ c.csize \in Nat
    BY <1>3, ListedFields
  <2>2. DataAt(c) \in Nat  BY <2>1, Sizes
  <2>. QED  BY <1>1, <1>5, <1>7, <2>2 DEF BodyTyped
<1>9. /\ want = 0 /\ size = c.csize /\ body.unused = 0
      /\ Position = d + num + 0
      /\ IsSeq(sum) /\ Len(sum) = num
      /\ \A i \in 1 .. num : sum[i] = disk[d + i].byte
      /\ fname \in DOMAIN dest /\ dest[fname] = sum
  BY <1>1, <1>6, <1>7 DEF BodyOf
<1>10. /\ Len(chunk) \in Nat /\ taken \in Nat /\ roff \in Nat
       /\ Len(chunk) <= taken
       /\ Position = taken - Len(chunk) + roff
  BY <1>5, Positions
<1>11. /\ piece \in Nat /\ roff + piece <= Len(chunk)
       /\ keep \in Nat /\ keep <= piece /\ num + keep <= size
       /\ num + keep < size => keep = piece
  <2>1. piece \in Nat /\ piece > 0 /\ roff + piece <= Len(chunk)
    BY <1>1, <1>2, <1>10, UnzipAssumption DEF Smaller
  <2>2. keep = Smaller(piece, size - num)  BY <1>2, <1>7
  <2>. QED  BY <1>8, <2>1, <2>2 DEF Smaller
<1>12. /\ IsSeq(data) /\ Len(data) = keep
       /\ \A i \in 1 .. keep : data[i] = disk[d + (num + i)]
  <2>1. PICK from, to : from = roff + 1 /\ to = roff + keep  OBVIOUS
  <2>2. from \in Nat \ {0} /\ to \in Nat /\ to <= Len(chunk)
    BY <1>10, <1>11, <2>1
  <2>3. Cuts(data, chunk, from, to)
    BY <1>2, <1>5, <2>1, <2>2, Cut DEF BufferIs
  <2>4. /\ IsSeq(data) /\ Len(data) = IF from <= to THEN to - from + 1 ELSE 0
        /\ \A i \in 1 .. to - from + 1 : data[i] = chunk[from + i - 1]
    BY <2>3 DEF Cuts
  <2>5. /\ to - from + 1 = keep /\ (from <= to <=> keep > 0)
        /\ \A i \in 1 .. keep : from + i - 1 = roff + i
    BY <1>10, <1>11, <2>1
  <2>6. Len(data) = keep  BY <1>11, <2>4, <2>5
  <2>7. ASSUME NEW i \in 1 .. keep  PROVE data[i] = disk[d + (num + i)]
    <3>1. data[i] = chunk[roff + i]  BY <2>4, <2>5
    <3>2. roff + i \in 1 .. Len(chunk)  BY <1>10, <1>11
    <3>3. chunk[roff + i] = disk[taken - Len(chunk) + (roff + i)]
      BY <1>5, <3>2 DEF BufferIs
    <3>4. taken - Len(chunk) + (roff + i) = d + (num + i)
      BY <1>8, <1>9, <1>10, <1>11
    <3>. QED  BY <3>1, <3>3, <3>4
  <2>. QED  BY <2>4, <2>6, <2>7
<1>13. PICK bytes : bytes = BytesOf(data)  OBVIOUS
<1>14. /\ IsSeq(bytes) /\ Len(bytes) = keep
       /\ \A i \in 1 .. keep : bytes[i] = data[i].byte
  BY <1>12, <1>13, BytesAreSeqs
<1>15. PICK sum2 : sum2 = sum \o bytes  OBVIOUS
<1>16. Joins(sum2, sum, bytes)  BY <1>9, <1>14, <1>15, Joined
<1>17. IsSeq(sum2) /\ Len(sum2) = num + keep
  BY <1>9, <1>14, <1>16 DEF Joins
<1>18. ASSUME NEW i \in 1 .. num + keep  PROVE sum2[i] = disk[d + i].byte
  <2>1. CASE i <= num
    <3>1. i \in 1 .. num  BY <1>8, <2>1
    <3>. QED  BY <1>9, <1>16, <3>1 DEF Joins
  <2>2. CASE ~(i <= num)
    <3>1. PICK j \in 1 .. keep : i = num + j
      <4>1. i - num \in 1 .. keep /\ i = num + (i - num)
        BY <1>8, <1>11, <2>2
      <4>. QED  BY <4>1
    <3>2. sum2[num + j] = bytes[j]  BY <1>9, <1>14, <1>16 DEF Joins
    <3>. QED  BY <1>12, <1>14, <3>1, <3>2
  <2>. QED  BY <2>1, <2>2
<1>19. /\ body'.num = num + keep /\ body'.unused = piece - keep
       /\ body'.sum = sum2 /\ body'.size = size
  BY <1>2, <1>5, <1>7, <1>13, <1>15 DEF BodyTyped
<1>20. /\ DOMAIN dest' = DOMAIN dest /\ dest'[fname] = sum2
       /\ \A n \in DOMAIN dest : n # fname => dest'[n] = dest[n]
  BY <1>2, <1>9, <1>13, <1>15
<1>21. BufferIs'
  <2>1. roff' \in 0 .. Len(chunk)  BY <1>2, <1>10, <1>11
  <2>. QED  BY <1>1, <1>5, <2>1 DEF BufferIs
<1>22. BodyTyped'
  <2>1. num + keep \in 0 .. size  BY <1>8, <1>11
  <2>2. DOMAIN body' = DOMAIN body  BY <1>2
  <2>. QED  BY <1>5, <1>8, <1>19, <2>1, <2>2 DEF BodyTyped
<1>23. BodyOf(c)'
  <2>1. piece - keep \in 0 .. roff'  BY <1>2, <1>10, <1>11
  <2>2. num + keep < size => piece - keep = 0  BY <1>11
  <2>3. Position' = d + (num + keep) + (piece - keep)
    <3>1. Position' = taken - Len(chunk) + (roff + piece)
      BY <1>1, <1>2 DEF Position
    <3>2. PICK l : l = Len(chunk)  OBVIOUS
    <3>3. taken - l + roff = d + num /\ l \in Nat
      BY <1>8, <1>9, <1>10, <3>2
    <3>4. taken - l + (roff + piece) = d + (num + keep) + (piece - keep)
      BY <1>8, <1>10, <1>11, <3>3
    <3>. QED  BY <3>1, <3>2, <3>4
  <2>4. \A i \in 1 .. body'.num : body'.sum[i] = (disk[DataAt(c) + i].byte)'
    BY <1>1, <1>7, <1>18, <1>19
  <2>5. fname' \in DOMAIN dest' /\ dest'[fname'] = body'.sum
    BY <1>1, <1>9, <1>19, <1>20
  <2>. QED
    BY <1>1, <1>7, <1>9, <1>17, <1>19, <2>1, <2>2, <2>3, <2>4, <2>5 DEF BodyOf
<1>24. ReaderAt(k)'
  <2>1. k <= Len(central)  BY <1>3
  <2>2. InFile(c)'  BY <1>1, <1>4, <1>6, <1>23 DEF InFile
  <2>. QED  BY <1>3, <1>4, <2>1, <2>2 DEF ReaderAt
<1>25. DestAt(k)'
  <2>1. \A j \in 1 .. k - 1 : j \in 1 .. Len(central) /\ j # k
    BY <1>3, FilesEndIsNat DEF ArchiveInv, WriterInv
  <2>2. ASSUME NEW j \in 1 .. k - 1  PROVE Restored(central[j])'
    <3>1. central[j].name # fname
      BY <1>3, <1>5, <1>6, <2>1, NamesDiffer
    <3>2. Restored(central[j])  BY <1>3 DEF DestAt
    <3>. QED  BY <1>4, <1>20, <3>1, <3>2 DEF Restored
  <2>3. ASSUME NEW n \in DOMAIN dest
        PROVE  \/ n = fname
               \/ n \in DOMAIN before /\ dest'[n] = before[n]
               \/ \E j \in 1 .. k - 1 : n = central[j].name
    BY <1>3, <1>6, <1>20 DEF DestAt
  <2>4. k <= Len(central)  BY <1>3
  <2>. QED
    BY <1>1, <1>3, <1>4, <1>6, <1>20, <2>2, <2>3, <2>4 DEF DestAt
<1>26. ReaderPlace'  BY <1>3, <1>4, <1>24, <1>25 DEF ReaderPlace
<1>. QED  BY <1>1, <1>21, <1>22, <1>26, ReaderMoves

LEMMA ReaderSteps ==
  ASSUME ArchiveInv, ExtractStep
  PROVE  ReaderPhase'
<1>1. phase = "extract" /\ UnzipNext /\ UNCHANGED readerConsts
  BY DEF ExtractStep, readerConsts
<1>. QED
  BY <1>1, ReaderFills, ReaderTakesPiece, ReaderReadsSignature, ReaderDrains,
     ReaderReadsHeader, ReaderReadsName, ReaderReadsExtra, ReaderReadsBody,
     ReaderFinishesBody DEF UnzipNext

------------------------------------------------------------------------------
(* The archive in the store, and the start of the extraction               *)

LEMMA WriterLeavesReader ==
  ASSUME ArchiveInv, ArchiveStep
  PROVE  ReaderPhase'
<1>1. /\ phase = "archive"
      /\ UNCHANGED <<rpc, disk, taken, chunk, roff, want, got, hdr, fname, body,
                     dest, phase, source, before, damage>>
  BY DEF ArchiveStep, unzipVars, readerVars
<1>2. ReaderPhase  BY DEF ArchiveInv
<1>3. BufferIs' /\ BodyTyped'
  BY <1>1, <1>2 DEF ReaderPhase, BufferIs, BodyTyped
<1>. QED  BY <1>1, <1>2, <1>3 DEF ReaderPhase

LEMMA NothingIsTaken ==
  ASSUME ReaderPhase, phase # "extract", IsSeq(disk'),
         UNCHANGED <<taken, chunk, roff>>
  PROVE  BufferIs'
<1>1. taken = 0 /\ chunk = <<>> /\ roff \in 0 .. Len(chunk)
  BY DEF ReaderPhase, BufferIs
<1>2. IsSeq(chunk) /\ Len(chunk) = 0  BY <1>1, NothingIsSeq
<1>3. Len(disk') \in Nat  BY IsSeqFacts
<1>. QED  BY <1>1, <1>2, <1>3 DEF BufferIs

LEMMA ArchiveIsStored ==
  ASSUME ArchiveInv, ArchiveReturns
  PROVE  ReaderPhase'
<1>1. /\ phase = "archive"
      /\ UNCHANGED <<wpc, out, central, rpc, taken, chunk, roff, want, got, hdr,
                     fname, body, dest, source, before, damage>>
  BY DEF ArchiveReturns, zipVars, readerVars
<1>2. ReaderPhase /\ IsSeq(out)
  BY DEF ArchiveInv, WriterInv, WriterPhase
<1>3. BodyTyped'  BY <1>1, <1>2 DEF ReaderPhase, BodyTyped
<1>4. rpc = "idle" /\ dest = before /\ taken = 0 /\ chunk = <<>> /\ disk = <<>>
      /\ damage \in {"none", "tail", "data"}
  BY <1>1, <1>2 DEF ReaderPhase
<1>5. CASE wpc = "done" /\ phase' = "stored" /\ disk' = out
  <2>1. BufferIs'  BY <1>1, <1>2, <1>5, NothingIsTaken
  <2>2. OnDisk(disk', out)
    <3>1. Len(out) \in Nat  BY <1>2, IsSeqFacts
    <3>. QED  BY <1>5, <3>1 DEF OnDisk
  <2>. QED  BY <1>1, <1>3, <1>4, <1>5, <2>1, <2>2 DEF ReaderPhase
<1>6. CASE wpc = "raised" /\ phase' = "failed" /\ UNCHANGED disk
  <2>1. IsSeq(disk')  BY <1>4, <1>6, NothingIsSeq
  <2>2. BufferIs'  BY <1>1, <1>2, <2>1, NothingIsTaken
  <2>. QED  BY <1>1, <1>3, <1>4, <1>6, <2>2 DEF ReaderPhase
<1>. QED  BY <1>5, <1>6 DEF ArchiveReturns

(* What happens to an archive in the store leaves a beginning of it, with  *)
(* perhaps a damaged byte.                                                 *)
LEMMA StoredArchive ==
  ASSUME ArchiveInv, phase = "stored", phase' = "stored",
         IsSeq(disk'), OnDisk(disk', out), damage' \in {"tail", "data"},
         UNCHANGED <<zipVars, rpc, readerVars, dest, source, before>>
  PROVE  ReaderPhase'
<1>1. UNCHANGED <<wpc, out, central, rpc, taken, chunk, roff, want, got, hdr,
                  fname, body, dest, source, before>>
  BY DEF zipVars, readerVars
<1>2. ReaderPhase  BY DEF ArchiveInv
<1>3. BufferIs' /\ BodyTyped'
  BY <1>1, <1>2, NothingIsTaken DEF ReaderPhase, BodyTyped
<1>. QED  BY <1>1, <1>2, <1>3 DEF ReaderPhase

LEMMA TailIsLost ==
  ASSUME ArchiveInv, LoseTail
  PROVE  ReaderPhase'
<1>1. PICK n \in 0 .. Len(disk) - 1 : disk' = SubSeq(disk, 1, n)
  BY DEF LoseTail
<1>2. phase = "stored" /\ IsSeq(disk) /\ OnDisk(disk, out)
  BY DEF LoseTail, ArchiveInv, ReaderPhase, BufferIs
<1>3. Len(disk) \in Nat  BY <1>2, IsSeqFacts
<1>4. PICK d, m : d = disk' /\ m = Len(disk)  OBVIOUS
<1>5. n \in Nat /\ n <= m /\ m \in Nat  BY <1>3, <1>4
<1>6. Cuts(d, disk, 1, n)  BY <1>1, <1>2, <1>4, <1>5, Cut
<1>7. /\ IsSeq(d) /\ Len(d) = IF 1 <= n THEN n - 1 + 1 ELSE 0
      /\ \A i \in 1 .. n - 1 + 1 : d[i] = disk[1 + i - 1]
  BY <1>6 DEF Cuts
<1>8. Len(d) = n /\ \A i \in 1 .. n : d[i] = disk[i]
  <2>1. n - 1 + 1 = n /\ \A i \in 1 .. n : 1 + i - 1 = i  BY <1>5
  <2>. QED  BY <1>5, <1>7, <2>1
<1>9. OnDisk(d, out)
  <2>1. m <= Len(out)  BY <1>2, <1>4 DEF OnDisk
  <2>2. Len(out) \in Nat
    BY IsSeqFacts DEF ArchiveInv, WriterInv, WriterPhase
  <2>3. Len(d) <= Len(out) /\ \A i \in 1 .. n : i \in 1 .. m
    BY <1>5, <1>8, <2>1, <2>2
  <2>. QED  BY <1>2, <1>4, <1>8, <2>3 DEF OnDisk
<1>. QED  BY <1>2, <1>4, <1>7, <1>9, StoredArchive DEF LoseTail

LEMMA DataIsDamaged ==
  ASSUME ArchiveInv, DamageData
  PROVE  ReaderPhase'
<1>1. PICK i \in 1 .. Len(disk) :
        DOMAIN disk[i] = {"byte"} /\ disk' = [disk EXCEPT ![i] = [byte |-> -1]]
  BY DEF DamageData
<1>2. phase = "stored" /\ IsSeq(disk) /\ OnDisk(disk, out)
  BY DEF DamageData, ArchiveInv, ReaderPhase, BufferIs
<1>3. PICK t, d : t = [byte |-> -1] /\ d = disk'  OBVIOUS
<1>. DEFINE S == Range(disk) \cup {t}
<1>4. disk \in Seq(S) /\ t \in S  BY <1>2, SeqMonotonic DEF IsSeq
<1>. HIDE DEF S
<1>5. /\ d \in Seq(S) /\ Len(d) = Len(disk) /\ d[i] = t
      /\ \A j \in 1 .. Len(disk) : j # i => d[j] = disk[j]
  BY <1>1, <1>3, <1>4, ExceptSeq
<1>6. IsSeq(d)  BY <1>5, SeqIsSeq
<1>7. OnDisk(d, out)
  <2>1. DOMAIN out[i] = {"byte"}  BY <1>1, <1>2 DEF OnDisk
  <2>. QED  BY <1>2, <1>3, <1>5, <2>1 DEF OnDisk
<1>. QED  BY <1>2, <1>3, <1>6, <1>7, StoredArchive DEF DamageData

LEMMA ExtractionStarts ==
  ASSUME ArchiveInv, StartExtract
  PROVE  ReaderPhase'
<1>1. /\ phase = "stored" /\ phase' = "extract"
      /\ rpc' = "signature" /\ want' = 1 /\ got' = <<>>
      /\ UNCHANGED <<wpc, out, central, disk, taken, chunk, roff, hdr, fname,
                     body, dest, source, before, damage>>
  BY DEF StartExtract, Get, zipVars
<1>2. WriterInv /\ ReaderPhase /\ BufferIs /\ BodyTyped
  BY DEF ArchiveInv, ReaderPhase
<1>3. /\ rpc = "idle" /\ dest = before /\ taken = 0 /\ chunk = <<>>
      /\ damage \in {"none", "tail", "data"} /\ wpc = "done" /\ OnDisk(disk, out)
  BY <1>1, <1>2 DEF ReaderPhase
<1>4. BufferIs' /\ BodyTyped'  BY <1>1, <1>2 DEF BufferIs, BodyTyped
<1>5. Len(central) \in Nat  BY <1>2, FilesEndIsNat DEF WriterInv
<1>6. Start(central, 1) = 0
  <2>1. CASE 1 <= Len(central)
    <3>1. central[1].at = 0  BY <1>2, <1>5, <2>1 DEF WriterInv, FilesLaid
    <3>. QED  BY <2>1, <3>1 DEF Start
  <2>2. CASE ~(1 <= Len(central))
    <3>1. central = <<>>
      BY <1>2, <1>5, <2>2, EmptySeq DEF WriterInv, FilesLaid
    <3>. QED  BY <2>2, <3>1 DEF Start, FilesEnd
  <2>. QED  BY <2>1, <2>2
<1>7. Part(Start(central, 1), 1)'
  <2>1. IsSeq(got') /\ Len(got') = 0  BY <1>1, NothingIsSeq
  <2>2. Position' = 0
    <3>1. Len(chunk) = 0 /\ roff = 0 /\ taken = 0
      BY <1>2, <1>3, NothingIsSeq DEF BufferIs
    <3>2. Position = 0  BY <3>1 DEF Position
    <3>. QED  BY <1>1, <3>2 DEF Position
  <2>3. Part(0, 1)'  BY <1>1, <2>1, <2>2 DEF Part
  <2>4. Start(central', 1) = 0  BY <1>1, <1>6
  <2>. QED  BY <2>3, <2>4
<1>8. ReaderAt(1)'  BY <1>1, <1>7 DEF ReaderAt
<1>9. DestAt(1)'
  <2>1. 1 .. 1 - 1 = {}  OBVIOUS
  <2>. QED  BY <1>1, <1>3, <2>1 DEF DestAt
<1>10. ReaderPlace'
  <2>1. 1 \in 1 .. Len(central') + 1  BY <1>1, <1>5
  <2>. QED  BY <1>8, <1>9, <2>1 DEF ReaderPlace
<1>. QED  BY <1>1, <1>3, <1>4, <1>10 DEF ReaderPhase, ReaderPlace

LEMMA ReaderStays ==
  ASSUME ArchiveInv, UNCHANGED vars
  PROVE  ReaderPhase'
<1>1. /\ UNCHANGED <<wpc, out, central, rpc, disk, taken, chunk, roff, want,
                     got, hdr, fname, body, dest, phase, source, before, damage>>
  BY DEF vars, zipVars, unzipVars, readerVars
<1>2. ReaderPhase  BY DEF ArchiveInv
<1>3. BufferIs' /\ BodyTyped' /\ Position' = Position
  BY <1>1, <1>2 DEF ReaderPhase, BufferIs, BodyTyped, Position
<1>4. CASE phase # "extract"  BY <1>1, <1>2, <1>3, <1>4 DEF ReaderPhase
<1>5. CASE phase = "extract"
  <2>1. UNCHANGED <<readerConsts, disk>>
    BY DEF readerConsts, vars, unzipVars
  <2>2. CASE rpc # "raised" /\ rpc # "done"
    <3>1. PICK k \in 1 .. Len(central) + 1 : ReaderAt(k) /\ DestAt(k)
      BY <1>2, <1>5, <2>2, ReaderIsSomewhere
    <3>2. /\ \A p, n : Part(p, n) => Part(p, n)'
          /\ \A c : BodyOf(c) => BodyOf(c)'
      BY <1>1, <1>3 DEF Part, BodyOf
    <3>3. \A c : InFile(c) => InFile(c)'  BY <1>1, <3>2 DEF InFile
    <3>4. ReaderAt(k)'
      <4>1. PICK at : at = Start(central, k)  OBVIOUS
      <4>2. Start(central', k) = at  BY <1>1, <4>1
      <4>. QED  BY <1>1, <3>1, <3>2, <3>3, <4>1, <4>2 DEF ReaderAt
    <3>. QED  BY <1>1, <1>3, <1>5, <2>1, <3>1, <3>4, StaysAt
  <2>3. CASE rpc = "raised" \/ rpc = "done"
    <3>1. CASE OnlyLastIsBroken /\ rpc = "raised"
      <4>1. OnlyLastIsBroken'  BY <1>1, <3>1 DEF OnlyLastIsBroken, Whole
      <4>2. ReaderPlace'  BY <1>1, <3>1, <4>1 DEF ReaderPlace
      <4>. QED  BY <1>3, <1>5, <2>1, <4>2, ReaderMoves
    <3>2. CASE DestAt(Len(central) + 1) /\ rpc = "done"
      <4>1. DestAt(Len(central) + 1)'
        <5>1. PICK k : k = Len(central) + 1  OBVIOUS
        <5>2. DestAt(k)'  BY <1>1, <3>2, <5>1, DestStays
        <5>. QED  BY <1>1, <5>1, <5>2
      <4>2. ReaderPlace'  BY <1>1, <3>2, <4>1 DEF ReaderPlace
      <4>. QED  BY <1>3, <1>5, <2>1, <4>2, ReaderMoves
    <3>. QED
      BY <1>2, <1>5, <2>3, <3>1, <3>2 DEF ReaderPhase, ReaderAt, InFile
  <2>. QED  BY <2>2, <2>3
<1>. QED  BY <1>4, <1>5

LEMMA ReaderStarts ==
  ASSUME Init
  PROVE  ReaderPhase
<1>1. /\ rpc = "idle" /\ taken = 0 /\ chunk = <<>> /\ roff = 0 /\ body = NoBody
      /\ dest = before /\ disk = <<>> /\ phase = "archive" /\ damage = "none"
  BY DEF Init, UnzipInit
<1>2. BufferIs  BY <1>1, NothingIsSeq DEF BufferIs
<1>3. BodyTyped  BY <1>1 DEF BodyTyped, NoBody
<1>. QED  BY <1>1, <1>2, <1>3 DEF ReaderPhase

------------------------------------------------------------------------------
LEMMA InvHoldsAtFirst == Init => ArchiveInv
BY WriterStarts, ReaderStarts DEF ArchiveInv

LEMMA InvIsKept == ArchiveInv /\ [Next]_vars => ArchiveInv'
<1>. SUFFICES ASSUME ArchiveInv, [Next]_vars
              PROVE  ArchiveInv'
  OBVIOUS
<1>1. WriterInv'
  <2>1. CASE ArchiveStep
    BY <2>1, WriterSteps DEF ArchiveInv, ArchiveStep
  <2>2. CASE ArchiveReturns \/ LoseTail \/ DamageData \/ StartExtract \/ ExtractStep
    BY <2>2, WriterStays
    DEF ArchiveInv, ArchiveReturns, LoseTail, DamageData, StartExtract,
        ExtractStep
  <2>3. CASE UNCHANGED vars
    BY <2>3, WriterStays DEF ArchiveInv, vars
  <2>. QED  BY <2>1, <2>2, <2>3 DEF Next
<1>2. ReaderPhase'
  BY WriterLeavesReader, ArchiveIsStored, TailIsLost, DataIsDamaged,
     ExtractionStarts, ReaderSteps, ReaderStays DEF Next
<1>. QED  BY <1>1, <1>2 DEF ArchiveInv

(* What the writer and the reader are in the middle of: archive_local_folder, *)
(* stream_zip and stream_unzip keep the two phases, whatever the folder, the  *)
(* sizes of the fields and of the chunks, the damage and the destination.     *)
THEOREM ArchiveInvariant == Spec => []ArchiveInv
<1>. QED  BY InvHoldsAtFirst, InvIsKept, PTL DEF Spec

LEMMA InvIsTyped == ArchiveInv => TypeOK
<1>. SUFFICES ASSUME ArchiveInv
              PROVE  TypeOK
  OBVIOUS
<1>1. WriterPhase /\ ReaderPhase /\ BufferIs /\ BodyTyped
  BY DEF ArchiveInv, WriterInv, ReaderPhase
<1>2. rpc \in {"idle", "signature", "header", "name", "extra", "body", "drain",
               "done", "raised"}
  BY <1>1 DEF ReaderPhase, ReaderAt, InFile
<1>. QED
  BY <1>1, <1>2 DEF TypeOK, WriterPhase, ReaderPhase, BufferIs, BodyTyped

(* The generators are at one of their places, and none of the counters of  *)
(* stream_unzip.py runs past what it counts.                               *)
THEOREM ArchiveTypeCorrect == Spec => []TypeOK
<1>. QED  BY ArchiveInvariant, InvIsTyped, PTL

(* stream_zip.py: the entries and the end records of the central directory *)
(* say where the files and the directory are, and how long.                *)
THEOREM DirectoryCorrect == Spec => []DirectoryIsTrue
<1>1. ArchiveInv => DirectoryIsTrue  BY ArchiveIsTrue DEF ArchiveInv
<1>. QED  BY <1>1, ArchiveInvariant, PTL

(* The checks of stream_zip.py for an overflow come before each number     *)
(* that is packed, so that struct.pack never raises.                       *)
THEOREM FieldsCorrect == Spec => []FieldsFit
<1>1. ArchiveInv => FieldsFit  BY DEF ArchiveInv, WriterInv
<1>. QED  BY <1>1, ArchiveInvariant, PTL

LEMMA InvIsComplete == ArchiveInv => AcceptedIsComplete
<1>. SUFFICES ASSUME ArchiveInv, rpc = "done", NEW f \in source
              PROVE  Whole(f)
  BY DEF AcceptedIsComplete
<1>1. WriterInv /\ ReaderPhase  BY DEF ArchiveInv
<1>2. phase = "extract" /\ wpc = "done"  BY <1>1 DEF ReaderPhase
<1>3. DestAt(Len(central) + 1)
  BY <1>1, <1>2 DEF ReaderPhase, ReaderAt, InFile
<1>4. PICK i \in 1 .. Len(central) : f = FileOf(central[i])
  BY <1>1, <1>2, AllAreListed
<1>5. Len(central) \in Nat  BY <1>1, FilesEndIsNat DEF WriterInv
<1>6. i \in 1 .. Len(central) + 1 - 1  BY <1>4, <1>5
<1>7. Restored(central[i])  BY <1>3, <1>6 DEF DestAt
<1>8. f.name = central[i].name /\ f.content = central[i].crc
  BY <1>4 DEF FileOf
<1>. QED  BY <1>7, <1>8 DEF Restored, Whole

(* extract_archive_to of file.py: an extraction that raises no error has   *)
(* restored every file of the folder, also from an archive that lost its   *)
(* tail or was damaged.                                                    *)
THEOREM CompleteCorrect == Spec => []AcceptedIsComplete
<1>. QED  BY ArchiveInvariant, InvIsComplete, PTL

LEMMA InvBreaksOne == ArchiveInv => OnlyLastIsBroken
<1>. SUFFICES ASSUME ArchiveInv
              PROVE  OnlyLastIsBroken
  OBVIOUS
<1>1. WriterInv /\ ReaderPhase  BY DEF ArchiveInv
<1>2. CASE phase # "extract"
  <2>1. dest = before  BY <1>1, <1>2 DEF ReaderPhase
  <2>. QED  BY <2>1 DEF OnlyLastIsBroken
<1>3. CASE phase = "extract" /\ rpc # "done" /\ rpc # "raised"
  <2>1. PICK k \in 1 .. Len(central) + 1 : ReaderAt(k) /\ DestAt(k)
    BY <1>1, <1>3, ReaderIsSomewhere
  <2>. QED  BY <1>1, <2>1, OnlyOneIsBroken
<1>4. CASE phase = "extract" /\ rpc = "raised"
  BY <1>1, <1>4 DEF ReaderPhase, ReaderAt, InFile
<1>5. CASE phase = "extract" /\ rpc = "done"
  <2>1. DestAt(Len(central) + 1)
    BY <1>1, <1>5 DEF ReaderPhase, ReaderAt, InFile
  <2>2. Len(central) \in Nat  BY <1>1, FilesEndIsNat DEF WriterInv
  <2>3. ASSUME NEW n \in DOMAIN dest
        PROVE  \/ n \in DOMAIN before /\ dest[n] = before[n]
               \/ \E f \in source : f.name = n /\ Whole(f)
    <3>1. CASE n \in DOMAIN before /\ dest[n] = before[n]  BY <3>1
    <3>2. CASE \E j \in 1 .. Len(central) + 1 - 1 : n = central[j].name
      <4>1. PICK j \in 1 .. Len(central) + 1 - 1 : n = central[j].name
        BY <3>2
      <4>2. j \in 1 .. Len(central)  BY <2>2
      <4>3. Restored(central[j])  BY <2>1 DEF DestAt
      <4>. QED  BY <1>1, <4>1, <4>2, <4>3, RestoredIsWhole
    <3>3. ~(Len(central) + 1 <= Len(central))  BY <2>2
    <3>. QED  BY <2>1, <3>1, <3>2, <3>3 DEF DestAt
  <2>. QED  BY <2>3 DEF OnlyLastIsBroken
<1>. QED  BY <1>2, <1>3, <1>4, <1>5

(* The loop of extract_archive_to writes one file at a time: a failed      *)
(* extraction leaves at most the file it was writing broken, and touches   *)
(* no file that the archive does not name.                                 *)
THEOREM BrokenCorrect == Spec => []OnlyLastIsBroken
<1>. QED  BY ArchiveInvariant, InvBreaksOne, PTL

LEMMA InvIsAligned == ArchiveInv => ReaderIsAligned
<1>. SUFFICES ASSUME ArchiveInv, rpc = "signature", want = 1,
                     Position < Len(disk)
              PROVE  "sig" \in DOMAIN disk[Position + 1]
  BY DEF ReaderIsAligned
<1>1. WriterInv /\ ReaderPhase /\ BufferIs  BY DEF ArchiveInv, ReaderPhase
<1>2. phase = "extract" /\ wpc = "done"  BY <1>1 DEF ReaderPhase
<1>3. PICK k \in 1 .. Len(central) + 1 : ReaderAt(k) /\ DestAt(k)
  BY <1>1, <1>2, ReaderIsSomewhere
<1>4. PICK at : at = Start(central, k)  OBVIOUS
<1>5. Part(at, 1)  BY <1>3, <1>4 DEF ReaderAt, InFile
<1>6. Len(got) \in Nat /\ Len(got) + want = 1 /\ Position = at + Len(got)
  BY <1>5, IsSeqFacts DEF Part
<1>7. Len(got) = 0  BY <1>6
<1>8. at \in Nat  BY <1>1, <1>2, <1>4, StartIsSigned
<1>9. Position = at  BY <1>6, <1>7, <1>8
<1>10. PICK s : out[at + 1] = Signature(s)
  BY <1>1, <1>2, <1>4, StartIsSigned
<1>11. DOMAIN Signature(s) = {"sig"}  BY DEF Signature
<1>12. at + 1 \in 1 .. Len(disk)  BY <1>1, <1>8, <1>9, Positions
<1>13. disk[at + 1] = Signature(s)
  BY <1>1, <1>2, <1>10, <1>11, <1>12, SameToken
<1>. QED  BY <1>9, <1>11, <1>13

(* _get_byte_readers of stream_unzip.py: what the reader gives back at the *)
(* end of a file is exactly what did not belong to it, for every size of   *)
(* the chunks of the three loops.                                          *)
THEOREM AlignedCorrect == Spec => []ReaderIsAligned
<1>. QED  BY ArchiveInvariant, InvIsAligned, PTL

------------------------------------------------------------------------------
(* What is neither cut nor damaged.                                        *)

Untouched ==
  damage = "none" /\ phase \in {"stored", "extract"} => disk = out
NeverRefused ==
  damage = "none" /\ Readable => rpc # "raised"

LEMMA UntouchedStays ==
  ASSUME Untouched, Next
  PROVE  Untouched'
<1>1. CASE ArchiveStep  BY <1>1 DEF ArchiveStep, Untouched
<1>2. CASE ArchiveReturns  BY <1>2 DEF ArchiveReturns, Untouched, zipVars
<1>3. CASE LoseTail \/ DamageData
  BY <1>3 DEF LoseTail, DamageData, Untouched
<1>4. CASE StartExtract  BY <1>4 DEF StartExtract, Untouched, zipVars
<1>5. CASE ExtractStep
  <2>1. phase = "extract" /\ UNCHANGED <<out, phase, damage>> /\ UnzipNext
    BY <1>5 DEF ExtractStep, zipVars
  <2>2. UNCHANGED disk
    BY <2>1 DEF UnzipNext, Fill, TakePiece, ReadSignature, Drain, ReadHeader,
                ReadName, ReadExtra, ReadBody, FinishBody
  <2>. QED  BY <2>1, <2>2 DEF Untouched
<1>. QED  BY <1>1, <1>2, <1>3, <1>4, <1>5 DEF Next

LEMMA FileIsReadable ==
  ASSUME WriterInv, Readable, NEW k \in 1 .. Len(central), NEW c, c = central[k]
  PROVE  /\ ~IsDeflated(c.method)
         /\ EndOf(c) = DataAt(c) + c.csize /\ EndOf(c) <= Len(out)
         /\ HeaderLaid(out, c, c.crc, c.csize)
         /\ DataLaid(out, DataAt(c), c.crc, c.csize)
         /\ c.csize = Len(c.crc) /\ IsSeq(c.crc)
         /\ ~IsZip64(c.method) => c.csize # Max32
<1>1. c \in ListedEntry /\ FileLaid(out, c) /\ FileOf(c) \in source
  BY EntryAt
<1>2. /\ ~IsDeflated(c.method)
      /\ c.method = "NO_COMPRESSION_32" => Len(c.crc) # Max32
  <2>1. PICK f : f = FileOf(c)  OBVIOUS
  <2>2. f.method = c.method /\ f.content = c.crc  BY <2>1 DEF FileOf
  <2>. QED  BY <1>1, <2>1, <2>2 DEF Readable
<1>3. EndOf(c) <= Len(out) /\ StoredLaid(out, c)
  BY <1>1, <1>2 DEF FileLaid
<1>4. /\ c.name \in FileName /\ c.at \in Nat /\ c.csize \in Nat
      /\ c.crc \in Content /\ c.method \in Methods
  BY <1>1 DEF ListedEntry
<1>5. EndOf(c) = DataAt(c) + c.csize  BY <1>2, <1>4, Sizes
<1>6. IsSeq(c.crc)  BY <1>4, SeqIsSeq DEF Content
<1>7. ~IsZip64(c.method) => c.method = "NO_COMPRESSION_32"
  BY <1>2, <1>4 DEF Methods, IsZip64, IsDeflated
<1>. QED  BY <1>2, <1>3, <1>5, <1>6, <1>7 DEF StoredLaid

(* The reader asks for nothing behind the end of the archive.              *)
LEMMA NothingIsMissing ==
  ASSUME ArchiveInv, phase = "extract", disk = out, Readable, Fill
  PROVE  rpc' # "raised"
<1>1. WriterInv /\ ReaderPhase /\ BufferIs /\ wpc = "done"
  BY DEF ArchiveInv, ReaderPhase
<1>2. Wanting /\ Reading /\ roff = Len(chunk)  BY DEF Fill
<1>3. PICK k \in 1 .. Len(central) + 1 : ReaderAt(k) /\ DestAt(k)
  BY <1>1, <1>2, ReaderIsSomewhere DEF Reading
<1>4. CASE taken # Len(disk) \/ rpc = "drain"
  BY <1>2, <1>4 DEF Fill, Reading
<1>5. CASE taken = Len(disk) /\ rpc # "drain"
  <2>1. PICK n \in Nat : n = Len(out) /\ Position = n
    BY <1>1, <1>2, <1>5, Positions
  <2>2. ASSUME NEW p \in Nat, NEW m \in Nat, Part(p, m), rpc # "body"
        PROVE  Position < p + m
    <3>1. want \in Nat /\ want > 0  BY <1>2, <1>5, <2>2 DEF Wanting, Part
    <3>2. Len(got) \in Nat /\ Len(got) + want = m /\ Position = p + Len(got)
      BY <2>2, IsSeqFacts DEF Part
    <3>3. PICK l : l = Len(got)  OBVIOUS
    <3>4. l \in Nat /\ l + want = m /\ Position = p + l  BY <3>2, <3>3
    <3>. QED  BY <3>1, <3>4
  <2>3. CASE rpc = "signature" /\ Part(Start(central, k), 1)
    <3>1. PICK at \in Nat : at = Start(central, k) /\ at < n
      BY <1>1, <2>1, StartIsSigned
    <3>2. Position < at + 1  BY <2>2, <2>3, <3>1
    <3>. QED  BY <2>1, <3>1, <3>2
  <2>4. CASE k <= Len(central) /\ InFile(central[k])
    <3>1. PICK c : c = central[k]  OBVIOUS
    <3>2. k \in 1 .. Len(central)
      BY <1>1, <2>4, FilesEndIsNat DEF WriterInv
    <3>3. c \in ListedEntry  BY <1>1, <3>1, <3>2, EntryAt
    <3>4. c.name \in FileName /\ c.at \in Nat /\ c.csize \in Nat
      BY <3>3, ListedFields
    <3>5. EndOf(c) = DataAt(c) + c.csize /\ EndOf(c) <= n
      BY <1>1, <2>1, <3>1, <3>2, FileIsReadable
    <3>6. PICK a \in Nat, l \in Nat, x \in Nat, s \in Nat :
            /\ a = c.at /\ l = Len(c.name) /\ x = ExtraLen(c) /\ s = c.csize
            /\ DataAt(c) = a + (2 + l + x)
      <4>1. /\ Len(c.name) \in Nat /\ ExtraLen(c) \in 0 .. 1
            /\ HeaderLen(c) = 2 + Len(c.name) + ExtraLen(c)
            /\ DataAt(c) = c.at + HeaderLen(c)
        BY <3>4, Sizes
      <4>2. ExtraLen(c) \in Nat  BY <4>1
      <4>3. DataAt(c) = c.at + (2 + Len(c.name) + ExtraLen(c))  BY <4>1
      <4>. QED  BY <3>4, <4>1, <4>2, <4>3
    <3>7. a + (2 + l + x) + s <= n  BY <3>5, <3>6
    <3>8. InFile(c)  BY <2>4, <3>1
    <3>9. CASE rpc = "header" /\ Part(a + 1, 1)
      <4>1. Position < a + 1 + 1  BY <2>2, <3>9
      <4>. QED  BY <2>1, <3>7, <4>1
    <3>10. CASE rpc = "name" /\ Part(a + 2, l)
      <4>1. Position < a + 2 + l  BY <2>2, <3>10
      <4>. QED  BY <2>1, <3>7, <4>1
    <3>11. CASE rpc = "extra" /\ Part(a + 2 + l, x)
      <4>1. Position < a + 2 + l + x  BY <2>2, <3>11
      <4>. QED  BY <2>1, <3>7, <4>1
    <3>12. CASE rpc = "body" /\ BodyOf(c)
      <4>1. PICK b \in Nat : b = body.num /\ b < s /\ body.unused = 0
        <5>1. /\ want = 0 /\ body.size = c.csize
              /\ body.num < body.size => body.unused = 0
          BY <3>12 DEF BodyOf
        <5>2. body.num \in Nat  BY <1>1 DEF ReaderPhase, BodyTyped
        <5>3. body.num < body.size  BY <1>2, <3>12, <5>1 DEF Wanting
        <5>. QED  BY <3>6, <5>1, <5>2, <5>3
      <4>2. Position = a + (2 + l + x) + b + 0
        BY <3>6, <3>12, <4>1 DEF BodyOf
      <4>. QED  BY <2>1, <3>7, <4>1, <4>2
    <3>. QED  BY <3>6, <3>8, <3>9, <3>10, <3>11, <3>12 DEF InFile
  <2>. QED  BY <1>3, <1>5, <2>3, <2>4 DEF ReaderAt
<1>. QED  BY <1>4, <1>5

(* What stands where a signature is expected is one that the reader knows. *)
LEMMA SignatureIsKnown ==
  ASSUME ArchiveInv, phase = "extract", disk = out, Readable, ReadSignature
  PROVE  rpc' # "raised"
<1>1. WriterInv /\ ReaderPhase /\ BufferIs /\ wpc = "done"
  BY DEF ArchiveInv, ReaderPhase
<1>2. rpc = "signature" /\ want = 0  BY DEF ReadSignature
<1>3. PICK k \in 1 .. Len(central) + 1 : ReaderAt(k) /\ DestAt(k)
  BY <1>1, <1>2, ReaderIsSomewhere
<1>4. PICK at \in Nat : at = Start(central, k) /\ Part(at, 1)
  <2>1. Start(central, k) \in Nat  BY <1>1, StartIsSigned
  <2>2. Part(Start(central, k), 1)  BY <1>2, <1>3 DEF ReaderAt, InFile
  <2>. QED  BY <2>1, <2>2
<1>5. IsSeq(got) /\ Len(got) = 1 /\ got[1] = out[at + 1]
  <2>1. IsSeq(got)  BY <1>4 DEF Part
  <2>2. Len(got) = 1 /\ \A i \in 1 .. 1 : got[i] = disk[at + i]
    BY <1>1, <1>2, <1>4, ReadTokens
  <2>. QED  BY <2>1, <2>2
<1>6. central # <<>>
  <2>1. PICK f \in source : TRUE  BY DEF Readable
  <2>2. \E i \in 1 .. Len(central) : f = FileOf(central[i])
    BY <1>1, AllAreListed
  <2>. QED  BY <2>2, NothingIsSeq
<1>7. PICK s \in {"local", "central"} : out[at + 1] = Signature(s)
  <2>1. CASE k <= Len(central)  BY <1>1, <1>4, <2>1, StartIsSigned
  <2>2. CASE ~(k <= Len(central))
    <3>1. at = cdstart
      BY <1>1, <1>4, <2>2
      DEF Start, WriterInv, WriterPhase, DonePhase, DirectoryStarted
    <3>2. out[cdstart + 1] = Signature("central")
      BY <1>1, <1>6 DEF WriterInv, WriterPhase, DonePhase
    <3>. QED  BY <3>1, <3>2
  <2>. QED  BY <2>1, <2>2
<1>8. got = <<Signature(s)>>
  <2>1. PICK t : t = <<Signature(s)>>  OBVIOUS
  <2>2. IsSeq(t) /\ Len(t) = 1 /\ t[1] = Signature(s)  BY <2>1, OneToken
  <2>3. \A i \in 1 .. Len(got) : got[i] = t[i]  BY <1>5, <1>7, <2>2
  <2>4. got = t  BY <1>5, <2>2, <2>3, EqualSeqs
  <2>. QED  BY <2>1, <2>4
<1>. QED  BY <1>7, <1>8 DEF ReadSignature, Get

(* The extra is there when the sizes refer to it, and the size is known.   *)
LEMMA ExtraIsThere ==
  ASSUME ArchiveInv, phase = "extract", disk = out, Readable, ReadExtra
  PROVE  rpc' # "raised"
<1>1. WriterInv /\ ReaderPhase /\ BufferIs  BY DEF ArchiveInv, ReaderPhase
<1>2. rpc = "extra" /\ want = 0  BY DEF ReadExtra
<1>3. PICK k \in 1 .. Len(central), c \in ListedEntry :
        c = central[k] /\ InFile(c)
  BY <1>2, ReaderInFile
<1>4. hdr = out[c.at + 2] /\ Part(c.at + 2 + Len(c.name), ExtraLen(c))
  BY <1>2, <1>3 DEF InFile
<1>5. /\ HeaderLaid(out, c, c.crc, c.csize) /\ ~IsDeflated(c.method)
      /\ ~IsZip64(c.method) => c.csize # Max32
  BY <1>1, <1>3, FileIsReadable
<1>6. hdr = LocalStruct(c, c.crc, c.csize)  BY <1>4, <1>5 DEF HeaderLaid
<1>7. ~SizeUnknown  BY <1>5, <1>6 DEF SizeUnknown, LocalStruct
<1>8. ~(MarkedZip64 /\ got = <<>>)
  <2>1. CASE IsZip64(c.method)
    <3>1. ExtraLen(c) = 1  BY <2>1 DEF ExtraLen
    <3>2. Len(got) + 0 = 1 /\ Len(got) \in Nat
      BY <1>2, <1>4, <3>1, IsSeqFacts DEF Part
    <3>. QED  BY <3>2, NothingIsSeq
  <2>2. CASE ~IsZip64(c.method)
    BY <1>5, <1>6, <2>2 DEF MarkedZip64, LocalStruct, Field32
  <2>. QED  BY <2>1, <2>2
<1>. QED  BY <1>7, <1>8 DEF ReadExtra, Get

(* The bytes of the file are those that were packed.                       *)
LEMMA CrcIsTrue ==
  ASSUME ArchiveInv, phase = "extract", disk = out, Readable, FinishBody
  PROVE  rpc' # "raised"
<1>1. WriterInv  BY DEF ArchiveInv
<1>2. rpc = "body" /\ body.num = body.size  BY DEF FinishBody
<1>3. PICK k \in 1 .. Len(central), c \in ListedEntry :
        c = central[k] /\ InFile(c)
  BY <1>2, ReaderInFile
<1>4. hdr = out[c.at + 2] /\ BodyOf(c)  BY <1>2, <1>3 DEF InFile
<1>5. /\ HeaderLaid(out, c, c.crc, c.csize)
      /\ DataLaid(out, DataAt(c), c.crc, c.csize)
      /\ c.csize = Len(c.crc) /\ IsSeq(c.crc)
  BY <1>1, <1>3, FileIsReadable
<1>6. hdr.crc = c.crc  BY <1>4, <1>5 DEF HeaderLaid, LocalStruct
<1>7. PICK sum : sum = body.sum  OBVIOUS
<1>8. /\ IsSeq(sum) /\ Len(sum) = c.csize
      /\ \A i \in 1 .. c.csize : sum[i] = out[DataAt(c) + i].byte
  BY <1>2, <1>4, <1>7 DEF BodyOf
<1>9. ASSUME NEW i \in 1 .. c.csize
      PROVE  out[DataAt(c) + i].byte = c.crc[i]
  <2>1. PICK t, b : t = out[DataAt(c) + i] /\ b = c.crc[i]  OBVIOUS
  <2>2. t = [byte |-> b]  BY <1>5, <2>1 DEF DataLaid
  <2>3. t.byte = b  BY <2>2
  <2>. QED  BY <2>1, <2>3
<1>10. sum = c.crc  BY <1>5, <1>8, <1>9, EqualSeqs
<1>11. CrcMatches  BY <1>6, <1>7, <1>10 DEF CrcMatches
<1>. QED  BY <1>11 DEF FinishBody, Get

LEMMA NoStepRefuses ==
  ASSUME ArchiveInv, Untouched, NeverRefused, Next
  PROVE  NeverRefused'
<1>. SUFFICES ASSUME damage' = "none", Readable'
              PROVE  rpc' # "raised"
  BY DEF NeverRefused
<1>1. source' = source
  BY DEF Next, ArchiveStep, ArchiveReturns, LoseTail, DamageData, StartExtract,
         ExtractStep
<1>2. Readable  BY <1>1 DEF Readable
<1>3. damage = "none" /\ ~LoseTail /\ ~DamageData
  BY DEF Next, ArchiveStep, ArchiveReturns, LoseTail, DamageData, StartExtract,
         ExtractStep
<1>4. rpc # "raised"  BY <1>2, <1>3 DEF NeverRefused
<1>5. CASE ArchiveStep \/ ArchiveReturns \/ StartExtract
  BY <1>4, <1>5
  DEF ArchiveStep, ArchiveReturns, StartExtract, unzipVars, Get
<1>6. CASE ExtractStep
  <2>1. phase = "extract" /\ disk = out
    BY <1>3, <1>6 DEF ExtractStep, Untouched
  <2>2. CASE TakePiece \/ Drain \/ ReadHeader \/ ReadName \/ ReadBody
    BY <1>4, <2>2 DEF TakePiece, Drain, ReadHeader, ReadName, ReadBody, Get
  <2>. QED
    BY <1>2, <1>6, <2>1, <2>2, NothingIsMissing, SignatureIsKnown,
       ExtraIsThere, CrcIsTrue DEF ExtractStep, UnzipNext
<1>. QED  BY <1>3, <1>5, <1>6 DEF Next

(* What WrittenIsRead says of safety: extract_archive_to raises nothing on *)
(* an archive of archive_local_folder that is as it was written, when it   *)
(* has a file, none is compressed, and none has the size that stands for   *)
(* another field.                                                          *)
THEOREM WrittenIsAccepted == Spec => []NeverRefused
<1>. DEFINE I == Untouched /\ NeverRefused
<1>1. Init => I
  BY DEF Init, UnzipInit, Untouched, NeverRefused
<1>2. ArchiveInv /\ I /\ [Next]_vars => I'
  <2>1. CASE Next  BY <2>1, UntouchedStays, NoStepRefuses
  <2>2. CASE UNCHANGED vars
    BY <2>2 DEF vars, zipVars, unzipVars, Untouched, NeverRefused, Readable
  <2>. QED  BY <2>1, <2>2
<1>3. I => NeverRefused  OBVIOUS
<1>. HIDE DEF I
<1>. QED  BY <1>1, <1>2, <1>3, ArchiveInvariant, PTL DEF Spec

================================================================================
