------------------------------- MODULE Detail -------------------------------
(***************************************************************************)
(* The operation-specific data of an event (crates/sdk/src/parse): how the *)
(* driver's blob is read into a Path and a Detail, and how it is rewritten  *)
(* for a PML file.  A blob is its fixed structure (head, a record) and the  *)
(* cells that follow it (tail, one string per byte).  Text is a sequence of *)
(* units, one per path component, so NT and DOS forms differ in length.     *)
(***************************************************************************)
EXTENDS Integers, Sequences, SequencesExt, FiniteSets

CONSTANTS Volumes,      \* cached table: set of [device, letter]
          MountedLater, \* what a rebuild of the table finds
          SystemRoot,   \* the Windows directory, as text
          CurrentSid    \* the SID of the user who runs the tool

NoHead == [none |-> TRUE]
Blob(head, tail) == [head |-> head, tail |-> tail]
NoBlob == Blob(NoHead, <<>>)
HasHead(blob) == blob.head # NoHead
Cells(blob) == IF HasHead(blob) THEN <<blob.head>> \o blob.tail ELSE <<>>

Slice(cells, off, n) ==
  IF off + n <= Len(cells) THEN SubSeq(cells, off + 1, off + n) ELSE <<>>

(***************************************************************************)
(* Text: a live string is UTF-16 (two cells a unit); PML may pack it, one   *)
(* cell a unit, with the flag 2^15 in its length field.                     *)
(***************************************************************************)
ASCII == 32768
HI == "hi"     \* the high byte of a unit
NUL == "nul"   \* the unit that ends a terminated string

Utf16(text) == [i \in 1..2 * Len(text) |->
                  IF i % 2 = 1 THEN text[(i + 1) \div 2] ELSE HI]

StrFieldLen(raw, mode) ==
  IF mode = "live" THEN <<raw, 2 * raw>>
  ELSE LET count == raw % ASCII
       IN <<count, IF raw \div ASCII = 1 THEN count ELSE 2 * count>>

UpToNul(units) ==
  LET end == SelectInSeq(units, LAMBDA unit : unit = NUL)
  IN IF end = 0 THEN units ELSE SubSeq(units, 1, end - 1)
DecodeUtf16(cells) ==
  UpToNul([i \in 1..Len(cells) \div 2 |-> cells[2 * i - 1]])

Decoded(cells, raw, mode) ==
  IF mode = "pml" /\ raw \div ASCII = 1 THEN cells ELSE DecodeUtf16(cells)
ReadText(cells, off, raw, mode) ==
  Decoded(Slice(cells, off, StrFieldLen(raw, mode)[2]), raw, mode)
LiveStr(cells, off, raw) == ReadText(cells, off, raw, "live")

(***************************************************************************)
(* Paths (path.rs)                                                          *)
(***************************************************************************)
StripPrefix(s, prefix) ==
  IF IsPrefix(prefix, s) THEN SubSeq(s, Len(prefix) + 1, Len(s)) ELSE <<"no">>
Redirectors == {<<"Device", "LanmanRedirector">>, <<"Device", "Mup">>}

ConvertWith(nt, entries) ==
  LET redirected == {p \in Redirectors : IsPrefix(p, nt)}
      mapped == {v \in entries : IsPrefix(v.device, nt)}
  IN CASE redirected # {} ->
            <<"unc">> \o StripPrefix(nt, CHOOSE p \in redirected : TRUE)
       [] IsPrefix(<<"SystemRoot">>, nt) -> SystemRoot \o Tail(nt)
       [] IsPrefix(<<"??">>, nt) -> Tail(nt)
       [] mapped # {} -> LET v == CHOOSE v \in mapped : TRUE
                         IN <<v.letter>> \o StripPrefix(nt, v.device)
       [] nt = <<>> \/ nt[1] # "Device" -> nt
       [] OTHER -> <<"no">>

\* The cached table first, then the rebuilt one, else the path as it is.
Known(path, other) == IF path # <<"no">> THEN path ELSE other
NtToDos(nt) == Known(ConvertWith(nt, Volumes),
                     Known(ConvertWith(nt, Volumes \union MountedLater), nt))
\* A name of a capture file is converted already.
Shorten(name, mode) == IF mode = "pml" \/ name = <<>> THEN name ELSE NtToDos(name)

RegInternalToNormal(path) ==
  LET key == StripPrefix(path, <<"REGISTRY">>)
      user == StripPrefix(key, <<"USER">>)
      classes == CurrentSid \o "_Classes"
  IN CASE IsPrefix(<<"REGISTRY", "MACHINE">>, path) -> <<"HKLM">> \o Tail(key)
       [] IsPrefix(<<"REGISTRY", "USER", classes>>, path) -> <<"HKCR">> \o Tail(user)
       [] IsPrefix(<<"REGISTRY", "USER", CurrentSid>>, path) -> <<"HKCU">> \o Tail(user)
       [] IsPrefix(<<"REGISTRY", "USER">>, path) -> <<"HKU">> \o user
       [] OTHER -> path

Basename(path) == IF path = <<>> THEN <<>> ELSE <<Last(path)>>

(***************************************************************************)
(* Rewriting a blob for PML (transcode.rs): each edit replaces one string   *)
(* and its length field; edits are positions of the original blob.          *)
(***************************************************************************)
PathEdit(field, off, units, text) ==
  [field |-> field, off |-> off, units |-> units, text |-> text]

SpliceStep(acc, e) ==
  IF e.off < acc.cursor \/ e.off > Len(acc.tail) THEN acc
  ELSE [acc EXCEPT
          !.out = @ \o SubSeq(acc.tail, acc.cursor + 1, e.off) \o Utf16(e.text),
          !.cursor = IF e.off + 2 * e.units <= Len(acc.tail)
                     THEN e.off + 2 * e.units ELSE Len(acc.tail)]

SplicedTail(tail, edits) ==
  LET Rest(done) == done.out \o SubSeq(tail, done.cursor + 1, Len(tail))
  IN Rest(FoldLeft(SpliceStep, [out |-> <<>>, cursor |-> 0, tail |-> tail],
                   SortSeq(edits, LAMBDA a, b : a.off < b.off)))
Splice(blob, edits) ==
  LET field(f) == {i \in DOMAIN edits : edits[i].field = f}
  IN Blob([f \in DOMAIN blob.head |->
             IF field(f) = {} THEN blob.head[f]
             ELSE Len(edits[CHOOSE i \in field(f) : TRUE].text) % ASCII],
          SplicedTail(blob.tail, edits))

Edit(field, off, raw, old, new) ==
  IF old = <<>> THEN <<>> ELSE <<PathEdit(field, off, raw, new)>>

(***************************************************************************)
(* File operations (file.rs): head [params, nameLen], then the name and,    *)
(* for a create, the desired access.  params is absent when the record is   *)
(* too short for the union.                                                 *)
(***************************************************************************)
FileParams(blob) == IF HasHead(blob) THEN blob.head.params ELSE NoHead
FileName(blob, mode) ==
  IF HasHead(blob) THEN ReadText(blob.tail, 0, blob.head.nameLen, mode) ELSE <<>>

FilePath(blob, mode) == Shorten(FileName(blob, mode), mode)

OpenResult(major, post) ==
  IF major = "create" /\ HasHead(post) /\ "information" \in DOMAIN post.head
  THEN <<<<"OpenResult", post.head.information>>>> ELSE <<>>

CreateDetail(blob, post, mode) ==
  LET end == StrFieldLen(blob.head.nameLen, mode)[2]
      access == Slice(blob.tail, end, 1)
      p == FileParams(blob)
  IN <<<<"Desired Access", IF access = <<>> THEN "0" ELSE access[1]>>,
       <<"Disposition", p.disposition>>, <<"Options", p.options>>>>
     \o OpenResult("create", post)

\* Which parameters of the union each major function shows.
FileFields == [read |-> <<"offset", "length">>, write |-> <<"offset", "length">>,
               setinfo |-> <<"class", "length">>, queryinfo |-> <<"class", "length">>,
               setsec |-> <<"information">>, querysec |-> <<"information">>,
               ioctl |-> <<"control">>, lock |-> <<"offset", "key", "exclusive">>]

FileDetail(major, blob, post, mode) ==
  LET p == FileParams(blob)
  IN CASE p = NoHead -> <<>>
       [] major = "create" -> CreateDetail(blob, post, mode)
       [] major \in DOMAIN FileFields ->
            [i \in DOMAIN FileFields[major] |->
               <<FileFields[major][i], p[FileFields[major][i]]>>]
       [] OTHER -> <<>>

\* The fields a query may name, Disposition and OpenResult.
FileField(major, blob, post, name) ==
  CASE name = "Disposition" /\ major = "create" /\ FileParams(blob) # NoHead ->
         <<<<"Disposition", blob.head.params.disposition>>>>
    [] name = "OpenResult" -> OpenResult(major, post)
    [] OTHER -> <<>>

\* The name of nameLen units at off, in DOS form.
WithDosName(blob, off, name) ==
  Splice(blob, Edit("nameLen", off, blob.head.nameLen, name, NtToDos(name)))
FilePmlDetail(blob) ==
  IF HasHead(blob) THEN WithDosName(blob, 0, FileName(blob, "live")) ELSE NoBlob
=============================================================================
