----------------------------- MODULE FileFormats ----------------------------
(* The validators of the formats that are walked, measured or searched: each *)
(* says what it makes of the window it is given, in the terms of Outcome.    *)
EXTENDS Outcome

-----------------------------------------------------------------------------
(* The formats that are walked chunk by chunk from their first byte (PNG,   *)
(* GIF, RIFF and IFF): a chunk declares its length, the walk steps over it, *)
(* and the last one, or the size in the header, ends the file.  Chunks past *)
(* the end of the file are what the disk holds after it.                    *)

(* A mutant: chunks are counted and a failing CRC is not.                   *)
RECURSIVE PngFromCounted(_, _, _, _, _)
PngFromCounted(d, k, at, saw_idat, errors) ==
  LET c == d.chunks[k]  end == at + 8 + c.length IN
  CASE k > Len(d.chunks) \/ end > d.have -> Truncated(Partial(at))
    [] c.kind = "IEND" -> Valid(end)
    [] OTHER -> PngFromCounted(d, k + 1, end, TRUE, errors)

(* PNG: a chunk has a kind, the length it declares, and whether its         *)
(* checksum holds; "fields" is whether an IHDR declares a defined image.    *)
RECURSIVE PngFrom(_, _, _, _, _)
PngFrom(d, k, at, saw_idat, errors) ==
  LET c == d.chunks[k]
      end == at + 12 + c.length
      Ends(o) == IF saw_idat THEN o ELSE [Reject EXCEPT !.ran_out = o.ran_out]
      bad == IF c.crc THEN errors ELSE errors + 1 IN
  CASE k > Len(d.chunks) \/ at + 4 > d.have -> Ends(Truncated(Partial(at)))
    [] c.kind = "high_bit" -> Ends(Partial(at))
    [] at + 8 > d.have -> Ends(Truncated(Partial(at)))
    [] c.kind = "not_letters" -> Ends(Partial(at))
    [] end > d.have -> Ends(Truncated(Partial(at)))
    [] k = 1 /\ ~(c.kind = "IHDR" /\ c.length = 13 /\ d.fields) -> Reject
    [] c.kind = "IHDR" /\ ~c.crc -> Reject
    [] c.kind = "IEND" -> IF ~saw_idat THEN Reject
                          ELSE IF bad > 0 THEN Partial(end) ELSE Valid(end)
    [] OTHER -> PngFrom(d, k + 1, end, saw_idat \/ c.kind = "IDAT", bad)

Png(d) == IF d.have < 8 THEN Truncated(Reject) ELSE PngFrom(d, 1, 8, FALSE, 0)

PngSize(d) ==
  8 + Sum([k \in 1..Min({j \in DOMAIN d.chunks : d.chunks[j].kind = "IEND"}) |->
             12 + d.chunks[k].length])

(* GIF: a block is an image (a local colour table, a code size and its      *)
(* chain of sub-blocks), an extension, the trailer, or no block.            *)
GifEnds(at, images) == IF images > 0 THEN Partial(at) ELSE Reject

RECURSIVE GifFrom(_, _, _, _)
GifFrom(d, k, at, images) ==
  LET b == d.blocks[k]
      code == at + 10 + b.table
      chain == IF b.kind = "image" THEN code + 1 ELSE at + 2
      Cuts(p, n) == Truncated(GifEnds(p, n)) IN
  CASE k > Len(d.blocks) \/ at >= d.have -> Cuts(at, images)
    [] b.kind = "other" -> GifEnds(at, images)
    [] b.kind = "trailer" -> IF images = 0 THEN Reject ELSE Valid(at + 1)
    [] b.kind = "image" /\ at + 10 > d.have -> Cuts(at + 1, images)
    [] b.kind = "image" /\ code >= d.have -> Cuts(code, images)
    [] b.kind = "image" /\ ~b.code -> GifEnds(code, images)
    [] b.kind = "extension" /\ at + 1 >= d.have -> Cuts(at + 1, images)
    [] chain + b.data > d.have ->
         Cuts(chain, IF b.kind = "image" THEN images + 1 ELSE images)
    [] OTHER -> GifFrom(d, k + 1, chain + b.data,
                        IF b.kind = "image" THEN images + 1 ELSE images)

Gif(d) ==
  CASE d.have < 13 -> Truncated(Reject)
    [] ~d.screen \/ 13 + d.table > d.have -> Reject
    [] OTHER -> GifFrom(d, 1, 13 + d.table, 0)

GifBlock(b) ==
  CASE b.kind = "image" -> 11 + b.table + b.data
    [] b.kind = "extension" -> 2 + b.data
    [] OTHER -> 1

GifSize(d) ==
  13 + d.table +
    Sum([k \in 1..Min({j \in DOMAIN d.blocks : d.blocks[j].kind = "trailer"}) |->
           GifBlock(d.blocks[k])])

(* RIFF and IFF: the header declares the size; an identifier that is not    *)
(* printable ends the walk, and a list is known by the type in its body.    *)
RECURSIVE FormFrom(_, _, _, _)
FormFrom(d, k, at, seen) ==
  LET c == d.chunks[k]
      next == at + 8 + c.size + (c.size % 2)
      now == IF c.list /\ ~d.iff
             THEN IF at + 12 <= d.have THEN Append(seen, c.id) ELSE seen
             ELSE Append(seen, IF c.list THEN "LIST" ELSE c.id) IN
  CASE k > Len(d.chunks) \/ at + 8 > Min({d.declared, d.have}) \/ c.id = "unprintable" ->
         [at |-> at, seen |-> seen, chunks |-> k - 1, past |-> FALSE]
    [] next > d.have -> [at |-> at, seen |-> now, chunks |-> k, past |-> TRUE]
    [] OTHER -> FormFrom(d, k + 1, next, now)

Form(d) ==
  LET walk == FormFrom(d, 1, 12, <<>>)
      found == {walk.seen[k] : k \in DOMAIN walk.seen}
      floor == Min({walk.at, d.have}) IN
  CASE d.have < 12 -> Truncated(Reject)
    [] d.declared < 12 \/ ~d.form -> Reject
    [] walk.chunks = 0 ->
         IF ~d.iff /\ walk.at + 8 > d.have /\ d.have < d.declared THEN Truncated(Reject)
                                                                  ELSE Reject
    [] ~(d.required \subseteq found) \/ (d.any # {} /\ d.any \cap found = {}) ->
         Partial(floor)
    [] d.declared > d.have \/ walk.past -> Truncated(Partial(floor))
    [] OTHER -> Valid(d.declared)

-----------------------------------------------------------------------------
(* The formats whose headers say, or imply, where the file ends: BMP, ICO,  *)
(* PE, 7z, cabinets, event logs, registry hives, PSD, TIFF and ELF.  A      *)
(* field past the end of the window reads as zero, as it does there.        *)

(* BMP.  "pixels" is what the geometry needs, "sound" that the values in    *)
(* the fields are defined ones.                                             *)
Bmp(d) ==
  LET planes_end == IF d.core THEN 26 ELSE 30
      packed == d.packed /\ d.have >= 34 IN
  CASE d.have < 18 -> Truncated(Reject)
    [] d.data_offset < d.header_end \/ d.file_size < d.data_offset -> Reject
    [] d.have < planes_end \/ ~d.sound -> Reject
    [] ~packed /\ d.file_size - d.data_offset < d.pixels -> Reject
    [] OTHER -> Declared(d.file_size, d.have)

(* ICO: a directory of 16-byte entries, each naming a payload's place.      *)
Ico(d) ==
  LET dir_end == 6 + 16 * Len(d.entries)
      end(e) == e.offset + e.size
      sound(e) == e.fields /\ e.size > 0 /\ e.offset >= dir_end
      Stops(k) == LET e == d.entries[k] IN
                  ~sound(e) \/ end(e) > d.have \/ ~e.image
      stops == {k \in DOMAIN d.entries : Stops(k)} IN
  CASE d.have < 6 -> Truncated(Reject)
    [] Len(d.entries) = 0 \/ dir_end > d.have -> Reject
    [] stops # {} ->
         LET e == d.entries[Min(stops)] IN
         IF sound(e) /\ end(e) > d.have THEN Truncated(Partial(dir_end)) ELSE Reject
    [] OTHER -> Valid(Max({dir_end} \cup {end(d.entries[k]) : k \in DOMAIN d.entries}))

(* PE: the headers, the sections' raw data and the certificate past them.   *)
Pe(d) ==
  LET coff == d.lfanew + 4
      table == coff + 20 + d.optional
      table_end == table + 40 * Len(d.sections)
      kept == {k \in DOMAIN d.sections : d.sections[k].ptr # 0 /\ d.sections[k].size # 0}
      end == Max({table_end, d.certificate} \cup
                 {d.sections[k].ptr + d.sections[k].size : k \in kept}) IN
  CASE d.have < 64 -> Truncated(Reject)
    [] d.lfanew \notin 4..4096 -> Reject
    [] d.have < coff -> Truncated(Partial(d.lfanew))
    [] ~d.magic -> Reject
    [] d.have < coff + 20 -> Truncated(Partial(coff))
    [] d.sections = <<>> \/ d.optional > 4096 -> Reject
    [] table_end > d.have -> Truncated(Partial(Min({table, d.have})))
    [] \E k \in kept : d.sections[k].ptr < table_end -> Reject
    [] end > d.have -> Truncated(Partial(table_end))
    [] OTHER -> Valid(end)

(* 7z, whose start header is checksummed; cabinets; event logs and hives.   *)
SevenZ(d) ==
  CASE d.have < 32 -> Truncated(Reject)
    [] ~d.crc -> Reject
    [] OTHER -> Declared(32 + d.next_offset + d.next_size, d.have)

Cab(d) ==
  CASE d.have < 36 -> Truncated(Reject)
    [] ~d.fields \/ d.total < 36 \/ d.first_file \notin 36..d.total -> Reject
    [] OTHER -> Declared(d.total, d.have)

Evtx(d) ==
  CASE d.have < 128 -> Truncated(Reject)
    [] ~d.fields \/ d.chunks = 0 -> Reject
    [] OTHER -> Declared(4096 + 65536 * d.chunks, d.have)

RegHive(d) ==
  CASE d.have < 48 -> Truncated(Reject)
    [] ~d.fields \/ d.bins = 0 \/ d.bins % 4096 # 0 -> Reject
    [] OTHER -> Declared(4096 + d.bins, d.have)

(* PSD: three sections with their lengths, then raw or packed pixels.       *)
Psd(d) ==
  LET At(k) == 26 + Sum([j \in 1..k |-> 4 + d.sections[j]])
      cut == {k \in 1..3 : At(k) > d.have} IN
  CASE d.have < 34 -> Truncated(Reject)
    [] ~d.fields -> Reject
    [] cut # {} -> Truncated(Partial(At(Min(cut) - 1)))
    [] At(3) + 2 > d.have -> Truncated(Partial(At(3)))
    [] d.packed -> Partial(At(3) + 2)
    [] OTHER -> Declared(At(3) + 2 + d.pixels, d.have)

(* TIFF: a directory has a place, entries and the next directory's number   *)
(* (0 is the end); an entry's values are inline or outside it, and may be   *)
(* the strips' places or sizes, readable as far as the data goes.           *)
Values(d, e) ==
  IF e.inline THEN e.values
  ELSE SubSeq(e.values, 1, Cardinality({k \in DOMAIN e.values : e.at + 4 * k <= d.have}))

Outside(e) == IF e.inline THEN 0 ELSE e.at + 4 * Len(e.values)

DirectoryEnd(dir) == dir.at + 6 + 12 * Len(dir.entries)

RECURSIVE TiffFrom(_, _, _)
TiffFrom(d, number, walk) ==
  LET dir == d.directories[number]
      Of(tag) == LET mine == SelectSeq(dir.entries, LAMBDA e : e.tag = tag) IN
                 IF mine = <<>> THEN <<>> ELSE Values(d, mine[1]) IN
  CASE number = 0 \/ walk.ifds = 64 -> [walk EXCEPT !.stop = "end"]
    [] dir.at + 2 > d.have -> [walk EXCEPT !.stop = "cut"]
    [] Len(dir.entries) = 0 -> [walk EXCEPT !.stop = "broken"]
    [] DirectoryEnd(dir) > d.have -> [walk EXCEPT !.stop = "cut"]
    [] OTHER ->
         TiffFrom(d, dir.next,
           [walk EXCEPT
              !.ifds = @ + 1,
              !.end = Max({@, DirectoryEnd(dir)} \cup
                          {Outside(dir.entries[k]) : k \in DOMAIN dir.entries}),
              !.offsets = @ \o Of("offsets"), !.counts = @ \o Of("counts"),
              !.sized = @ \/ Of("size") # <<>>])

Tiff(d) ==
  LET walk == TiffFrom(d, 1, [ifds |-> 0, end |-> 8, offsets |-> <<>>, counts |-> <<>>,
                              sized |-> FALSE, stop |-> ""])
      Ends(o) == IF walk.ifds > 0 THEN o ELSE [Reject EXCEPT !.ran_out = o.ran_out]
      end == Max({walk.end} \cup {walk.offsets[k] + walk.counts[k] :
                                    k \in DOMAIN walk.offsets \cap DOMAIN walk.counts}) IN
  CASE d.have < 8 -> Truncated(Reject)
    [] walk.stop = "cut" -> Ends(Truncated(Partial(walk.end)))
    [] walk.stop = "broken" -> Ends(Partial(walk.end))
    [] ~walk.sized -> Reject
    [] walk.offsets = <<>> \/ Len(walk.offsets) # Len(walk.counts) -> Partial(walk.end)
    [] OTHER -> Declared(end, d.have)

(* ELF: the two header tables and what their rows point at, read as far as  *)
(* the data goes; a section may hold no bytes of the file.                  *)
Rows(table, have) ==
  SubSeq(table.rows, 1,
         Cardinality({k \in DOMAIN table.rows : table.at + table.row * k <= have}))

Ends(rows) == {rows[k].offset + rows[k].size : k \in {j \in DOMAIN rows : rows[j].bytes}}

Elf(d) ==
  LET segments == IF d.have < d.counts THEN [d.segments EXCEPT !.rows = <<>>] ELSE d.segments
      sections == IF d.have < d.counts THEN [d.sections EXCEPT !.rows = <<>>] ELSE d.sections
      Table(t) == IF t.rows = <<>> THEN 0 ELSE t.at + t.row * Len(t.rows)
      end == Max({d.header, Table(segments), Table(sections)}
                   \cup Ends(Rows(segments, d.have)) \cup Ends(Rows(sections, d.have))) IN
  CASE d.have < 24 -> Truncated(Reject)
    [] ~d.fields -> Reject
    [] OTHER -> Declared(end, d.have)

-----------------------------------------------------------------------------
(* The formats whose end is a mark to be searched for: PDF (a trailer), RTF *)
(* (the closing brace), ZIP (the end of central directory record), and RAR, *)
(* whose end is not looked for at all.                                      *)

(* PDF: the marks in the window, each with its place, its bytes and, for a  *)
(* trailer, the line ending after it; a startxref names a place or nothing. *)
Marks(d, kind) == {m \in d.marks : m.kind = kind /\ m.at + m.bytes <= d.have}

Places(marks) == {m.at : m \in marks}

Pdf(d) ==
  LET next == {m \in Marks(d, "header") : m.at > 0}
      bound == IF next = {} THEN d.have ELSE Min(Places(next))
      Before(kind, p) == {m \in Marks(d, kind) : m.at + m.bytes <= p}
      trailers == Before("eof", bound)
      objects == Before("endobj", bound)
      last == CHOOSE m \in trailers : m.at = Max(Places(trailers))
      end == Min({last.at + last.bytes + last.newline, d.have})
      names == {m \in Before("startxref", last.at) : m.at >= last.at - d.near}
      named == CHOOSE m \in names : m.at = Max(Places(names)) IN
  CASE d.have < 8 -> Truncated(Reject)
    [] ~d.version -> Reject
    [] trailers = {} ->
         IF objects = {} THEN Reject ELSE Truncated(Partial(Max(Places(objects)) + 6))
    [] names = {} \/ named.target \notin Places(Marks(d, "index")) -> Partial(end)
    [] OTHER -> Valid(end)

(* RTF: one group of braces; the byte after a backslash is never a brace.   *)
RECURSIVE RtfFrom(_, _, _)
RtfFrom(d, i, depth) ==
  CASE i > d.have \/ i > Len(d.text) -> Truncated(Partial(d.have))
    [] d.text[i] = "escape" -> RtfFrom(d, i + 2, depth)
    [] d.text[i] = "open" -> RtfFrom(d, i + 1, depth + 1)
    [] d.text[i] = "close" /\ depth = 1 -> Valid(i)
    [] d.text[i] = "close" -> RtfFrom(d, i + 1, depth - 1)
    [] OTHER -> RtfFrom(d, i + 1, depth)

Rtf(d) == IF d.have < 6 THEN Truncated(Reject) ELSE RtfFrom(d, 1, 0)

(* ZIP: the archive is a row of parts: local members, central entries and   *)
(* end records, of this archive or of one that lies beside it.  A record    *)
(* states where its directory is, how many entries and how many bytes.      *)
PartAt(d, k) == Sum([j \in 1..k - 1 |-> d.parts[j].size])

Starting(d, offset, kind) ==
  {k \in DOMAIN d.parts : d.parts[k].kind = kind /\ PartAt(d, k) = offset
                                                 /\ offset + 4 <= d.have}

RECURSIVE CentralFrom(_, _, _)
CentralFrom(d, offset, entries) ==
  LET here == Starting(d, offset, "central") IN
  IF entries = 0 \/ here = {} \/ offset + 46 > d.have THEN <<>>
  ELSE LET k == CHOOSE j \in here : TRUE IN
       IF offset + 46 + d.parts[k].name > d.have THEN <<>>
       ELSE <<k>> \o CentralFrom(d, offset + d.parts[k].size, entries - 1)

(* A member stored as it is can be compared with its checksum.              *)
Fails(d, k) ==
  LET entry == d.parts[k]  here == Starting(d, entry.local, "local") IN
  /\ entry.stored /\ here # {}
  /\ \E j \in here : /\ entry.local + d.parts[j].size <= d.have
                     /\ ~d.parts[j].crc

(* The first end record in the window, whosever it is.                      *)
UsableAny(d, k) == d.parts[k].kind = "end" /\ PartAt(d, k) + 22 <= d.have

Usable(d, k) ==
  LET e == d.parts[k] IN
  /\ e.kind = "end" /\ PartAt(d, k) + 22 <= d.have
  /\ Starting(d, e.directory, "central") # {}
  /\ e.directory + e.bytes <= d.have
  /\ e.wide => PartAt(d, k) + 22 + e.comment <= d.have

Classify(d, k) ==
  LET e == d.parts[k]
      end == PartAt(d, k) + 22 + e.comment
      members == CentralFrom(d, e.directory, e.entries) IN
  CASE end > d.have -> Partial(d.have)
    [] \E m \in DOMAIN members : Fails(d, members[m]) -> Partial(end)
    [] Len(members) < e.entries -> Partial(end)
    [] OTHER -> Valid(end)

(* Without a usable record: as far as the local headers chain.              *)
RECURSIVE LocalsFrom(_, _)
LocalsFrom(d, k) ==
  LET at == PartAt(d, k)  part == d.parts[k] IN
  CASE k > Len(d.parts) \/ at + 30 > d.have \/ part.kind # "local" -> at
    [] part.body = 0 \/ at + part.size > d.have -> Min({at + part.size - part.body, d.have})
    [] OTHER -> LocalsFrom(d, k + 1)

Zip(d) ==
  LET usable == {k \in DOMAIN d.parts : Usable(d, k)} IN
  CASE d.have < 4 -> Truncated(Reject)
    [] usable # {} -> Classify(d, Min(usable))
    [] d.have < 30 + d.parts[1].name -> Reject
    [] OTHER -> Truncated(Partial(LocalsFrom(d, 1)))
=============================================================================
