----------------------------- MODULE MCFormats -----------------------------
(* What Formats is asked: small disks and structures, in every arrangement; *)
(* of each format a few whole files, with what the disk may hold after them *)
(* (a window of every length is taken of each), and arbitrary ones; and     *)
(* volumes and a database with a history.                                   *)
EXTENDS Formats, SequencesExt

(* Histories of small volumes: long enough for a FAT directory to be        *)
(* deleted, its cluster used again and a live one to be reached through it, *)
(* for an NTFS path of three directories whose record is used again, and    *)
(* for the ext4 log to wrap.  And of a database with two ids and two texts, *)
(* so that rows differ in one of them only: for rows to be deleted, their   *)
(* page to be freed and used again, and the log to be begun again.          *)
Lengths == [fat |-> 6, ntfs |-> 7, ext4 |-> 6, sqlite |-> 9]

(* Nothing tells one id from another, or one text: the order of pages and   *)
(* of cells is all that carve goes by.                                      *)
Symmetry == Permutations(Ids) \cup Permutations(Texts)

Window(f) == [have |-> 0] @@ f

----------------------------------------------------------------------------
(* Disks.                                                                   *)

Bytes ==
  {[m |-> [sector |-> s, sectors |-> k, bad |-> bad], offset |-> offset, len |-> len] :
     s \in {2, 4}, k \in 0..3, bad \in {{}, {1}}, offset \in 0..9, len \in 0..9}

Image ==
  {[offset |-> offset, len |-> len, file |-> file, align |-> align, in_place |-> in_place] :
     offset \in 0..9, len \in 1..6, file \in 0..12, align \in {1, 4}, in_place \in BOOLEAN}

Used(first, last) == [type |-> "linux", first |-> first, last |-> last]
Header(array, crc) ==
  [crc_ok |-> crc, whole |-> TRUE, entry_size |-> 128, num_entries |-> 2, entry_lba |-> array,
   first_usable |-> 3, last_usable |-> 9]
Tables ==
  {f \in [{1, 11} -> {None, Header(2, TRUE), Header(2, FALSE), Header(10, TRUE), Header(10, FALSE)}] :
     /\ f[1] = None \/ f[1].entry_lba = 2
     /\ f[11] = None \/ f[11].entry_lba = 10}
Mbrs == {<<>>, <<[type |-> 238, start |-> 1, sectors |-> 11]>>,
         <<[type |-> 7, start |-> 3, sectors |-> 4]>>}

Ntfs(n) == [magic |-> "ntfs", bytes_per_sector |-> 512, sectors_per_cluster |-> 1,
            sectors |-> n, mft |-> 1]
Fat(n) == [magic |-> "fat", bytes_per_sector |-> 512, sectors_per_cluster |-> 1, reserved |-> 1,
           num_fats |-> 1, fat_size |-> 1, root_entries |-> 0, sectors |-> n, declared |-> TRUE]
Apfs == [magic |-> "apfs", block_size |-> 4096]
Ext == [magic |-> "ext", log_block |-> 0, blocks |-> 2]

Boots == [{3, 5, 6} -> {None, Ntfs(3), Fat(2), Apfs}]
OneBoot == {f \in Boots : f[5] = None /\ f[6] = None}

Devices ==
  {[d |-> [total |-> 12, bad |-> bad, mbr |-> mbr, gpt |-> gpt, boot |-> boot,
           deep |-> (4 :> deep),
           arrays |-> (2 :> <<Used(3, 4), Used(5, 8)>> @@ 10 :> <<Used(3, 5)>>)],
    always |-> FALSE, step |-> 1, limit |-> 0] :
     bad \in {{}, {5}}, mbr \in {<<>>}, gpt \in {[s \in {1, 11} |-> None]},
     boot \in Boots, deep \in {None, Ext}}
  \cup
  {[d |-> [total |-> 12, bad |-> bad, mbr |-> mbr, gpt |-> gpt, boot |-> boot,
           deep |-> (4 :> None),
           arrays |-> (2 :> <<Used(3, 4), Used(5, 8)>> @@ 10 :> <<Used(3, 5)>>)],
    always |-> always, step |-> 1, limit |-> 0] :
     bad \in {{}, {1}}, mbr \in Mbrs, gpt \in Tables, boot \in OneBoot, always \in BOOLEAN}

----------------------------------------------------------------------------
(* File systems.                                                            *)

Chains == {[clusters |-> 4, fat |-> fat] : fat \in [2..5 -> {0, 2, 3, 4, 5, EndOfChain}]}

LongNames == {[units |-> units, width |-> 2, deleted |-> deleted] :
                units \in SeqOf({"a", "b"}, 4) \ {<<>>}, deleted \in BOOLEAN}

ExfatSlots ==
  SeqOf({X!FileSlot(TRUE, 2, FALSE, TRUE), X!FileSlot(TRUE, 3, FALSE, TRUE),
        X!Stream(4, 1, TRUE, 1), X!NameSlot(<<"n">>), X!OtherSlot}, 5)

Set(name, first, clusters, dir, run) ==
  <<X!FileSlot(TRUE, 2, dir, TRUE), X!Stream(first, clusters, run, 1), X!NameSlot(<<name>>)>>

ExfatVolumes ==
  {[root |-> 2, count |-> 6, bad |-> {},
    fat |-> [c \in 2..7 |-> IF c = 2 THEN root ELSE IF c = 4 THEN next ELSE None],
    dirs |-> [c \in 2..7 |->
      CASE c = 2 -> Set("d", 3, 1, TRUE, dir_run) \o Set("f", 4, 2, FALSE, run)
        [] c = 3 -> Set("g", 5, size, FALSE, inner)
        [] c = 7 -> Set("h", 6, 1, FALSE, TRUE)
        [] OTHER -> <<>>]] :
     root \in {None, 7}, next \in {None, 5, 6}, run \in BOOLEAN, inner \in BOOLEAN,
     dir_run \in BOOLEAN, size \in 0..2}

Fixups == {[tails |-> tails, usn |-> usn, saved |-> saved] :
             tails \in [1..3 -> 0..1], usn \in 0..1,
             saved \in {None, <<>>, <<7>>, <<7, 8, 9>>, <<7, 8, 9, 9>>}}

Runlists == {[runs |-> runs, clusters |-> 4] :
               runs \in SeqOf([length : 0..2, delta : {None, -2, 0, 1, 3}], 3)}

(* A record's attributes, one behind the other; and the same with a length, *)
(* an offset or the bytes in use that are not true.                         *)
FileName(n, space) ==
  [type |-> "file_name", length |-> 96, non_resident |-> FALSE, name |-> "", value_offset |-> 24,
   value_length |-> 68, value |-> [name |-> n, units |-> 1, space |-> space, parent |-> 5, pseq |-> 5]]
Fragment(name, start, runs) ==
  [type |-> "data", length |-> 72, non_resident |-> TRUE, name |-> name, start |-> start,
   run_offset |-> 64, runs |-> runs, data_size |-> 3]
Small == [type |-> "data", length |-> 32, non_resident |-> FALSE, name |-> "", value_offset |-> 24,
          value_length |-> 5]
IndexRoot == [type |-> "index_root", length |-> 40, non_resident |-> FALSE, name |-> "$I30",
              value_offset |-> 32, value_length |-> 8]
List == [type |-> "list", length |-> 88, non_resident |-> FALSE, name |-> "", value_offset |-> 24,
         value_length |-> 64,
         value |-> [k \in 1..2 |-> [type |-> "data", length |-> 32, record |-> 20 + k, seq |-> 1]]]
Attributes == {FileName("n", "win32"), FileName("d", "dos"), Small, IndexRoot, List,
               Fragment("", 0, <<[length |-> 2, delta |-> 1]>>),
               Fragment("", 2, <<[length |-> 1, delta |-> 0]>>),
               Fragment("stream", 0, <<[length |-> 1, delta |-> 3]>>)}

Buffer(laid, used, tails) ==
  LET at(i) == 56 + FoldLeft(+, 0, [k \in 1..i - 1 |-> laid[k].length]) IN
  [signature |-> "FILE", tails |-> tails, usn |-> 1, saved |-> <<7, 8>>, size |-> 512,
   used |-> IF used = None THEN at(Len(laid) + 1) + 8 ELSE used, at |-> 56, seq |-> 3,
   in_use |-> TRUE, dir |-> FALSE, base |-> 0,
   headers |-> [p \in {at(i) : i \in 1..Len(laid) + 1} |->
                  LET i == CHOOSE j \in 1..Len(laid) + 1 : at(j) = p
                  IN  IF i > Len(laid) THEN [type |-> "end", length |-> 0] ELSE laid[i]]]

\* A stream in the record is there whole, or its fragments in order.
Legal(laid) ==
  LET data == SelectSeq(laid, LAMBDA h : h.type = "data" /\ h.name = "") IN
  \A i \in 2..Len(data) : data[1].non_resident /\ data[i].non_resident /\ data[i].start > 0
Whole == {[b |-> Buffer(laid, None, <<1, 1>>), laid |-> laid, clusters |-> 8] :
            laid \in {l \in SeqOf(Attributes, 4) : Legal(l)}}
\* The headers stay where they were written: the walk goes where a length says.
Lying ==
  {[b |-> [w.b EXCEPT !.used = used, !.headers[p].length = length, !.tails[2] = tail],
    laid |-> None, clusters |-> 8] :
     w \in {x \in Whole : Len(x.laid) = 2}, p \in {56}, length \in {0, 12, 16, 24, 36, 96, 504},
     used \in {10, 60, 100, 200, 600}, tail \in 0..1}
Records == Whole \cup Lying

BootNtfs == {[magic |-> "ntfs", bytes_per_sector |-> bytes, sectors_per_cluster |-> spc,
              sectors |-> n, mft |-> mft, record_size |-> size] :
               bytes \in {0, 128, 256, 512, 4096, 8192}, spc \in {0, 1, 3, 8, 127, 128, 244, 248, 255},
               n \in {0, 7, 1000, 1001}, mft \in {0, 1, 1001}, size \in {0, 1, 2, 246, 250, 225}}
BootFat == {[magic |-> "fat", bytes_per_sector |-> bytes, sectors_per_cluster |-> spc,
             reserved |-> reserved, num_fats |-> fats, fat_size |-> size, root_entries |-> root,
             sectors |-> n, declared |-> FALSE] :
              bytes \in {0, 512, 1000, 4096}, spc \in {0, 1, 3, 4}, reserved \in {0, 1, 32},
              fats \in 0..3, size \in {0, 1, 20}, root \in {0, 17, 512}, n \in {0, 41, 5000, 70000}}
BootExfat == {[magic |-> "exfat", bytes_per_sector |-> 512, sector_shift |-> shift,
               cluster_shift |-> cluster, clear |-> clear, sectors |-> n, clusters |-> clusters,
               heap |-> 24, root |-> root] :
                shift \in 8..13, cluster \in {0, 3, 13, 16, 17, 25, 26}, clear \in BOOLEAN,
                n \in {0, 1000}, clusters \in {0, 90}, root \in 1..2}
BootsOf == {[b |-> b, deep |-> deep, lba |-> lba, total |-> total] :
              b \in BootNtfs \cup BootFat \cup BootExfat, deep \in {Ext}, lba \in {0, 63},
              total \in {1001, 80000}}

MftExtents == {N!Extent(0, 1), N!Extent(1, 2), N!Extent(3, 1), N!Extent(4, 2), N!Sparse(1)}
Mfts ==
  {[clusters |-> 6, per |-> 2, mft |-> mft, size |-> size, bad |-> bad,
    disk |-> [c \in 0..5 |-> <<[kind |-> "record", n |-> c],
                               IF c = broken THEN N!Damaged ELSE [kind |-> "record", n |-> c + 6]>>]] :
     mft \in {f \in SeqOf(MftExtents, 3) : f # <<>> /\ IsInjective(f)},
     size \in {0, 3, 8}, bad \in {{}, {1}, {4}}, broken \in {1, 3}}

Rows ==
  {[columns |-> r[1], types |-> r[2], body |-> r[3], rowid |-> rowid, before |-> before] :
     r \in {<<<<"alias", "text", "integer">>, <<0, 17, 1>>, <<72, 105, 7>>>>,
            <<<<"text", "text">>, <<15, 17>>, <<65, 72, 105>>>>,
            <<<<"integer", "blob">>, <<2, 14>>, <<1, 4, 200>>>>,
            <<<<"integer", "text", "text">>, <<0, 19, 15>>, <<72, 105, 33, 65>>>>,
            <<<<"real", "text">>, <<7, 15>>, <<1, 2, 3, 4, 5, 6, 7, 8, 65>>>>},
     rowid \in {1, 127, 200}, before \in {<<>>, <<0, 0>>, <<3>>, <<200, 17, 1>>}}

----------------------------------------------------------------------------
(* Whole files.                                                             *)

Chunk(kind, length) == [kind |-> kind, length |-> length, crc |-> TRUE]
Pngs ==
  {Window([fields |-> TRUE,
           chunks |-> <<Chunk("IHDR", 13)>> \o body \o <<Chunk("IEND", 0)>> \o after]) :
     body \in {b \in SeqOf({Chunk("IDAT", 0), Chunk("IDAT", 3), Chunk("tEXt", 1)}, 2) :
                 \E i \in DOMAIN b : b[i].kind = "IDAT"},
     after \in {<<>>, <<Chunk("IDAT", 2)>>, <<Chunk("high_bit", 0)>>}}

Block(kind, table, data) == [kind |-> kind, table |-> table, code |-> TRUE, data |-> data]
Gifs ==
  {Window([table |-> table, screen |-> TRUE,
           blocks |-> front \o <<Block("image", local, 3)>> \o back
                        \o <<Block("trailer", 0, 0), Block("other", 0, 0)>>]) :
     table \in {0, 6}, local \in {0, 6},
     front \in {<<>>, <<Block("extension", 0, 2)>>},
     back \in {<<>>, <<Block("image", 0, 1)>>, <<Block("extension", 0, 4)>>}}

Riff(id, size, list) == [id |-> id, size |-> size, list |-> list]
FormSize(chunks) == 12 + O!Sum([k \in DOMAIN chunks |-> 8 + chunks[k].size + (chunks[k].size % 2)])
Forms ==
  {Window([iff |-> iff, form |-> TRUE, declared |-> FormSize(chunks), any |-> {},
           required |-> {"fmt", "data"}, chunks |-> chunks]) :
     iff \in BOOLEAN,
     chunks \in {<<Riff("fmt", 4, FALSE)>> \o more \o <<Riff("data", size, FALSE)>> :
                   size \in 0..3, more \in {<<>>, <<Riff("INFO", 6, TRUE)>>, <<Riff("fact", 1, FALSE)>>}}}

Bmps == {Window([core |-> core, packed |-> packed, sound |-> TRUE, pixels |-> pixels,
                 header_end |-> IF core THEN 26 ELSE 54, data_offset |-> offset,
                 file_size |-> offset + pixels]) :
           core \in BOOLEAN, packed \in {FALSE}, pixels \in {0, 4, 9}, offset \in {54, 58}}

Icos == {Window([entries |-> [k \in DOMAIN sizes |->
                   [offset |-> 6 + 16 * Len(sizes) + gap + (IF k = 1 THEN 0 ELSE sizes[1]),
                    size |-> sizes[k], fields |-> TRUE, image |-> TRUE]],
                 size |-> 6 + 16 * Len(sizes) + gap + O!Sum(sizes)]) :
           sizes \in SeqOf({1, 5}, 2) \ {<<>>}, gap \in {0, 3}}

Pes == {Window([lfanew |-> 64, magic |-> TRUE, optional |-> optional,
                sections |-> <<[ptr |-> 180, size |-> size], [ptr |-> 0, size |-> 9]>>,
                certificate |-> IF signed THEN 199 ELSE 0,
                size |-> IF signed THEN 199 ELSE IF size = 0 THEN 168 + optional ELSE 180 + size]) :
          optional \in {0, 8}, size \in {0, 6}, signed \in BOOLEAN}

Sized == {Window([crc |-> TRUE, fields |-> TRUE, next_offset |-> 5, next_size |-> 3,
                  total |-> 60, first_file |-> 44, chunks |-> 1, bins |-> 4096,
                  format |-> f[1], header |-> f[2], size |-> f[3]]) :
            f \in {<<"7z", 32, 40>>, <<"cab", 36, 60>>, <<"evtx", 128, 69632>>,
                   <<"hive", 48, 8192>>}}

Psds == {Window([fields |-> TRUE, packed |-> FALSE, sections |-> sections, pixels |-> pixels,
                 size |-> 40 + sections[1] + sections[2] + sections[3] + pixels]) :
           sections \in [1..3 -> {0, 7}], pixels \in {0, 12}}

Entry(tag, values) == [tag |-> tag, inline |-> TRUE, values |-> values, at |-> 0]
TiffDir(at, offset, count, next) ==
  [at |-> at, next |-> next,
   entries |-> <<Entry("size", <<1>>), Entry("offsets", <<offset>>), Entry("counts", <<count>>)>>]
Tiffs ==
  {Window([directories |-> <<TiffDir(8, 50, 10, 0)>>, size |-> 60]),
   Window([directories |-> <<TiffDir(20, 8, 12, 0)>>, size |-> 62]),
   Window([directories |-> <<TiffDir(8, 50, 10, 2), TiffDir(60, 102, 3, 0)>>, size |-> 105])}

Part(at, row, rows) == [at |-> at, row |-> row, rows |-> rows]
Span(offset, size, bytes) == [offset |-> offset, size |-> size, bytes |-> bytes]
Elfs ==
  {Window([header |-> 64, counts |-> 64, fields |-> TRUE,
           segments |-> Part(64, 56, <<Span(0, 120, TRUE)>>),
           sections |-> Part(at, 64, <<Span(120, 8, TRUE), Span(128, 999, FALSE)>>),
           tables |-> at + 128, size |-> at + 128]) : at \in {128, 136}}

Mark(kind, at, bytes, target) ==
  [kind |-> kind, at |-> at, bytes |-> bytes, newline |-> 0, target |-> target]
Pdfs ==
  {Window([version |-> TRUE, near |-> 20, size |-> 55,
           marks |-> {Mark("header", 0, 8, 0), Mark("endobj", 20, 6, 0), Mark("index", 26, 4, 0),
                      Mark("startxref", 40, 9, 26), Mark("eof", 50, 5, 0)} \cup after]) :
     after \in {{}, {Mark("header", 56, 2, 0)},
                {Mark("header", 55, 2, 0), Mark("endobj", 57, 1, 0), Mark("eof", 58, 2, 0)}}}

Rtfs == {Window([text |-> t]) :
           t \in {<<"open", "char", "escape", "close", "char", "close">>,
                  <<"open", "open", "char", "close", "char", "close">>,
                  <<"open", "escape", "escape", "open", "close", "char", "close">>}}

Local(name, body, crc) ==
  [kind |-> "local", size |-> 30 + name + body, name |-> name, body |-> body, crc |-> crc,
   local |-> 0, stored |-> TRUE, directory |-> 0, entries |-> 0, bytes |-> 0, comment |-> 0,
   wide |-> FALSE]
Central(local) == [Local(1, 0, TRUE) EXCEPT !.kind = "central", !.size = 47, !.local = local]
EndRecord(directory, entries, comment) ==
  [Local(0, 0, TRUE) EXCEPT !.kind = "end", !.size = 22 + comment, !.comment = comment,
                            !.directory = directory, !.entries = entries, !.bytes = 47 * entries]
Zips ==
  {Window([parts |-> <<Local(1, 2, TRUE), Central(0), EndRecord(33, 1, comment)>> \o after,
           size |-> 102 + comment]) :
     comment \in {0, 3}, after \in {<<>>, <<Local(1, 2, TRUE), Central(0), EndRecord(33, 1, 0)>>}}
  \cup
  \* An archive stored in an archive: its end record is not this one's.
  {Window([parts |-> <<Local(1, 0, TRUE), Local(1, 2, TRUE), Central(0), EndRecord(33, 1, 0),
                       Central(0), EndRecord(133, 1, 0)>>, size |-> 202])}

Box(kind, size, large) == [kind |-> kind, size |-> size, large |-> large, rest |-> FALSE]
After == Box("unprintable", 8, FALSE)
(* H.264 samples as the lengths of their units: two in the first chunk, one *)
(* in the second, and one of another track.                                 *)
Video == <<<<2>>, <<1>>, <<1, 1>>>>
Sample(units, width) ==
  FlattenSeq([u \in DOMAIN units |->
    [k \in 1..width - 1 |-> 0] \o <<units[u]>> \o [k \in 1..units[u] |-> 1]])
Track(avc, width, units, runs, chunks) ==
  [avc |-> avc, width |-> width, units |-> units, runs |-> runs, chunks |-> chunks,
   sizes |-> [k \in DOMAIN units |-> Len(Sample(units[k], width))]]
OneTrack(at, width) ==
  <<Track(TRUE, width, Video, <<[first |-> 1, per |-> 2], [first |-> 2, per |-> 1]>>,
          <<at, at + 2 * width + 4>>)>>
Second(at, width, avc) ==
  Track(avc, width, <<<<1>>>>, <<[first |-> 1, per |-> 1]>>, <<at + 4 * width + 6>>)
Media(at, width) ==
  LET bytes == Sample(<<2, 1>>, width) \o <<0>> \o Sample(<<1, 1, 1>>, width)
  IN  [p \in at..at + Len(bytes) - 1 |-> bytes[p - at + 1]]
Mp4s ==
  {Window([boxes |-> <<Box("ftyp", 16, FALSE), Box("mdat", 20, large), Box("moov", 12, FALSE), After>>,
           ftyp |-> TRUE, tracks |-> tracks, bytes |-> Media(26, 1), size |-> 48]) :
     large \in BOOLEAN, tracks \in {<<>>, OneTrack(26, 1)}}
  \cup
  {Window([boxes |-> <<Box("ftyp", 16, FALSE), Box("moov", 12, FALSE), Box("mdat", 20, FALSE), After>>,
           ftyp |-> TRUE, tracks |-> OneTrack(38, 1), bytes |-> Media(38, 1), size |-> 48])}

Segment(kind, length) == [kind |-> kind, length |-> length]
Item(kind, bytes, number) ==
  [kind |-> kind, bytes |-> bytes, number |-> number, ones |-> TRUE]
Mcu(n) == Item("mcu", n, 0)
Rst(n) == Item("restart", 2, n)
EndItem == Item("marker", 2, 0)
Image1(scan, total, interval) ==
  Window([segments |-> <<Segment("SOF", 8), Segment("SOS", 6), Segment("EOI", 0)>>,
          scan |-> scan, sequential |-> TRUE, tables |-> TRUE, fields |-> TRUE,
          total |-> total, interval |-> interval, blocks |-> 1])
Jpegs ==
  {Image1(<<Mcu(1), Mcu(2), EndItem>>, 2, 0),
   Image1(<<Mcu(2), Rst(0), Mcu(1), Rst(1), Mcu(1), EndItem>>, 3, 1),
   Image1(<<Mcu(1), Mcu(1), Rst(0), Mcu(3), EndItem>>, 3, 2)}
  \cup {[Image1(<<Mcu(1), Rst(0), Mcu(1), EndItem>>, 2, 1) EXCEPT !.sequential = FALSE]}

----------------------------------------------------------------------------
(* Arbitrary ones.                                                          *)

Scans ==
  {[Image1(scan \o <<EndItem>>, total, interval) EXCEPT !.have = 99] :
     scan \in SeqOf({Mcu(1), [Mcu(1) EXCEPT !.ones = FALSE], Rst(0), Rst(1),
                   Item("no_code", 1, 0), Item("no_value", 1, 0)}, 5),
     total \in 1..3, interval \in 0..2}

Samples ==
  {[boxes |-> <<Box("ftyp", 16, FALSE), Box("mdat", 30, FALSE), Box("moov", 12, FALSE), After>>,
    ftyp |-> TRUE, have |-> have, foreign |-> foreign, fill |-> fill,
    bytes |-> [p \in DOMAIN Media(24, width) |-> IF p \in foreign THEN fill ELSE Media(24, width)[p]],
    tracks |-> OneTrack(24, width) \o <<Second(24, width, avc)>>] :
     have \in {46, 58, 66}, avc \in BOOLEAN, width \in 1..2, fill \in {0, 1, 2, 165},
     foreign \in {a..b : a \in 24..41, b \in 24..41}}

Units == {[units |-> units, width |-> width] :
            units \in SeqOf([length : 1..2, bad : BOOLEAN], 3), width \in 1..2}

NoPage == [kind |-> "other", sound |-> TRUE, children |-> <<>>, overflows |-> <<>>,
           roots |-> <<>>, next |-> 0, leaves |-> <<>>]
TreePage(children, roots, overflows) ==
  [NoPage EXCEPT !.kind = "tree", !.children = children, !.roots = roots, !.overflows = overflows]
OverflowPage(next) == [NoPage EXCEPT !.kind = "overflow", !.next = next]
Trunk(next, leaves) == [NoPage EXCEPT !.kind = "trunk", !.next = next, !.leaves = leaves]
Page1s == {TreePage(<<>>, roots, <<>>) : roots \in {<<>>, <<2>>, <<2, 3>>}}
OtherPages ==
  {TreePage(<<>>, <<>>, <<>>), TreePage(<<3>>, <<>>, <<>>), TreePage(<<4, 3>>, <<>>, <<>>),
   TreePage(<<>>, <<>>, <<[first |-> 4, pages |-> 1]>>),
   TreePage(<<>>, <<>>, <<[first |-> 3, pages |-> 2]>>),
   OverflowPage(0), OverflowPage(4), Trunk(0, <<>>), Trunk(0, <<4>>), Trunk(4, <<2>>)}
Pages ==
  {[page_size |-> 512, page_count |-> 4, have |-> 2048, fields |-> TRUE, sized |-> TRUE,
    skipped |-> skipped, free_pages |-> free, trunk |-> trunk, pages |-> <<p1, p2, p3, p4>>] :
     p1 \in Page1s, p2 \in OtherPages, p3 \in OtherPages, p4 \in OtherPages,
     trunk \in {0, 3, 4}, free \in {0, 2}, skipped \in {{}, {4}}}

Mapped(logical, len, phys, uninit) ==
  [logical |-> logical, len |-> len, phys |-> phys, uninit |-> uninit]
Leaf(ext) == [holds |-> "node", leaf |-> TRUE, ext |-> ext]
Reused == [holds |-> "dir", entries |-> <<>>]
Inode(size, extents, tree, direct, indirect) ==
  [size |-> size, extents |-> extents, tree |-> tree, direct |-> direct, indirect |-> indirect]

(* Two extents in the inode or in index blocks, one of them used again, and *)
(* then with or without a copy in the journal.                              *)
Extents2 ==
  {e \in {Mapped(l, n, 5, u) : l \in 0..2, n \in 1..2, u \in BOOLEAN}
     \X {Mapped(l, n, 8, u) : l \in 1..4, n \in 1..2, u \in BOOLEAN} :
     e[1].logical + e[1].len <= e[2].logical}
ByExtents ==
  {[v |-> [count |-> 12, per |-> 2, journal |-> <<>>, blocks |-> (10 :> Leaf(<<>>))],
    i |-> Inode(size, TRUE, Leaf(e), <<>>, <<>>), extents |-> {e[1], e[2]}] :
     size \in 0..6, e \in Extents2}
  \cup
  {[v |-> [count |-> 12, per |-> 2,
           journal |-> <<[j |-> "descriptor", seq |-> 1, tags |-> <<10>>],
                         [j |-> "data", copy |-> Leaf(<<e[1]>>)], [j |-> "commit", seq |-> 1]>>,
           blocks |-> (10 :> (IF reused THEN Reused ELSE Leaf(<<e[1]>>)) @@ 11 :> Leaf(<<e[2]>>))],
    i |-> Inode(6, TRUE, [holds |-> "node", leaf |-> FALSE, children |-> <<10, 11>>], <<>>, <<>>),
    extents |-> {e[1], e[2]}] :
     reused \in BOOLEAN, e \in Extents2}

(* Two direct pointers, one block of pointers and one of those.             *)
PointersTo(p, q) == [holds |-> "pointers", ptr |-> <<p, q>>]
ByPointers ==
  {[v |-> [count |-> 12, per |-> 2, journal |-> <<>>,
           blocks |-> (9 :> PointersTo(p, 6) @@ 10 :> PointersTo(q, 9) @@ 11 :> PointersTo(7, 0))],
    i |-> Inode(size, FALSE, None, <<5, a>>, <<b, c>>), extents |-> {}] :
     size \in 0..9, p \in {0, 7, 12}, q \in {0, 11}, a \in {0, 6}, b \in {0, 9, 11}, c \in {0, 10}}

Geometries ==
  {[g |-> [first |-> first, count |-> count, bytes |-> bytes, heap |-> heap], offsets |-> 0..20] :
     first \in {0, 2}, count \in 0..4, bytes \in 0..3, heap \in {0, 5}}

Signature(id, header, fixed, offset) ==
  [id |-> id, header |-> header, fixed |-> fixed, offset |-> offset, max_size |-> 9]
HeadersOf(id) ==
  {Signature(id, h, m, o) : h \in [1..1 -> 0..1], m \in [1..1 -> BOOLEAN], o \in 0..1}
    \cup {Signature(id, h, m, 0) : h \in [1..2 -> 0..1], m \in [1..2 -> BOOLEAN]}
Searches ==
  {[db |-> <<a, b>>, hay |-> hay] :
     a \in HeadersOf("a"), b \in HeadersOf("b"), hay \in [1..4 -> 0..1]}
  \cup
  {[db |-> [k \in 1..n |-> Signature(k, <<k>>, <<TRUE>>, 0)], hay |-> hay] :
     n \in 3..5, hay \in [1..3 -> 1..5]}

Cluster(zero, text) == [zero |-> zero, repeats |-> zero, text |-> text]
Disks == {<<Cluster(FALSE, TRUE), Cluster(FALSE, TRUE), Cluster(FALSE, FALSE)>>,
          <<Cluster(FALSE, TRUE), Cluster(TRUE, FALSE), Cluster(FALSE, TRUE)>>,
          <<Cluster(TRUE, FALSE), Cluster(TRUE, FALSE), Cluster(TRUE, FALSE)>>}
Outcomes ==
  {[o EXCEPT !.damage_at = at] :
     o \in {[damage_at |-> {}] @@ p : p \in {O!Valid(3), O!Partial(1), O!Truncated(O!Partial(2)), O!Reject}},
     at \in {{}, {2}}}
Ratings ==
  {[e |-> [size |-> size, location |-> location, runs |-> runs, allocated |-> allocated,
           validated |-> validated, never_repeats |-> ~text, text |-> text, path_trusted |-> TRUE],
    disk |-> disk, runs |-> live, more |-> more, o |-> o, prefix |-> prefix, trim |-> TRUE] :
     size \in {0, 3}, location \in {"runs", "first_cluster", "unknown"},
     runs \in {<<1, 2>>, <<2, NoCluster>>, <<3, 1>>}, allocated \in BOOLEAN, validated \in BOOLEAN,
     text \in BOOLEAN, disk \in Disks, prefix \in BOOLEAN, o \in Outcomes,
     live \in {{}, {[start |-> 2, count |-> 2]}}, more \in {[start |-> 1, count |-> 1], [start |-> 3, count |-> 1]}}

----------------------------------------------------------------------------

MCInputs ==
  [bytes |-> Bytes, image |-> Image, device |-> Devices,
   chain |-> Chains, long_name |-> LongNames, exfat_slots |-> ExfatSlots,
   exfat_volume |-> ExfatVolumes, fixups |-> Fixups, runlist |-> Runlists, mft |-> Mfts, row |-> Rows,
   record |-> Records, boot_sector |-> BootsOf,
   inode |-> ByExtents \cup ByPointers, geometry |-> Geometries,
   png |-> Pngs, gif |-> Gifs, form |-> Forms, bmp |-> Bmps, ico |-> Icos, pe |-> Pes,
   sized |-> Sized, psd |-> Psds, tiff |-> Tiffs, elf |-> Elfs, pdf |-> Pdfs, rtf |-> Rtfs,
   zip |-> Zips, mp4 |-> Mp4s, jpeg |-> Jpegs,
   scan |-> Scans, samples |-> Samples, units |-> Units, pages |-> Pages,
   search |-> Searches, rating |-> Ratings]

Starts == <<0, 3>>

=============================================================================
