---------------------------- MODULE NtfsVolume -----------------------------
(***************************************************************************)
(* NTFS (rc-fs ntfs): update sequences, runlists, the $MFT read by its own *)
(* runs, records made of attributes, paths walked up by their sequence     *)
(* numbers, and $DATA spread over extension records.                       *)
(*                                                                         *)
(* A volume v is [clusters, per (records in a cluster), mft (record 0's    *)
(* runs), size (the records its $DATA says it holds, or 0), disk (cluster  *)
(* -> its records), bad (clusters)].                                       *)
(***************************************************************************)
EXTENDS Volume

CONSTANTS MaxRecords,   \* MAX_RECORDS_IN_MEMORY
          ChunkRecords, \* CHUNK_RECORDS
          MaxPath,      \* how far up a path is walked
          MaxAttrs      \* MAX_ATTRS of a record

RootRecord == 5
FirstUserRecord == 16

-----------------------------------------------------------------------------
(* Sectors and runs                                                        *)

\* The update sequence array has an entry for each of the first sectors of the
\* record, one at least, and none it has not; None when the array runs past it.
Protects(saved, tails) == saved # None /\ Len(saved) \in 1 .. Len(tails)

\* Mutant: sectors are put right as they are checked.
FixupsAsGoing(tails, usn, saved) ==
  LET usable == Protects(saved, tails) IN
  [tails |-> [i \in DOMAIN tails |->
                IF usable /\ i <= Len(saved) /\ \A k \in 1 .. i : tails[k] = usn
                  THEN saved[i] ELSE tails[i]],
   ok |-> usable /\ \A i \in DOMAIN saved : tails[i] = usn]

\* apply_fixups: nothing is put back unless every protected sector has the number.
Fixups(tails, usn, saved) ==
  LET ok == Protects(saved, tails) /\ \A i \in DOMAIN saved : tails[i] = usn
  IN  [tails |-> IF ok THEN [i \in DOMAIN tails |-> IF i <= Len(saved) THEN saved[i] ELSE tails[i]]
                 ELSE tails,
       ok |-> ok]

\* decode_runlist.  A run is [length, delta]: clusters from the last run's start,
\* or no delta (None) for a hole, which moves nothing; None when a run is not one.
DecodeRunlist(runs, max_clusters) ==
  LET Step(acc, r) ==
        LET at == acc.lcn + r.delta IN
        CASE acc = None \/ r.length = 0 -> None
          [] acc # None /\ r.length # 0 /\ r.delta = None ->
               [acc EXCEPT !.extents = Append(@, Sparse(r.length))]
          [] OTHER ->
               IF at < 0 \/ (max_clusters > 0 /\ at + r.length > max_clusters) THEN None
               ELSE [lcn |-> at, extents |-> Append(acc.extents, Extent(at, r.length))]
      end == FoldLeft(Step, [lcn |-> 0, extents |-> <<>>], runs)
  IN  IF end = None THEN None ELSE end.extents

-----------------------------------------------------------------------------
(* The $MFT                                                                *)

\* NtfsVolume::open: where each extent of the $MFT begins, in its own clusters.
VcnStarts(mft) == [i \in DOMAIN mft |-> FoldLeft(+, 0, [k \in 1 .. i - 1 |-> mft[k].count])]

\* The binary search: the last extent that begins no later.
ExtentOf(mft, vcn) ==
  LET at == {i \in DOMAIN mft : VcnStarts(mft)[i] <= vcn} IN IF at = {} THEN 0 ELSE Max(at)

\* mft_vcn_offset, in clusters: None in a hole and past the last run.
InExtent(e, within) ==
  IF within >= e.count \/ e.sparse THEN None ELSE e.start + within
VcnCluster(mft, vcn) ==
  LET Of(i) == IF i = 0 THEN None ELSE InExtent(mft[i], vcn - VcnStarts(mft)[i])
  IN  Of(ExtentOf(mft, vcn))

\* What record 0 says the $MFT holds; if it does not say, what its runs do.
RecordCount(v) ==
  IF v.size > 0 THEN v.size ELSE v.per * FoldLeft(+, 0, [i \in DOMAIN v.mft |-> v.mft[i].count])

\* record_offset, in records from the start of the volume.
RecordAt(v, index) ==
  LET In(c) == IF c = None THEN None ELSE c * v.per + (index % v.per)
  IN  In(VcnCluster(v.mft, index \div v.per))

\* What parse_record makes of a slot: a record, nothing, or damage.
NoRecord == [kind |-> "none"]
Damaged  == [kind |-> "damaged"]
Slot(v, place) ==
  LET c == place \div v.per IN
  IF c \in DOMAIN v.disk THEN v.disk[c][(place % v.per) + 1] ELSE NoRecord

\* read_chunk: records next to each other are one read, of which one bad sector
\* loses all.
ChunkLength(v, first, limit) ==
  LET Run(n) == \A k \in 1 .. n - 1 : RecordAt(v, first + k) = RecordAt(v, first) + k
  IN  Max({n \in 1 .. LesserOf(ChunkRecords, limit - first) : Run(n)})

ReadChunk(v, first, at, n) ==
  LET clusters == {(at + k) \div v.per : k \in 0 .. n - 1}
  IN  IF at = None THEN [took |-> 1, records |-> <<>>, lost |-> {}]
      ELSE IF clusters \cap v.bad # {} THEN [took |-> n, records |-> <<>>, lost |-> first .. first + n - 1]
      ELSE [took |-> n,
            records |-> SelectSeq([k \in 1 .. n |-> <<first + k - 1, Slot(v, at + k - 1)>>],
                                  LAMBDA r : r[2].kind = "record"),
            lost |-> {first + k - 1 : k \in {j \in 1 .. n : Slot(v, at + j - 1) = Damaged}}]

\* Pass 1: chunk after chunk, up to the limit or until the user stops it.
RECURSIVE ReadRecords(_, _, _, _)
ReadRecords(v, index, stop, acc) ==
  LET limit == LesserOf(RecordCount(v), MaxRecords)
      After(chunk) ==
        ReadRecords(v, index + chunk.took, stop,
          [records |-> acc.records \o chunk.records, lost |-> acc.lost \cup chunk.lost])
  IN  IF index >= limit \/ index >= stop THEN acc
      ELSE After(ReadChunk(v, index, RecordAt(v, index), ChunkLength(v, index, limit)))

-----------------------------------------------------------------------------
(* Records                                                                 *)

\* A record r is [kind, seq, used, dir, base, names, resident, extents, list]:
\* its $FILE_NAMEs as [name, space, parent, pseq], its unnamed $DATA, and its
\* resident $ATTRIBUTE_LIST as [type, record, seq].

\* Namespace::preference; the last of equals.
Preference(space) ==
  CASE space = "win32dos" -> 4 [] space = "win32" -> 3 [] space = "posix" -> 2 [] OTHER -> 1

BestName(r) ==
  LET best == Max({Preference(r.names[i].space) : i \in DOMAIN r.names})
  IN  r.names[Max({i \in DOMAIN r.names : Preference(r.names[i].space) = best})]

\* Pass 2: directories, live and deleted, by record; the root by its number.
Directories(records) ==
  [i \in {r[1] : r \in {x \in Range(records) : x[2].dir /\ x[2].names # <<>>}} \cup {RootRecord} |->
     IF i = RootRecord THEN [seq |-> 5, name |-> "", parent |-> RootRecord, pseq |-> 0]
     ELSE LET r == (CHOOSE x \in Range(records) : x[1] = i)[2]
          IN  [seq |-> r.seq, name |-> BestName(r).name, parent |-> BestName(r).parent,
               pseq |-> BestName(r).pseq]]

\* Mutant: only the nearest parent's number is compared.
SameDirectory(dirs, at, expected, depth) == depth > 1 \/ dirs[at].seq = expected

\* The slot still holds the directory the name was made in.
IsSame(dirs, at, expected, depth) == dirs[at].seq = expected

\* build_path, from the name up; None with the reason when it does not reach
\* the root in MaxPath steps, the one that looks at the root included.
RECURSIVE BuildPath(_, _, _, _, _)
BuildPath(dirs, at, expected, parts, depth) ==
  CASE depth > MaxPath -> [path |-> None, confidence |-> "unknown"]
    [] depth <= MaxPath /\ at = RootRecord -> [path |-> parts, confidence |-> "exact"]
    [] OTHER ->
         IF at \notin DOMAIN dirs THEN [path |-> None, confidence |-> "unknown"]
         ELSE IF ~IsSame(dirs, at, expected, depth) THEN [path |-> None, confidence |-> "reused"]
         ELSE BuildPath(dirs, dirs[at].parent, dirs[at].pseq, <<dirs[at].name>> \o parts,
                        depth + 1)

\* record_to_entry
OwnLocation(r) ==
  CASE r.resident -> Resident
    [] ~r.resident /\ r.extents # <<>> -> Runs(r.extents)
    [] OTHER -> Unknown

\* follow_attribute_list: the extents of each extension record whose number is
\* still the one in the list, one by one.
ExtensionExtents(v, index, list) ==
  LET Read(place) ==
        IF place = None \/ place \div v.per \in v.bad THEN NoRecord ELSE Slot(v, place)
      Extension(e, r) == e.type = "data" /\ e.record # index /\ r.kind = "record" /\ r.seq = e.seq
      Of(e) == LET r == Read(RecordAt(v, e.record)) IN IF Extension(e, r) THEN r.extents ELSE <<>>
  IN  FlattenSeq([i \in DOMAIN list |-> Of(list[i])])

MergedLocation(v, index, r) ==
  LET extra == ExtensionExtents(v, index, r.list)
      own == IF OwnLocation(r).where = "runs" THEN r.extents ELSE <<>>
  IN  IF extra = <<>> THEN OwnLocation(r) ELSE Runs(own \o extra)

NtfsEntry(v, dirs, index, r) ==
  LET n == BestName(r)
      up == BuildPath(dirs, n.parent, n.pseq, <<n.name>>, 1)
  IN  [id |-> index, path |-> up.path, confidence |-> up.confidence, dir |-> r.dir,
       deleted |-> ~r.used, location |-> MergedLocation(v, index, r)]

\* scan_with: user records that are no extension of another and have a name.
ScanNtfs(v, stop) ==
  LET IsBase(x) == x[2].base = 0 /\ x[1] >= FirstUserRecord /\ x[2].names # <<>>
      Entries(base, dirs) == [k \in DOMAIN base |-> NtfsEntry(v, dirs, base[k][1], base[k][2])]
      Of(got) == [entries |-> Entries(SelectSeq(got.records, IsBase), Directories(got.records)),
                  lost |-> got.lost]
  IN  Of(ReadRecords(v, 0, stop, [records |-> <<>>, lost |-> {}]))

-----------------------------------------------------------------------------
(* Properties                                                              *)

\* "On failure buf is left untouched" (fixup.rs): a torn record is neither used
\* nor half repaired, and one written whole is put back, each sector that has an
\* entry from its own.
TornIsUntouched(tails, usn, saved) ==
  LET f == Fixups(tails, usn, saved) IN
  IF saved = None \/ Len(saved) \notin 1 .. Len(tails) \/ \E i \in DOMAIN saved : tails[i] # usn
  THEN ~f.ok /\ f.tails = tails
  ELSE f.ok /\ f.tails = saved \o SubSeq(tails, Len(saved) + 1, Len(tails))

\* A runlist of a volume's size never leads off it, and the clusters come back:
\* encoding the extents again, each from the start of the last, gives the runs.
RunlistIsOnVolume(runs, max_clusters) ==
  LET ext == DecodeRunlist(runs, max_clusters)
      LastStart(i) == LET real == {k \in 1 .. i - 1 : ~ext[k].sparse}
                      IN  IF real = {} THEN 0 ELSE ext[Max(real)].start
  IN  ext # None =>
        /\ Len(ext) = Len(runs)
        /\ \A i \in DOMAIN ext :
             /\ ext[i].start \in 0 .. max_clusters - ext[i].count
             /\ runs[i].delta = IF ext[i].sparse THEN None ELSE ext[i].start - LastStart(i)

\* Read by runs, a chunk at a time, the scan sees exactly the records of the
\* $MFT: each once under its own number, however the $MFT is cut and wherever
\* chunks end; what it does not see is in a hole, unreadable, or not a record.
EveryRecordIsRead(v) ==
  LET all == ClustersOf(v.mft)
      Held(i) == LET c == all[i \div v.per + 1] IN
                 IF VcnCluster(v.mft, i \div v.per) = None THEN NoRecord   \* or past the runs
                 ELSE v.disk[c][(i % v.per) + 1]
      Seen(records, lost) ==
        /\ \A k \in 1 .. Len(records) - 1 : records[k][1] < records[k + 1][1]
        /\ \A k \in DOMAIN records : records[k][2] = Held(records[k][1])
        /\ \A i \in 0 .. RecordCount(v) - 1 :
             Held(i).kind = "record" /\ i \notin lost => \E r \in Range(records) : r[1] = i
      Holds(got) == Seen(got.records, got.lost)
  IN  Holds(ReadRecords(v, 0, RecordCount(v), [records |-> <<>>, lost |-> {}]))

-----------------------------------------------------------------------------
(***************************************************************************)
(* One MFT record (rc-fs ntfs attr.rs, mft.rs): its attributes found by    *)
(* their lengths, and what a scan keeps of them.  A record made here is    *)
(* the kind of record the volume above is made of.                         *)
(*                                                                         *)
(* A buffer b is [signature, tails, usn, saved, size, used (bytes_in_use), *)
(* at (the first attribute), headers (offset -> attribute header), seq,    *)
(* in_use, dir, base]; a header is [type, length, non_resident, name,      *)
(* start, runs, run_offset, value_offset, value_length, value].            *)
(***************************************************************************)

RecordHeader == 42     \* no attribute begins in the record's own header
HeaderBytes(h) == IF h.non_resident THEN 64 ELSE 24

\* Bytes that are no header (a length that lies leads into a value) read as zeros.
HeaderAt(b, pos) == IF pos \in DOMAIN b.headers THEN b.headers[pos] ELSE [type |-> "", length |-> 0]

\* bytes_in_use is believed when it is one.
Usable(b) == IF b.used \in b.at .. b.size THEN b.used ELSE b.size

\* An attribute's own bytes, [from, to); none when its header points out of it.
Body(h, pos) ==
  CASE h.non_resident /\ h.run_offset < h.length -> [from |-> pos + h.run_offset, to |-> pos + h.length]
    [] ~h.non_resident /\ h.value_offset + h.value_length <= h.length ->
         [from |-> pos + h.value_offset, to |-> pos + h.value_offset + h.value_length]
    [] OTHER -> None

\* Mutant: the length is not held against the end of the record.
LengthUnbounded(h, pos, end) == h.length >= 16 /\ h.length % 8 = 0

\* A length that would loop, or lead out of the record.
ValidLength(h, pos, end) == h.length >= 16 /\ h.length % 8 = 0 /\ pos + h.length <= end

\* iter_attributes: where each begins; None at a length that is not one.
RECURSIVE AttributesFrom(_, _, _, _)
AttributesFrom(b, pos, end, found) ==
  LET h == HeaderAt(b, pos) IN
  CASE Len(found) >= MaxAttrs \/ pos + 4 > end -> found
    [] Len(found) < MaxAttrs /\ pos + 4 <= end /\ (h.type = "end" \/ pos + 16 > end) -> found
    [] OTHER ->
         IF ~ValidLength(h, pos, end) THEN None
         ELSE IF pos + HeaderBytes(h) > end THEN found
         ELSE AttributesFrom(b, pos + h.length, end, Append(found, pos))

BodyLength(body) == IF body = None THEN 0 ELSE body.to - body.from

\* parse_attribute_list: entries up to the first whose length is not one.
ListEntries(list, bytes) ==
  LET Starts(i) == FoldLeft(+, 0, [k \in 1 .. i - 1 |-> list[k].length])
      Whole(i) == list[i].length >= 24 /\ Starts(i) + list[i].length <= bytes
      taken == {i \in DOMAIN list : \A k \in 1 .. i : list[k].type # "end" /\ Whole(k)}
  IN  [i \in 1 .. Cardinality(taken) |->
         [type |-> list[i].type, record |-> list[i].record, seq |-> list[i].seq]]

Empty(b) == [kind |-> "record", seq |-> b.seq, used |-> b.in_use, dir |-> b.dir, base |-> b.base,
             names |-> <<>>, resident |-> FALSE, extents |-> <<>>, list |-> <<>>, data_size |-> 0]

\* parse_file_name: 66 bytes and the name, in a namespace that is one.
WithName(rec, h, bytes) ==
  IF bytes >= 66 + 2 * h.value.units /\ h.value.space \in {"posix", "win32", "dos", "win32dos"}
    THEN [rec EXCEPT !.names = Append(@, [name |-> h.value.name, space |-> h.value.space,
                                          parent |-> h.value.parent, pseq |-> h.value.pseq])]
    ELSE rec

\* collect_data.  The first fragment says how long the file is; runs that cannot
\* be decoded are left out, and a value cut off by its own header reads as empty.
WithData(rec, h, body, clusters) ==
  LET runs == IF body = None THEN <<>> ELSE DecodeRunlist(h.runs, clusters) IN
  IF h.non_resident
    THEN [rec EXCEPT !.data_size = IF h.start = 0 THEN h.data_size ELSE @,
                     !.extents = IF runs = None THEN @ ELSE @ \o runs]
    ELSE [rec EXCEPT !.data_size = BodyLength(body), !.resident = TRUE]

\* Mutant: a named stream is taken for the file.
IsContentAnyName(h) == h.type = "data"

\* Named $DATA are other streams, not the file.
IsContent(h) == h.type = "data" /\ h.name = ""

WithAttribute(rec, h, body, clusters) ==
  CASE h.type = "file_name" -> WithName(rec, h, BodyLength(body))
    [] h.type = "list" /\ ~h.non_resident ->
         [rec EXCEPT !.list = IF body = None THEN <<>> ELSE ListEntries(h.value, BodyLength(body))]
    [] IsContent(h) -> WithData(rec, h, body, clusters)
    [] h.type = "index_root" /\ h.name = "$I30" -> [rec EXCEPT !.dir = TRUE]
    [] OTHER -> rec

\* parse_record: fixups before anything is read of it.
ParseRecord(b, clusters) ==
  LET at == AttributesFrom(b, b.at, Usable(b), <<>>) IN
  CASE b.signature # "FILE" -> NoRecord
    [] b.signature = "FILE" /\ ~Fixups(b.tails, b.usn, b.saved).ok -> Damaged
    [] OTHER ->
         IF b.at < RecordHeader \/ b.at >= b.size \/ at = None THEN Damaged
         ELSE FoldLeft(LAMBDA rec, pos :
                         WithAttribute(rec, b.headers[pos], Body(b.headers[pos], pos), clusters),
                       Empty(b), at)

-----------------------------------------------------------------------------
(* Properties                                                              *)

\* Whatever the lengths and offsets in a record say, no attribute's bytes are
\* another's or lie beyond what the record says it uses, and a record that is not
\* damaged has each attribute once.
BodiesAreApart(b) ==
  LET at == AttributesFrom(b, b.at, Usable(b), <<>>)
      Own(i) == Body(b.headers[at[i]], at[i])
  IN  at # None =>
        \A i \in DOMAIN at :
          /\ at[i] \in DOMAIN b.headers
          /\ Own(i) # None => Own(i).from >= at[i] /\ Own(i).to <= Usable(b)
          /\ \A k \in 1 .. i - 1 : at[k] < at[i] /\ (Own(k) # None => Own(k).to <= at[i])

\* A record written as NTFS writes one, its attributes one behind the other, is
\* read whole: the names in order, the clusters of the unnamed $DATA and of no
\* other stream, in the order of their fragments, the length of the first, and
\* every record its attribute list names.
RecordIsReadWhole(b, laid, clusters) ==
  LET rec == ParseRecord(b, clusters)
      Of(type, name) == SelectSeq(laid, LAMBDA h : h.type = type /\ h.name = name)
      names == Of("file_name", "")
      data == Of("data", "")
      Fragment(i) == IF data[i].non_resident THEN DecodeRunlist(data[i].runs, clusters) ELSE <<>>
  IN  /\ rec.kind = "record"
      /\ [i \in DOMAIN rec.names |-> rec.names[i].name] = [i \in DOMAIN names |-> names[i].value.name]
      /\ \A i \in DOMAIN laid : laid[i].type = "list" =>
           [k \in DOMAIN rec.list |-> rec.list[k].record] =
             [k \in DOMAIN laid[i].value |-> laid[i].value[k].record]
      /\ rec.dir <=> b.dir \/ Of("index_root", "$I30") # <<>>
      /\ rec.resident <=> \E i \in DOMAIN data : ~data[i].non_resident
      /\ ClustersOf(rec.extents) = ClustersOf(FlattenSeq([i \in DOMAIN data |-> Fragment(i)]))
      /\ data # <<>> /\ (data[1].non_resident => data[1].start = 0) =>
           rec.data_size = IF data[1].non_resident THEN data[1].data_size ELSE data[1].value_length
=============================================================================
