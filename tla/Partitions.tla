----------------------------- MODULE Partitions -----------------------------
(***************************************************************************)
(* Finding a device's partitions (rc-partition): the GPT and its backup,   *)
(* the MBR, and the scan for file system headers when neither is usable.   *)
(* Pure: a device is a record of what its sectors hold.                    *)
(*                                                                         *)
(*   d.total          sectors                                              *)
(*   d.bad            sectors that cannot be read                          *)
(*   d.mbr            the four entries of sector 0, or <<>> without 0xAA55 *)
(*   d.gpt            sector -> GPT header                                 *)
(*   d.arrays         sector -> GPT entry array                            *)
(*   d.boot, d.deep   sector -> header at it, or 1024 bytes past it        *)
(***************************************************************************)
EXTENDS Media, Lists, SequencesExt

CONSTANTS
  CommonStarts,    \* <<0, 63, 2048>>: where first partitions begin
  MaxCandidates,   \* ScanOptions
  MaxEntryBytes    \* the largest entry array that is believed

Read(d, lba, what) == IF lba \in d.bad \/ lba \notin DOMAIN what THEN None ELSE what[lba]

-----------------------------------------------------------------------------
(* Partitions                                                              *)

Part(start, sectors, fs, origin, confidence) ==
  [start |-> start, sectors |-> sectors, fs |-> fs, origin |-> origin,
   confidence |-> confidence]

EndOf(p) == p.start + p.sectors

\* A length of zero is an unknown length, which overlaps nothing.
Overlaps(p, q) ==
  p.sectors > 0 /\ q.sectors > 0 /\ p.start < EndOf(q) /\ q.start < EndOf(p)

Normalise(parts) ==
  SortedBy(parts, [i \in DOMAIN parts |-> <<parts[i].start, parts[i].sectors>>])

-----------------------------------------------------------------------------
(* The master boot record                                                  *)

IsEmptyEntry(e) == e.type = 0 \/ e.sectors = 0
Protective == 238

FsFromTypeByte(t) ==
  CASE t = 1 -> "fat12" [] t \in {4, 6, 14} -> "fat16" [] t \in {11, 12} -> "fat32"
    [] t = 7 -> "ntfs" [] t = 131 -> "ext4" [] t = 175 -> "hfs+" [] t = 0 -> "unknown"
    [] OTHER -> "other"

IsProtective(mbr) ==
  LET used == PartOf(mbr, {i \in DOMAIN mbr : ~IsEmptyEntry(mbr[i])})
  IN  Len(used) = 1 /\ used[1].type = Protective /\ used[1].start = 1

LooksPlausible(mbr, total) ==
  /\ \E i \in DOMAIN mbr : ~IsEmptyEntry(mbr[i])
  /\ \A i \in DOMAIN mbr :
       IF IsEmptyEntry(mbr[i])
         THEN mbr[i].type = 0 \/ mbr[i].sectors # 0
         ELSE mbr[i].start # 0 /\ (total > 0 => mbr[i].start + mbr[i].sectors <= total)

MbrPartitions(mbr) ==
  LET named == PartOf(mbr, {i \in DOMAIN mbr : ~IsEmptyEntry(mbr[i]) /\ mbr[i].type # Protective})
  IN  [i \in DOMAIN named |->
         Part(named[i].start, named[i].sectors, FsFromTypeByte(named[i].type), "mbr", 100)]

-----------------------------------------------------------------------------
(* The GUID partition table                                                *)

\* parse_header finds no header without the signature or with a header size
\* that is not one: such a sector is not in d.gpt.
LooksSane(h, total) ==
  /\ h.entry_size \in 128 .. 4096
  /\ h.num_entries \in 1 .. 65536
  /\ h.entry_lba > 0 /\ (total = 0 \/ h.entry_lba < total)
  /\ h.first_usable <= h.last_usable

\* The array is believed whatever its CRC says; its last sector is included.
ParseEntries(array) ==
  LET used == PartOf(array, {i \in DOMAIN array :
                               array[i].type # "unused" /\ array[i].last >= array[i].first})
      Guid(t) == CASE t = "linux" -> "ext4" [] t = "apfs" -> "apfs" [] t = "hfs" -> "hfs+"
                   [] t = "efi" -> "fat32" [] t = "basic" -> "unknown" [] OTHER -> "other"
  IN  [i \in DOMAIN used |->
         Part(used[i].first, used[i].last - used[i].first + 1, Guid(used[i].type), "gpt", 100)]

\* A primary whose CRC is right; else such a backup; else a primary anyhow.
ChooseHeader(primary, backup) ==
  CASE primary # None /\ primary.crc_ok -> [hdr |-> primary, from_backup |-> FALSE]
    [] (primary = None \/ ~primary.crc_ok) /\ backup # None /\ backup.crc_ok ->
         [hdr |-> backup, from_backup |-> TRUE]
    [] OTHER -> [hdr |-> primary, from_backup |-> FALSE]

\* The sectors an array touches can be read; past the end of the device a read
\* is short and no error.
Readable(d, lba, bytes) ==
  \A s \in d.bad : ~(lba <= s /\ s < lba + RoundUp(bytes, 512))

\* read_gpt: the partitions, and whether the operator is told of the backup.
ReadGpt(d) ==
  LET chosen == ChooseHeader(Read(d, 1, d.gpt), Read(d, d.total - 1, d.gpt))
      h == chosen.hdr
      nothing == [parts |-> <<>>, note |-> h # None /\ chosen.from_backup]
      parts == ParseEntries(d.arrays[h.entry_lba])
  IN  IF \/ d.total < 2 \/ h = None
         \/ ~LooksSane(h, d.total)
         \/ h.num_entries * h.entry_size > MaxEntryBytes
         \/ ~Readable(d, h.entry_lba, h.num_entries * h.entry_size)
         \/ h.entry_lba \notin DOMAIN d.arrays
        THEN nothing
        ELSE [parts |-> IF chosen.from_backup
                          THEN [i \in DOMAIN parts |->
                                  [parts[i] EXCEPT !.origin = "gpt-backup", !.confidence = 90]]
                          ELSE parts,
              note |-> chosen.from_backup]

-----------------------------------------------------------------------------
(* File system headers                                                     *)

SectorBytes(n) == n \in 512 .. 4096 /\ PowerOfTwo(n)

Candidate(lba, fs, sectors, confidence) ==
  [lba |-> lba, fs |-> fs, sectors |-> sectors, confidence |-> confidence]

\* The sector count leaves out the backup boot sector; clusters larger than 64
\* KiB are given as a shift.
IdentifyNtfs(b, lba, total) ==
  IF /\ b.magic = "ntfs"
     /\ SectorBytes(b.bytes_per_sector)
     /\ b.sectors_per_cluster >= 128 \/ PowerOfTwo(b.sectors_per_cluster)
     /\ b.sectors # 0 /\ (total > 0 => lba + b.sectors <= total + 1)
     /\ b.mft # 0 /\ b.mft <= b.sectors
    THEN Candidate(lba, "ntfs", b.sectors + 1, 95) ELSE None

IdentifyExfat(b, lba, total) ==
  IF /\ b.magic = "exfat"
     /\ b.sector_shift \in 9 .. 12 /\ b.cluster_shift <= 25
     /\ b.sectors # 0 /\ (total > 0 => lba + b.sectors <= total)
    THEN Candidate(lba, "exfat", b.sectors, 95) ELSE None

\* The number of clusters decides which FAT it is.
FatKind(clusters) ==
  CASE clusters < 4085 -> "fat12" [] clusters \in 4085 .. 65524 -> "fat16" [] OTHER -> "fat32"

MetadataSectors(b) ==
  b.reserved + b.num_fats * b.fat_size + RoundUp(b.root_entries * 32, b.bytes_per_sector)

PlausibleBpb(b) ==
  /\ SectorBytes(b.bytes_per_sector) /\ PowerOfTwo(b.sectors_per_cluster)
  /\ b.reserved # 0 /\ b.num_fats \in 1 .. 2
  /\ b.sectors # 0 /\ b.fat_size # 0
  /\ MetadataSectors(b) <= b.sectors

IdentifyFat(b, lba, total) ==
  IF /\ b.magic = "fat" /\ PlausibleBpb(b)
     /\ total > 0 => lba + b.sectors <= total
    THEN Candidate(lba, FatKind((b.sectors - MetadataSectors(b)) \div b.sectors_per_cluster),
                   b.sectors, IF b.declared THEN 90 ELSE 70)
    ELSE None

IdentifyBootSector(b, lba, total) ==
  CASE b = None -> None
    [] b # None /\ b.magic = "ntfs" -> IdentifyNtfs(b, lba, total)
    [] b # None /\ b.magic = "exfat" -> IdentifyExfat(b, lba, total)
    [] b # None /\ b.magic = "fat" -> IdentifyFat(b, lba, total)
    [] OTHER -> None

\* 1024 bytes in: ext has a size, HFS+ has none here.
IdentifyExt(b, lba) ==
  IF b # None /\ b.magic = "ext" /\ b.log_block <= 6 /\ b.blocks # 0
    THEN Candidate(lba, "ext4", (b.blocks * 1024 * 2 ^ b.log_block) \div 512, 90) ELSE None

IdentifyHfsplus(b, lba) ==
  IF b # None /\ b.magic = "hfs+" THEN Candidate(lba, "hfs+", 0, 80) ELSE None

IdentifyApfs(b, lba) ==
  IF b # None /\ b.magic = "apfs" /\ b.block_size \in 512 .. 65536 /\ PowerOfTwo(b.block_size)
    THEN Candidate(lba, "apfs", 0, 80) ELSE None

OrElse(c, other) == IF c # None THEN c ELSE other

\* What one sector shows: a boot sector, else a superblock, else APFS.
Identify(d, lba) ==
  LET b == Read(d, lba, d.boot)
      deep == IF lba + 2 \in d.bad \/ lba \notin DOMAIN d.deep THEN None ELSE d.deep[lba]
  IN  OrElse(IdentifyBootSector(b, lba, d.total),
        OrElse(IdentifyExt(deep, lba), OrElse(IdentifyHfsplus(deep, lba), IdentifyApfs(b, lba))))

\* check: a sector that cannot be read shows nothing.
Shows(d, lba) == lba \notin d.bad /\ lba < d.total /\ Identify(d, lba) # None

\* scan_for_filesystems: the common starts first, then every step-th sector
\* below the limit until there are enough candidates; none is looked at twice.
ScanForFilesystems(d, step, limit) ==
  LET end == IF limit = 0 \/ limit > d.total THEN d.total ELSE limit
      grid == [i \in 1 .. RoundUp(end, step) |-> (i - 1) * step]
      common == PartOf(CommonStarts, {i \in DOMAIN CommonStarts : Shows(d, CommonStarts[i])})
      others == PartOf(grid, {i \in DOMAIN grid :
                                Shows(d, grid[i]) /\ grid[i] \notin Range(CommonStarts)})
      room == LesserOf(GreaterOf(0, MaxCandidates - Len(common)), Len(others))
      shown == common \o SubSeq(others, 1, room)
      at == SortedBy(shown, [i \in DOMAIN shown |-> <<shown[i], 0>>])
  IN  [i \in DOMAIN at |-> Identify(d, at[i])]

\* Mutant: only the start is compared.
KeepStarts(kept, p) ==
  IF \E i \in DOMAIN kept : kept[i].start = p.start THEN kept ELSE Append(kept, p)

\* A boot sector inside a file system is its backup, not a partition.
KeepApart(kept, p) ==
  IF \E i \in DOMAIN kept : Overlaps(kept[i], p) \/ kept[i].start = p.start
    THEN kept ELSE Append(kept, p)

CandidatesToPartitions(candidates) ==
  LET best == SortedBy(candidates, [i \in DOMAIN candidates |->
                                      <<-candidates[i].confidence, candidates[i].lba>>])
      parts == [i \in DOMAIN best |-> Part(best[i].lba, best[i].sectors, best[i].fs,
                                           "reconstructed", best[i].confidence)]
      kept == FoldLeft(KeepApart, <<>>, parts)
  IN  SortedBy(kept, [i \in DOMAIN kept |-> <<kept[i].start, 0>>])

-----------------------------------------------------------------------------
(* discover                                                                *)

\* The scan is reached only while there is no partition: always_scan adds no
\* more than the look at sector 0.
Discover(d, always_scan, step, limit) ==
  LET mbr == IF 0 \in d.bad THEN <<>> ELSE d.mbr
      Table(parts) ==
        IF /\ parts = <<>> /\ mbr # <<>>
           /\ ~IsProtective(mbr) /\ LooksPlausible(mbr, d.total)
          THEN MbrPartitions(mbr) ELSE parts
      WithWhole(table, whole) ==
        IF whole # None /\ (table = <<>> \/ always_scan)
          THEN Append(table, Part(0, whole.sectors, whole.fs, "whole-device", whole.confidence))
          ELSE table
      OrScan(table) ==
        IF table = <<>> THEN CandidatesToPartitions(ScanForFilesystems(d, step, limit)) ELSE table
      All(parts) ==
        OrScan(WithWhole(Table(parts), IdentifyBootSector(Read(d, 0, d.boot), 0, d.total)))
      Found(gpt) == [partitions |-> Normalise(All(gpt.parts)), backup_noted |-> gpt.note]
  IN  Found(ReadGpt(d))

-----------------------------------------------------------------------------
(* Properties of what discover finds                                       *)

\* "If the primary is corrupt the backup is used" and the operator is told:
\* when the primary header is gone or fails its CRC and the backup is whole,
\* the table is the backup's, whatever else is on the device.
BackupIsUsed(d, found) ==
  LET primary == Read(d, 1, d.gpt)
      backup  == Read(d, d.total - 1, d.gpt)
  IN  /\ primary = None \/ ~primary.crc_ok
      /\ backup # None /\ backup.crc_ok /\ backup.whole
      => /\ found.backup_noted
         /\ {<<p.start, p.sectors>> : p \in {q \in Range(found.partitions) :
                                              q.origin = "gpt-backup"}}
              = {<<e.first, e.last - e.first + 1>> :
                   e \in {x \in Range(d.arrays[backup.entry_lba]) : x.type # "unused"}}

\* A table made up from headers has no partition inside another, and leaves out
\* a header it saw only for one at least as credible that it overlaps.
ReconstructionIsDisjoint(d, found, step, limit) ==
  LET parts == found.partitions IN
  (\E p \in Range(parts) : p.origin = "reconstructed") =>
    /\ \A i, j \in DOMAIN parts : i < j =>
         parts[i].start < parts[j].start /\ ~Overlaps(parts[i], parts[j])
    /\ \A c \in Range(ScanForFilesystems(d, step, limit)) : \E p \in Range(parts) :
         LET q == Part(c.lba, c.sectors, c.fs, "reconstructed", c.confidence) IN
         p = q \/ ((Overlaps(p, q) \/ p.start = q.start) /\ p.confidence >= q.confidence)

-----------------------------------------------------------------------------
(***************************************************************************)
(* Opening a file system (rc-fs): detect, and the boot sectors of NTFS,    *)
(* FAT and exFAT as the readers take them, which is not how the scan for   *)
(* lost partitions above takes them.                                       *)
(*                                                                         *)
(* A boot sector is as above, with what only a reader looks at:            *)
(* record_size of NTFS; clear (no FAT BPB), clusters, heap and root of     *)
(* exFAT.  A geometry is Volume's: [first, count, bytes, heap].            *)
(***************************************************************************)

\* decode_sized_field: a count of units, or from 128 up the negative logarithm of
\* a size.  2 ^ 31 is more than any caller accepts, as is what is cut to 32 bits.
SizedField(raw, unit) ==
  CASE raw = 0 -> 0
    [] raw \in 1 .. 127 -> raw * unit
    [] OTHER -> IF 256 - raw > 30 THEN 0 ELSE 2 ^ (256 - raw)

NtfsClusterSectors(b) == SizedField(b.sectors_per_cluster, 1)

NtfsRecordBytes(b) == SizedField(b.record_size, b.bytes_per_sector * NtfsClusterSectors(b))

MostUnits == 65536   \* sectors in a cluster, and bytes in a record

\* parse_boot of NTFS: sectors of 256 to 4096 bytes.
PlausibleBoot(b) ==
  /\ b.bytes_per_sector \in 256 .. 4096 /\ PowerOfTwo(b.bytes_per_sector)
  /\ NtfsClusterSectors(b) \in 1 .. MostUnits
  /\ NtfsRecordBytes(b) \in 1 .. MostUnits /\ PowerOfTwo(NtfsRecordBytes(b))
  /\ b.sectors # 0

OpenNtfs(b) ==
  LET spc == NtfsClusterSectors(b) IN
  IF b.magic = "ntfs" /\ PlausibleBoot(b)
    THEN [fs |-> "ntfs", first |-> 0, count |-> b.sectors \div spc,
          bytes |-> b.bytes_per_sector * spc, heap |-> 0]
    ELSE None

\* Mutant: the root directory of FAT12 and FAT16 is forgotten.
DataSectorPastFats(b) == b.reserved + b.num_fats * b.fat_size

\* first_data_sector: behind the FATs and the root directory.
FirstDataSector(b) ==
  b.reserved + b.num_fats * b.fat_size + RoundUp(b.root_entries * 32, b.bytes_per_sector)

\* parse_bpb, without the jump and the 0xAA55 the scan asks for.
OpenFat(b) ==
  LET clusters == (b.sectors - MetadataSectors(b)) \div b.sectors_per_cluster IN
  IF b.magic = "fat" /\ PlausibleBpb(b)
    THEN [fs |-> FatKind(clusters), first |-> 2, count |-> clusters,
          bytes |-> b.bytes_per_sector * b.sectors_per_cluster,
          heap |-> FirstDataSector(b) * b.bytes_per_sector]
    ELSE None

\* root_dir_offset: FAT12 and FAT16 keep the root between the FATs and the data.
RootDirOffset(b) == (b.reserved + b.num_fats * b.fat_size) * b.bytes_per_sector

\* parse_boot of exFAT: a cluster is at most 32 MiB.
OpenExfat(b) ==
  IF /\ b.magic = "exfat" /\ b.clear
     /\ b.sector_shift \in 9 .. 12 /\ b.cluster_shift <= 25 - b.sector_shift
     /\ b.sectors # 0 /\ b.clusters # 0 /\ b.root >= 2
    THEN [fs |-> "exfat", first |-> 2, count |-> b.clusters,
          bytes |-> 2 ^ (b.sector_shift + b.cluster_shift), heap |-> b.heap * 2 ^ b.sector_shift]
    ELSE None

\* detect: the name in the boot sector, else a FAT that adds up, else what is
\* 1024 bytes in.  The partition's type is never asked.
Detect(b, deep) ==
  IF b.magic \in {"ntfs", "exfat"} THEN b.magic
  ELSE IF b.magic = "fat" /\ PlausibleBpb(b) THEN OpenFat(b).fs
  ELSE IF deep # None /\ deep.magic = "ext" THEN "ext4"
  ELSE IF b.magic = "apfs" THEN "apfs"
  ELSE IF deep # None /\ deep.magic = "hfs+" THEN "hfs+"
  ELSE "unknown"

\* scan_volume, up to the reader's own scan: its geometry, None where there is no
\* reader for what was detected or the reader refuses it.
OpenVolume(b, deep) ==
  LET fs == Detect(b, deep) IN
  CASE fs = "ntfs" -> OpenNtfs(b)
    [] fs = "exfat" -> OpenExfat(b)
    [] fs \in {"fat12", "fat16", "fat32"} -> OpenFat(b)
    [] OTHER -> None

-----------------------------------------------------------------------------
(* Properties                                                              *)

\* The rules of each header are written twice, for the scan and for the reader:
\* a volume the reader can open, where it fits on the device, is found without a
\* partition table, as the file system the reader opens it as, to its end.  The
\* scan asks more of NTFS: sectors of 512 bytes, a power of two of them in a
\* cluster, and a $MFT that is on the volume.
ReadableIsOffered(b, deep, lba, total) ==
  LET g == OpenVolume(b, deep)
      c == IdentifyBootSector(b, lba, total)
      strict == b.bytes_per_sector >= 512 /\ PowerOfTwo(NtfsClusterSectors(b)) /\ b.mft \in 1 .. b.sectors
  IN  g # None /\ lba + b.sectors <= total /\ (g.fs = "ntfs" => strict) =>
        c # None /\ c.fs = g.fs /\ c.sectors >= b.sectors

\* The clusters of a FAT or an NTFS that was opened lie on the volume, each in
\* one place, and those of a FAT behind its root directory.
ClustersAreOnVolume(b, deep) ==
  LET g == OpenVolume(b, deep)
      end == b.sectors * b.bytes_per_sector
  IN  g # None /\ g.fs # "exfat" =>
        /\ g.bytes > 0 /\ g.heap + g.count * g.bytes <= end
        /\ g.fs # "ntfs" => g.heap >= RootDirOffset(b) + b.root_entries * 32
=============================================================================
