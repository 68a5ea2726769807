------------------------------- MODULE Media -------------------------------
(***************************************************************************)
(* Reading a device (rc-device): whole sectors through a backend, any      *)
(* bytes through read_bytes_at, and an image file past the page cache.     *)
(* Every reader of tables, file systems and files goes through these.      *)
(*                                                                         *)
(* A byte is its own offset on the device, so what a read returns says     *)
(* where it came from.  m is [sector, sectors, bad]: the sector size, how  *)
(* many there are, and which of them fail.                                 *)
(***************************************************************************)
EXTENDS Integers, Sequences

CONSTANT None    \* an Option that is None, and a Result that is Err

LesserOf(a, b)  == IF a < b THEN a ELSE b
GreaterOf(a, b) == IF a > b THEN a ELSE b
PowerOfTwo(n)   == \E k \in 0 .. 25 : n = 2 ^ k

\* usize::div_ceil.
RoundUp(n, unit) == (n + unit - 1) \div unit

\* SectorSize: a power of two, so that masking is division.
AlignDown(ss, offset) == offset - (offset % ss)
AlignUp(ss, offset)   == RoundUp(offset, ss) * ss

TotalBytes(m) == m.sectors * m.sector

\* validate_read: how many bytes a read of len at lba may return, clamped at the
\* end of the device; None when it is refused.
ValidateRead(m, lba, len) ==
  IF len = 0 \/ len % m.sector # 0 \/ lba >= m.sectors
    THEN None
    ELSE LesserOf(m.sectors - lba, len \div m.sector) * m.sector

\* The bytes [from, to) of the device.
Bytes(from, to) == [i \in 1 .. to - from |-> from + i - 1]

HasBadSector(m, from, to) == \E s \in m.bad : s * m.sector < to /\ from < (s + 1) * m.sector

\* read_at: all that validate_read allows, or an error.
ReadAt(m, lba, len) ==
  LET want == ValidateRead(m, lba, len)
      from == lba * m.sector
  IN  IF want = None THEN None
      ELSE IF HasBadSector(m, from, from + want) THEN None
      ELSE Bytes(from, from + want)

\* The aligned window that covers want bytes from offset.
Window(m, offset, want) ==
  [start |-> AlignDown(m.sector, offset),
   span  |-> AlignUp(m.sector, offset + want) - AlignDown(m.sector, offset)]

\* read_bytes_at: short at the end of the device, and never an error there.
ReadBytesAt(m, offset, len) ==
  LET want == LesserOf(len, TotalBytes(m) - offset)
      w    == Window(m, offset, want)
      got  == ReadAt(m, w.start \div m.sector, w.span)
      skip == offset - w.start
  IN  IF len = 0 \/ offset >= TotalBytes(m) THEN <<>>
      ELSE IF got = None THEN None
      ELSE IF Len(got) <= skip THEN <<>>
      ELSE SubSeq(got, skip + 1, skip + LesserOf(Len(got) - skip, want))

\* read_unbuffered of [offset, offset + len) of a file of file_len bytes, for an
\* alignment of align: what the caller asked for must be there, what the window
\* adds need not.
ReadUnbuffered(offset, len, file_len, align, in_place) ==
  LET start == offset - (offset % align)
      end   == RoundUp(offset + len, align) * align
      got   == GreaterOf(0, LesserOf(end, file_len) - start)
      skip  == offset - start
  IN  IF in_place /\ offset % align = 0 /\ len % align = 0
        THEN IF offset + len <= file_len THEN Bytes(offset, offset + len) ELSE None
        ELSE IF skip + len > GreaterOf(0, file_len - start) \/ got < skip + len THEN None
             ELSE Bytes(start + skip, start + skip + len)

-----------------------------------------------------------------------------
(* Properties                                                              *)

\* A byte read gets the bytes asked for that are on the device, from any offset
\* and of any length: an aligned window too short, or cut at the wrong place,
\* would hand a parser its neighbour's bytes.  It fails only for a sector that
\* holds one of them.
ByteReadsAreExact(m, offset, len) ==
  LET end == LesserOf(offset + len, TotalBytes(m)) IN
  ReadBytesAt(m, offset, len) =
    IF offset < end /\ HasBadSector(m, offset, end) THEN None ELSE Bytes(offset, end)

\* An unbuffered read returns what a buffered one does, though it reads on past
\* the end of the file.
UnbufferedReadsAgree(offset, len, file_len, align, in_place) ==
  ReadUnbuffered(offset, len, file_len, align, in_place) =
    IF offset + len <= file_len THEN Bytes(offset, offset + len) ELSE None
=============================================================================
