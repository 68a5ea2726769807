------------------------------ MODULE BlockMap ------------------------------
(***************************************************************************)
(* rc-image map.rs: the status of every byte of a device, kept as a sorted *)
(* partition of [0, size) into blocks, and the .map file it is saved as.   *)
(*                                                                         *)
(* The BTreeMap keyed by position is a set of blocks with distinct         *)
(* positions.  ref is what mark says of itself - "mark [pos, pos+len) with *)
(* status" - byte by byte; the properties compare the two.                 *)
(***************************************************************************)
EXTENDS Lists, SequencesExt

CONSTANTS
  Size,            \* bytes of the device
  BlockStatuses,   \* the block statuses in use
  NonTried         \* the status of what was never read

ASSUME MapAssumption == Size \in Nat \ {0} /\ NonTried \in BlockStatuses

VARIABLES
  size, blocks,   \* BlockMap
  ref             \* the status of each byte

mapVars == <<size, blocks, ref>>

Block == [pos : Nat, size : Nat, status : BlockStatuses]

\* The end of a block.
End(b) == b.pos + b.size

MapInit ==
  /\ size = Size
  /\ blocks = {[pos |-> 0, size |-> Size, status |-> NonTried]}
  /\ ref = [o \in 0 .. Size - 1 |-> NonTried]

\* BTreeMap::insert.
Insert(B, b) == {c \in B : c.pos # b.pos} \cup {b}

\* The last block of B that begins before cut, and is split if it straddles it.
Before(B, cut) == {b \in B : b.pos < cut /\ \A c \in B : c.pos < cut => c.pos <= b.pos}

\* Mutant: what lies beyond the cut is lost.
SplitHead(B, cut) ==
  LET straddling == {b \in Before(B, cut) : End(b) > cut}
  IN IF straddling = {} THEN B
     ELSE LET b == CHOOSE b \in straddling : TRUE
          IN Insert(B, [b EXCEPT !.size = cut - b.pos])

Split(B, cut) ==
  LET straddling == {b \in Before(B, cut) : End(b) > cut}
  IN IF straddling = {} THEN B
     ELSE LET b == CHOOSE b \in straddling : TRUE
          IN Insert(Insert(B, [b EXCEPT !.size = cut - b.pos]),
                    [pos |-> cut, size |-> End(b) - cut, status |-> b.status])

InPlace(B) == InOrder(B, {p \in B \X B : p[1].pos < p[2].pos})

\* merge_adjacent: one pass over the blocks in order, which makes a block part
\* of the last one where it goes on with it.
Joined(m, b) ==
  IF m # <<>> /\ Last(m).status = b.status /\ End(Last(m)) = b.pos
  THEN [m EXCEPT ![Len(m)].size = @ + b.size]
  ELSE Append(m, b)

Merge(B) == ToSet(FoldLeft(Joined, <<>>, InPlace(B)))

\* The range is split off at both ends, and one block takes its place.
Replace(B, pos, end, status) ==
  {b \in Split(Split(B, pos), end) : ~(pos <= b.pos /\ b.pos < end)}
    \cup {[pos |-> pos, size |-> end - pos, status |-> status]}

Mark(pos, len, status) ==
  LET end == IF pos + len < size THEN pos + len ELSE size
  IN /\ len > 0 /\ pos < size
     /\ blocks' = Merge(Replace(blocks, pos, end, status))
     /\ ref' = [o \in 0 .. Size - 1 |-> IF pos <= o /\ o < end THEN status ELSE ref[o]]
     /\ UNCHANGED size

\* Nothing to mark, or nothing of it on the device.
MarkNothing(pos, len, status) ==
  /\ len = 0 \/ pos >= size
  /\ UNCHANGED mapVars

\* write_to, then read_from the lines it wrote.
Lines(B) == InPlace(B)

\* Mutant: the size is what the header of the file says.
ReadSizeHeader(lines) == Size

ReadSize(lines) == Max({0} \cup {End(b) : b \in ToSet(lines)})

\* A line takes the place of one before it with its position.
ReadBlocks(lines) ==
  Merge({lines[k] : k \in {k \in DOMAIN lines :
                            \A l \in k + 1 .. Len(lines) : lines[l].pos # lines[k].pos}})

Reload ==
  /\ size' = ReadSize(Lines(blocks))
  /\ blocks' = ReadBlocks(Lines(blocks))
  /\ UNCHANGED ref

MapNext ==
  \/ \E pos, len \in 0 .. Size + 1, status \in BlockStatuses :
       Mark(pos, len, status) \/ MarkNothing(pos, len, status)
  \/ Reload

MapSpec == MapInit /\ [][MapNext]_mapVars

-----------------------------------------------------------------------------
(* Queries                                                                 *)

StatusAt(o) == {b.status : b \in {b \in Before(blocks, o + 1) : o < End(b)}}

BytesIn(status) == MapThenSumSet(LAMBDA b : b.size, {b \in blocks : b.status = status})

BlocksWith(status) == {b \in blocks : b.status = status}

\* The first block with the status that reaches past from, cut to begin there;
\* the empty set for None.
NextBlockWith(from, status) ==
  LET found == {b \in BlocksWith(status) : End(b) > from}
      first == {b \in found : \A c \in found : b.pos <= c.pos}
      cut(b) == IF b.pos > from THEN b.pos ELSE from
  IN {[pos |-> cut(b), size |-> End(b) - cut(b), status |-> b.status] : b \in first}

-----------------------------------------------------------------------------
(* Properties                                                              *)

MapTypeOK ==
  /\ size \in Nat
  /\ blocks \subseteq Block
  /\ ref \in [0 .. Size - 1 -> BlockStatuses]

BytesWith(status) == {o \in 0 .. Size - 1 : ref[o] = status}
BytesOf(from, to) == from .. to - 1

\* The maximal runs of bytes of one status: what "a sorted, gap-free,
\* adjacent-merged partition" is.
RunsOf(status) ==
  {r \in {BytesOf(from, to) : from, to \in 0 .. Size} :
     /\ r # {} /\ r \subseteq BytesWith(status)
     /\ \A o \in BytesWith(status) \ r : \A p \in r : o # p - 1 /\ o # p + 1}

\* After any marks in any order, and after being saved and loaded, the blocks
\* are exactly the maximal runs, the map still covers the device, and what a
\* pass asks of it is answered byte for byte: the status at an offset, the
\* number of bytes in a status, and the next block to work on.
BlocksAreTheRuns ==
  /\ size = Size
  /\ Cardinality(blocks) = Cardinality({b.pos : b \in blocks})
  /\ \A o \in 0 .. Size - 1 : StatusAt(o) = {ref[o]}
  /\ \A status \in BlockStatuses :
       /\ {BytesOf(b.pos, End(b)) : b \in BlocksWith(status)} = RunsOf(status)
       /\ BytesIn(status) = Cardinality(BytesWith(status))
       /\ \A from \in 0 .. Size :
            LET next == NextBlockWith(from, status)
                left == {o \in BytesWith(status) : o >= from}
            IN /\ next = {} <=> left = {}
               /\ \A b \in next :
                    /\ BytesOf(b.pos, End(b)) \subseteq left
                    /\ \A o \in left : b.pos <= o
                    /\ End(b) \notin left

\* A .map file cut off after any of its lines reads back as the map of a
\* smaller device, which clone_device refuses to resume from.
TornFileIsSmaller ==
  \A n \in 0 .. Len(Lines(blocks)) - 1 : ReadSize(SubSeq(Lines(blocks), 1, n)) # Size

=============================================================================
