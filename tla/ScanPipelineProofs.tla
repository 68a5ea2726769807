------------------------- MODULE ScanPipelineProofs -------------------------
(***************************************************************************)
(* Proofs about ScanPipeline: its type invariant, that the pool of buffers *)
(* neither leaks nor grows, and that the workers claim every hit of the    *)
(* segment once, for every segment, every number of workers, every way     *)
(* they take turns and every worker that panics.  And of the search itself  *)
(* (Signatures): that a prefilter and the cut into blocks lose no header.  *)
(***************************************************************************)
EXTENDS ScanPipeline, Signatures, ListProofs, FiniteSetTheorems, SequenceTheorems, TLAPS

\* Multiplying by a block's size keeps the order.
LEMMA ProductMonotone ==
  ASSUME NEW a \in Nat, NEW b \in Nat, NEW n \in Nat, a <= b
  PROVE  a * n <= b * n
<1>1. b = a + (b - a) /\ (b - a) \in Nat
  OBVIOUS
<1>2. PICK d \in Nat : b = a + d
  BY <1>1
<1>3. d * n >= 0 /\ d * n \in Nat
  OBVIOUS
<1>4. b * n = a * n + d * n
  BY <1>2
<1>5. QED
  BY <1>3, <1>4

-----------------------------------------------------------------------------
(* Types.                                                                  *)

\* What may be assumed of the constants, gathered.
LEMMA Constants ==
  /\ Source \in Sources /\ Hits[Source] \subseteq Hit
  /\ From \in Nat /\ To \in Nat /\ RangeStart <= From /\ From <= To /\ To <= RangeEnd
  /\ RangeStart \in Nat /\ RangeEnd \in Nat
  /\ BlockBytes \in Nat /\ BlockBytes >= 1 /\ Overlap \in Nat
BY PipelineAssumption, HitsAssumption, RangeAssumption, OptionsAssumption DEF Offsets

\* The pool is larger than the channel, and both are counted in numbers.
LEMMA PoolSize == Capacity \in Nat /\ Depth = Capacity + 2 /\ Capacity >= 1
<1>1. Cardinality(Threads) \in Nat
  BY PipelineAssumption, FS_CardinalityType
<1>2. Cardinality(Threads) # 0
  BY PipelineAssumption, FS_EmptySet
<1>3. QED
  BY <1>1, <1>2 DEF Capacity, Depth

\* What the reader reads while it is inside the segment is a block.
LEMMA LoadTyped ==
  ASSUME pos \in From .. To, pos < To
  PROVE  /\ Owned \in 1 .. BlockBytes /\ pos + Owned \in From .. To
         /\ Want \in 1 .. BlockBytes + Overlap /\ Owned <= Want
         /\ LesserOf(Owned, Want) = Owned
         /\ [start |-> pos, owned |-> Owned, filled |-> Want] \in Block
         /\ [start |-> pos, owned |-> 0, filled |-> 0] \in Block
<1>1. /\ Owned \in 1 .. BlockBytes /\ pos + Owned \in From .. To
      /\ Want \in 1 .. BlockBytes + Overlap /\ Owned <= Want
      /\ pos \in Offsets
  BY Constants DEF Owned, Want, LesserOf, Offsets
<1>2. LesserOf(Owned, Want) = Owned
  BY <1>1 DEF LesserOf
<1>3. QED
  BY <1>1, <1>2, Constants DEF Block

\* What each step of the reader and of a worker holds.
Placed ==
  /\ reader \in {"read", "send"} => pos < To
  /\ reader = "send" => block \in Block
  /\ \A w \in Threads : pc[w] \in {"search", "recycle"} => held[w] \in Block

Types == TypeOK /\ Placed

LEMMA TypesInit == Init => Types
<1> SUFFICES ASSUME Init PROVE Types
  OBVIOUS
<1>1. blocks \in Seq(Block) /\ Len(blocks) = 0
  BY DEF Init
<1>2. NoWorker \in Threads \cup {NoWorker} /\ Depth \in 0 .. Depth /\ 0 <= Capacity
  BY PoolSize
<1>3. From \in From .. To
  BY Constants
<1>4. QED
  BY <1>1, <1>2, <1>3 DEF Init, Types, TypeOK, Placed

LEMMA TypesNext == Types /\ [Next]_vars => Types'
<1> SUFFICES ASSUME Types, [Next]_vars PROVE Types'
  OBVIOUS
<1> USE DEF Types, TypeOK, Placed
<1>1. CASE TakeBuffer
  BY <1>1, PoolSize DEF TakeBuffer
<1>2. CASE NoMoreBuffers
  BY <1>2 DEF NoMoreBuffers
<1>3. CASE ReadBlock
  <2>1. block' \in Block
    BY <1>3, LoadTyped DEF ReadBlock
  <2> QED BY <1>3, <2>1 DEF ReadBlock
<1>4. CASE SendBlock
  <2>1. blocks' \in Seq(Block) /\ Len(blocks') <= Capacity
    BY <1>4, PoolSize DEF SendBlock
  <2>2. pos' \in From .. To
    BY <1>4, LoadTyped DEF SendBlock
  <2> QED BY <1>4, <2>1, <2>2 DEF SendBlock
<1>5. CASE EndOfSegment
  BY <1>5 DEF EndOfSegment
<1>6. ASSUME NEW w \in Threads, Lock(w) PROVE Types'
  BY <1>6 DEF Lock
<1>7. ASSUME NEW w \in Threads, Receive(w) PROVE Types'
  <2>1. Head(blocks) \in Block /\ blocks' \in Seq(Block) /\ Len(blocks') <= Capacity
    BY <1>7, PoolSize DEF Receive
  <2> QED BY <1>7, <2>1 DEF Receive
<1>8. ASSUME NEW w \in Threads, Disconnected(w) PROVE Types'
  BY <1>8 DEF Disconnected
<1>9. ASSUME NEW w \in Threads, Search(w) PROVE Types'
  <2>1. \A h \in ClaimedIn(held[w]) : <<h, held[w].start>> \in Hit \X Offsets
    BY <1>9, Constants DEF Search, ClaimedIn, Visible, Block
  <2>2. found' \in [Threads -> SUBSET (Hit \X Offsets)]
    BY <1>9, <2>1 DEF Search
  <2> QED BY <1>9, <2>2 DEF Search
<1>10. ASSUME NEW w \in Threads, Panic(w) PROVE Types'
  BY <1>10 DEF Panic
<1>11. ASSUME NEW w \in Threads, Recycle(w) PROVE Types'
  <2>1. recycled' \in 0 .. Depth
    BY <1>11, PoolSize DEF Recycle
  <2> QED BY <1>11, <2>1 DEF Recycle
<1>12. CASE DropSender
  BY <1>12 DEF DropSender
<1>13. CASE Join
  BY <1>13 DEF Join
<1>14. CASE UNCHANGED vars
  BY <1>14 DEF vars
<1>15. QED
  BY <1>1, <1>2, <1>3, <1>4, <1>5, <1>6, <1>7, <1>8, <1>9, <1>10, <1>11, <1>12, <1>13, <1>14
     DEF Next, Reader, Worker

-----------------------------------------------------------------------------
(* Buffers.                                                                *)

Busy == {w \in Threads : pc[w] \in {"search", "recycle"}}
Fallen == {w \in Threads : pc[w] = "panicked"}

\* The buffer the reader itself has.
InHand == IF reader \in {"read", "send"} THEN 1 ELSE 0

Conserved ==
  reader # "gone" =>
    recycled + Len(blocks) + Cardinality(Busy) + InHand + Cardinality(Fallen) = Depth

LEMMA ThreadSets ==
  ASSUME NEW S, S \subseteq Threads
  PROVE  IsFiniteSet(S) /\ Cardinality(S) \in Nat
BY PipelineAssumption, FS_Subset, FS_CardinalityType

\* Set counts move by one as a worker enters or leaves.
LEMMA OneMore ==
  ASSUME NEW S, S \subseteq Threads, NEW w \in Threads, w \notin S
  PROVE  Cardinality(S \cup {w}) = Cardinality(S) + 1
BY ThreadSets, FS_AddElement

LEMMA OneLess ==
  ASSUME NEW S, S \subseteq Threads, NEW w \in S
  PROVE  Cardinality(S \ {w}) = Cardinality(S) - 1
BY ThreadSets, FS_RemoveElement

LEMMA ConservedInit == Init => Conserved
<1> SUFFICES ASSUME Init PROVE Conserved
  OBVIOUS
<1>1. Busy = {} /\ Fallen = {}
  BY DEF Init, Busy, Fallen
<1>2. InHand = 0 /\ recycled = Depth /\ Len(blocks) = 0
  BY DEF Init, InHand
<1>3. QED
  BY <1>1, <1>2, FS_EmptySet, PoolSize DEF Conserved

LEMMA ConservedNext == Types /\ Conserved /\ [Next]_vars => Conserved'
<1> SUFFICES ASSUME Types, Conserved, [Next]_vars PROVE Conserved'
  OBVIOUS
<1> USE DEF Types, TypeOK, Conserved, InHand
<1>a. /\ Cardinality(Busy) \in Nat /\ Cardinality(Fallen) \in Nat
      /\ Busy \subseteq Threads /\ Fallen \subseteq Threads
  BY ThreadSets DEF Busy, Fallen
<1>b. ASSUME UNCHANGED pc PROVE Busy' = Busy /\ Fallen' = Fallen
  BY <1>b DEF Busy, Fallen
<1>1. CASE TakeBuffer
  BY <1>1, <1>a, <1>b, PoolSize DEF TakeBuffer
<1>2. CASE NoMoreBuffers
  BY <1>2 DEF NoMoreBuffers
<1>3. CASE ReadBlock
  BY <1>3, <1>b DEF ReadBlock
<1>4. CASE SendBlock
  <2>1. block \in Block
    BY <1>4 DEF SendBlock, Placed
  <2>2. Len(blocks') = Len(blocks) + 1
    BY <1>4, <2>1 DEF SendBlock
  <2> QED BY <1>4, <1>a, <1>b, <2>2, PoolSize DEF SendBlock
<1>5. CASE EndOfSegment
  BY <1>5 DEF EndOfSegment
<1>6. ASSUME NEW w \in Threads, Lock(w) PROVE Conserved'
  <2>1. Busy' = Busy /\ Fallen' = Fallen
    BY <1>6 DEF Lock, Busy, Fallen
  <2> QED BY <1>6, <2>1 DEF Lock
<1>7. ASSUME NEW w \in Threads, Receive(w) PROVE Conserved'
  <2>1. Busy' = Busy \cup {w} /\ w \notin Busy /\ Fallen' = Fallen
    BY <1>7 DEF Receive, Busy, Fallen
  <2>2. Cardinality(Busy') = Cardinality(Busy) + 1
    BY <2>1, <1>a, OneMore
  <2>3. Len(blocks') = Len(blocks) - 1
    BY <1>7 DEF Receive
  <2> QED BY <1>7, <1>a, <2>1, <2>2, <2>3, PoolSize DEF Receive
<1>8. ASSUME NEW w \in Threads, Disconnected(w) PROVE Conserved'
  BY <1>8 DEF Disconnected
<1>9. ASSUME NEW w \in Threads, Search(w) PROVE Conserved'
  <2>1. Busy' = Busy /\ Fallen' = Fallen
    BY <1>9 DEF Search, Busy, Fallen
  <2> QED BY <1>9, <2>1 DEF Search
<1>10. ASSUME NEW w \in Threads, Panic(w) PROVE Conserved'
  <2>1. Busy' = Busy \ {w} /\ w \in Busy /\ Fallen' = Fallen \cup {w} /\ w \notin Fallen
    BY <1>10 DEF Panic, Busy, Fallen
  <2>2. /\ Cardinality(Busy') = Cardinality(Busy) - 1
        /\ Cardinality(Fallen') = Cardinality(Fallen) + 1
    BY <2>1, <1>a, OneMore, OneLess
  <2> QED BY <1>10, <1>a, <2>2, PoolSize DEF Panic
<1>11. ASSUME NEW w \in Threads, Recycle(w) PROVE Conserved'
  <2>1. Busy' = Busy \ {w} /\ w \in Busy /\ Fallen' = Fallen
    BY <1>11 DEF Recycle, Busy, Fallen
  <2>2. Cardinality(Busy') = Cardinality(Busy) - 1
    BY <2>1, <1>a, OneLess
  <2> QED BY <1>11, <1>a, <2>1, <2>2, PoolSize DEF Recycle
<1>12. CASE DropSender
  BY <1>12, <1>b DEF DropSender
<1>13. CASE Join
  BY <1>13 DEF Join
<1>14. CASE UNCHANGED vars
  BY <1>14, <1>b DEF vars
<1>15. QED
  BY <1>1, <1>2, <1>3, <1>4, <1>5, <1>6, <1>7, <1>8, <1>9, <1>10, <1>11, <1>12, <1>13, <1>14
     DEF Next, Reader, Worker

-----------------------------------------------------------------------------
(* Blocks.                                                                 *)

\* Where a block of the segment may begin.
Started == {s \in BlockStarts(From) : s < To}

\* The block that begins at s.
BlockAt(s) ==
  IF BlockReadable(Source, s)
    THEN [start |-> s, owned |-> LesserOf(BlockBytes, To - s),
          filled |-> LesserOf(BlockBytes + Overlap, RangeEnd - s)]
    ELSE [start |-> s, owned |-> 0, filled |-> 0]

\* The first block begins where the segment does, and each of the others a
\* block after the one before it.
LEMMA Strides ==
  /\ From \in BlockStarts(From)
  /\ \A s \in BlockStarts(From) : s + BlockBytes < To => s + BlockBytes \in BlockStarts(From)
  /\ \A s \in BlockStarts(From) : s \in Nat /\ From <= s
<1> USE Constants
<1>1. \A k \in Nat : k <= k * BlockBytes /\ k * BlockBytes \in Nat
  <2> TAKE k \in Nat
  <2>1. k * 1 <= k * BlockBytes
    BY ProductMonotone
  <2> QED BY <2>1
<1>2. From \in BlockStarts(From)
  <2>1. From = From + 0 * BlockBytes /\ 0 \in 0 .. RangeEnd
    OBVIOUS
  <2> QED BY <2>1 DEF BlockStarts
<1>3. ASSUME NEW s \in BlockStarts(From)
      PROVE  s \in Nat /\ From <= s /\ (s + BlockBytes < To => s + BlockBytes \in BlockStarts(From))
  <2>1. PICK k \in 0 .. RangeEnd : s = From + k * BlockBytes
    BY DEF BlockStarts
  <2>2. k * BlockBytes \in Nat
    BY <1>1
  <2>3. ASSUME s + BlockBytes < To PROVE s + BlockBytes \in BlockStarts(From)
    <3>1. (k + 1) * BlockBytes = k * BlockBytes + BlockBytes
      OBVIOUS
    <3>2. s + BlockBytes = From + (k + 1) * BlockBytes
      BY <2>1, <2>2, <3>1
    <3>3. k + 1 <= (k + 1) * BlockBytes
      BY <1>1
    <3>4. k + 1 \in 0 .. RangeEnd
      BY <2>2, <2>3, <3>1, <3>2, <3>3
    <3> QED BY <3>2, <3>4 DEF BlockStarts
  <2> QED BY <2>1, <2>2, <2>3
<1>4. QED
  BY <1>2, <1>3

\* Two blocks that begin in different places share nothing they own: a block
\* ends where the next begins.
LEMMA BlocksApart ==
  ASSUME NEW s \in BlockStarts(From), NEW t \in BlockStarts(From), s < t
  PROVE  s + BlockBytes <= t
<1> USE Constants
<1>1. PICK j \in 0 .. RangeEnd : s = From + j * BlockBytes
  BY DEF BlockStarts
<1>2. PICK k \in 0 .. RangeEnd : t = From + k * BlockBytes
  BY DEF BlockStarts
<1>3. j * BlockBytes \in Nat /\ k * BlockBytes \in Nat
  <2>1. j \in Nat /\ k \in Nat
    OBVIOUS
  <2>2. 0 * BlockBytes <= j * BlockBytes /\ 0 * BlockBytes <= k * BlockBytes
    BY <2>1, ProductMonotone
  <2> QED BY <2>1, <2>2
<1>4. j < k
  <2> SUFFICES ASSUME k <= j PROVE FALSE
    OBVIOUS
  <2>1. k * BlockBytes <= j * BlockBytes
    BY ProductMonotone
  <2> QED BY <1>1, <1>2, <1>3, <2>1
<1>5. (j + 1) * BlockBytes <= k * BlockBytes
  BY <1>4, ProductMonotone
<1>6. (j + 1) * BlockBytes = j * BlockBytes + BlockBytes
  OBVIOUS
<1>7. QED
  BY <1>1, <1>2, <1>3, <1>5, <1>6

\* What is claimed in a block of the segment begins in the part it owns.
LEMMA ClaimedInBlock ==
  ASSUME NEW s \in Started, NEW h \in ClaimedIn(BlockAt(s))
  PROVE  /\ h \in Hits[Source] /\ BlockReadable(Source, s)
         /\ s <= h.offset /\ h.offset < s + BlockBytes /\ h.offset < To
<1>1. s \in Nat /\ From <= s /\ s < To
  BY Strides DEF Started
<1>2. h \in Hits[Source] /\ h \in Hit
  BY Constants DEF ClaimedIn, Visible
<1>3. h.offset \in Nat
  BY <1>2, Constants DEF Hit
<1>4. BlockReadable(Source, s)
  BY <1>1, <1>3 DEF ClaimedIn, Visible, BlockAt
<1>5. /\ BlockAt(s).start = s /\ BlockAt(s).owned = LesserOf(BlockBytes, To - s)
  BY <1>4 DEF BlockAt
<1>6. s <= h.offset /\ h.offset - s < LesserOf(BlockBytes, To - s)
  BY <1>5 DEF ClaimedIn, Visible
<1>7. QED
  BY <1>1, <1>2, <1>3, <1>4, <1>6, Constants DEF LesserOf

\* No hit is claimed in two blocks.
LEMMA ClaimedOnce ==
  ASSUME NEW s \in Started, NEW t \in Started,
         NEW h, h \in ClaimedIn(BlockAt(s)), h \in ClaimedIn(BlockAt(t))
  PROVE  s = t
<1>1. s \in BlockStarts(From) /\ t \in BlockStarts(From) /\ s \in Nat /\ t \in Nat
  BY Strides DEF Started
<1>2. /\ s <= h.offset /\ h.offset < s + BlockBytes
      /\ t <= h.offset /\ h.offset < t + BlockBytes
  BY ClaimedInBlock
<1>3. h.offset \in Nat
  BY ClaimedInBlock, Constants DEF Hit
<1>4. ~(s < t) /\ ~(t < s)
  BY <1>1, <1>2, <1>3, BlocksApart, Constants
<1>5. QED
  BY <1>1, <1>4

\* The blocks of the segment claim what CarveOrder says a scan of it claims:
\* a header is wholly in the buffer of the block it begins in.
LEMMA BlocksClaimAll ==
  Claimed(Source, From, To) = {h \in Hits[Source] : \E s \in Started : h \in ClaimedIn(BlockAt(s))}
<1>1. ASSUME NEW h \in Claimed(Source, From, To)
      PROVE  \E s \in Started : h \in ClaimedIn(BlockAt(s))
  <2>1. PICK s \in BlockStarts(From) : s <= h.offset /\ h.offset < s + BlockBytes /\ BlockReadable(Source, s)
    BY DEF Claimed
  <2>2. h \in Hits[Source] /\ h.offset < To
    BY DEF Claimed
  <2>3. h.offset \in Nat /\ h.span \in Nat /\ s \in Nat
    BY <2>2, Constants, Strides DEF Hit
  <2>4. s < To
    BY <2>1, <2>2, <2>3, Constants
  <2>5. h.span <= Overlap + 1 /\ h.offset + h.span <= RangeEnd
    BY <2>2, OverlapAssumption
  <2>6. /\ BlockAt(s).start = s /\ BlockAt(s).owned = LesserOf(BlockBytes, To - s)
        /\ BlockAt(s).filled = LesserOf(BlockBytes + Overlap, RangeEnd - s)
    BY <2>1 DEF BlockAt
  <2>7. /\ h.offset - s < LesserOf(BlockBytes, To - s)
        /\ h.offset + h.span <= s + LesserOf(BlockBytes + Overlap, RangeEnd - s)
    BY <2>1, <2>2, <2>3, <2>4, <2>5, Constants DEF LesserOf
  <2> QED BY <2>1, <2>2, <2>4, <2>6, <2>7 DEF ClaimedIn, Visible, Started
<1>2. ASSUME NEW s \in Started, NEW h \in ClaimedIn(BlockAt(s))
      PROVE  h \in Claimed(Source, From, To)
  <2>1. /\ h \in Hits[Source] /\ BlockReadable(Source, s)
        /\ s <= h.offset /\ h.offset < s + BlockBytes /\ h.offset < To
    BY ClaimedInBlock
  <2>2. s \in BlockStarts(From) /\ s \in Nat /\ From <= s
    BY Strides DEF Started
  <2>3. h.offset \in Nat
    BY <2>1, Constants DEF Hit
  <2> QED BY <2>1, <2>2, <2>3, Constants DEF Claimed
<1>3. Claimed(Source, From, To) \subseteq Hits[Source]
  BY DEF Claimed
<1>4. QED
  BY <1>1, <1>2, <1>3

-----------------------------------------------------------------------------
(* Every hit once.                                                         *)

\* The reader goes from one block of the segment to the next.
ReaderInv ==
  /\ pos < To => pos \in BlockStarts(From)
  /\ reader = "send" => block = BlockAt(pos)

\* The channel holds blocks already behind the reader, in order.
ChannelInv ==
  /\ \A i \in 1 .. Len(blocks) :
        /\ blocks[i].start \in Started /\ blocks[i].start < pos
        /\ blocks[i] = BlockAt(blocks[i].start)
  /\ \A i, j \in 1 .. Len(blocks) : i < j => blocks[i].start < blocks[j].start

\* The workers hold different blocks, each from before all that are in the
\* channel.
HeldInv ==
  /\ \A w \in Busy :
        /\ held[w].start \in Started /\ held[w].start < pos
        /\ held[w] = BlockAt(held[w].start)
        /\ \A i \in 1 .. Len(blocks) : held[w].start < blocks[i].start
  /\ \A v, w \in Busy : v # w => held[v].start # held[w].start

\* What has been found was found by one worker, in a block of the segment that
\* claims it and that nobody has yet to search.
FoundInv ==
  \A w \in Threads : \A p \in found[w] :
     /\ p[2] \in Started /\ p[2] < pos
     /\ p[1] \in ClaimedIn(BlockAt(p[2]))
     /\ \A i \in 1 .. Len(blocks) : p[2] < blocks[i].start
     /\ \A v \in Busy : (v # w \/ pc[v] = "search") => p[2] # held[v].start
     /\ \A v \in Threads : v # w => \A q \in found[v] : q[2] # p[2]

\* A worker leaves only when the reader has, and the reader leaves before the
\* end only when the workers have fallen.
EndInv ==
  /\ \A w \in Threads : pc[w] = "gone" => reader = "gone" /\ blocks = <<>>
  /\ reader = "gone" /\ pos < To => Fallen # {}
  /\ main = "done" => /\ reader = "gone"
                      /\ \A w \in Threads : pc[w] = "gone"

\* While no worker has fallen, a block behind the reader is in the channel, or
\* is being searched, or has been.
SearchedInv ==
  Fallen = {} =>
    \A s \in Started : s < pos =>
      \/ \E i \in 1 .. Len(blocks) : blocks[i].start = s
      \/ \E w \in Threads : pc[w] = "search" /\ held[w].start = s
      \/ \A h \in ClaimedIn(BlockAt(s)) : \E w \in Threads : <<h, s>> \in found[w]

HitsInv == ReaderInv /\ ChannelInv /\ HeldInv /\ FoundInv /\ EndInv /\ SearchedInv

LEMMA HitsInit == Init => HitsInv
<1> SUFFICES ASSUME Init PROVE HitsInv
  OBVIOUS
<1>1. ReaderInv
  BY Strides DEF Init, ReaderInv
<1>2. ChannelInv /\ HeldInv /\ FoundInv
  BY DEF Init, ChannelInv, HeldInv, FoundInv, Busy
<1>3. EndInv
  BY DEF Init, EndInv
<1>4. SearchedInv
  <2>1. \A s \in Started : s >= pos
    BY Strides, Constants DEF Init, Started
  <2> QED BY <2>1, Strides, Constants DEF Init, SearchedInv, Started
<1>5. QED
  BY <1>1, <1>2, <1>3, <1>4 DEF HitsInv

\* A step that leaves the blocks where they are and finds nothing.
LEMMA HitsQuiet ==
  ASSUME HitsInv, UNCHANGED <<pos, blocks, held, found, Busy, Fallen>>,
         \A w \in Threads : (pc[w] = "search") <=> (pc'[w] = "search"),
         ReaderInv', EndInv'
  PROVE  HitsInv'
<1>1. ChannelInv' /\ HeldInv'
  BY DEF HitsInv, ChannelInv, HeldInv
<1>2. FoundInv'
  BY DEF HitsInv, FoundInv, Busy
<1>3. SearchedInv'
  BY DEF HitsInv, SearchedInv
<1>4. QED
  BY <1>1, <1>2, <1>3 DEF HitsInv

\* A step of which the workers know nothing.
LEMMA HitsElsewhere ==
  ASSUME HitsInv, UNCHANGED <<pos, blocks, pc, held, found>>, ReaderInv', EndInv'
  PROVE  HitsInv'
<1>1. UNCHANGED <<Busy, Fallen>>
  BY DEF Busy, Fallen
<1>2. QED
  BY <1>1, HitsQuiet

LEMMA ReaderHits ==
  ASSUME Types, HitsInv, Reader
  PROVE  HitsInv'
<1> USE DEF Types, TypeOK, Placed
<1>1. CASE TakeBuffer
  <2>1. ReaderInv' /\ EndInv'
    BY <1>1 DEF TakeBuffer, HitsInv, ReaderInv, EndInv, Fallen
  <2> QED BY <1>1, <2>1, HitsElsewhere DEF TakeBuffer
<1>2. CASE NoMoreBuffers
  <2>1. PICK w \in Threads : TRUE
    BY PipelineAssumption
  <2>2. \A v \in Threads : pc[v] = "panicked"
    BY <1>2 DEF NoMoreBuffers, Gone, HitsInv, EndInv
  <2>3. w \in Fallen'
    BY <1>2, <2>2 DEF NoMoreBuffers, Fallen
  <2>4. ReaderInv' /\ EndInv'
    BY <1>2, <2>2, <2>3 DEF NoMoreBuffers, HitsInv, ReaderInv, EndInv
  <2> QED BY <1>2, <2>4, HitsElsewhere DEF NoMoreBuffers
<1>3. CASE ReadBlock
  <2>1. block' = BlockAt(pos)
    BY <1>3, LoadTyped DEF ReadBlock, BlockAt, Owned, Want
  <2>2. ReaderInv' /\ EndInv'
    BY <1>3, <2>1 DEF ReadBlock, HitsInv, ReaderInv, EndInv, Fallen
  <2> QED BY <1>3, <2>2, HitsElsewhere DEF ReadBlock
<1>4. CASE SendBlock
  <2>a. /\ block = BlockAt(pos) /\ block \in Block /\ block.start = pos
        /\ pos \in Started /\ pos < To /\ pos \in Nat
    <3>1. block = BlockAt(pos) /\ block \in Block /\ pos \in BlockStarts(From) /\ pos < To
      BY <1>4 DEF SendBlock, HitsInv, ReaderInv
    <3> QED BY <3>1, Strides DEF Started, BlockAt
  <2>b. pos < pos' /\ pos' \in From .. To /\ pos' \in Nat
    BY <1>4, <2>a, LoadTyped, Constants DEF SendBlock
  <2>c. /\ Len(blocks') = Len(blocks) + 1
        /\ \A i \in 1 .. Len(blocks) : blocks'[i] = blocks[i]
        /\ blocks'[Len(blocks')] = block
    BY <1>4, <2>a DEF SendBlock
  <2>d. \A i \in 1 .. Len(blocks') : i \in 1 .. Len(blocks) \/ i = Len(blocks')
    BY <2>c
  <2>e. \A s \in Started : s \in Nat
    BY Strides DEF Started
  <2>f. \A s \in Started : s < pos => s < pos'
    <3> TAKE s \in Started
    <3>1. s \in Nat
      BY <2>e
    <3> QED BY <2>a, <2>b, <3>1
  <2>1. ReaderInv'
    <3>1. pos + BlockBytes < To => pos + BlockBytes \in BlockStarts(From)
      BY <2>a, Strides DEF Started
    <3>2. pos' < To => pos' = pos + BlockBytes
      BY <1>4, <2>a, Constants DEF SendBlock, Owned, LesserOf
    <3> QED BY <1>4, <3>1, <3>2 DEF SendBlock, ReaderInv
  <2>2. ChannelInv'
    <3>1. \A i \in 1 .. Len(blocks) : blocks[i].start < pos /\ blocks[i].start \in Started
      BY DEF HitsInv, ChannelInv
    <3>2. \A i \in 1 .. Len(blocks') :
            /\ blocks'[i].start \in Started /\ blocks'[i].start < pos'
            /\ blocks'[i] = BlockAt(blocks'[i].start)
      <4> TAKE i \in 1 .. Len(blocks')
      <4>1. CASE i \in 1 .. Len(blocks)
        BY <2>c, <2>f, <3>1, <4>1 DEF HitsInv, ChannelInv
      <4>2. CASE i = Len(blocks')
        BY <2>a, <2>b, <2>c, <4>2
      <4> QED BY <2>d, <4>1, <4>2
    <3>3. \A i, j \in 1 .. Len(blocks') : i < j => blocks'[i].start < blocks'[j].start
      <4> TAKE i, j \in 1 .. Len(blocks')
      <4> HAVE i < j
      <4>1. i \in 1 .. Len(blocks)
        BY <2>c
      <4>2. CASE j \in 1 .. Len(blocks)
        BY <2>c, <4>1, <4>2 DEF HitsInv, ChannelInv
      <4>3. CASE j = Len(blocks')
        BY <2>a, <2>c, <3>1, <4>1, <4>3
      <4> QED BY <2>d, <4>2, <4>3
    <3> QED BY <3>2, <3>3 DEF ChannelInv
  <2>3. HeldInv'
    <3>1. Busy' = Busy /\ held' = held
      BY <1>4 DEF SendBlock, Busy
    <3>2. \A w \in Busy : /\ held[w].start \in Started /\ held[w].start < pos
                          /\ held[w] = BlockAt(held[w].start)
                          /\ \A i \in 1 .. Len(blocks) : held[w].start < blocks[i].start
      BY DEF HitsInv, HeldInv
    <3>3. \A w \in Busy : held[w].start < pos'
      BY <2>f, <3>2
    <3>4. \A w \in Busy : \A i \in 1 .. Len(blocks') : held[w].start < blocks'[i].start
      BY <2>a, <2>c, <2>d, <3>2
    <3> QED BY <3>1, <3>2, <3>3, <3>4 DEF HitsInv, HeldInv
  <2>4. FoundInv'
    <3>1. /\ Busy' = Busy /\ held' = held /\ found' = found /\ pc' = pc
      BY <1>4 DEF SendBlock, Busy
    <3> SUFFICES ASSUME NEW w \in Threads, NEW p \in found[w]
                 PROVE  /\ p[2] \in Started /\ p[2] < pos'
                        /\ p[1] \in ClaimedIn(BlockAt(p[2]))
                        /\ \A i \in 1 .. Len(blocks') : p[2] < blocks'[i].start
                        /\ \A v \in Busy : (v # w \/ pc[v] = "search") => p[2] # held[v].start
                        /\ \A v \in Threads : v # w => \A q \in found[v] : q[2] # p[2]
      BY <3>1 DEF FoundInv
    <3>2. /\ p[2] \in Started /\ p[2] < pos
          /\ p[1] \in ClaimedIn(BlockAt(p[2]))
          /\ \A i \in 1 .. Len(blocks) : p[2] < blocks[i].start
          /\ \A v \in Busy : (v # w \/ pc[v] = "search") => p[2] # held[v].start
          /\ \A v \in Threads : v # w => \A q \in found[v] : q[2] # p[2]
      BY DEF HitsInv, FoundInv
    <3>3. p[2] < pos'
      BY <2>f, <3>2
    <3>4. \A i \in 1 .. Len(blocks') : p[2] < blocks'[i].start
      BY <2>a, <2>c, <2>d, <3>2
    <3> QED BY <3>2, <3>3, <3>4
  <2>5. EndInv'
    BY <1>4 DEF SendBlock, HitsInv, EndInv, Fallen
  <2>6. SearchedInv'
    <3> SUFFICES ASSUME Fallen = {}, NEW s \in Started, s < pos'
                 PROVE  \/ \E i \in 1 .. Len(blocks') : blocks'[i].start = s
                        \/ \E w \in Threads : pc[w] = "search" /\ held[w].start = s
                        \/ \A h \in ClaimedIn(BlockAt(s)) : \E w \in Threads : <<h, s>> \in found[w]
      BY <1>4 DEF SendBlock, SearchedInv, Fallen
    <3>1. CASE s < pos
      <4>1. \/ \E i \in 1 .. Len(blocks) : blocks[i].start = s
            \/ \E w \in Threads : pc[w] = "search" /\ held[w].start = s
            \/ \A h \in ClaimedIn(BlockAt(s)) : \E w \in Threads : <<h, s>> \in found[w]
        BY <3>1 DEF HitsInv, SearchedInv
      <4>2. ASSUME NEW i \in 1 .. Len(blocks), blocks[i].start = s
            PROVE  \E j \in 1 .. Len(blocks') : blocks'[j].start = s
        BY <2>c, <4>2
      <4>3. QED
        BY <4>1, <4>2
    <3>2. CASE s = pos
      BY <2>a, <2>c, <3>2
    <3>3. ~(pos < s)
      <4> SUFFICES ASSUME pos < s PROVE FALSE
        OBVIOUS
      <4>1. pos + BlockBytes <= s
        BY <2>a, BlocksApart DEF Started
      <4>2. pos' <= pos + BlockBytes
        BY <1>4, <2>a, LoadTyped, Constants DEF SendBlock
      <4> QED BY <2>a, <2>b, <2>e, <4>1, <4>2, Constants
    <3> QED BY <2>a, <2>e, <3>1, <3>2, <3>3
  <2> QED BY <2>1, <2>2, <2>3, <2>4, <2>5, <2>6 DEF HitsInv
<1>5. CASE EndOfSegment
  <2>1. ReaderInv' /\ EndInv'
    BY <1>5, Constants DEF EndOfSegment, HitsInv, ReaderInv, EndInv, Fallen
  <2> QED BY <1>5, <2>1, HitsElsewhere DEF EndOfSegment
<1>6. QED
  BY <1>1, <1>2, <1>3, <1>4, <1>5 DEF Reader

LEMMA WorkerHits ==
  ASSUME Types, HitsInv, NEW w \in Threads, Worker(w) \/ Panic(w)
  PROVE  HitsInv'
<1> USE DEF Types, TypeOK
<1>a. pos' = pos /\ ReaderInv'
  BY DEF Worker, Lock, Receive, Disconnected, Search, Panic, Recycle, HitsInv, ReaderInv
<1>b. \A s \in Started : s \in Nat
  BY Strides DEF Started
<1>1. CASE Lock(w)
  <2>1. /\ UNCHANGED <<pos, blocks, held, found, Busy, Fallen>>
        /\ \A v \in Threads : (pc[v] = "search") <=> (pc'[v] = "search")
    BY <1>1 DEF Lock, Busy, Fallen
  <2>2. EndInv'
    BY <1>1, <2>1 DEF Lock, HitsInv, EndInv
  <2> QED BY <1>a, <2>1, <2>2, HitsQuiet
<1>2. CASE Receive(w)
  <2>a. /\ blocks # <<>> /\ blocks' = Tail(blocks) /\ held'[w] = blocks[1]
        /\ 1 \in 1 .. Len(blocks)
        /\ Len(blocks') = Len(blocks) - 1
        /\ \A i \in 1 .. Len(blocks') : i + 1 \in 1 .. Len(blocks) /\ blocks'[i] = blocks[i + 1]
    BY <1>2 DEF Receive
  <2>b. /\ Busy' = Busy \cup {w} /\ w \notin Busy /\ Fallen' = Fallen
        /\ \A v \in Threads : v # w => pc'[v] = pc[v] /\ held'[v] = held[v]
        /\ pc'[w] = "search" /\ found' = found
    BY <1>2 DEF Receive, Busy, Fallen
  <2>c. Busy \subseteq Threads
    BY DEF Busy
  <2>1. ChannelInv'
    <3>1. \A i \in 1 .. Len(blocks') :
            /\ blocks'[i].start \in Started /\ blocks'[i].start < pos
            /\ blocks'[i] = BlockAt(blocks'[i].start)
      BY <2>a DEF HitsInv, ChannelInv
    <3>2. \A i, j \in 1 .. Len(blocks') : i < j => blocks'[i].start < blocks'[j].start
      <4> TAKE i, j \in 1 .. Len(blocks')
      <4> HAVE i < j
      <4>1. blocks[i + 1].start < blocks[j + 1].start
        BY <2>a DEF HitsInv, ChannelInv
      <4> QED BY <2>a, <4>1
    <3> QED BY <1>a, <3>1, <3>2 DEF ChannelInv
  <2>2. HeldInv'
    <3>1. /\ blocks[1].start \in Started /\ blocks[1].start < pos
          /\ blocks[1] = BlockAt(blocks[1].start)
          /\ \A i \in 1 .. Len(blocks') : blocks[1].start < blocks'[i].start
      BY <2>a DEF HitsInv, ChannelInv
    <3>2. \A v \in Busy : /\ held[v].start \in Started /\ held[v].start < pos
                          /\ held[v] = BlockAt(held[v].start)
                          /\ \A i \in 1 .. Len(blocks') : held[v].start < blocks'[i].start
      BY <2>a DEF HitsInv, HeldInv
    <3>3. \A v \in Busy : held[v].start # blocks[1].start
      <4> TAKE v \in Busy
      <4>1. held[v].start < blocks[1].start /\ held[v].start \in Started
        BY <2>a DEF HitsInv, HeldInv
      <4>2. held[v].start \in Nat
        BY <1>b, <4>1
      <4> QED BY <4>1, <4>2
    <3>4. \A u, v \in Busy : u # v => held[u].start # held[v].start
      BY DEF HitsInv, HeldInv
    <3>5. \A v \in Busy : held'[v] = held[v]
      BY <2>b, <2>c
    <3> QED BY <1>a, <2>a, <2>b, <3>1, <3>2, <3>3, <3>4, <3>5 DEF HeldInv
  <2>3. FoundInv'
    <3> SUFFICES ASSUME NEW x \in Threads, NEW p \in found[x]
                 PROVE  /\ p[2] \in Started /\ p[2] < pos
                        /\ p[1] \in ClaimedIn(BlockAt(p[2]))
                        /\ \A i \in 1 .. Len(blocks') : p[2] < blocks'[i].start
                        /\ \A v \in Busy' : (v # x \/ pc'[v] = "search") => p[2] # held'[v].start
                        /\ \A v \in Threads : v # x => \A q \in found[v] : q[2] # p[2]
      BY <1>a, <2>b DEF FoundInv
    <3>1. /\ p[2] \in Started /\ p[2] < pos
          /\ p[1] \in ClaimedIn(BlockAt(p[2]))
          /\ \A i \in 1 .. Len(blocks) : p[2] < blocks[i].start
          /\ \A v \in Busy : (v # x \/ pc[v] = "search") => p[2] # held[v].start
          /\ \A v \in Threads : v # x => \A q \in found[v] : q[2] # p[2]
      BY DEF HitsInv, FoundInv
    <3>2. p[2] # blocks[1].start
      <4>1. p[2] < blocks[1].start /\ p[2] \in Nat
        BY <1>b, <2>a, <3>1
      <4> QED BY <4>1
    <3>3. \A v \in Busy' : (v # x \/ pc'[v] = "search") => p[2] # held'[v].start
      BY <2>a, <2>b, <2>c, <3>1, <3>2
    <3> QED BY <2>a, <3>1, <3>3
  <2>4. EndInv'
    BY <1>2, <1>a, <2>a, <2>b DEF Receive, HitsInv, EndInv
  <2>5. SearchedInv'
    <3> SUFFICES ASSUME Fallen = {}, NEW s \in Started, s < pos
                 PROVE  \/ \E i \in 1 .. Len(blocks') : blocks'[i].start = s
                        \/ \E v \in Threads : pc'[v] = "search" /\ held'[v].start = s
                        \/ \A h \in ClaimedIn(BlockAt(s)) : \E v \in Threads : <<h, s>> \in found[v]
      BY <1>a, <2>b DEF SearchedInv
    <3>1. ASSUME NEW i \in 1 .. Len(blocks), blocks[i].start = s
          PROVE  \/ \E j \in 1 .. Len(blocks') : blocks'[j].start = s
                 \/ \E v \in Threads : pc'[v] = "search" /\ held'[v].start = s
      <4>1. CASE i = 1
        BY <2>a, <2>b, <3>1, <4>1
      <4>2. CASE i # 1
        <5>1. i - 1 \in 1 .. Len(blocks') /\ blocks'[i - 1] = blocks[i]
          BY <1>2, <4>2 DEF Receive
        <5> QED BY <3>1, <5>1
      <4> QED BY <4>1, <4>2
    <3>2. ASSUME NEW v \in Threads, pc[v] = "search", held[v].start = s
          PROVE  \E u \in Threads : pc'[u] = "search" /\ held'[u].start = s
      BY <1>2, <2>b, <3>2 DEF Receive
    <3> QED BY <3>1, <3>2 DEF HitsInv, SearchedInv
  <2> QED BY <1>a, <2>1, <2>2, <2>3, <2>4, <2>5 DEF HitsInv
<1>3. CASE Disconnected(w)
  <2>1. /\ UNCHANGED <<pos, blocks, held, found, Busy, Fallen>>
        /\ \A v \in Threads : (pc[v] = "search") <=> (pc'[v] = "search")
    BY <1>3 DEF Disconnected, Busy, Fallen
  <2>2. EndInv'
    BY <1>3, <2>1 DEF Disconnected, HitsInv, EndInv
  <2> QED BY <1>a, <2>1, <2>2, HitsQuiet
<1>4. CASE Search(w)
  <2> DEFINE b == held[w]
             fresh == {<<h, b.start>> : h \in ClaimedIn(b)}
  <2>a. /\ UNCHANGED <<pos, blocks, held, Busy, Fallen, reader, main>>
        /\ w \in Busy /\ pc[w] = "search" /\ pc'[w] = "recycle"
        /\ \A v \in Threads : v # w => pc'[v] = pc[v] /\ found'[v] = found[v]
        /\ found'[w] = found[w] \cup fresh
    BY <1>4 DEF Search, Busy, Fallen
  <2>b. /\ b.start \in Started /\ b.start < pos /\ b = BlockAt(b.start)
        /\ \A i \in 1 .. Len(blocks) : b.start < blocks[i].start
        /\ \A v \in Busy : v # w => held[v].start # b.start
    BY <2>a DEF HitsInv, HeldInv
  <2>c. Busy \subseteq Threads
    BY DEF Busy
  <2>1. ChannelInv' /\ HeldInv'
    BY <2>a DEF HitsInv, ChannelInv, HeldInv
  <2>2. FoundInv'
    <3> DEFINE Fits(x, p) ==
          /\ p[2] \in Started /\ p[2] < pos
          /\ p[1] \in ClaimedIn(BlockAt(p[2]))
          /\ \A i \in 1 .. Len(blocks) : p[2] < blocks[i].start
          /\ \A v \in Busy : (v # x \/ pc'[v] = "search") => p[2] # held[v].start
          /\ \A v \in Threads : v # x => \A q \in found'[v] : q[2] # p[2]
    <3>1. ASSUME NEW x \in Threads, NEW p \in found[x]
          PROVE  Fits(x, p)
      <4>1. /\ p[2] \in Started /\ p[2] < pos
            /\ p[1] \in ClaimedIn(BlockAt(p[2]))
            /\ \A i \in 1 .. Len(blocks) : p[2] < blocks[i].start
            /\ \A v \in Busy : (v # x \/ pc[v] = "search") => p[2] # held[v].start
            /\ \A v \in Threads : v # x => \A q \in found[v] : q[2] # p[2]
        BY DEF HitsInv, FoundInv
      <4>2. \A v \in Busy : (v # x \/ pc'[v] = "search") => p[2] # held[v].start
        BY <2>a, <2>c, <4>1
      <4>3. p[2] # b.start
        BY <2>a, <4>1
      <4>4. \A v \in Threads : v # x => \A q \in found'[v] : q[2] # p[2]
        BY <2>a, <4>1, <4>3
      <4> QED BY <4>1, <4>2, <4>4
    <3>2. ASSUME NEW p \in fresh PROVE Fits(w, p)
      <4>1. p[2] = b.start /\ p[1] \in ClaimedIn(b)
        OBVIOUS
      <4>2. \A v \in Busy : (v # w \/ pc'[v] = "search") => p[2] # held[v].start
        BY <2>a, <2>b, <2>c, <4>1
      <4>3. \A v \in Threads : v # w => \A q \in found[v] : q[2] # b.start
        BY <2>a DEF HitsInv, FoundInv
      <4> QED BY <2>a, <2>b, <4>1, <4>2, <4>3
    <3>3. \A x \in Threads : \A p \in found'[x] : Fits(x, p)
      BY <2>a, <3>1, <3>2
    <3> QED BY <1>a, <2>a, <3>3 DEF FoundInv
  <2>3. EndInv'
    BY <2>a DEF HitsInv, EndInv
  <2>4. SearchedInv'
    <3> SUFFICES ASSUME Fallen = {}, NEW s \in Started, s < pos
                 PROVE  \/ \E i \in 1 .. Len(blocks) : blocks[i].start = s
                        \/ \E v \in Threads : pc'[v] = "search" /\ held[v].start = s
                        \/ \A h \in ClaimedIn(BlockAt(s)) : \E v \in Threads : <<h, s>> \in found'[v]
      BY <1>a, <2>a DEF SearchedInv
    <3>1. ASSUME NEW v \in Threads, pc[v] = "search", held[v].start = s
          PROVE  \/ \E u \in Threads : pc'[u] = "search" /\ held[u].start = s
                 \/ \A h \in ClaimedIn(BlockAt(s)) : \E u \in Threads : <<h, s>> \in found'[u]
      BY <2>a, <2>b, <3>1
    <3>2. ASSUME \A h \in ClaimedIn(BlockAt(s)) : \E v \in Threads : <<h, s>> \in found[v]
          PROVE  \A h \in ClaimedIn(BlockAt(s)) : \E v \in Threads : <<h, s>> \in found'[v]
      BY <2>a, <3>2
    <3> QED BY <3>1, <3>2 DEF HitsInv, SearchedInv
  <2> QED BY <1>a, <2>1, <2>2, <2>3, <2>4 DEF HitsInv
<1>5. ASSUME Recycle(w) \/ Panic(w) PROVE HitsInv'
  <2>a. /\ UNCHANGED <<pos, blocks, found, reader, main>>
        /\ Busy' = Busy \ {w} /\ w \in Busy
        /\ \A v \in Threads : v # w => pc'[v] = pc[v] /\ held'[v] = held[v]
        /\ pc'[w] \in {"lock", "panicked"} /\ Fallen \subseteq Fallen'
        /\ pc[w] = "search" => Fallen' # {}
        /\ pc[w] # "gone"
    BY <1>5 DEF Recycle, Panic, Busy, Fallen
  <2>b. Busy \subseteq Threads
    BY DEF Busy
  <2>1. ChannelInv'
    BY <2>a DEF HitsInv, ChannelInv
  <2>2. HeldInv'
    <3>1. \A v \in Busy' : v \in Busy /\ held'[v] = held[v]
      BY <2>a, <2>b
    <3> QED BY <2>a, <3>1 DEF HitsInv, HeldInv
  <2>3. FoundInv'
    <3>1. \A v \in Busy' : v \in Busy /\ held'[v] = held[v] /\ pc'[v] = pc[v]
      BY <2>a, <2>b
    <3> QED BY <2>a, <3>1 DEF HitsInv, FoundInv
  <2>4. EndInv'
    BY <2>a DEF HitsInv, EndInv
  <2>5. SearchedInv'
    BY <1>b, <2>a DEF HitsInv, SearchedInv
  <2> QED BY <1>a, <2>1, <2>2, <2>3, <2>4, <2>5 DEF HitsInv
<1>6. QED
  BY <1>1, <1>2, <1>3, <1>4, <1>5 DEF Worker

LEMMA HitsNext == Types /\ HitsInv /\ [Next]_vars => HitsInv'
<1> SUFFICES ASSUME Types, HitsInv, [Next]_vars PROVE HitsInv'
  OBVIOUS
<1>1. CASE Reader
  BY <1>1, ReaderHits
<1>2. CASE \E w \in Threads : Worker(w) \/ Panic(w)
  BY <1>2, WorkerHits
<1>3. CASE DropSender
  <2>1. ReaderInv' /\ EndInv'
    BY <1>3 DEF DropSender, HitsInv, ReaderInv, EndInv, Fallen
  <2> QED BY <1>3, <2>1, HitsElsewhere DEF DropSender
<1>4. CASE Join
  <2>1. main' = "done" => Fallen = {}
    <3>1. IsFiniteSet(Fallen)
      BY ThreadSets DEF Fallen
    <3> QED BY <1>4, <3>1, FS_EmptySet DEF Join, Panics, Fallen
  <2>2. main' = "done" => reader = "gone" /\ \A w \in Threads : pc[w] = "gone"
    BY <1>4, <2>1 DEF Join, Gone, Fallen
  <2>3. ReaderInv' /\ EndInv'
    BY <1>4, <2>2 DEF Join, HitsInv, ReaderInv, EndInv, Fallen
  <2> QED BY <1>4, <2>3, HitsElsewhere DEF Join
<1>5. CASE UNCHANGED vars
  <2>1. ReaderInv' /\ EndInv'
    BY <1>5 DEF vars, HitsInv, ReaderInv, EndInv, Fallen
  <2> QED BY <1>5, <2>1, HitsElsewhere DEF vars
<1>6. QED
  BY <1>1, <1>2, <1>3, <1>4, <1>5 DEF Next

LEMMA OnceFromInv == Types /\ HitsInv => EveryHitOnce
<1> SUFFICES ASSUME Types, HitsInv PROVE EveryHitOnce
  OBVIOUS
<1>0. \A w \in Threads : \A p \in found[w] : p \in Hit \X Offsets
  BY DEF Types, TypeOK
<1>1. ASSUME NEW p \in AllFound, NEW q \in AllFound, p[1] = q[1] PROVE p = q
  <2>1. PICK v \in Threads : p \in found[v]
    BY DEF AllFound
  <2>2. PICK w \in Threads : q \in found[w]
    BY DEF AllFound
  <2>3. /\ p[2] \in Started /\ p[1] \in ClaimedIn(BlockAt(p[2]))
        /\ q[2] \in Started /\ q[1] \in ClaimedIn(BlockAt(q[2]))
    BY <2>1, <2>2 DEF HitsInv, FoundInv
  <2>4. p[2] = q[2]
    BY <1>1, <2>3, ClaimedOnce
  <2>5. p = <<p[1], p[2]>> /\ q = <<q[1], q[2]>>
    BY <1>0, <2>1, <2>2
  <2> QED BY <1>1, <2>4, <2>5
<1>2. \A v, w \in Threads : v # w => found[v] \cap found[w] = {}
  BY DEF HitsInv, FoundInv
<1>3. ASSUME main = "done" PROVE {p[1] : p \in AllFound} = Claimed(Source, From, To)
  <2>1. reader = "gone" /\ \A w \in Threads : pc[w] = "gone"
    BY <1>3 DEF HitsInv, EndInv
  <2>2. Fallen = {} /\ \A w \in Threads : pc[w] # "search"
    BY <2>1 DEF Fallen
  <2>3. blocks = <<>>
    BY <2>1, PipelineAssumption DEF HitsInv, EndInv
  <2>4. ~(pos < To)
    BY <2>1, <2>2 DEF HitsInv, EndInv
  <2>5. \A s \in Started : s < pos
    BY <2>4, Constants, Strides DEF Started, Types, TypeOK
  <2>6. \A s \in Started : \A h \in ClaimedIn(BlockAt(s)) : \E w \in Threads : <<h, s>> \in found[w]
    BY <2>2, <2>3, <2>5 DEF HitsInv, SearchedInv
  <2>7. ASSUME NEW h \in Claimed(Source, From, To) PROVE h \in {p[1] : p \in AllFound}
    <3>1. PICK s \in Started : h \in ClaimedIn(BlockAt(s))
      BY BlocksClaimAll
    <3>2. PICK w \in Threads : <<h, s>> \in found[w]
      BY <2>6, <3>1
    <3>3. <<h, s>> \in AllFound /\ <<h, s>>[1] = h
      BY <3>2 DEF AllFound
    <3> QED BY <3>3
  <2>8. ASSUME NEW p \in AllFound PROVE p[1] \in Claimed(Source, From, To)
    <3>1. PICK w \in Threads : p \in found[w]
      BY DEF AllFound
    <3>2. p[2] \in Started /\ p[1] \in ClaimedIn(BlockAt(p[2]))
      BY <3>1 DEF HitsInv, FoundInv
    <3>3. p[1] \in Hits[Source]
      BY <3>2, ClaimedInBlock
    <3> QED BY <3>2, <3>3, BlocksClaimAll
  <2> QED BY <2>7, <2>8
<1>4. QED
  BY <1>1, <1>2, <1>3 DEF EveryHitOnce

-----------------------------------------------------------------------------
(* The theorems.                                                           *)

LEMMA TypesHold == Spec => []Types
<1> QED BY TypesInit, TypesNext, PTL DEF Spec

\* Every reachable state of the pipeline is well typed, for every segment and
\* every number of workers.
THEOREM PipelineTyped == Spec => []TypeOK
<1>1. Types => TypeOK
  BY DEF Types
<1> QED BY <1>1, TypesHold, PTL

\* Whatever the workers and the reader do, and however many workers panic, the
\* buffers in the two channels and in the threads' hands are the Depth it began
\* with: scan_segment's memory is bounded by its pool.
THEOREM PoolIsBounded == Spec => []BuffersAreConserved
<1>1. Types /\ Conserved => BuffersAreConserved
  <2>1. ASSUME Types, Conserved PROVE BuffersAreConserved
    <3>1. Cardinality(Fallen) = Panics
      BY DEF Fallen, Panics
    <3>2. Cardinality(Busy) = Cardinality({w \in Threads : pc[w] \in {"search", "recycle"}})
      BY DEF Busy
    <3>3. /\ Cardinality(Busy) \in Nat /\ Cardinality(Fallen) \in Nat
          /\ recycled \in Nat /\ Len(blocks) \in Nat
      BY <2>1, ThreadSets, PoolSize DEF Busy, Fallen, Types, TypeOK
    <3> QED BY <2>1, <3>1, <3>2, <3>3 DEF Conserved, InHand, BuffersAreConserved
  <2> QED BY <2>1
<1> QED BY <1>1, TypesHold, ConservedInit, ConservedNext, PTL DEF Spec

\* A worker that hands its buffer back never finds the recycle channel full:
\* the send in scan_segment's worker loop cannot wait.
THEOREM HandingBackNeverWaits ==
  Spec => [](\A w \in Threads : pc[w] = "recycle" /\ reader # "gone" => recycled < Depth)
<1>1. Types /\ Conserved => \A w \in Threads : pc[w] = "recycle" /\ reader # "gone" => recycled < Depth
  <2>1. ASSUME Types, Conserved, NEW w \in Threads, pc[w] = "recycle", reader # "gone"
        PROVE  recycled < Depth
    <3>1. w \in Busy
      BY <2>1 DEF Busy
    <3>2. Cardinality(Busy) \in Nat /\ IsFiniteSet(Busy) /\ Cardinality(Fallen) \in Nat
      BY ThreadSets DEF Busy, Fallen
    <3>3. Cardinality(Busy) # 0
      BY <3>1, <3>2, FS_EmptySet
    <3>4. recycled \in Nat /\ Len(blocks) \in Nat /\ InHand \in {0, 1}
      BY <2>1, PoolSize DEF Types, TypeOK, InHand
    <3> QED BY <2>1, <3>2, <3>3, <3>4, PoolSize DEF Conserved
  <2> QED BY <2>1
<1> QED BY <1>1, TypesHold, ConservedInit, ConservedNext, PTL DEF Spec

\* However the workers take turns, together they claim each hit of the segment
\* once, and when scan_segment's first phase ends without a panic they have
\* claimed what CarveOrder defines the carve over.
THEOREM HitsAreClaimedOnce == Spec => []EveryHitOnce
<1> QED BY OnceFromInv, TypesHold, HitsInit, HitsNext, PTL DEF Spec

-----------------------------------------------------------------------------
(* The search for headers: for_each_hit, candidates_at, scan_segment.      *)

\* q lists S, each element once.
Once(q, S) ==
  /\ q \in Seq(S)
  /\ \A x \in S : \E k \in 1 .. Len(q) : q[k] = x
  /\ \A k, l \in 1 .. Len(q) : q[k] = q[l] => k = l

LEMMA NoneOnce == Once(<<>>, {})
BY DEF Once

LEMMA OnceJoin ==
  ASSUME NEW q, NEW r, NEW S, NEW T, Once(q, S), Once(r, T), S \cap T = {}
  PROVE  Once(q \o r, S \cup T)
<1> DEFINE n == Len(q)
           m == Len(r)
           j == q \o r
<1>1. /\ q \in Seq(S \cup T) /\ r \in Seq(S \cup T) /\ n \in Nat /\ m \in Nat
      /\ \A k \in 1 .. n : q[k] \in S
      /\ \A k \in 1 .. m : r[k] \in T
  BY DEF Once
<1>2. /\ j \in Seq(S \cup T) /\ Len(j) = n + m
      /\ \A k \in 1 .. n : j[k] = q[k]
      /\ \A k \in n + 1 .. n + m : j[k] = r[k - n] /\ k - n \in 1 .. m
  BY <1>1
<1>3. \A k \in 1 .. m : j[n + k] = r[k] /\ n + k \in 1 .. n + m
  <2> SUFFICES ASSUME NEW k \in 1 .. m PROVE j[n + k] = r[k] /\ n + k \in 1 .. n + m
    OBVIOUS
  <2>1. n + k \in n + 1 .. n + m /\ (n + k) - n = k
    BY <1>1
  <2>2. QED
    BY <1>1, <1>2, <2>1
<1>4. ASSUME NEW x \in S \cup T PROVE \E k \in 1 .. n + m : j[k] = x
  <2>1. CASE x \in S
    <3>1. PICK k \in 1 .. n : q[k] = x
      BY <2>1 DEF Once
    <3>2. QED
      BY <1>1, <1>2, <3>1
  <2>2. CASE x \in T
    <3>1. PICK k \in 1 .. m : r[k] = x
      BY <2>2 DEF Once
    <3>2. QED
      BY <1>3, <3>1
  <2>3. QED
    BY <2>1, <2>2
<1>5. ASSUME NEW k \in 1 .. n + m, NEW l \in 1 .. n + m, j[k] = j[l] PROVE k = l
  <2> HIDE DEF j, n, m
  <2>1. k \in 1 .. n \/ k \in n + 1 .. n + m
    BY <1>1
  <2>2. l \in 1 .. n \/ l \in n + 1 .. n + m
    BY <1>1
  <2>3. CASE k \in 1 .. n /\ l \in 1 .. n
    BY <1>2, <1>5, <2>3 DEF Once, n
  <2>4. CASE k \in n + 1 .. n + m /\ l \in n + 1 .. n + m
    <3>1. r[k - n] = r[l - n] /\ k - n \in 1 .. m /\ l - n \in 1 .. m
      BY <1>2, <1>5, <2>4
    <3>2. k - n = l - n
      BY <3>1 DEF Once, m
    <3>3. QED
      BY <1>1, <3>2
  <2>5. CASE k \in 1 .. n /\ l \in n + 1 .. n + m
    <3>1. j[k] \in S /\ j[l] \in T
      BY <1>1, <1>2, <2>5
    <3>2. QED
      BY <1>5, <3>1
  <2>6. CASE k \in n + 1 .. n + m /\ l \in 1 .. n
    <3>1. j[l] \in S /\ j[k] \in T
      BY <1>1, <1>2, <2>6
    <3>2. QED
      BY <1>5, <3>1
  <2>7. QED
    BY <2>1, <2>2, <2>3, <2>4, <2>5, <2>6
<1> HIDE DEF j, n, m
<1>6. QED
  BY <1>2, <1>4, <1>5 DEF Once, j

\* The lists of ss list the sets of P, which are disjoint.
ListsParts(ss, P) ==
  /\ \A k \in 1 .. Len(ss) : Once(ss[k], P[k])
  /\ \A k, l \in 1 .. Len(ss) : k # l => P[k] \cap P[l] = {}

Whole(P) == UNION {P[k] : k \in DOMAIN P}

\* One after another they list all of them.
LEMMA FlattenOnce ==
  ASSUME NEW V, NEW ss \in Seq(Seq(V)), NEW P \in [1 .. Len(ss) -> SUBSET V],
         ListsParts(ss, P)
  PROVE  Once(FlattenSeq(ss), Whole(P))
<1> DEFINE n == Len(ss)
           Upto(k) == UNION {P[j] : j \in 1 .. k}
           Value(f, i) == IF i = 1 THEN ss[i] ELSE f[i - 1] \o ss[i]
           Right(f) == f = [i \in 1 .. n |-> IF i = 1 THEN ss[i] ELSE f[i - 1] \o ss[i]]
           g == CHOOSE f : Right(f)
<1>0. /\ \A k \in 1 .. n : Once(ss[k], P[k])
      /\ \A k, l \in 1 .. n : k # l => P[k] \cap P[l] = {}
      /\ Whole(P) = Upto(n)
  BY DEF ListsParts, Whole
<1>1. n \in Nat /\ \A k \in 1 .. n : ss[k] \in Seq(V)
  OBVIOUS
<1>2. CASE n = 0
  <2>1. FlattenSeq(ss) = <<>>
    BY <1>2 DEF FlattenSeq
  <2>2. Upto(n) = {}
    BY <1>2
  <2>3. QED
    BY <1>0, <2>1, <2>2, NoneOnce
<1>3. CASE n # 0
  <2>1. FlattenSeq(ss) = g[n]
    BY <1>3 DEF FlattenSeq
  <2>2. \E f : Right(f)
    <3> DEFINE Reached(f, k) == \A i \in 1 .. k + 1 : f[i] = Value(f, i)
               reached == {k \in 0 .. n - 1 : \E f \in [1 .. n -> Seq(V)] : Reached(f, k)}
    <3>1. 0 \in reached
      <4> DEFINE f == [i \in 1 .. n |-> ss[1]]
      <4>1. 1 \in 1 .. n /\ ss[1] \in Seq(V)
        BY <1>1, <1>3
      <4>2. f \in [1 .. n -> Seq(V)] /\ f[1] = ss[1]
        BY <4>1
      <4>3. Reached(f, 0)
        <5> HIDE DEF f
        <5>1. QED
          BY <4>2
      <4>4. 0 \in 0 .. n - 1
        BY <1>1, <1>3
      <4> HIDE DEF f, Reached
      <4>5. QED
        BY <4>2, <4>3, <4>4
    <3>2. ASSUME NEW k \in 0 .. (n - 1) - 1, k \in reached PROVE k + 1 \in reached
      <4>1. PICK f \in [1 .. n -> Seq(V)] : Reached(f, k)
        BY <3>2
      <4>2. k + 1 \in 1 .. n /\ k + 2 \in 1 .. n /\ k + 1 \in 0 .. n - 1 /\ (k + 1) + 1 = k + 2
        BY <1>1
      <4>3. f[k + 1] \o ss[k + 2] \in Seq(V)
        <5>1. f[k + 1] \in Seq(V) /\ ss[k + 2] \in Seq(V)
          BY <1>1, <4>2
        <5>2. \A a, b \in Seq(V) : a \o b \in Seq(V)
          OBVIOUS
        <5>3. QED
          BY <5>1, <5>2, Zenon
      <4> DEFINE h == [f EXCEPT ![k + 2] = f[k + 1] \o ss[k + 2]]
      <4>4. h \in [1 .. n -> Seq(V)]
        BY <4>3
      <4>5. ASSUME NEW i \in 1 .. (k + 1) + 1 PROVE h[i] = Value(h, i)
        <5>0. i \in 1 .. n /\ i \in Int
          BY <4>2
        <5>1. CASE i = k + 2
          <6>1. i # 1 /\ i - 1 = k + 1 /\ k + 1 # k + 2
            BY <5>1
          <6>2. h[i] = f[k + 1] \o ss[k + 2] /\ h[k + 1] = f[k + 1]
            BY <4>2, <5>1, <6>1
          <6> HIDE DEF h
          <6>3. QED
            BY <5>1, <6>1, <6>2
        <5>2. CASE i # k + 2
          <6>1. i \in 1 .. k + 1 /\ h[i] = f[i]
            BY <5>0, <5>2
          <6>2. i # 1 => i - 1 \in 1 .. n /\ i - 1 # k + 2
            BY <5>0, <6>1
          <6>3. i # 1 => h[i - 1] = f[i - 1]
            BY <6>2
          <6>4. f[i] = Value(f, i)
            BY <4>1, <6>1
          <6> HIDE DEF h
          <6>5. QED
            BY <6>1, <6>3, <6>4
        <5>3. QED
          BY <5>1, <5>2
      <4>6. Reached(h, k + 1)
        BY <4>5
      <4> HIDE DEF h, Reached
      <4>7. QED
        BY <4>2, <4>4, <4>6
    <3>3. n - 1 \in reached
      <4>1. n - 1 \in Nat
        BY <1>1, <1>3
      <4> HIDE DEF reached, n
      <4>2. \A k \in 0 .. (n - 1) - 1 : k \in reached => k + 1 \in reached
        BY <3>2
      <4>3. 0 .. n - 1 \subseteq reached
        BY <3>1, <4>2, <4>1, CountingUp
      <4>4. QED
        BY <4>1, <4>3
    <3>4. PICK f \in [1 .. n -> Seq(V)] : Reached(f, n - 1)
      BY <3>3
    <3>5. \A i \in 1 .. n : f[i] = Value(f, i)
      <4>1. (n - 1) + 1 = n
        BY <1>1
      <4>2. QED
        BY <3>4, <4>1
    <3>6. f = [i \in 1 .. n |-> f[i]]
      OBVIOUS
    <3>7. Right(f)
      BY <3>5, <3>6, Zenon
    <3>8. QED
      BY <3>7
  <2>3. Right(g)
    <3> HIDE DEF Right
    <3>1. QED
      BY <2>2
  <2> HIDE DEF g
  <2>4. \A i \in 1 .. n : g[i] = Value(g, i)
    BY <2>3
  <2> DEFINE S == {k \in 0 .. n - 1 : Once(g[k + 1], Upto(k + 1))}
  <2>5. 0 \in S
    <3>1. 1 \in 1 .. n /\ 0 \in 0 .. n - 1 /\ 0 + 1 = 1
      BY <1>1, <1>3
    <3>2. g[1] = ss[1]
      BY <2>4, <3>1
    <3>3. Upto(1) = P[1]
      BY <3>1
    <3>4. Once(ss[1], P[1])
      BY <1>0, <3>1
    <3> HIDE DEF Upto
    <3>5. QED
      BY <3>1, <3>2, <3>3, <3>4
  <2>6. ASSUME NEW k \in 0 .. (n - 1) - 1, k \in S PROVE k + 1 \in S
    <3>1. /\ k + 1 \in 1 .. n /\ k + 2 \in 1 .. n /\ k + 1 \in 0 .. n - 1
          /\ (k + 1) + 1 = k + 2 /\ k + 2 # 1 /\ (k + 2) - 1 = k + 1
      BY <1>1
    <3>2. g[k + 2] = g[k + 1] \o ss[k + 2]
      BY <2>4, <3>1
    <3>3. Upto(k + 2) = Upto(k + 1) \cup P[k + 2]
      <4>1. \A j : j \in 1 .. k + 2 <=> j \in 1 .. k + 1 \/ j = k + 2
        OBVIOUS
      <4>2. QED
        BY <4>1
    <3>4. Upto(k + 1) \cap P[k + 2] = {}
      <4>1. \A j \in 1 .. k + 1 : j \in 1 .. n /\ j # k + 2
        BY <3>1
      <4>2. QED
        BY <1>0, <3>1, <4>1
    <3>5. Once(g[k + 1], Upto(k + 1)) /\ Once(ss[k + 2], P[k + 2])
      BY <1>0, <2>6, <3>1
    <3> HIDE DEF Upto
    <3>6. Once(g[k + 2], Upto(k + 2))
      <4>1. Once(g[k + 1] \o ss[k + 2], Upto(k + 1) \cup P[k + 2])
        BY <3>4, <3>5, OnceJoin, Zenon
      <4>2. QED
        BY <3>2, <3>3, <4>1, Zenon
    <3>7. QED
      BY <3>1, <3>6
  <2>7. n - 1 \in S
    <3>1. n - 1 \in Nat
      BY <1>1, <1>3
    <3> HIDE DEF S, n
    <3>2. \A k \in 0 .. (n - 1) - 1 : k \in S => k + 1 \in S
      BY <2>6
    <3>3. 0 .. n - 1 \subseteq S
      BY <2>5, <3>2, <3>1, CountingUp
    <3>4. QED
      BY <3>1, <3>3
  <2>8. (n - 1) + 1 = n
    BY <1>1
  <2>9. QED
    BY <1>0, <2>1, <2>7, <2>8
<1>4. QED
  BY <1>2, <1>3

LEMMA UpwardOnce ==
  ASSUME NEW S \in SUBSET Int, IsFiniteSet(S)
  PROVE  Once(Upward(S), S)
<1>1. StrictOrder(Ascending(S), S)
  BY AscendingIsStrict
<1>2. QED
  BY <1>1, ListInOrder, ListAscends DEF Once, Upward

LEMMA SetToSeqOnce ==
  ASSUME NEW S, IsFiniteSet(S)
  PROVE  Once(SetToSeq(S), S)
<1> DEFINE n == Cardinality(S)
           q == SetToSeq(S)
<1>1. n \in Nat /\ ExistsBijection(1 .. n, S)
  BY FS_CardinalityType
<1>2. PICK f : f \in Bijection(1 .. n, S)
  BY <1>1 DEF ExistsBijection
<1>3. f \in [1 .. n -> S] /\ IsInjective(f)
  BY <1>2 DEF Bijection, Injection
<1>4. q \in [1 .. n -> S] /\ IsInjective(q)
  BY <1>3 DEF SetToSeq
<1> HIDE DEF q
<1>5. q \in Injection(1 .. n, S)
  BY <1>4 DEF Injection
<1>6. IsFiniteSet(1 .. n) /\ Cardinality(1 .. n) = n
  <2>1. IsFiniteSet(1 .. n) /\ Cardinality(1 .. n) = IF 1 > n THEN 0 ELSE n - 1 + 1
    BY <1>1, FS_Interval
  <2>2. QED
    BY <1>1, <2>1
<1>7. q \in Surjection(1 .. n, S)
  BY <1>5, <1>6, FS_Injection
<1>8. q \in Seq(S) /\ Len(q) = n
  <2> HIDE DEF n
  <2>1. QED
    BY <1>1, <1>4
<1>9. \A k, l \in 1 .. n : q[k] = q[l] => k = l
  BY <1>4 DEF IsInjective
<1>10. \A x \in S : \E k \in 1 .. n : q[k] = x
  BY <1>7 DEF Surjection
<1>11. QED
  BY <1>8, <1>9, <1>10 DEF Once, q

\* A signature as the database holds it.
IsSignature(s) ==
  /\ s.header \in Seq(Nat) /\ s.header # <<>>
  /\ s.fixed \in Seq(BOOLEAN) /\ Len(s.fixed) = Len(s.header)
  /\ s.offset \in Nat

IsDatabase(db) ==
  /\ DOMAIN db = 1 .. Len(db) /\ Len(db) \in Nat /\ db # <<>>
  /\ \A i \in DOMAIN db : IsSignature(db[i])

\* A set of places of a list has a least one.
LEMMA MinIs ==
  ASSUME NEW S \in SUBSET Int, IsFiniteSet(S), S # {}
  PROVE  Min(S) \in S /\ \A x \in S : Min(S) <= x
BY LeastExists DEF Min

LEMMA MaxIs ==
  ASSUME NEW S \in SUBSET Int, IsFiniteSet(S), S # {}
  PROVE  Max(S) \in S /\ \A x \in S : Max(S) >= x
BY GreatestExists DEF Max

\* The byte searched for is one of the header's fixed bytes, if there is one,
\* at its own place.
LEMMA RarestIs ==
  ASSUME NEW s, IsSignature(s)
  PROVE  \/ Rarest(s) = {}
         \/ \E k \in 1 .. Len(s.header) :
              s.fixed[k] /\ Rarest(s) = {[byte |-> s.header[k], at |-> s.offset + k - 1]}
<1> DEFINE fixed == {k \in DOMAIN s.header : s.fixed[k]}
           costs == {Commonness(s.header[k]) : k \in fixed}
           least == Min(costs)
           rare == {j \in fixed : Commonness(s.header[j]) = least}
           k == Min(rare)
<1>1. DOMAIN s.header = 1 .. Len(s.header) /\ Len(s.header) \in Nat
  BY DEF IsSignature
<1>2. Rarest(s) = IF fixed = {} THEN {} ELSE {[byte |-> s.header[k], at |-> s.offset + k - 1]}
  BY DEF Rarest
<1>3. CASE fixed = {}
  BY <1>2, <1>3
<1>4. CASE fixed # {}
  <2>1. IsFiniteSet(fixed)
    <3>1. IsFiniteSet(1 .. Len(s.header))
      BY <1>1, FS_Interval
    <3>2. QED
      BY <1>1, <3>1, FS_Subset
  <2>2. costs \in SUBSET Int /\ costs # {}
    BY <1>4 DEF Commonness
  <2>3. IsFiniteSet(costs)
    <3> DEFINE f == [j \in fixed |-> Commonness(s.header[j])]
    <3>1. IsFiniteSet({f[j] : j \in fixed})
      <4> HIDE DEF fixed
      <4>1. DOMAIN f = fixed
        OBVIOUS
      <4> HIDE DEF f
      <4>2. QED
        BY <2>1, <4>1, ImageIsFinite
    <3>2. costs = {f[j] : j \in fixed}
      OBVIOUS
    <3>3. QED
      BY <3>1, <3>2
  <2>4. least \in costs
    <3> HIDE DEF costs
    <3>1. QED
      BY <2>2, <2>3, MinIs
  <2>5. rare # {} /\ rare \in SUBSET fixed
    BY <2>4
  <2>6. rare \in SUBSET Int /\ IsFiniteSet(rare)
    <3>1. fixed \in SUBSET Int
      BY <1>1
    <3> HIDE DEF fixed, rare
    <3>2. QED
      BY <2>1, <2>5, <3>1, FS_Subset
  <2>7. k \in fixed
    <3> HIDE DEF rare, fixed
    <3>1. k \in rare
      BY <2>5, <2>6, MinIs
    <3>2. QED
      BY <2>5, <3>1
  <2>8. QED
    <3> HIDE DEF k
    <3>1. QED
      BY <1>1, <1>2, <1>4, <2>7
<1>5. QED
  BY <1>3, <1>4

\* How far behind the file's start the search stops for a signature.
Anchor(s) == IF Rarest(s) = {} THEN s.offset ELSE (CHOOSE r \in Rarest(s) : TRUE).at

LEMMA AnchorIs ==
  ASSUME NEW s, IsSignature(s)
  PROVE  /\ Anchor(s) \in Nat /\ Anchor(s) < HeaderEnd(s) /\ HeaderEnd(s) \in Nat
         /\ \A r \in Rarest(s) :
              /\ Rarest(s) = {r} /\ r.at = Anchor(s) /\ r.byte \in Nat
              /\ \A hay, start : Matches(s, hay, start) /\ start \in Nat =>
                   hay[start + 1 + Anchor(s)] = r.byte
<1>1. Len(s.header) \in Nat /\ Len(s.header) # 0 /\ s.offset \in Nat
  BY DEF IsSignature
<1>2. HeaderEnd(s) \in Nat
  BY <1>1 DEF HeaderEnd
<1>3. CASE Rarest(s) = {}
  BY <1>1, <1>2, <1>3 DEF Anchor, HeaderEnd
<1>4. ASSUME NEW k \in 1 .. Len(s.header), s.fixed[k],
             Rarest(s) = {[byte |-> s.header[k], at |-> s.offset + k - 1]}
      PROVE  /\ Anchor(s) \in Nat /\ Anchor(s) < HeaderEnd(s)
             /\ \A r \in Rarest(s) :
                  /\ Rarest(s) = {r} /\ r.at = Anchor(s) /\ r.byte \in Nat
                  /\ \A hay, start : Matches(s, hay, start) /\ start \in Nat =>
                       hay[start + 1 + Anchor(s)] = r.byte
  <2> DEFINE r == [byte |-> s.header[k], at |-> s.offset + k - 1]
  <2>1. Rarest(s) = {r} /\ r.at = s.offset + k - 1 /\ r.byte = s.header[k]
    BY <1>4
  <2> HIDE DEF r
  <2>2. Anchor(s) = r.at
    <3>1. (CHOOSE x \in Rarest(s) : TRUE) \in Rarest(s)
      BY <2>1
    <3>2. (CHOOSE x \in Rarest(s) : TRUE) = r
      BY <2>1, <3>1
    <3>3. QED
      BY <2>1, <3>2 DEF Anchor
  <2>3. Anchor(s) = s.offset + k - 1
    BY <2>1, <2>2
  <2>4. Anchor(s) \in Nat /\ Anchor(s) < HeaderEnd(s)
    BY <1>1, <2>3 DEF HeaderEnd
  <2>5. s.header[k] \in Nat /\ k \in DOMAIN s.header
    BY DEF IsSignature
  <2>6. ASSUME NEW hay, NEW start \in Nat, Matches(s, hay, start)
        PROVE  hay[start + 1 + Anchor(s)] = s.header[k]
    <3>1. hay[start + s.offset + k] = s.header[k]
      BY <1>4, <2>5, <2>6 DEF Matches
    <3>2. start + 1 + Anchor(s) = start + s.offset + k
      BY <1>1, <2>3
    <3>3. QED
      BY <3>1, <3>2
  <2>7. QED
    BY <2>1, <2>2, <2>4, <2>5, <2>6
<1>5. QED
  BY <1>2, <1>3, <1>4, RarestIs

\* The bytes searched for are finitely many numbers.
LEMMA NeedlesAre ==
  ASSUME NEW db, IsDatabase(db)
  PROVE  IsFiniteSet(Needles(db)) /\ Needles(db) \in SUBSET Nat
<1> DEFINE D == DOMAIN db
           B(i) == {r.byte : r \in Rarest(db[i])}
           f == [i \in D |-> B(i)]
<1>1. IsFiniteSet(D)
  BY FS_Interval DEF IsDatabase
<1>2. ASSUME NEW i \in D PROVE IsFiniteSet(B(i)) /\ B(i) \in SUBSET Nat
  <2>1. CASE Rarest(db[i]) = {}
    <3>1. B(i) = {}
      BY <2>1
    <3>2. QED
      BY <3>1, FS_EmptySet
  <2>2. ASSUME NEW r \in Rarest(db[i]) PROVE IsFiniteSet(B(i)) /\ B(i) \in SUBSET Nat
    <3>1. Rarest(db[i]) = {r} /\ r.byte \in Nat
      BY AnchorIs DEF IsDatabase
    <3>2. B(i) = {r.byte}
      BY <3>1
    <3>3. QED
      BY <3>1, <3>2, FS_Singleton
  <2>3. QED
    BY <2>1, <2>2
<1>3. Needles(db) = UNION {f[i] : i \in D}
  BY DEF Needles
<1>4. IsFiniteSet({f[i] : i \in D})
  <2>1. DOMAIN f = D
    OBVIOUS
  <2> HIDE DEF f, D
  <2>2. QED
    BY <1>1, <2>1, ImageIsFinite
<1>5. \A T \in {f[i] : i \in D} : IsFiniteSet(T) /\ T \in SUBSET Nat
  <2> HIDE DEF B
  <2>1. QED
    BY <1>2
<1>6. IsFiniteSet(UNION {f[i] : i \in D})
  <2> HIDE DEF f, D
  <2>1. QED
    BY <1>4, <1>5, FS_UNION
<1>7. QED
  <2> HIDE DEF f, D
  <2>1. QED
    BY <1>3, <1>5, <1>6

\* The places of a list that have one of some bytes, each once.
Having(hay, bytes) == {p \in 1 .. Len(hay) : hay[p] \in bytes}

LEMMA HitsOnce ==
  ASSUME NEW hay \in Seq(Nat), NEW bytes
  PROVE  Once(HitsOf(hay, bytes), Having(hay, bytes))
<1> DEFINE S == Having(hay, bytes)
<1>1. IsFiniteSet(1 .. Len(hay))
  BY FS_Interval
<1>2. S \in SUBSET (1 .. Len(hay)) /\ S \in SUBSET Int
  BY DEF Having
<1>3. IsFiniteSet(S)
  BY <1>1, <1>2, FS_Subset
<1>4. HitsOf(hay, bytes) = Upward(S)
  BY DEF HitsOf, Having
<1>5. QED
  BY <1>2, <1>3, <1>4, UpwardOnce

\* The places looked at.
Searched(db, hay) ==
  IF Strategy(db) = "everything" THEN 1 .. Len(hay) ELSE Having(hay, Needles(db))

\* Three bytes at a time, every byte is in one pass.
LEMMA ChunksPart ==
  ASSUME NEW bytes \in SUBSET Int, IsFiniteSet(bytes)
  PROVE  LET chunks == Chunks(bytes) IN
         /\ DOMAIN chunks = 1 .. (Cardinality(bytes) + 2) \div 3
         /\ (Cardinality(bytes) + 2) \div 3 \in Nat
         /\ \A b \in bytes : \E p \in DOMAIN chunks : b \in chunks[p]
         /\ \A p \in DOMAIN chunks : chunks[p] \subseteq bytes
         /\ \A p, r \in DOMAIN chunks : p # r => chunks[p] \cap chunks[r] = {}
<1> DEFINE v == Upward(bytes)
           m == (Len(v) + 2) \div 3
           chunks == Chunks(bytes)
           At(p) == {k \in DOMAIN v : (k + 2) \div 3 = p}
<1>1. Once(v, bytes)
  BY UpwardOnce
<1>2. Len(v) = Cardinality(bytes)
  BY AscendingIsStrict, ListInOrder DEF Upward
<1>3. v \in Seq(bytes) /\ Len(v) \in Nat /\ DOMAIN v = 1 .. Len(v)
  BY <1>1 DEF Once
<1> HIDE DEF v
<1>4. chunks = [p \in 1 .. m |-> {v[k] : k \in At(p)}]
  BY DEF Chunks, v
<1>5. \A k \in 1 .. Len(v) : (k + 2) \div 3 \in 1 .. m
  BY <1>3
<1>6. m \in Nat
  BY <1>3
<1> HIDE DEF m
<1>7. ASSUME NEW b \in bytes PROVE \E p \in 1 .. m : b \in chunks[p]
  <2>1. PICK k \in 1 .. Len(v) : v[k] = b
    BY <1>1 DEF Once
  <2>2. (k + 2) \div 3 \in 1 .. m /\ k \in At((k + 2) \div 3)
    BY <1>3, <1>5
  <2> HIDE DEF At
  <2>3. QED
    BY <1>4, <2>1, <2>2
<1>8. \A p \in 1 .. m : chunks[p] = {v[k] : k \in At(p)}
  <2> HIDE DEF At
  <2>1. QED
    BY <1>4
<1> HIDE DEF chunks
<1>9. \A p \in 1 .. m : chunks[p] \subseteq bytes
  BY <1>3, <1>8
<1>10. ASSUME NEW p \in 1 .. m, NEW r \in 1 .. m, NEW b, b \in chunks[p], b \in chunks[r]
       PROVE  p = r
  <2>1. PICK k \in At(p) : v[k] = b
    BY <1>8, <1>10
  <2>2. PICK l \in At(r) : v[l] = b
    BY <1>8, <1>10
  <2>3. k = l
    BY <1>1, <1>3, <2>1, <2>2 DEF Once
  <2>4. QED
    BY <2>1, <2>2, <2>3
<1>11. DOMAIN chunks = 1 .. m /\ m = (Cardinality(bytes) + 2) \div 3
  BY <1>2, <1>4 DEF m
<1>12. QED
  BY <1>6, <1>7, <1>9, <1>10, <1>11 DEF chunks

\* However the bytes are searched for, every place looked at is looked at once.
LEMMA ForEachHitOnce ==
  ASSUME NEW db, IsDatabase(db), NEW hay \in Seq(Nat)
  PROVE  Once(ForEachHit(db, hay), Searched(db, hay))
<1>1. CASE Strategy(db) = "everything"
  <2>1. ForEachHit(db, hay) = Upward(1 .. Len(hay))
    BY <1>1 DEF ForEachHit
  <2>2. 1 .. Len(hay) \in SUBSET Int /\ IsFiniteSet(1 .. Len(hay))
    BY FS_Interval
  <2>3. Once(Upward(1 .. Len(hay)), 1 .. Len(hay))
    BY <2>2, UpwardOnce
  <2>4. QED
    BY <1>1, <2>1, <2>3 DEF Searched
<1>2. CASE Strategy(db) = "multi"
  <2> DEFINE bytes == Needles(db)
             chunks == Chunks(bytes)
             n == (Cardinality(bytes) + 2) \div 3
             ss == [p \in 1 .. n |-> HitsOf(hay, chunks[p])]
             P == [p \in 1 .. n |-> Having(hay, chunks[p])]
  <2>1. bytes \in SUBSET Int /\ IsFiniteSet(bytes)
    BY NeedlesAre
  <2> HIDE DEF bytes
  <2>2. /\ DOMAIN chunks = 1 .. n /\ n \in Nat
        /\ \A b \in bytes : \E p \in 1 .. n : b \in chunks[p]
        /\ \A p \in 1 .. n : chunks[p] \subseteq bytes
        /\ \A p, r \in 1 .. n : p # r => chunks[p] \cap chunks[r] = {}
    BY <2>1, ChunksPart
  <2>3. ForEachHit(db, hay) = FlattenSeq(ss)
    <3>1. Strategy(db) # "everything"
      BY <1>2
    <3>2. ForEachHit(db, hay) = FlattenSeq([p \in DOMAIN chunks |-> HitsOf(hay, chunks[p])])
      BY <1>2, <3>1 DEF ForEachHit, bytes
    <3>3. QED
      BY <2>2, <3>2
  <2> HIDE DEF chunks, n
  <2>4. \A p \in 1 .. n : Once(HitsOf(hay, chunks[p]), Having(hay, chunks[p]))
    BY HitsOnce
  <2>5. \A p \in 1 .. n : HitsOf(hay, chunks[p]) \in Seq(Int)
    <3> SUFFICES ASSUME NEW p \in 1 .. n PROVE HitsOf(hay, chunks[p]) \in Seq(Int)
      OBVIOUS
    <3>1. Having(hay, chunks[p]) \subseteq Int
      BY DEF Having
    <3>2. HitsOf(hay, chunks[p]) \in Seq(Having(hay, chunks[p]))
      BY <2>4 DEF Once
    <3>3. QED
      BY <3>1, <3>2
  <2>6. ss \in Seq(Seq(Int)) /\ Len(ss) = n
    BY <2>2, <2>5
  <2>7. P \in [1 .. Len(ss) -> SUBSET Int]
    <3>1. \A p \in 1 .. n : Having(hay, chunks[p]) \in SUBSET Int
      BY DEF Having
    <3> HIDE DEF ss
    <3>2. QED
      BY <2>6, <3>1
  <2>8. ListsParts(ss, P)
    <3>1. \A p \in 1 .. Len(ss) : Once(ss[p], P[p])
      BY <2>4, <2>6
    <3>2. \A p, r \in 1 .. Len(ss) : p # r => P[p] \cap P[r] = {}
      BY <2>2, <2>6 DEF Having
    <3> HIDE DEF ss, P
    <3>3. QED
      BY <3>1, <3>2 DEF ListsParts
  <2>9. Whole(P) = Having(hay, bytes)
    BY <2>2 DEF Having, Whole
  <2> HIDE DEF ss, P
  <2>10. ss \in Seq(Seq(Int))
    BY <2>6
  <2>11. Once(FlattenSeq(ss), Whole(P))
    BY <2>7, <2>8, <2>10, FlattenOnce
  <2>12. Strategy(db) # "everything"
    BY <1>2
  <2>13. QED
    BY <2>3, <2>9, <2>11, <2>12 DEF Searched, bytes
<1>3. CASE Strategy(db) # "everything" /\ Strategy(db) # "multi"
  <2>1. ForEachHit(db, hay) = HitsOf(hay, Needles(db))
    BY <1>3 DEF ForEachHit
  <2>2. QED
    BY <1>3, <2>1, HitsOnce DEF Searched
<1>4. QED
  BY <1>1, <1>2, <1>3

\* The candidates of a hit are the matches whose byte the hit is.
LEMMA CandidatesAre ==
  ASSUME NEW db, IsDatabase(db), NEW hay \in Seq(Nat), NEW hit \in 1 .. Len(hay)
  PROVE  CandidatesAt(db, hay, hit) =
           {c \in [sig : DOMAIN db, start : Nat] :
              Matches(db[c.sig], hay, c.start) /\ hit = c.start + 1 + Anchor(db[c.sig])}
<1> DEFINE byByte == UNION {{[sig |-> i, start |-> hit - 1 - r.at] :
                               r \in {q \in Rarest(db[i]) : q.byte = hay[hit]}} : i \in DOMAIN db}
           unfiltered == {[sig |-> i, start |-> hit - 1 - db[i].offset] : i \in Unfiltered(db)}
           all == byByte \cup unfiltered
           right == {c \in [sig : DOMAIN db, start : Nat] :
                       Matches(db[c.sig], hay, c.start) /\ hit = c.start + 1 + Anchor(db[c.sig])}
<1>1. CandidatesAt(db, hay, hit) = {c \in all : c.start >= 0 /\ Matches(db[c.sig], hay, c.start)}
  BY DEF CandidatesAt
<1>2. \A i \in DOMAIN db : IsSignature(db[i]) /\ Anchor(db[i]) \in Nat
  BY AnchorIs DEF IsDatabase
<1>3. ASSUME NEW c \in all, c.start >= 0, Matches(db[c.sig], hay, c.start) PROVE c \in right
  <2>1. \E i \in DOMAIN db : c = [sig |-> i, start |-> hit - 1 - Anchor(db[i])]
    <3>1. CASE c \in byByte
      <4>1. PICK i \in DOMAIN db :
              c \in {[sig |-> i, start |-> hit - 1 - r.at] :
                       r \in {q \in Rarest(db[i]) : q.byte = hay[hit]}}
        BY <3>1
      <4>2. PICK r \in Rarest(db[i]) : c = [sig |-> i, start |-> hit - 1 - r.at]
        BY <4>1
      <4>3. r.at = Anchor(db[i])
        BY <1>2, AnchorIs
      <4>4. QED
        BY <4>2, <4>3
    <3>2. CASE c \in unfiltered
      <4>1. PICK i \in Unfiltered(db) : c = [sig |-> i, start |-> hit - 1 - db[i].offset]
        BY <3>2
      <4>2. i \in DOMAIN db /\ Anchor(db[i]) = db[i].offset
        BY DEF Unfiltered, Anchor
      <4>3. QED
        BY <4>1, <4>2
    <3>3. QED
      BY <1>3, <3>1, <3>2
  <2>2. PICK i \in DOMAIN db : c = [sig |-> i, start |-> hit - 1 - Anchor(db[i])]
    BY <2>1
  <2>3. c.sig = i /\ c.start = hit - 1 - Anchor(db[i])
    BY <2>2
  <2>4. c.start \in Nat /\ hit = c.start + 1 + Anchor(db[i])
    BY <1>2, <1>3, <2>3
  <2>5. c \in [sig : DOMAIN db, start : Nat]
    BY <2>2, <2>3, <2>4
  <2>6. QED
    BY <1>3, <2>3, <2>4, <2>5
<1>4. ASSUME NEW c \in right PROVE c \in all /\ c.start >= 0 /\ Matches(db[c.sig], hay, c.start)
  <2> DEFINE i == c.sig
  <2>1. /\ i \in DOMAIN db /\ c.start \in Nat /\ Matches(db[i], hay, c.start)
        /\ hit = c.start + 1 + Anchor(db[i])
        /\ c = [sig |-> i, start |-> c.start]
    OBVIOUS
  <2>2. c.start = hit - 1 - Anchor(db[i])
    BY <1>2, <2>1
  <2> HIDE DEF i
  <2>3. CASE Rarest(db[i]) = {}
    <3>1. i \in Unfiltered(db) /\ Anchor(db[i]) = db[i].offset
      BY <2>1, <2>3 DEF Unfiltered, Anchor
    <3>2. c \in unfiltered
      BY <2>1, <2>2, <3>1
    <3> HIDE DEF unfiltered, byByte
    <3>3. QED
      BY <2>1, <3>2 DEF i
  <2>4. ASSUME NEW r \in Rarest(db[i]) PROVE c \in all
    <3>1. r.at = Anchor(db[i]) /\ hay[hit] = r.byte
      BY <1>2, <2>1, AnchorIs
    <3>2. c \in {[sig |-> i, start |-> hit - 1 - q.at] : q \in {q \in Rarest(db[i]) : q.byte = hay[hit]}}
      BY <2>1, <2>2, <3>1
    <3>3. c \in byByte
      BY <2>1, <3>2
    <3> HIDE DEF unfiltered, byByte
    <3>4. QED
      BY <3>3
  <2> HIDE DEF unfiltered, byByte
  <2>5. QED
    BY <2>1, <2>3, <2>4 DEF i
<1> HIDE DEF all
<1>5. \A c : c \in right => c \in all /\ c.start >= 0 /\ Matches(db[c.sig], hay, c.start)
  BY <1>4
<1>6. \A c \in all : c.start >= 0 /\ Matches(db[c.sig], hay, c.start) => c \in right
  BY <1>3
<1> HIDE DEF right
<1>7. CandidatesAt(db, hay, hit) = right
  BY <1>1, <1>5, <1>6
<1>8. QED
  BY <1>7 DEF right

\* The byte of every match is looked at.
LEMMA MatchIsLookedAt ==
  ASSUME NEW db, IsDatabase(db), NEW hay \in Seq(Nat), NEW i \in DOMAIN db, NEW start \in Nat,
         Matches(db[i], hay, start)
  PROVE  start + 1 + Anchor(db[i]) \in Searched(db, hay)
<1> DEFINE p == start + 1 + Anchor(db[i])
<1>1. IsSignature(db[i])
  BY DEF IsDatabase
<1>2. /\ Anchor(db[i]) \in Nat /\ Anchor(db[i]) < HeaderEnd(db[i]) /\ HeaderEnd(db[i]) \in Nat
      /\ start + HeaderEnd(db[i]) <= Len(hay) /\ Len(hay) \in Nat
  BY <1>1, AnchorIs DEF Matches
<1>3. p \in 1 .. Len(hay)
  BY <1>2
<1>4. CASE Strategy(db) = "everything"
  BY <1>3, <1>4 DEF Searched
<1>5. CASE Strategy(db) # "everything"
  <2>1. Unfiltered(db) = {}
    BY <1>5 DEF Strategy
  <2>2. PICK r : r \in Rarest(db[i])
    BY <2>1 DEF Unfiltered
  <2>3. hay[p] = r.byte
    BY <1>1, <2>2, AnchorIs
  <2>4. r.byte \in Needles(db)
    BY <2>2 DEF Needles
  <2> HIDE DEF p
  <2>5. QED
    BY <1>3, <1>5, <2>3, <2>4 DEF Searched, Having, p
<1>6. QED
  BY <1>4, <1>5

\* The matches that begin in the "owned" bytes of a block that begins at from.
MatchesIn(db, piece, from, owned) ==
  {c \in [sig : DOMAIN db, start : Nat] :
     from <= c.start /\ c.start < from + owned /\ Matches(db[c.sig], piece, c.start - from)}

\* A worker claims each of them once.
LEMMA BlockOnce ==
  ASSUME NEW db, IsDatabase(db), NEW piece \in Seq(Nat), NEW from \in Nat, NEW owned \in Nat
  PROVE  LET hits == ForEachHit(db, piece)
             Of(k) == {c \in CandidatesAt(db, piece, hits[k]) : c.start < owned}
         IN  Once(FlattenSeq([k \in DOMAIN hits |->
                    SetToSeq({[sig |-> c.sig, start |-> from + c.start] : c \in Of(k)})]),
                  MatchesIn(db, piece, from, owned))
<1> DEFINE hits == ForEachHit(db, piece)
           Of(k) == {c \in CandidatesAt(db, piece, hits[k]) : c.start < owned}
           Moved(c) == [sig |-> c.sig, start |-> from + c.start]
           n == Len(hits)
           P == [k \in 1 .. n |-> {Moved(c) : c \in Of(k)}]
           ss == [k \in 1 .. n |-> SetToSeq({Moved(c) : c \in Of(k)})]
           V == [sig : DOMAIN db, start : Nat]
           all == MatchesIn(db, piece, from, owned)
<1>1. Once(hits, Searched(db, piece))
  BY ForEachHitOnce
<1>2. Searched(db, piece) \subseteq 1 .. Len(piece)
  BY DEF Searched, Having
<1>3. /\ n \in Nat /\ DOMAIN hits = 1 .. n
      /\ \A k \in 1 .. n : hits[k] \in 1 .. Len(piece)
      /\ \A k, l \in 1 .. n : hits[k] = hits[l] => k = l
      /\ \A p \in Searched(db, piece) : \E k \in 1 .. n : hits[k] = p
  BY <1>1, <1>2 DEF Once
<1> HIDE DEF hits, n
<1>4. \A k \in 1 .. n : \A c : c \in Of(k) <=>
        /\ c \in V /\ c.start < owned /\ Matches(db[c.sig], piece, c.start)
        /\ hits[k] = c.start + 1 + Anchor(db[c.sig])
  BY <1>3, CandidatesAre
<1>5. \A i \in DOMAIN db : IsSignature(db[i]) /\ Anchor(db[i]) \in Nat
  BY AnchorIs DEF IsDatabase
<1> HIDE DEF Of
<1>6. ASSUME NEW k \in 1 .. n
      PROVE  \A e : e \in P[k] <=>
               /\ e \in all
               /\ hits[k] = (e.start - from) + 1 + Anchor(db[e.sig])
  <2>1. P[k] = {Moved(c) : c \in Of(k)}
    OBVIOUS
  <2>2. ASSUME NEW e \in P[k]
        PROVE  e \in all /\ hits[k] = (e.start - from) + 1 + Anchor(db[e.sig])
    <3>1. PICK c \in Of(k) : e = Moved(c)
      BY <2>1, <2>2
    <3>2. /\ c \in V /\ c.start < owned /\ Matches(db[c.sig], piece, c.start)
          /\ hits[k] = c.start + 1 + Anchor(db[c.sig])
      BY <1>4
    <3>3. /\ e.sig = c.sig /\ e.start = from + c.start /\ e \in V
          /\ e.start - from = c.start /\ from <= e.start /\ e.start < from + owned
      BY <3>1, <3>2
    <3>4. QED
      BY <3>2, <3>3 DEF MatchesIn
  <2>3. ASSUME NEW e \in all, hits[k] = (e.start - from) + 1 + Anchor(db[e.sig])
        PROVE  e \in P[k]
    <3>1. /\ e \in V /\ from <= e.start /\ e.start < from + owned
          /\ Matches(db[e.sig], piece, e.start - from)
      BY <2>3 DEF MatchesIn
    <3> DEFINE c == [sig |-> e.sig, start |-> e.start - from]
    <3>2. c \in V /\ c.sig = e.sig /\ c.start = e.start - from /\ c.start < owned
      BY <3>1
    <3>3. e = Moved(c)
      BY <3>1
    <3>4. c \in Of(k)
      <4> HIDE DEF c
      <4>1. QED
        BY <1>4, <2>3, <3>1, <3>2
    <3> HIDE DEF c
    <3>5. QED
      BY <2>1, <3>3, <3>4
  <2> HIDE DEF P, all
  <2>4. QED
    BY <2>2, <2>3
<1>7. ASSUME NEW k \in 1 .. n PROVE IsFiniteSet(P[k])
  <2> DEFINE f == [i \in DOMAIN db |-> [sig |-> i, start |-> from + (hits[k] - 1 - Anchor(db[i]))]]
  <2>1. IsFiniteSet(DOMAIN db)
    BY FS_Interval DEF IsDatabase
  <2>2. IsFiniteSet({f[i] : i \in DOMAIN db})
    <3>1. DOMAIN f = DOMAIN db
      OBVIOUS
    <3> HIDE DEF f
    <3>2. QED
      BY <2>1, <3>1, ImageIsFinite
  <2>3. P[k] \subseteq {f[i] : i \in DOMAIN db}
    <3> SUFFICES ASSUME NEW e \in P[k] PROVE e \in {f[i] : i \in DOMAIN db}
      OBVIOUS
    <3>1. e \in V /\ from <= e.start /\ hits[k] = (e.start - from) + 1 + Anchor(db[e.sig])
      BY <1>6 DEF MatchesIn
    <3>2. e.sig \in DOMAIN db /\ e.start = from + (hits[k] - 1 - Anchor(db[e.sig]))
      BY <1>3, <1>5, <3>1
    <3>3. e = f[e.sig]
      BY <3>1, <3>2
    <3> HIDE DEF f
    <3>4. QED
      BY <3>2, <3>3
  <2>4. QED
    BY <2>2, <2>3, FS_Subset
<1>8. \A k \in 1 .. n : ss[k] = SetToSeq(P[k])
  OBVIOUS
<1>9. ss = [k \in DOMAIN hits |-> SetToSeq({[sig |-> c.sig, start |-> from + c.start] : c \in Of(k)})]
  BY <1>3
<1>10. DOMAIN ss = 1 .. n
  OBVIOUS
<1>11. P \in [1 .. n -> SUBSET V] /\ DOMAIN P = 1 .. n
  <2>1. \A k \in 1 .. n : P[k] \in SUBSET V
    BY <1>6 DEF MatchesIn
  <2>2. P = [k \in 1 .. n |-> P[k]]
    OBVIOUS
  <2> HIDE DEF P
  <2>3. QED
    BY <2>1, <2>2
<1>12. \A k, l \in 1 .. n : k # l => P[k] \cap P[l] = {}
  <2> SUFFICES ASSUME NEW k \in 1 .. n, NEW l \in 1 .. n, NEW e, e \in P[k], e \in P[l]
               PROVE  k = l
    OBVIOUS
  <2>1. hits[k] = hits[l]
    <3> HIDE DEF P
    <3>1. QED
      BY <1>6
  <2>2. QED
    BY <1>3, <2>1
<1>13. UNION {P[k] : k \in 1 .. n} = all
  <2>1. ASSUME NEW e \in all PROVE \E k \in 1 .. n : e \in P[k]
    <3>1. /\ e \in V /\ from <= e.start /\ Matches(db[e.sig], piece, e.start - from)
      BY <2>1 DEF MatchesIn
    <3>2. e.start - from \in Nat /\ e.sig \in DOMAIN db
      BY <3>1
    <3>3. (e.start - from) + 1 + Anchor(db[e.sig]) \in Searched(db, piece)
      BY <3>1, <3>2, MatchIsLookedAt
    <3>4. PICK k \in 1 .. n : hits[k] = (e.start - from) + 1 + Anchor(db[e.sig])
      BY <1>3, <3>3
    <3> HIDE DEF P, all
    <3>5. QED
      BY <1>6, <3>4
  <2>2. \A k \in 1 .. n : \A e \in P[k] : e \in all
    BY <1>6
  <2> HIDE DEF P, all
  <2>3. QED
    BY <2>1, <2>2
<1> HIDE DEF P, ss, all
<1>14. \A k \in 1 .. n : Once(ss[k], P[k])
  BY <1>7, <1>8, SetToSeqOnce
<1>15. \A k \in 1 .. n : ss[k] \in Seq(V)
  <2> SUFFICES ASSUME NEW k \in 1 .. n PROVE ss[k] \in Seq(V)
    OBVIOUS
  <2>1. ss[k] \in Seq(P[k]) /\ P[k] \subseteq V
    BY <1>11, <1>14 DEF Once
  <2> HIDE DEF V
  <2>2. QED
    BY <2>1
<1>16. ss \in Seq(Seq(V)) /\ Len(ss) = n
  <2>1. ss = [k \in 1 .. n |-> ss[k]]
    BY DEF ss
  <2> HIDE DEF V
  <2>2. ss \in [1 .. n -> Seq(V)]
    BY <1>15, <2>1
  <2>3. QED
    BY <1>3, <2>2
<1>17. Once(FlattenSeq(ss), Whole(P))
  <2> HIDE DEF V
  <2>1. ss \in Seq(Seq(V))
    BY <1>16
  <2>2. P \in [1 .. Len(ss) -> SUBSET V]
    BY <1>11, <1>16
  <2>3. ListsParts(ss, P)
    BY <1>12, <1>14, <1>16 DEF ListsParts
  <2>4. QED
    BY <2>1, <2>2, <2>3, FlattenOnce
<1>18. Once(FlattenSeq(ss), all)
  BY <1>11, <1>13, <1>17 DEF Whole
<1>19. QED
  BY <1>9, <1>18 DEF Of, hits, all

\* The overlap shows every header that begins in the owned bytes.
LEMMA OverlapIs ==
  ASSUME NEW db, IsDatabase(db)
  PROVE  OverlapOf(db) \in Nat /\ \A i \in DOMAIN db : HeaderEnd(db[i]) <= OverlapOf(db) + 1
<1> DEFINE f == [i \in DOMAIN db |-> HeaderEnd(db[i])]
           S == {0} \cup {HeaderEnd(db[i]) : i \in DOMAIN db}
           span == MaxHeaderSpan(db)
<1>1. \A i \in DOMAIN db : HeaderEnd(db[i]) \in Nat
  BY AnchorIs DEF IsDatabase
<1>2. IsFiniteSet(S)
  <2>1. IsFiniteSet(DOMAIN db)
    BY FS_Interval DEF IsDatabase
  <2>2. IsFiniteSet({f[i] : i \in DOMAIN db})
    <3>1. DOMAIN f = DOMAIN db
      OBVIOUS
    <3> HIDE DEF f
    <3>2. QED
      BY <2>1, <3>1, ImageIsFinite
  <2>3. S = {0} \cup {f[i] : i \in DOMAIN db}
    OBVIOUS
  <2> HIDE DEF f, S
  <2> HIDE DEF f
  <2>4. IsFiniteSet({0})
    BY FS_Singleton
  <2>5. QED
    BY <2>2, <2>3, <2>4, FS_Union
<1>3. S \in SUBSET Nat /\ S # {}
  BY <1>1
<1>4. span \in S /\ \A x \in S : span >= x
  <2>1. span = Max(S)
    BY DEF MaxHeaderSpan
  <2> HIDE DEF S, span
  <2>2. QED
    BY <1>2, <1>3, <2>1, MaxIs
<1>5. span \in Nat /\ \A i \in DOMAIN db : span >= HeaderEnd(db[i])
  <2> HIDE DEF span
  <2>1. QED
    BY <1>3, <1>4
<1> HIDE DEF S, span
<1> DEFINE T == {span - 1, 0}
<1>6. T \in SUBSET Int /\ T # {} /\ IsFiniteSet(T)
  <2>1. T = {span - 1} \cup {0}
    OBVIOUS
  <2>2. IsFiniteSet({span - 1}) /\ IsFiniteSet({0})
    BY FS_Singleton
  <2>3. IsFiniteSet({span - 1} \cup {0})
    BY <2>2, FS_Union
  <2>4. QED
    BY <1>5, <2>1, <2>3
<1>7. OverlapOf(db) = Max(T)
  BY DEF OverlapOf, span
<1>8. Max(T) \in T /\ \A x \in T : Max(T) >= x
  <2> HIDE DEF T
  <2>1. QED
    BY <1>6, MaxIs
<1>9. OverlapOf(db) \in Int /\ OverlapOf(db) >= span - 1 /\ OverlapOf(db) >= 0
  BY <1>5, <1>7, <1>8
<1>10. QED
  BY <1>1, <1>5, <1>9

\* So a block shows the same headers as the whole.
LEMMA BlockShows ==
  ASSUME NEW db, IsDatabase(db), NEW hay \in Seq(Nat),
         NEW from \in Nat, from < Len(hay), NEW owned \in Nat \ {0}
  PROVE  LET piece == SubSeq(hay, from + 1, Min({from + owned + OverlapOf(db), Len(hay)}))
         IN  /\ piece \in Seq(Nat)
             /\ \A i \in DOMAIN db : \A start \in 0 .. owned - 1 :
                  Matches(db[i], piece, start) <=> Matches(db[i], hay, from + start)
<1> DEFINE past == from + owned + OverlapOf(db)
           last == Min({past, Len(hay)})
           piece == SubSeq(hay, from + 1, last)
<1>1. OverlapOf(db) \in Nat /\ \A i \in DOMAIN db : HeaderEnd(db[i]) <= OverlapOf(db) + 1
  BY OverlapIs
<1>2. past \in Nat /\ Len(hay) \in Nat /\ from < past
  BY <1>1
<1>3. last \in {past, Len(hay)} /\ last <= past /\ last <= Len(hay)
  <2> DEFINE T == {past, Len(hay)}
  <2>1. T = {past} \cup {Len(hay)}
    OBVIOUS
  <2> HIDE DEF past
  <2>2. IsFiniteSet(T)
    <3>1. IsFiniteSet({past}) /\ IsFiniteSet({Len(hay)})
      BY FS_Singleton
    <3>2. IsFiniteSet({past} \cup {Len(hay)})
      BY <3>1, FS_Union
    <3>3. QED
      BY <2>1, <3>2
  <2>3. T \in SUBSET Int /\ T # {} /\ past \in T /\ Len(hay) \in T
    BY <1>2
  <2>4. Min(T) \in T /\ \A x \in T : Min(T) <= x
    <3> HIDE DEF T
    <3>1. QED
      BY <2>2, <2>3, MinIs
  <2>5. QED
    BY <2>3, <2>4
<1>4. last \in Nat /\ from < last
  BY <1>2, <1>3
<1> HIDE DEF last, past
<1>5. /\ piece \in Seq(Nat) /\ Len(piece) = last - from
      /\ \A x \in 1 .. last - from : piece[x] = hay[from + x]
  <2>1. from + 1 \in 1 .. Len(hay) + 1 /\ last \in 0 .. Len(hay) /\ from + 1 <= last
    BY <1>2, <1>3, <1>4
  <2>2. piece \in Seq(Nat) /\ Len(piece) = last - (from + 1) + 1
    BY <2>1
  <2>3. \A x \in 1 .. last - from : piece[x] = hay[(from + 1) + x - 1]
    BY <1>4, <2>1
  <2>4. \A x \in 1 .. last - from : (from + 1) + x - 1 = from + x
    BY <1>4
  <2> HIDE DEF piece
  <2>5. QED
    BY <1>4, <2>2, <2>3, <2>4
<1> HIDE DEF piece
<1>6. ASSUME NEW i \in DOMAIN db, NEW start \in 0 .. owned - 1
      PROVE  Matches(db[i], piece, start) <=> Matches(db[i], hay, from + start)
  <2> DEFINE s == db[i]
             end == HeaderEnd(db[i])
  <2>1. /\ IsSignature(s) /\ end \in Nat /\ end <= OverlapOf(db) + 1
        /\ end = s.offset + Len(s.header) /\ s.offset \in Nat /\ Len(s.header) \in Nat
        /\ DOMAIN s.header = 1 .. Len(s.header)
    BY <1>1, AnchorIs DEF IsDatabase, IsSignature, HeaderEnd
  <2> HIDE DEF s, end
  <2>2. start + end <= Len(piece) <=> (from + start) + end <= Len(hay)
    <3>1. (from + start) + end <= past
      BY <1>1, <2>1 DEF past
    <3>2. (from + start) + end <= last <=> (from + start) + end <= Len(hay)
      BY <1>2, <1>3, <2>1, <3>1
    <3>3. QED
      BY <1>4, <1>5, <2>1, <3>2
  <2>3. ASSUME start + end <= Len(piece), NEW k \in DOMAIN s.header
        PROVE  piece[start + s.offset + k] = hay[(from + start) + s.offset + k]
    <3>1. start + s.offset + k \in 1 .. last - from
      <4>1. k \in 1 .. Len(s.header) /\ start \in Nat
        BY <2>1
      <4>2. start + (s.offset + Len(s.header)) <= last - from /\ last - from \in Int
        BY <1>4, <1>5, <2>1, <2>3
      <4>3. \A a, o, l \in Nat : \A h \in 1 .. l : \A w \in Int :
              a + (o + l) <= w => a + o + h \in 1 .. w
        OBVIOUS
      <4>4. s.offset \in Nat /\ Len(s.header) \in Nat
        BY <2>1
      <4>5. QED
        BY <4>1, <4>2, <4>3, <4>4, Zenon
    <3>2. from + (start + s.offset + k) = (from + start) + s.offset + k
      BY <2>1
    <3>3. QED
      BY <1>5, <3>1, <3>2
  <2>4. QED
    BY <2>2, <2>3 DEF Matches, s, end
<1>7. QED
  BY <1>5, <1>6 DEF piece, last, past

\* The blocks of a device tile it.
LEMMA BlocksTile ==
  ASSUME NEW n \in Nat \ {0}, NEW size \in 1 .. n
  PROVE  LET count == (n + size - 1) \div size IN
         /\ count \in Nat
         /\ \A b \in 1 .. count : (b - 1) * size \in Nat /\ (b - 1) * size < n
         /\ \A x \in 0 .. n - 1 : \E b \in 1 .. count :
              (b - 1) * size <= x /\ x < (b - 1) * size + size
         /\ \A a, b \in 1 .. count : a < b => (a - 1) * size + size <= (b - 1) * size
<1> DEFINE count == (n + size - 1) \div size
           left == (n + size - 1) % size
<1>1. size \in Nat \ {0} /\ n + size - 1 \in Nat
  OBVIOUS
<1>2. /\ count \in Nat /\ left \in 0 .. size - 1
      /\ n + size - 1 = size * count + left
  <2> DEFINE x == n + size - 1
  <2>1. x \in Nat
    BY <1>1
  <2> HIDE DEF x
  <2>2. x \div size \in Nat /\ x % size \in 0 .. size - 1 /\ x = size * (x \div size) + (x % size)
    BY <1>1, <2>1, DivSplits
  <2>3. QED
    BY <2>2 DEF x
<1> HIDE DEF count, left
<1>3. \A b \in Int : (b - 1) * size = size * (b - 1) /\ size * (b - 1) = size * b - size
                     /\ size * b \in Int
  BY <1>1
<1> DEFINE all == size * count
<1>4. all \in Int /\ n <= all /\ all <= n + size - 1
  <2>1. all \in Int
    BY <1>1, <1>2
  <2> HIDE DEF all
  <2>2. n + size - 1 = all + left
    BY <1>2 DEF all
  <2>3. QED
    BY <1>1, <1>2, <2>1, <2>2
<1>5. ASSUME NEW b \in 1 .. count PROVE (b - 1) * size \in Nat /\ (b - 1) * size < n
  <2> DEFINE x == size * b
             y == (b - 1) * size
  <2>1. x <= all
    BY <1>1, <1>2, Times
  <2>2. y = x - size /\ x \in Int /\ y \in Int
    BY <1>3
  <2>3. size * 0 <= size * (b - 1)
    <3>1. 0 \in Int /\ b - 1 \in Int /\ 0 <= b - 1
      BY <1>2
    <3>2. QED
      BY <1>1, <3>1, Times
  <2>4. y >= 0
    BY <1>1, <1>3, <2>3
  <2> HIDE DEF x, y, all
  <2>5. y \in Nat /\ y < n
    BY <1>1, <1>4, <2>1, <2>2, <2>4
  <2>6. QED
    BY <2>5 DEF y
<1>6. ASSUME NEW x \in 0 .. n - 1
      PROVE  \E b \in 1 .. count : (b - 1) * size <= x /\ x < (b - 1) * size + size
  <2> DEFINE q == x \div size
             r == x % size
  <2>0. x \in Nat
    BY <1>1
  <2>1. q \in Nat /\ r \in 0 .. size - 1 /\ x = size * q + r
    BY <1>1, <2>0, DivSplits
  <2>2. x < size * count
    <3> HIDE DEF all
    <3>1. x < all
      BY <1>4
    <3>2. QED
      BY <3>1 DEF all
  <2>3. q \in 0 .. count - 1
    <3>1. size \in Nat \ {0} /\ count \in Nat /\ x \in Nat /\ x < size * count
      BY <1>1, <1>2, <2>0, <2>2
    <3>2. QED
      BY <3>1, DivBelow
  <2> HIDE DEF q, r
  <2>4. q + 1 \in 1 .. count /\ (q + 1) - 1 = q
    BY <1>2, <2>3
  <2>5. q * size = size * q /\ size * q \in Int
    BY <1>1, <2>1
  <2> DEFINE y == q * size
  <2>6. y \in Int /\ x = y + r
    BY <2>1, <2>5
  <2> HIDE DEF y
  <2>7. y <= x /\ x < y + size
    BY <1>1, <2>1, <2>6
  <2>8. QED
    BY <2>4, <2>7 DEF y
<1>7. ASSUME NEW a \in 1 .. count, NEW b \in 1 .. count, a < b
      PROVE  (a - 1) * size + size <= (b - 1) * size
  <2>1. a \in Int /\ b - 1 \in Int /\ a <= b - 1
    BY <1>2, <1>7
  <2>2. size * a <= size * (b - 1)
    BY <1>1, <2>1, Times
  <2> DEFINE x == size * a
             y == (a - 1) * size
             z == (b - 1) * size
  <2>3. y = x - size /\ x \in Int /\ y \in Int /\ x <= z
    BY <1>3, <2>1, <2>2
  <2> HIDE DEF x, y, z
  <2>4. y + size <= z
    BY <1>1, <2>3
  <2>5. QED
    BY <2>4 DEF y, z
<1>8. QED
  BY <1>2, <1>5, <1>6, <1>7 DEF count

\* For every signature database, haystack and size of block: each place where a
\* header matches is claimed by one hit of one block, and nothing else is
\* (for_each_hit, candidates_at, and the worker of scan_segment).
THEOREM PrefilterIsExact ==
  ASSUME NEW db, IsDatabase(db), NEW hay \in Seq(Nat)
  PROVE  PrefilterLosesNothing(db, hay)
<1> SUFFICES ASSUME NEW size \in DOMAIN hay
             PROVE  LET count == (Len(hay) + size - 1) \div size
                        claims == FlattenSeq([b \in 1..count |-> ClaimsOf(db, hay, (b - 1) * size, size)]) IN
                    /\ Range(claims) = {c \in [sig : DOMAIN db, start : 0..Len(hay)] :
                                          Matches(db[c.sig], hay, c.start)}
                    /\ IsInjective(claims)
  BY DEF PrefilterLosesNothing
<1> DEFINE n == (Len(hay) + size - 1) \div size
           from == [b \in 1 .. n |-> (b - 1) * size]
           V == [sig : DOMAIN db, start : Nat]
           ss == [b \in 1 .. n |-> ClaimsOf(db, hay, (b - 1) * size, size)]
           P == [b \in 1 .. n |-> {c \in V : /\ from[b] <= c.start /\ c.start < from[b] + size
                                             /\ Matches(db[c.sig], hay, c.start)}]
           headers == {c \in [sig : DOMAIN db, start : 0..Len(hay)] : Matches(db[c.sig], hay, c.start)}
           claims == FlattenSeq(ss)
<1>1. Len(hay) \in Nat \ {0} /\ size \in 1 .. Len(hay)
  OBVIOUS
<1>2. /\ n \in Nat
      /\ \A b \in 1 .. n : from[b] \in Nat /\ from[b] < Len(hay)
      /\ \A x \in 0 .. Len(hay) - 1 : \E b \in 1 .. n : from[b] <= x /\ x < from[b] + size
      /\ \A a, b \in 1 .. n : a < b => from[a] + size <= from[b]
  BY <1>1, BlocksTile
<1> HIDE DEF n
<1>3. \A b \in 1 .. n : ss[b] = ClaimsOf(db, hay, from[b], size)
  OBVIOUS
<1> HIDE DEF from
<1>4. ASSUME NEW b \in 1 .. n PROVE Once(ss[b], P[b])
  <2> DEFINE piece == SubSeq(hay, from[b] + 1, Min({from[b] + size + OverlapOf(db), Len(hay)}))
  <2>1. from[b] \in Nat /\ from[b] < Len(hay) /\ size \in Nat \ {0}
    BY <1>1, <1>2
  <2>2. /\ piece \in Seq(Nat)
        /\ \A i \in DOMAIN db : \A start \in 0 .. size - 1 :
             Matches(db[i], piece, start) <=> Matches(db[i], hay, from[b] + start)
    BY <2>1, BlockShows
  <2> HIDE DEF piece
  <2>3. Once(ss[b], MatchesIn(db, piece, from[b], size))
    <3>1. ss[b] = ClaimsOf(db, hay, from[b], size)
      BY <1>3
    <3> HIDE DEF ss
    <3>2. QED
      BY <2>1, <2>2, <3>1, BlockOnce DEF ClaimsOf, piece
  <2>4. MatchesIn(db, piece, from[b], size) = P[b]
    <3>1. \A c \in V : from[b] <= c.start /\ c.start < from[b] + size =>
            /\ c.start - from[b] \in 0 .. size - 1
            /\ from[b] + (c.start - from[b]) = c.start
      BY <2>1
    <3>2. \A c \in V : from[b] <= c.start /\ c.start < from[b] + size =>
            (Matches(db[c.sig], piece, c.start - from[b]) <=> Matches(db[c.sig], hay, c.start))
      BY <2>2, <3>1
    <3>3. P[b] = {c \in V : /\ from[b] <= c.start /\ c.start < from[b] + size
                            /\ Matches(db[c.sig], hay, c.start)}
      OBVIOUS
    <3> HIDE DEF P
    <3>4. QED
      BY <3>2, <3>3 DEF MatchesIn
  <2>5. QED
    BY <2>3, <2>4
<1>5. P \in [1 .. n -> SUBSET V] /\ DOMAIN ss = 1 .. n
  OBVIOUS
<1>6. \A a, b \in 1 .. n : a # b => P[a] \cap P[b] = {}
  <2> SUFFICES ASSUME NEW a \in 1 .. n, NEW b \in 1 .. n, a < b, NEW c, c \in P[a], c \in P[b]
               PROVE  FALSE
    BY <1>2
  <2>1. c.start < from[a] + size /\ from[b] <= c.start /\ c.start \in Nat
    OBVIOUS
  <2>2. from[a] \in Nat /\ from[b] \in Nat /\ from[a] + size <= from[b]
    BY <1>2
  <2>3. QED
    BY <1>1, <2>1, <2>2
<1>7. UNION {P[b] : b \in 1 .. n} = headers
  <2>1. ASSUME NEW c \in headers PROVE \E b \in 1 .. n : c \in P[b]
    <3>1. c \in V /\ Matches(db[c.sig], hay, c.start)
      OBVIOUS
    <3>2. HeaderEnd(db[c.sig]) \in Nat /\ HeaderEnd(db[c.sig]) > 0
      <4>1. /\ Anchor(db[c.sig]) \in Nat /\ Anchor(db[c.sig]) < HeaderEnd(db[c.sig])
            /\ HeaderEnd(db[c.sig]) \in Nat
        BY <3>1, AnchorIs DEF IsDatabase
      <4>2. QED
        BY <4>1
    <3>3. c.start \in 0 .. Len(hay) - 1
      BY <1>1, <3>1, <3>2 DEF Matches
    <3>4. PICK b \in 1 .. n : from[b] <= c.start /\ c.start < from[b] + size
      BY <1>2, <3>3
    <3>5. QED
      BY <3>1, <3>4
  <2>2. ASSUME NEW b \in 1 .. n, NEW c \in P[b] PROVE c \in headers
    <3>1. c \in V /\ Matches(db[c.sig], hay, c.start)
      OBVIOUS
    <3>2. HeaderEnd(db[c.sig]) \in Nat
      BY <3>1, AnchorIs DEF IsDatabase
    <3>3. c.start \in 0 .. Len(hay)
      BY <1>1, <3>1, <3>2 DEF Matches
    <3>4. QED
      BY <3>1, <3>3
  <2> HIDE DEF P, headers
  <2>3. QED
    BY <2>1, <2>2
<1>8. ss \in Seq(Seq(V)) /\ Len(ss) = n
  <2>1. \A b \in 1 .. n : ss[b] \in Seq(V)
    <3> SUFFICES ASSUME NEW b \in 1 .. n PROVE ss[b] \in Seq(V)
      OBVIOUS
    <3>1. ss[b] \in Seq(P[b]) /\ P[b] \subseteq V
      BY <1>4, <1>5 DEF Once
    <3> HIDE DEF V, P, ss
    <3>2. QED
      BY <3>1
  <2>2. ss = [b \in 1 .. n |-> ss[b]]
    OBVIOUS
  <2> HIDE DEF V, ss
  <2>3. ss \in [1 .. n -> Seq(V)]
    BY <2>1, <2>2
  <2>4. QED
    BY <1>2, <2>3
<1> HIDE DEF P, ss, headers, V
<1>9. Once(claims, headers)
  <2>1. ss \in Seq(Seq(V))
    BY <1>8
  <2>2. P \in [1 .. Len(ss) -> SUBSET V]
    BY <1>5, <1>8
  <2>3. ListsParts(ss, P)
    BY <1>4, <1>6, <1>8 DEF ListsParts
  <2>4. Once(FlattenSeq(ss), Whole(P))
    <3> HIDE DEF claims
    <3>1. QED
      BY <2>1, <2>2, <2>3, FlattenOnce
  <2>5. Whole(P) = headers
    BY <1>5, <1>7 DEF Whole
  <2>6. QED
    BY <2>4, <2>5
<1> HIDE DEF claims
<1>10. Range(claims) = headers /\ IsInjective(claims)
  <2>1. DOMAIN claims = 1 .. Len(claims) /\ \A k \in 1 .. Len(claims) : claims[k] \in headers
    BY <1>9 DEF Once
  <2>2. QED
    BY <1>9, <2>1 DEF Once, Range, IsInjective
<1>11. QED
  BY <1>10 DEF claims, headers, ss, n

=============================================================================
