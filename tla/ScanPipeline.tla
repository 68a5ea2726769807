---------------------------- MODULE ScanPipeline ----------------------------
(***************************************************************************)
(* rc-carve scan.rs, phase 1 of scan_segment: one reader thread and several *)
(* workers find the header hits of a segment.                              *)
(*                                                                         *)
(*   reader --block channel--> workers (receiving under a mutex)           *)
(*      ^---- recycle channel ----'                                        *)
(*                                                                         *)
(* Buffers cycle: the reader takes one from the recycle channel, fills it, *)
(* and sends it as a block; the worker that receives it searches it and    *)
(* hands it back.  A worker that panics takes its buffer with it.          *)
(***************************************************************************)
EXTENDS CarveOrder

CONSTANTS
  Source,     \* what is scanned
  From, To,   \* the segment
  Threads,    \* the workers
  MaxPanics,  \* bound: workers that panic
  NoWorker,
  NoBlock

ASSUME PipelineAssumption ==
  /\ Source \in Sources
  /\ From \in Offsets /\ To \in Offsets /\ From <= To
  /\ IsFiniteSet(Threads) /\ Threads # {}
  /\ NoWorker \notin Threads
  /\ MaxPanics \in Nat

\* The overlap is one byte less than the longest header, and headers lie
\* wholly on the device.
ASSUME OverlapAssumption ==
  \A h \in Hits[Source] : /\ 1 <= h.span /\ h.span <= Overlap + 1
                          /\ h.offset + h.span <= RangeEnd

VARIABLES
  reader,     \* what the reader does next
  pos,        \* where its next block begins
  block,      \* the block it has read
  blocks,     \* the block channel
  recycled,   \* how many buffers the recycle channel holds
  sender,     \* whether scan_segment itself still holds recycle_tx
  lock,       \* who holds the mutex around block_rx
  pc,         \* what each worker does next
  held,       \* the block each worker has received
  found,      \* each worker's local hits, with the block each was found in
  main        \* "spawned", "join", and how the scope ended

vars == <<reader, pos, block, blocks, recycled, sender, lock, pc, held, found, main>>

\* Buffers in the pool, and blocks the block channel holds.
Depth    == Cardinality(Threads) + 2
Capacity == Cardinality(Threads)

Block == [start : Offsets, owned : 0 .. BlockBytes, filled : 0 .. BlockBytes + Overlap]

Init ==
  /\ reader = "take" /\ pos = From /\ block = NoBlock
  /\ blocks = <<>> /\ recycled = Depth /\ sender = TRUE
  /\ lock = NoWorker
  /\ pc = [w \in Threads |-> "lock"]
  /\ held = [w \in Threads |-> NoBlock]
  /\ found = [w \in Threads |-> {}]
  /\ main = "spawned"

-----------------------------------------------------------------------------
(* The reader                                                              *)

Owned == LesserOf(BlockBytes, To - pos)
Want  == LesserOf(BlockBytes + Overlap, RangeEnd - pos)

\* recycle.recv().
TakeBuffer ==
  /\ reader = "take" /\ pos < To
  /\ recycled > 0
  /\ recycled' = recycled - 1
  /\ reader' = "read"
  /\ UNCHANGED <<pos, block, blocks, sender, lock, pc, held, found, main>>

Gone(w) == pc[w] \in {"gone", "panicked"}

\* Nobody is left who could hand a buffer back.
NoMoreBuffers ==
  /\ reader = "take" /\ pos < To
  /\ recycled = 0
  /\ ~sender /\ \A w \in Threads : Gone(w)
  /\ reader' = "gone"
  /\ UNCHANGED <<pos, block, blocks, recycled, sender, lock, pc, held, found, main>>

\* A block that cannot be read is sent on empty.
ReadBlock ==
  /\ reader = "read"
  /\ block' = IF BlockReadable(Source, pos)
                THEN [start |-> pos, owned |-> LesserOf(Owned, Want), filled |-> Want]
                ELSE [start |-> pos, owned |-> 0, filled |-> 0]
  /\ reader' = "send"
  /\ UNCHANGED <<pos, blocks, recycled, sender, lock, pc, held, found, main>>

\* out.send(), once there is room; block_rx outlives the reader.
SendBlock ==
  /\ reader = "send"
  /\ Len(blocks) < Capacity
  /\ blocks' = Append(blocks, block)
  /\ block' = NoBlock
  /\ pos' = pos + Owned
  /\ reader' = "take"
  /\ UNCHANGED <<recycled, sender, lock, pc, held, found, main>>

\* The segment is read; block_tx and recycle_rx go with the reader.
EndOfSegment ==
  /\ reader = "take" /\ pos >= To
  /\ reader' = "gone"
  /\ UNCHANGED <<pos, block, blocks, recycled, sender, lock, pc, held, found, main>>

Reader == TakeBuffer \/ NoMoreBuffers \/ ReadBlock \/ SendBlock \/ EndOfSegment

-----------------------------------------------------------------------------
(* A worker                                                                *)

Lock(w) ==
  /\ pc[w] = "lock" /\ lock = NoWorker
  /\ lock' = w
  /\ pc' = [pc EXCEPT ![w] = "recv"]
  /\ UNCHANGED <<reader, pos, block, blocks, recycled, sender, held, found, main>>

\* rx.recv(), waiting with the mutex held; it is let go once a block is there.
Receive(w) ==
  /\ pc[w] = "recv" /\ blocks # <<>>
  /\ held' = [held EXCEPT ![w] = Head(blocks)]
  /\ blocks' = Tail(blocks)
  /\ lock' = NoWorker
  /\ pc' = [pc EXCEPT ![w] = "search"]
  /\ UNCHANGED <<reader, pos, block, recycled, sender, found, main>>

Disconnected(w) ==
  /\ pc[w] = "recv" /\ blocks = <<>> /\ reader = "gone"
  /\ lock' = NoWorker
  /\ pc' = [pc EXCEPT ![w] = "gone"]
  /\ UNCHANGED <<reader, pos, block, blocks, recycled, sender, held, found, main>>

\* Headers wholly in the buffer.
Visible(b) ==
  {h \in Hits[Source] : b.start <= h.offset /\ h.offset + h.span <= b.start + b.filled}

\* Mutant: what begins in the overlap is claimed too.
ClaimedVisible(b) == Visible(b)

\* Only those that begin in the part of the block it owns are claimed.
ClaimedIn(b) == {h \in Visible(b) : h.offset - b.start < b.owned}

Search(w) ==
  /\ pc[w] = "search"
  /\ found' = [found EXCEPT ![w] = @ \cup {<<h, held[w].start>> : h \in ClaimedIn(held[w])}]
  /\ pc' = [pc EXCEPT ![w] = "recycle"]
  /\ UNCHANGED <<reader, pos, block, blocks, recycled, sender, lock, held, main>>

Panics == Cardinality({w \in Threads : pc[w] = "panicked"})

\* The worker's thread unwinds: its buffer and its recycle_tx are dropped.
Panic(w) ==
  /\ pc[w] = "search" /\ Panics < MaxPanics
  /\ held' = [held EXCEPT ![w] = NoBlock]
  /\ pc' = [pc EXCEPT ![w] = "panicked"]
  /\ UNCHANGED <<reader, pos, block, blocks, recycled, sender, lock, found, main>>

\* Mutant: a buffer that held an unreadable block is not handed back.
RecycleFilled(w) ==
  /\ pc[w] = "recycle"
  /\ IF reader = "gone" \/ held[w].filled = 0
       THEN UNCHANGED recycled
       ELSE recycled < Depth /\ recycled' = recycled + 1
  /\ held' = [held EXCEPT ![w] = NoBlock]
  /\ pc' = [pc EXCEPT ![w] = "lock"]
  /\ UNCHANGED <<reader, pos, block, blocks, sender, lock, found, main>>

\* recycle_tx.send(), whose failure when the reader is gone is ignored.
Recycle(w) ==
  /\ pc[w] = "recycle"
  /\ IF reader = "gone"
       THEN UNCHANGED recycled
       ELSE recycled < Depth /\ recycled' = recycled + 1
  /\ held' = [held EXCEPT ![w] = NoBlock]
  /\ pc' = [pc EXCEPT ![w] = "lock"]
  /\ UNCHANGED <<reader, pos, block, blocks, sender, lock, found, main>>

Worker(w) == Lock(w) \/ Receive(w) \/ Disconnected(w) \/ Search(w) \/ Recycle(w)

-----------------------------------------------------------------------------
(* scan_segment itself                                                     *)

\* Mutant: scan_segment keeps its recycle_tx.
DropSenderNever ==
  /\ main = "spawned"
  /\ main' = "join"
  /\ UNCHANGED <<reader, pos, block, blocks, recycled, sender, lock, pc, held, found>>

\* drop(recycle_tx), once every worker has its own.
DropSender ==
  /\ main = "spawned"
  /\ sender' = FALSE
  /\ main' = "join"
  /\ UNCHANGED <<reader, pos, block, blocks, recycled, lock, pc, held, found>>

\* The workers are joined and the scope waits for the reader; a worker's panic
\* is then scan_segment's own.
Join ==
  /\ main = "join"
  /\ reader = "gone" /\ \A w \in Threads : Gone(w)
  /\ main' = IF Panics = 0 THEN "done" ELSE "panicked"
  /\ UNCHANGED <<reader, pos, block, blocks, recycled, sender, lock, pc, held, found>>

Ended == main \in {"done", "panicked"}

Next ==
  \/ Reader
  \/ \E w \in Threads : Worker(w) \/ Panic(w)
  \/ DropSender \/ Join

Spec == Init /\ [][Next]_vars

\* Every thread that can take a step is scheduled in the end.
FairSpec ==
  /\ Spec
  /\ WF_vars(Reader)
  /\ \A w \in Threads : WF_vars(Worker(w))
  /\ WF_vars(DropSender \/ Join)

-----------------------------------------------------------------------------
(* Properties                                                              *)

TypeOK ==
  /\ reader \in {"take", "read", "send", "gone"}
  /\ pos \in From .. To
  /\ block \in Block \cup {NoBlock}
  /\ blocks \in Seq(Block) /\ Len(blocks) <= Capacity
  /\ recycled \in 0 .. Depth
  /\ sender \in BOOLEAN
  /\ lock \in Threads \cup {NoWorker}
  /\ pc \in [Threads -> {"lock", "recv", "search", "recycle", "gone", "panicked"}]
  /\ held \in [Threads -> Block \cup {NoBlock}]
  /\ found \in [Threads -> SUBSET (Hit \X Offsets)]
  /\ main \in {"spawned", "join", "done", "panicked"}

AllFound == UNION {found[w] : w \in Threads}

\* However the workers take turns, together they claim each hit of the segment
\* exactly once: the hits the order of CarveOrder is defined over, whichever
\* block straddles them and wherever the segment ends.
EveryHitOnce ==
  /\ \A p, q \in AllFound : p[1] = q[1] => p = q
  /\ \A v, w \in Threads : v # w => found[v] \cap found[w] = {}
  /\ main = "done" => {p[1] : p \in AllFound} = Claimed(Source, From, To)

\* The pool neither leaks nor grows, so that memory is bounded whatever the
\* device's size and no worker ever waits to hand a buffer back.
BuffersAreConserved ==
  reader # "gone" =>
    recycled + Len(blocks)
      + Cardinality({w \in Threads : pc[w] \in {"search", "recycle"}})
      + (IF reader \in {"read", "send"} THEN 1 ELSE 0)
      + Panics = Depth

\* The scan of a segment ends, also when workers panic on the way.
ScanEnds == <>Ended

\* "Err(_) => return, // every worker is gone" (scan.rs): once they are, the
\* reader goes too.
ReaderLeavesWithTheWorkers == (\A w \in Threads : Gone(w)) ~> reader = "gone"

=============================================================================
