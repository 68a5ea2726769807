----------------------------- MODULE CarveOrder -----------------------------
(***************************************************************************)
(* What a carve of one range of a device should report: the pure part of   *)
(* rc-carve's scan.rs.                                                     *)
(*                                                                         *)
(* The device is a line of offsets.  Reading it in blocks yields header    *)
(* hits; the hits, in (offset, signature) order, are cut at                *)
(* max_candidates; a validator gives each a verdict and a length; and a    *)
(* candidate lying wholly inside a complete file found earlier is dropped. *)
(*                                                                         *)
(* Everything here is stated over sets, so that it can serve both as the   *)
(* step the code takes and as the reference the steps are compared with.   *)
(***************************************************************************)
EXTENDS Integers, Sequences, FiniteSets

CONSTANTS
  Sources,            \* what may be scanned: a device together with a scan configuration
  Hits,               \* Sources -> the header matches really present on it
  Bad,                \* Sources -> the offsets whose read fails
  RangeStart,         \* the range carved is RangeStart .. RangeEnd - 1
  RangeEnd,
  BlockBytes,         \* ScanOptions::block_bytes
  Overlap,            \* bytes read past a block to see a straddling header
  MaxCandidates,      \* ScanOptions::max_candidates
  Suppress            \* ScanOptions::suppress_contained

Offsets == RangeStart .. RangeEnd

Verdicts == {"valid", "established", "floor", "rejected"}

\* A header match with the verdict its validator gives it.  "established" is a
\* partial file whose own structure fixes its length; "floor" is a partial
\* file whose length is at best a lower bound (0 when none is known).
Hit == [offset : RangeStart .. RangeEnd - 1,
        sig    : Nat,
        span   : Nat,
        length : Nat,
        verdict : Verdicts]

ASSUME RangeAssumption ==
  /\ RangeStart \in Nat
  /\ RangeEnd \in Nat
  /\ RangeStart <= RangeEnd

ASSUME OptionsAssumption ==
  /\ BlockBytes \in Nat \ {0}
  /\ Overlap \in Nat
  /\ MaxCandidates \in Nat
  /\ Suppress \in BOOLEAN

\* One header match per offset and signature.
ASSUME HitsAssumption ==
  \A s \in Sources :
    /\ Hits[s] \subseteq Hit
    /\ IsFiniteSet(Hits[s])
    /\ \A g, h \in Hits[s] : g.offset = h.offset /\ g.sig = h.sig => g = h

-----------------------------------------------------------------------------
(* Reading: which hits a scan of [from, to) claims.                        *)

\* Where the reader's blocks may begin when it starts at from.
BlockStarts(from) == {from + k * BlockBytes : k \in 0 .. RangeEnd}

\* The reader fetches a block and its overlap in one read, which fails whole.
\* The overlap runs past the segment, but never past the range.
BlockReadable(s, b) ==
  \A o \in Bad[s] : ~(b <= o /\ o < b + BlockBytes + Overlap /\ o < RangeEnd)

\* A worker claims a hit that begins in the part of the block it owns.
Claimed(s, from, to) ==
  {h \in Hits[s] :
     /\ from <= h.offset
     /\ h.offset < to
     /\ \E b \in BlockStarts(from) :
          b <= h.offset /\ h.offset < b + BlockBytes /\ BlockReadable(s, b)}

-----------------------------------------------------------------------------
(* Cutting at max_candidates.                                              *)

HitBefore(g, h) ==
  \/ g.offset < h.offset
  \/ g.offset = h.offset /\ g.sig < h.sig

LesserOf(m, n) == IF m <= n THEN m ELSE n

\* T is what is left of the sorted hits S after truncate(budget).
Truncated(T, S, budget) ==
  /\ Cardinality(T) = LesserOf(Cardinality(S), budget)
  /\ \A t \in T, u \in S \ T : HitBefore(t, u)

-----------------------------------------------------------------------------
(* Containment.                                                            *)

Accepted(S) == {h \in S : h.verdict # "rejected"}

End(c) == c.offset + c.length

\* Only a complete file, or one whose own length is established, may suppress.
Judges(c) == c.verdict \in {"valid", "established"}

\* suppress_contained's sort within one offset: longest first, then the longer
\* header; it is stable, so signature order breaks what is left.
OuterFirst(c, d) ==
  \/ c.length > d.length
  \/ /\ c.length = d.length
     /\ \/ c.span > d.span
        \/ c.span = d.span /\ c.sig < d.sig

\* The order candidates are judged and listed in.  Without suppression they
\* stay in the order of the hits.
Precedes(c, d) ==
  \/ c.offset < d.offset
  \/ c.offset = d.offset /\ IF Suppress THEN OuterFirst(c, d) ELSE c.sig < d.sig

\* c lies wholly inside what an earlier candidate of S covers.
Contained(c, S) ==
  /\ Suppress
  /\ c.length > 0
  /\ \E d \in S : Judges(d) /\ Precedes(d, c) /\ End(c) <= End(d)

Kept(S) == {c \in S : ~Contained(c, S)}

-----------------------------------------------------------------------------
(* The reference: one uninterrupted scan of the whole range.               *)

AllClaimed(s) == Claimed(s, RangeStart, RangeEnd)

\* The hits one scan would examine: the first MaxCandidates in order.
Examined(s) ==
  {h \in AllClaimed(s) :
     Cardinality({g \in AllClaimed(s) : HitBefore(g, h)}) < MaxCandidates}

Below(S, upto) == {h \in S : h.offset < upto}

\* The candidates one scan reports that begin below upto.
Reported(s, upto) == Kept(Accepted(Below(Examined(s), upto)))

\* seq lists the set S in judging order, each element once.
Lists(seq, S) ==
  /\ {seq[i] : i \in 1 .. Len(seq)} = S
  /\ \A i, j \in 1 .. Len(seq) : i < j => Precedes(seq[i], seq[j])

\* The set S as that list: a candidate's place is how many of S precede it.
Rank(c, S) == Cardinality({d \in S : Precedes(d, c)})

Listing(S) == [i \in 1 .. Cardinality(S) |-> CHOOSE c \in S : Rank(c, S) = i - 1]

=============================================================================
