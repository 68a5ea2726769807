------------------------- MODULE CarveSessionProofs -------------------------
(***************************************************************************)
(* Proofs about CarveSession: its type invariant, and that the committed   *)
(* rows are always what one uninterrupted scan reports, for every device,  *)
(* every set of hits and every pattern of kills, stops and resumes.  The   *)
(* lemmas about the operators of CarveOrder come first.                    *)
(***************************************************************************)
EXTENDS CarveSession, FiniteSetTheorems, SequenceTheorems, TLAPS

\* Precedes is a strict order on hits.
LEMMA PrecedesAsymmetric ==
  ASSUME NEW c \in Hit, NEW d \in Hit, Precedes(c, d)
  PROVE  ~Precedes(d, c)
BY RangeAssumption, OptionsAssumption DEF Precedes, OuterFirst, Hit

\* Two different hits of one device are ordered one way or the other.
LEMMA PrecedesTotal ==
  ASSUME NEW s \in Sources, NEW c \in Hits[s], NEW d \in Hits[s], c # d
  PROVE  Precedes(c, d) \/ Precedes(d, c)
<1>1. c \in Hit /\ d \in Hit /\ (c.offset = d.offset /\ c.sig = d.sig => c = d)
  BY HitsAssumption
<1>2. QED
  BY <1>1, RangeAssumption DEF Precedes, OuterFirst, Hit

\* Precedes is transitive.
LEMMA PrecedesTransitive ==
  ASSUME NEW b \in Hit, NEW c \in Hit, NEW d \in Hit, Precedes(b, c), Precedes(c, d)
  PROVE  Precedes(b, d)
BY RangeAssumption, OptionsAssumption DEF Precedes, OuterFirst, Hit

\* Two different hits of one device have different (offset, signature) keys.
LEMMA HitBeforeTotal ==
  ASSUME NEW s \in Sources, NEW c \in Hits[s], NEW d \in Hits[s], c # d
  PROVE  HitBefore(c, d) \/ HitBefore(d, c)
<1>1. c \in Hit /\ d \in Hit /\ (c.offset = d.offset /\ c.sig = d.sig => c = d)
  BY HitsAssumption
<1>2. QED
  BY <1>1, RangeAssumption DEF HitBefore, Hit

\* The order hits are cut in is strict.
LEMMA HitBeforeAsymmetric ==
  ASSUME NEW c \in Hit, NEW d \in Hit, HitBefore(c, d)
  PROVE  ~HitBefore(d, c)
BY RangeAssumption DEF HitBefore, Hit

\* Every set of hits met here is a finite set of hits of its device.
LEMMA SubsetsOfHits ==
  ASSUME NEW s \in Sources, NEW S, S \subseteq Hits[s]
  PROVE  S \subseteq Hit /\ IsFiniteSet(S) /\ Cardinality(S) \in Nat
<1>1. Hits[s] \subseteq Hit /\ IsFiniteSet(Hits[s])
  BY HitsAssumption
<1>2. IsFiniteSet(S)
  BY <1>1, FS_Subset
<1>3. QED
  BY <1>1, <1>2, FS_CardinalityType

-----------------------------------------------------------------------------
(* Where blocks begin.                                                     *)

Aligned(o) == \E m \in Nat : o = RangeStart + m * BlockBytes

\* Multiplying by a block's size keeps the order.
LEMMA ProductMonotone ==
  ASSUME NEW a \in Nat, NEW b \in Nat, NEW n \in Nat, a <= b
  PROVE  a * n <= b * n
<1>1. b = a + (b - a) /\ (b - a) \in Nat
  OBVIOUS
<1>2. PICK d \in Nat : b = a + d
  BY <1>1
<1>3. d * n >= 0 /\ d * n \in Nat
  OBVIOUS
<1>4. b * n = a * n + d * n
  BY <1>2
<1>5. QED
  BY <1>3, <1>4

\* A scan that begins on a block boundary of the whole range's scan meets, past
\* its beginning, exactly the blocks the whole range's scan meets.
LEMMA SameBlocks ==
  ASSUME NEW from \in Offsets, Aligned(from),
         NEW o \in Nat, from <= o, o < RangeEnd, NEW b \in Nat,
         b <= o, o < b + BlockBytes
  PROVE  b \in BlockStarts(from) <=> b \in BlockStarts(RangeStart)
<1> USE RangeAssumption, OptionsAssumption
<1>1. PICK m \in Nat : from = RangeStart + m * BlockBytes
  BY DEF Aligned
<1>2. m * BlockBytes \in Nat /\ from \in Nat
  BY DEF Offsets
<1>3. \A k \in Nat : k <= k * BlockBytes
  <2> TAKE k \in Nat
  <2>1. k * 1 <= k * BlockBytes
    BY ProductMonotone
  <2> QED BY <2>1
<1>4. ASSUME b \in BlockStarts(from)
      PROVE  b \in BlockStarts(RangeStart)
  <2>1. PICK k \in 0 .. RangeEnd : b = from + k * BlockBytes
    BY <1>4 DEF BlockStarts
  <2>2. b = RangeStart + (m + k) * BlockBytes
    BY <1>1, <2>1
  <2>3. m + k <= (m + k) * BlockBytes
    BY <1>3
  <2>4. (m + k) * BlockBytes \in Nat
    OBVIOUS
  <2>5. m + k \in 0 .. RangeEnd
    BY <2>2, <2>3, <2>4
  <2> QED BY <2>2, <2>5 DEF BlockStarts
<1>5. ASSUME b \in BlockStarts(RangeStart)
      PROVE  b \in BlockStarts(from)
  <2>1. PICK k \in 0 .. RangeEnd : b = RangeStart + k * BlockBytes
    BY <1>5 DEF BlockStarts
  <2>2. k >= m
    <3> SUFFICES ASSUME k < m PROVE FALSE
      OBVIOUS
    <3>1. (k + 1) * BlockBytes <= m * BlockBytes
      BY ProductMonotone
    <3>2. (k + 1) * BlockBytes = k * BlockBytes + BlockBytes
      OBVIOUS
    <3>3. k * BlockBytes \in Nat
      OBVIOUS
    <3> QED BY <1>1, <1>2, <2>1, <3>1, <3>2, <3>3
  <2>3. PICK d \in Nat : k = m + d
    <3>1. k - m \in Nat /\ k = m + (k - m)
      BY <2>2
    <3> QED BY <3>1
  <2>4. b = from + d * BlockBytes
    BY <1>1, <2>1, <2>3
  <2>5. d <= RangeEnd
    BY <2>3
  <2> QED BY <2>4, <2>5 DEF BlockStarts
<1>6. QED
  BY <1>4, <1>5

\* Where the block that holds a byte begins.
LEMMA DivisionBounds ==
  ASSUME NEW a \in Nat, NEW n \in Nat \ {0}
  PROVE  \E k \in Nat : k * n <= a /\ a < k * n + n
<1>1. (a \div n) \in Nat
  BY Z3
<1>2. (a \div n) * n <= a /\ a < (a \div n) * n + n
  BY Z3
<1>3. QED
  BY <1>1, <1>2

\* Where no read fails, every hit of the segment is claimed.
LEMMA NothingBad ==
  ASSUME NEW s \in Sources, Bad[s] = {},
         NEW from \in Offsets, NEW to \in Offsets
  PROVE  Claimed(s, from, to) = {h \in Hits[s] : from <= h.offset /\ h.offset < to}
<1> USE RangeAssumption, OptionsAssumption
<1>1. ASSUME NEW h \in Hits[s], from <= h.offset, h.offset < to
      PROVE  \E b \in BlockStarts(from) :
               b <= h.offset /\ h.offset < b + BlockBytes /\ BlockReadable(s, b)
  <2>1. h.offset \in Nat /\ from \in Nat /\ h.offset < RangeEnd
    BY <1>1, HitsAssumption DEF Offsets, Hit
  <2>2. (h.offset - from) \in Nat
    BY <1>1, <2>1
  <2>3. PICK k \in Nat : /\ k * BlockBytes <= h.offset - from
                         /\ h.offset - from < k * BlockBytes + BlockBytes
    BY <2>2, DivisionBounds
  <2>4. k <= k * BlockBytes
    <3>1. k * 1 <= k * BlockBytes
      BY ProductMonotone
    <3> QED BY <3>1
  <2>5. k \in 0 .. RangeEnd /\ k * BlockBytes \in Nat
    BY <2>1, <2>3, <2>4
  <2>6. from + k * BlockBytes \in BlockStarts(from)
    BY <2>5 DEF BlockStarts
  <2>7. BlockReadable(s, from + k * BlockBytes)
    BY DEF BlockReadable
  <2> QED BY <2>1, <2>3, <2>5, <2>6, <2>7
<1>2. QED
  BY <1>1 DEF Claimed

\* Segments claim what one scan claims, each hit by the segment it begins in.
LEMMA ClaimedSegment ==
  ASSUME NEW s \in Sources, NEW from \in Offsets, NEW to \in Offsets,
         Aligned(from) \/ Bad[s] = {}
  PROVE  Claimed(s, from, to) =
           {h \in AllClaimed(s) : from <= h.offset /\ h.offset < to}
<1> USE RangeAssumption, OptionsAssumption
<1>0. RangeStart \in Offsets /\ RangeEnd \in Offsets /\ from \in Nat /\ to \in Nat
      /\ RangeStart <= from /\ to <= RangeEnd
  BY DEF Offsets
<1>1. CASE Bad[s] = {}
  <2>1. \A h \in Hits[s] : h.offset \in Nat
    BY HitsAssumption DEF Hit
  <2>2. AllClaimed(s) = {h \in Hits[s] : RangeStart <= h.offset /\ h.offset < RangeEnd}
    BY <1>0, <1>1, NothingBad DEF AllClaimed
  <2> QED BY <1>0, <1>1, <2>1, <2>2, NothingBad
<1>2. CASE Aligned(from)
  <2>1. ASSUME NEW h \in Hits[s], from <= h.offset, h.offset < to
        PROVE  h \in Claimed(s, from, to) <=> h \in AllClaimed(s)
    <3>1. h.offset \in Nat /\ h.offset < RangeEnd /\ RangeStart <= h.offset
      BY <1>0, <2>1, HitsAssumption DEF Hit
    <3>2. \A b \in BlockStarts(from) \cup BlockStarts(RangeStart) : b \in Nat
      BY <1>0 DEF BlockStarts
    <3>3. \A b \in Nat : b <= h.offset /\ h.offset < b + BlockBytes =>
            (b \in BlockStarts(from) <=> b \in BlockStarts(RangeStart))
      BY <1>0, <1>2, <2>1, <3>1, SameBlocks
    <3> QED BY <1>0, <2>1, <3>1, <3>2, <3>3 DEF Claimed, AllClaimed
  <2>2. \A h \in Claimed(s, from, to) : h \in Hits[s] /\ from <= h.offset /\ h.offset < to
    BY DEF Claimed
  <2>3. \A h \in AllClaimed(s) : h \in Hits[s]
    BY DEF AllClaimed, Claimed
  <2> QED BY <2>1, <2>2, <2>3
<1>3. QED
  BY <1>1, <1>2

-----------------------------------------------------------------------------
(* The candidate budget.                                                   *)

\* The first n of a set of hits, spelled out: those with fewer than n before.
LEMMA TruncatedIs ==
  ASSUME NEW s \in Sources, NEW S, S \subseteq Hits[s], NEW n \in Nat,
         NEW T, T \subseteq S, Truncated(T, S, n)
  PROVE  T = {h \in S : Cardinality({g \in S : HitBefore(g, h)}) < n}
<1> DEFINE Prior(h) == {g \in S : HitBefore(g, h)}
<1>1. S \subseteq Hit /\ IsFiniteSet(S) /\ Cardinality(S) \in Nat
  BY SubsetsOfHits
<1>2. IsFiniteSet(T) /\ Cardinality(T) \in Nat /\ Cardinality(T) <= Cardinality(S)
  BY <1>1, FS_Subset, FS_CardinalityType
<1>3. \A h \in S : /\ Prior(h) \subseteq S \ {h} /\ IsFiniteSet(Prior(h))
                   /\ Cardinality(Prior(h)) \in Nat
  <2> TAKE h \in S
  <2>1. h \notin Prior(h)
    BY <1>1, HitBeforeAsymmetric
  <2>2. IsFiniteSet(Prior(h))
    BY <1>1, FS_Subset
  <2> QED BY <2>1, <2>2, FS_CardinalityType
<1>4. ASSUME NEW h \in T
      PROVE  Cardinality(Prior(h)) < n
  <2>1. Prior(h) \subseteq T \ {h}
    <3> SUFFICES ASSUME NEW g \in Prior(h), g \notin T PROVE FALSE
      BY <1>3
    <3>1. HitBefore(h, g) /\ HitBefore(g, h)
      BY DEF Truncated
    <3> QED BY <1>1, <3>1, HitBeforeAsymmetric
  <2>2. IsFiniteSet(T \ {h}) /\ Cardinality(T \ {h}) = Cardinality(T) - 1
    BY <1>2, <1>4, FS_RemoveElement
  <2>3. Cardinality(Prior(h)) <= Cardinality(T) - 1
    BY <2>1, <2>2, FS_Subset
  <2>4. Cardinality(T) <= n
    BY <1>1 DEF Truncated, LesserOf
  <2>5. Cardinality(Prior(h)) \in Nat
    BY <1>3
  <2> HIDE DEF Prior
  <2> QED BY <1>2, <2>3, <2>4, <2>5
<1>5. ASSUME NEW h \in S, h \notin T
      PROVE  ~(Cardinality(Prior(h)) < n)
  <2>1. T # S
    BY <1>5
  <2>2. Cardinality(T) # Cardinality(S)
    BY <1>1, <2>1, FS_Subset
  <2>3. Cardinality(T) = n
    BY <1>1, <2>2 DEF Truncated, LesserOf
  <2>4. T \subseteq Prior(h)
    BY <1>5 DEF Truncated
  <2>5. Cardinality(T) <= Cardinality(Prior(h))
    BY <1>3, <2>4, FS_Subset
  <2> QED BY <1>3, <2>3, <2>5
<1>6. QED
  BY <1>4, <1>5

\* The size of a set in two disjoint parts.
LEMMA DisjointUnion ==
  ASSUME NEW A, NEW B, IsFiniteSet(A), IsFiniteSet(B), A \cap B = {}
  PROVE  Cardinality(A \cup B) = Cardinality(A) + Cardinality(B)
<1>1. Cardinality(A \cap B) = 0
  BY FS_EmptySet
<1>2. Cardinality(A) \in Nat /\ Cardinality(B) \in Nat
  BY FS_CardinalityType
<1>3. Cardinality(A \cup B) = Cardinality(A) + Cardinality(B) - Cardinality(A \cap B)
  BY FS_Union
<1>4. QED
  BY <1>1, <1>2, <1>3

Segment(s, from, to) == {h \in AllClaimed(s) : from <= h.offset /\ h.offset < to}

\* What one scan claims is a finite set of its device's hits, inside the range.
LEMMA ClaimedAreHits ==
  ASSUME NEW s \in Sources
  PROVE  /\ AllClaimed(s) \subseteq Hits[s]
         /\ Examined(s) \subseteq AllClaimed(s)
         /\ \A h \in AllClaimed(s) :
              h \in Hit /\ h.offset \in Nat /\ RangeStart <= h.offset /\ h.offset < RangeEnd
<1>1. AllClaimed(s) \subseteq Hits[s] /\ Examined(s) \subseteq AllClaimed(s)
  BY DEF AllClaimed, Claimed, Examined
<1>2. \A h \in AllClaimed(s) : RangeStart <= h.offset /\ h.offset < RangeEnd
  BY DEF AllClaimed, Claimed
<1>3. \A h \in AllClaimed(s) : h \in Hit
  BY <1>1, HitsAssumption
<1>4. \A h \in Hit : h.offset \in Nat
  BY RangeAssumption DEF Hit
<1>5. QED
  BY <1>1, <1>2, <1>3, <1>4

\* What lies below a segment's end lies below its beginning or in it.
LEMMA BelowSplit ==
  ASSUME NEW s \in Sources, NEW from \in Offsets, NEW to \in Offsets, from <= to
  PROVE  /\ Below(AllClaimed(s), to) = Below(AllClaimed(s), from) \cup Segment(s, from, to)
         /\ Below(AllClaimed(s), from) \cap Segment(s, from, to) = {}
<1>1. from \in Nat /\ to \in Nat
  BY RangeAssumption DEF Offsets
<1>2. \A h \in AllClaimed(s) : h.offset \in Nat
  BY ClaimedAreHits
<1>3. QED
  BY <1>1, <1>2 DEF Below, Segment

\* Cutting each segment at what is left of the budget examines the hits one
\* scan would examine, and leaves the budget one scan would have left.
LEMMA BudgetThreads ==
  ASSUME NEW s \in Sources, NEW from \in Offsets, NEW to \in Offsets, from <= to,
         NEW used \in Nat,
         used = LesserOf(Cardinality(Below(AllClaimed(s), from)), MaxCandidates),
         NEW budget \in Nat,
         budget = (IF used < MaxCandidates THEN MaxCandidates - used ELSE 0),
         NEW T, T \subseteq Segment(s, from, to),
         Truncated(T, Segment(s, from, to), budget)
  PROVE  /\ T = {h \in Examined(s) : from <= h.offset /\ h.offset < to}
         /\ Cardinality(T) \in Nat
         /\ used + Cardinality(T) =
              LesserOf(Cardinality(Below(AllClaimed(s), to)), MaxCandidates)
<1> DEFINE A == Below(AllClaimed(s), from)
           S == Segment(s, from, to)
           Prior(h) == {g \in S : HitBefore(g, h)}
           PriorAll(h) == {g \in AllClaimed(s) : HitBefore(g, h)}
<1> USE OptionsAssumption
<1>1. A \subseteq Hits[s] /\ S \subseteq Hits[s] /\ T \subseteq Hits[s]
  BY ClaimedAreHits DEF Below, Segment
<1>2. /\ IsFiniteSet(A) /\ Cardinality(A) \in Nat
      /\ IsFiniteSet(S) /\ Cardinality(S) \in Nat
      /\ IsFiniteSet(T) /\ Cardinality(T) \in Nat
  BY <1>1, SubsetsOfHits
<1>3. T = {h \in S : Cardinality(Prior(h)) < budget}
  BY <1>1, TruncatedIs
<1>4. ASSUME NEW h \in S
      PROVE  /\ Cardinality(PriorAll(h)) = Cardinality(A) + Cardinality(Prior(h))
             /\ Cardinality(Prior(h)) \in Nat
  <2>1. from \in Nat /\ h.offset \in Nat /\ from <= h.offset /\ h \in AllClaimed(s)
        /\ \A g \in AllClaimed(s) : g.offset \in Nat
    BY ClaimedAreHits, RangeAssumption DEF Segment, Offsets
  <2>2. h.offset < to /\ to \in Nat
    BY RangeAssumption DEF Segment, Offsets
  <2>3. \A g \in PriorAll(h) : g.offset <= h.offset
    BY <2>1 DEF HitBefore
  <2>4. PriorAll(h) = A \cup Prior(h)
    BY <2>1, <2>2, <2>3 DEF Below, Segment, HitBefore
  <2>5. A \cap Prior(h) = {}
    BY <2>1 DEF Below, Segment
  <2>6. IsFiniteSet(Prior(h)) /\ Cardinality(Prior(h)) \in Nat
    BY <1>1, SubsetsOfHits
  <2> QED BY <1>2, <2>4, <2>5, <2>6, DisjointUnion
<1>5. Examined(s) = {h \in AllClaimed(s) : Cardinality(PriorAll(h)) < MaxCandidates}
  BY DEF Examined
<1>6. ASSUME NEW h \in S
      PROVE  h \in T <=> h \in Examined(s)
  <2>1. h \in T <=> Cardinality(Prior(h)) < budget
    BY <1>3, <1>6
  <2>2. h \in Examined(s) <=> Cardinality(PriorAll(h)) < MaxCandidates
    BY <1>5, <1>6 DEF Segment
  <2> HIDE DEF Prior, PriorAll, A, S
  <2>3. used = LesserOf(Cardinality(A), MaxCandidates)
    BY DEF A
  <2> QED BY <1>2, <1>4, <1>6, <2>1, <2>2, <2>3 DEF LesserOf
<1>7. T = {h \in Examined(s) : from <= h.offset /\ h.offset < to}
  <2>1. \A h \in Examined(s) : h \in AllClaimed(s)
    BY ClaimedAreHits
  <2> HIDE DEF A, Prior, PriorAll
  <2> QED BY <1>6, <2>1 DEF Segment
<1>8. Cardinality(Below(AllClaimed(s), to)) = Cardinality(A) + Cardinality(S)
  BY <1>2, BelowSplit, DisjointUnion
<1>9. Cardinality(T) = LesserOf(Cardinality(S), budget)
  BY DEF Truncated
<1>10. used + Cardinality(T) =
         LesserOf(Cardinality(Below(AllClaimed(s), to)), MaxCandidates)
  <2>1. used = LesserOf(Cardinality(A), MaxCandidates)
    OBVIOUS
  <2> HIDE DEF A, S
  <2> QED BY <1>2, <1>8, <1>9, <2>1 DEF LesserOf
<1>11. QED
  BY <1>2, <1>7, <1>10

-----------------------------------------------------------------------------
(* Containment.                                                            *)

\* Whether a candidate is contained is settled by the candidates before it, so
\* what is reported below an offset does not depend on what lies past it.
LEMMA ReportedIsBelow ==
  ASSUME NEW s \in Sources, NEW n \in Offsets
  PROVE  Reported(s, n) = Below(Kept(Accepted(Examined(s))), n)
<1> DEFINE E == Accepted(Examined(s))
           P == Accepted(Below(Examined(s), n))
<1>1. n \in Nat
  BY RangeAssumption DEF Offsets
<1>2. \A h \in E : h \in Hit /\ h.offset \in Nat
  BY ClaimedAreHits DEF Accepted
<1>3. P = Below(E, n)
  BY DEF Accepted, Below
<1>4. ASSUME NEW c \in P
      PROVE  Contained(c, P) <=> Contained(c, E)
  <2>1. \A d \in E : Precedes(d, c) => d \in P
    BY <1>1, <1>2, <1>3 DEF Precedes, Below
  <2>2. P \subseteq E
    BY <1>3 DEF Below
  <2> QED BY <2>1, <2>2 DEF Contained
<1>5. QED
  BY <1>3, <1>4 DEF Reported, Kept, Below

-----------------------------------------------------------------------------
(* Listing.                                                                *)

Prior(c, S) == {d \in S : Precedes(d, c)}

\* What precedes a candidate of S leaves at least the candidate itself.
LEMMA RankTyped ==
  ASSUME NEW s \in Sources, NEW S, S \subseteq Hits[s], NEW c \in S
  PROVE  /\ IsFiniteSet(Prior(c, S)) /\ Rank(c, S) \in Nat
         /\ Rank(c, S) < Cardinality(S)
<1>1. S \subseteq Hit /\ IsFiniteSet(S) /\ Cardinality(S) \in Nat
  BY SubsetsOfHits
<1>2. Prior(c, S) \subseteq S \ {c}
  BY <1>1, PrecedesAsymmetric DEF Prior
<1>3. IsFiniteSet(S \ {c}) /\ Cardinality(S \ {c}) = Cardinality(S) - 1
  BY <1>1, FS_RemoveElement
<1>4. /\ IsFiniteSet(Prior(c, S)) /\ Cardinality(Prior(c, S)) \in Nat
      /\ Cardinality(Prior(c, S)) <= Cardinality(S) - 1
  BY <1>2, <1>3, FS_Subset, FS_CardinalityType
<1>5. Rank(c, S) = Cardinality(Prior(c, S))
  BY DEF Rank, Prior
<1>6. QED
  BY <1>1, <1>4, <1>5

\* Ranks follow the order.
LEMMA RankGrows ==
  ASSUME NEW s \in Sources, NEW S, S \subseteq Hits[s],
         NEW c \in S, NEW d \in S, Precedes(c, d)
  PROVE  Rank(c, S) < Rank(d, S)
<1>1. S \subseteq Hit
  BY SubsetsOfHits
<1>2. /\ IsFiniteSet(Prior(c, S)) /\ Rank(c, S) \in Nat
      /\ IsFiniteSet(Prior(d, S)) /\ Rank(d, S) \in Nat
  BY RankTyped
<1>3. Rank(c, S) = Cardinality(Prior(c, S)) /\ Rank(d, S) = Cardinality(Prior(d, S))
  BY DEF Rank, Prior
<1>4. c \notin Prior(c, S)
  BY <1>1, PrecedesAsymmetric DEF Prior
<1>5. Prior(c, S) \cup {c} \subseteq Prior(d, S)
  BY <1>1, PrecedesTransitive DEF Prior
<1>6. /\ IsFiniteSet(Prior(c, S) \cup {c})
      /\ Cardinality(Prior(c, S) \cup {c}) = Cardinality(Prior(c, S)) + 1
  BY <1>2, <1>4, FS_AddElement
<1>7. Cardinality(Prior(c, S) \cup {c}) <= Cardinality(Prior(d, S))
  BY <1>2, <1>5, FS_Subset
<1>8. QED
  BY <1>2, <1>3, <1>6, <1>7

\* Different candidates have different ranks.
LEMMA RankIsInjective ==
  ASSUME NEW s \in Sources, NEW S, S \subseteq Hits[s],
         NEW c \in S, NEW d \in S, Rank(c, S) = Rank(d, S)
  PROVE  c = d
<1> SUFFICES ASSUME c # d PROVE FALSE
  OBVIOUS
<1>1. Precedes(c, d) \/ Precedes(d, c)
  BY PrecedesTotal
<1>2. Rank(c, S) < Rank(d, S) \/ Rank(d, S) < Rank(c, S)
  BY <1>1, RankGrows
<1>3. Rank(c, S) \in Nat /\ Rank(d, S) \in Nat
  BY RankTyped
<1>4. QED
  BY <1>2, <1>3

\* Every place is some candidate's.
LEMMA RankIsOnto ==
  ASSUME NEW s \in Sources, NEW S, S \subseteq Hits[s], NEW i \in 1 .. Cardinality(S)
  PROVE  \E c \in S : Rank(c, S) = i - 1
<1> DEFINE n == Cardinality(S)
           rank == [c \in S |-> Rank(c, S)]
<1>1. IsFiniteSet(S) /\ n \in Nat
  BY SubsetsOfHits
<1>2. \A c \in S : Rank(c, S) \in 0 .. n - 1
  BY <1>1, RankTyped
<1>3. rank \in Injection(S, 0 .. n - 1)
  <2>1. rank \in [S -> 0 .. n - 1]
    BY <1>2
  <2>2. \A c, d \in S : rank[c] = rank[d] => c = d
    BY RankIsInjective
  <2>3. QED
    BY <2>1, <2>2 DEF Injection, IsInjective
<1>4. IsFiniteSet(0 .. n - 1) /\ Cardinality(0 .. n - 1) = n
  <2>1. 0 \in Int /\ n - 1 \in Int
    BY <1>1
  <2>2. IsFiniteSet(0 .. n - 1) /\ Cardinality(0 .. n - 1) = IF 0 > n - 1 THEN 0 ELSE n - 1 - 0 + 1
    BY <2>1, FS_Interval
  <2>3. QED
    BY <1>1, <2>2
<1>5. rank \in Surjection(S, 0 .. n - 1)
  BY <1>3, <1>4, FS_Injection
<1>6. i - 1 \in 0 .. n - 1
  BY <1>1
<1>7. \E c \in S : rank[c] = i - 1
  BY <1>5, <1>6 DEF Surjection
<1>8. QED
  BY <1>7

\* The listing of a set of one device's hits lists it.
LEMMA ListingLists ==
  ASSUME NEW s \in Sources, NEW S, S \subseteq Hits[s]
  PROVE  /\ Listing(S) \in Seq(Hit) /\ Len(Listing(S)) = Cardinality(S)
         /\ Lists(Listing(S), S)
<1> DEFINE n == Cardinality(S)
           q == Listing(S)
<1>1. S \subseteq Hit /\ n \in Nat
  BY SubsetsOfHits
<1>2. \A i \in 1 .. n : q[i] \in S /\ Rank(q[i], S) = i - 1
  <2> TAKE i \in 1 .. n
  <2>1. \E c \in S : Rank(c, S) = i - 1
    BY RankIsOnto
  <2>2. q[i] = CHOOSE c \in S : Rank(c, S) = i - 1
    BY DEF Listing
  <2>3. QED
    BY <2>1, <2>2
<1>3. q \in [1 .. n -> Hit] /\ q \in Seq(Hit) /\ Len(q) = n
  <2>1. q = [i \in 1 .. n |-> q[i]]
    BY DEF Listing
  <2>2. q \in [1 .. n -> Hit]
    BY <1>1, <1>2, <2>1
  <2> HIDE DEF q, n
  <2>3. QED
    BY <1>1, <2>2
<1>4. ASSUME NEW c \in S PROVE \E i \in 1 .. n : q[i] = c
  <2>1. Rank(c, S) \in Nat /\ Rank(c, S) < n
    BY RankTyped
  <2>2. Rank(c, S) + 1 \in 1 .. n
    BY <1>1, <2>1
  <2>3. PICK i \in 1 .. n : i = Rank(c, S) + 1
    BY <2>2
  <2>4. q[i] \in S /\ Rank(q[i], S) = i - 1
    BY <1>2
  <2>5. Rank(q[i], S) = Rank(c, S)
    BY <2>1, <2>3, <2>4
  <2>6. q[i] = c
    BY <2>4, <2>5, RankIsInjective
  <2>7. QED
    BY <2>6
<1>5. ASSUME NEW i \in 1 .. n, NEW j \in 1 .. n, i < j PROVE Precedes(q[i], q[j])
  <2>1. q[i] \in S /\ q[j] \in S /\ Rank(q[i], S) = i - 1 /\ Rank(q[j], S) = j - 1
    BY <1>2
  <2>2. q[i] # q[j]
    BY <1>5, <2>1
  <2>3. ~Precedes(q[j], q[i])
    <3>1. ~(Rank(q[j], S) < Rank(q[i], S))
      BY <1>5, <2>1
    <3>2. QED
      BY <2>1, <3>1, RankGrows
  <2>4. QED
    BY <2>1, <2>2, <2>3, PrecedesTotal
<1> HIDE DEF q, n
<1>6. {q[i] : i \in 1 .. n} = S
  BY <1>2, <1>4
<1>7. Lists(q, S)
  BY <1>3, <1>5, <1>6 DEF Lists
<1>8. QED
  BY <1>3, <1>7 DEF q, n

\* In a list of a set, a candidate's place is its rank.
LEMMA PlaceIsRank ==
  ASSUME NEW s \in Sources, NEW S, S \subseteq Hits[s],
         NEW q \in Seq(Hit), Lists(q, S), NEW i \in 1 .. Len(q)
  PROVE  q[i] \in S /\ Rank(q[i], S) = i - 1
<1>1. S \subseteq Hit /\ Len(q) \in Nat /\ i \in Nat
  <2>1. S \subseteq Hit
    BY SubsetsOfHits
  <2>2. Len(q) \in Nat
    OBVIOUS
  <2>3. QED
    BY <2>1, <2>2
<1>2. \A j \in 1 .. Len(q) : q[j] \in S
  BY DEF Lists
<1>3. \A c \in S : \E j \in 1 .. Len(q) : q[j] = c
  BY DEF Lists
<1>4. \A j, k \in 1 .. Len(q) : j < k => Precedes(q[j], q[k])
  BY DEF Lists
<1>5. \A j \in 1 .. i - 1 : j \in 1 .. Len(q) /\ j < i
  BY <1>1
<1>6. \A j, k \in 1 .. Len(q) : q[j] = q[k] => j = k
  <2> SUFFICES ASSUME NEW j \in 1 .. Len(q), NEW k \in 1 .. Len(q), q[j] = q[k], j # k
               PROVE  FALSE
    OBVIOUS
  <2>1. Precedes(q[j], q[k]) \/ Precedes(q[k], q[j])
    BY <1>4
  <2>2. QED
    BY <1>1, <1>2, <2>1, PrecedesAsymmetric
<1>7. \A j \in 1 .. Len(q) : Precedes(q[j], q[i]) => j \in 1 .. i - 1
  <2> SUFFICES ASSUME NEW j \in 1 .. Len(q), Precedes(q[j], q[i]), ~(j < i)
               PROVE  FALSE
    BY <1>1
  <2>1. j = i \/ i < j
    BY <1>1
  <2>2. Precedes(q[i], q[j])
    BY <1>4, <2>1
  <2>3. QED
    BY <1>1, <1>2, <2>2, PrecedesAsymmetric
<1> DEFINE before == [j \in 1 .. i - 1 |-> q[j]]
<1>8. before \in Bijection(1 .. i - 1, Prior(q[i], S))
  <2>1. \A j \in 1 .. i - 1 : before[j] = q[j] /\ q[j] \in Prior(q[i], S)
    BY <1>2, <1>4, <1>5 DEF Prior
  <2>2. before \in [1 .. i - 1 -> Prior(q[i], S)]
    BY <2>1
  <2>3. \A j, k \in 1 .. i - 1 : before[j] = before[k] => j = k
    BY <1>5, <1>6, <2>1
  <2>4. \A c \in Prior(q[i], S) : \E j \in 1 .. i - 1 : before[j] = c
    BY <1>3, <1>7, <2>1 DEF Prior
  <2>5. QED
    BY <2>2, <2>3, <2>4 DEF Bijection, Injection, Surjection, IsInjective
<1>9. Cardinality(Prior(q[i], S)) = i - 1
  <2>1. i - 1 \in Nat
    BY <1>1
  <2>2. ExistsBijection(1 .. i - 1, Prior(q[i], S))
    BY <1>8 DEF ExistsBijection
  <2>3. QED
    BY <2>1, <2>2, FS_CountingElements
<1>10. QED
  BY <1>2, <1>9 DEF Rank, Prior

\* A list of a set is as long as the set.
LEMMA ListedLength ==
  ASSUME NEW s \in Sources, NEW S, S \subseteq Hits[s], NEW q \in Seq(Hit), Lists(q, S)
  PROVE  Len(q) = Cardinality(S)
<1>1. Len(q) \in Nat /\ q \in [1 .. Len(q) -> Hit] /\ Cardinality(S) \in Nat
  BY SubsetsOfHits
<1>2. \A i \in 1 .. Len(q) : q[i] \in S /\ Rank(q[i], S) = i - 1
  BY PlaceIsRank
<1>3. q \in Bijection(1 .. Len(q), S)
  <2>1. q \in [1 .. Len(q) -> S]
    BY <1>1, <1>2
  <2>2. \A i, j \in 1 .. Len(q) : q[i] = q[j] => i = j
    <3> SUFFICES ASSUME NEW i \in 1 .. Len(q), NEW j \in 1 .. Len(q), q[i] = q[j]
                 PROVE  i = j
      OBVIOUS
    <3>1. i - 1 = j - 1
      BY <1>2
    <3>2. QED
      BY <1>1, <3>1
  <2>3. \A c \in S : \E i \in 1 .. Len(q) : q[i] = c
    BY DEF Lists
  <2>4. QED
    BY <2>1, <2>2, <2>3 DEF Bijection, Injection, Surjection, IsInjective
<1>4. QED
  BY <1>1, <1>3, FS_CountingElements DEF ExistsBijection

\* The list of what comes first in a set is the beginning of the set's list.
LEMMA ListsBeginAlike ==
  ASSUME NEW s \in Sources, NEW B, B \subseteq Hits[s], NEW A, A \subseteq B,
         \A a \in A, b \in B : Precedes(b, a) => b \in A,
         NEW r \in Seq(Hit), Lists(r, A), NEW q \in Seq(Hit), Lists(q, B)
  PROVE  Len(r) <= Len(q) /\ r = SubSeq(q, 1, Len(r))
<1>1. A \subseteq Hits[s] /\ IsFiniteSet(B) /\ IsFiniteSet(A)
  BY SubsetsOfHits
<1>2. Len(r) <= Len(q)
  <2>1. Len(r) = Cardinality(A) /\ Len(q) = Cardinality(B)
    BY <1>1, ListedLength
  <2>2. QED
    BY <1>1, <2>1, FS_Subset
<1>3. ASSUME NEW i \in 1 .. Len(r) PROVE r[i] = q[i]
  <2>1. i \in 1 .. Len(q)
    BY <1>2
  <2>2. r[i] \in A /\ Rank(r[i], A) = i - 1
    BY <1>1, PlaceIsRank
  <2>3. q[i] \in B /\ Rank(q[i], B) = i - 1
    BY <2>1, PlaceIsRank
  <2>4. Prior(r[i], A) = Prior(r[i], B)
    BY <2>2 DEF Prior
  <2>5. Rank(r[i], B) = i - 1
    BY <2>2, <2>4 DEF Rank, Prior
  <2>6. QED
    BY <2>2, <2>3, <2>5, RankIsInjective
<1>4. r = SubSeq(q, 1, Len(r))
  <2>1. SubSeq(q, 1, Len(r)) \in Seq(Hit) /\ Len(SubSeq(q, 1, Len(r))) = Len(r)
    BY <1>2
  <2>2. \A i \in 1 .. Len(r) : SubSeq(q, 1, Len(r))[i] = q[i]
    BY <1>2
  <2>3. QED
    BY <1>3, <2>1, <2>2, SeqEqual
<1>5. QED
  BY <1>2, <1>4

-----------------------------------------------------------------------------
(* Types, one group of variables at a time.                                *)

\* The RecState of a fresh carve has its type.
LEMMA FreshTyped == ASSUME NEW s \in Sources PROVE Fresh(s) \in RecState
<1>1. RangeStart \in Offsets
  BY RangeAssumption DEF Offsets
<1>2. QED
  BY <1>1 DEF Fresh, RecState

\* The first segment is not empty.
LEMMA FirstSegmentTyped == FirstSegmentSize \in Nat \ {0}
BY OptionsAssumption, SessionAssumption DEF FirstSegmentSize

\* No later segment is empty either.
LEMMA SegmentSizesTyped == SegmentSizes \subseteq Nat \ {0}
<1>1. ASSUME NEW k \in 1 .. MaxSegmentBlocks PROVE k * BlockBytes \in Nat \ {0}
  <2>1. k \in Nat /\ 1 <= k /\ BlockBytes \in Nat /\ BlockBytes # 0
    BY OptionsAssumption, SessionAssumption
  <2>2. 1 * BlockBytes <= k * BlockBytes
    BY <2>1, ProductMonotone
  <2>3. QED
    BY <2>1, <2>2
<1>2. QED
  BY <1>1 DEF SegmentSizes

\* What a segment's hits are typed as.
LEMMA ScannedTyped ==
  ASSUME ControlTyped, ScanTyped, pc # "off",
         NEW T \in SUBSET Claimed(device, state.next_offset,
                                  LesserOf(state.next_offset + segment, RangeEnd))
  PROVE  /\ T \subseteq Hit /\ T \subseteq Hits[device] /\ Cardinality(T) \in Nat
         /\ LesserOf(state.next_offset + segment, RangeEnd) \in Offsets
         /\ state.next_offset <= LesserOf(state.next_offset + segment, RangeEnd)
<1>1. device \in Sources /\ state.next_offset \in Offsets /\ segment \in Nat
  BY DEF ControlTyped, ScanTyped, RecState
<1>2. T \subseteq Hits[device]
  BY DEF Claimed
<1>3. T \subseteq Hit /\ Cardinality(T) \in Nat
  BY <1>1, <1>2, SubsetsOfHits
<1>4. /\ LesserOf(state.next_offset + segment, RangeEnd) \in Offsets
      /\ state.next_offset <= LesserOf(state.next_offset + segment, RangeEnd)
  BY <1>1, RangeAssumption DEF LesserOf, Offsets
<1>5. QED
  BY <1>2, <1>3, <1>4

\* Every step keeps the types of the two files.
LEMMA DiskStep ==
  ASSUME TypeOK, [Next]_vars PROVE DiskTyped'
<1> USE DEF TypeOK, DiskTyped
<1>1. CASE UNCHANGED disk
  BY <1>1 DEF disk
<1>2. ASSUME NEW s \in Sources, Start(s) PROVE DiskTyped'
  BY <1>2 DEF Start, EmptyIndex
<1>3. CASE CommitFresh
  BY <1>3 DEF CommitFresh, ControlTyped
<1>4. CASE SaveFresh
  BY <1>4 DEF SaveFresh, ControlTyped
<1>5. CASE CommitSegment
  <2>1. keep \in Seq(Hit) /\ state \in RecState \cup {NoCheckpoint}
    BY DEF ScanTyped, ControlTyped
  <2>2. QED
    BY <1>5, <2>1 DEF CommitSegment
<1>6. CASE SaveSegment
  BY <1>6 DEF SaveSegment, ControlTyped
<1>7. CASE CommitComplete
  BY <1>7 DEF CommitComplete, ControlTyped
<1>8. CASE SaveComplete
  BY <1>8 DEF SaveComplete, ControlTyped
<1>9. QED
  BY <1>1, <1>2, <1>3, <1>4, <1>5, <1>6, <1>7, <1>8, Zenon
  DEF Next, Process, User, Kill, ResumeRefused, ResumeFinished, Resume,
      StopAtBoundary, ScanSegment, JudgeCandidate, EndSegment, Finish,
      RequestStop, vars, disk

\* Every step keeps the types of the process's control and RecState.
LEMMA ControlStep ==
  ASSUME TypeOK, [Next]_vars PROVE ControlTyped'
<1> USE DEF TypeOK, ControlTyped, Pcs
<1>1. CASE UNCHANGED <<pc, device, state>>
  BY <1>1
<1>2. ASSUME NEW s \in Sources, Start(s) PROVE ControlTyped'
  BY <1>2, FreshTyped DEF Start
<1>3. CASE CommitFresh \/ SaveFresh \/ CommitComplete
  BY <1>3 DEF CommitFresh, SaveFresh, CommitComplete, memory
<1>4. ASSUME NEW s \in Sources, Resume(s) PROVE ControlTyped'
  <2>1. index.checkpoint \in RecState
    BY <1>4 DEF Resume, Refusal, DiskTyped
  <2>2. QED
    BY <1>4, <2>1 DEF Resume
<1>5. ASSUME NEW r, Exit(r) PROVE ControlTyped'
  BY <1>5 DEF Exit
<1>6. CASE ScanSegment
  BY <1>6 DEF ScanSegment
<1>7. CASE EndSegment
  <2>1. /\ keep \in Seq(Hit) /\ stop_at \in Offsets
        /\ carry.cover_end \in Nat /\ carry.candidates \in Nat
    BY DEF ScanTyped
  <2>2. state \in RecState /\ device \in Sources
    BY <1>7 DEF EndSegment
  <2>3. state.candidates_committed + Len(keep) \in Nat
    BY <2>1, <2>2 DEF RecState
  <2>4. state' \in RecState
    BY <1>7, <2>1, <2>2, <2>3 DEF EndSegment, RecState
  <2>5. QED
    BY <1>7, <2>2, <2>4 DEF EndSegment
<1>8. CASE CommitSegment \/ SaveSegment
  BY <1>8 DEF CommitSegment, SaveSegment
<1>9. CASE Finish
  <2>1. state \in RecState /\ device \in Sources
    BY <1>9 DEF Finish
  <2>2. state' \in RecState
    BY <1>9, <2>1 DEF Finish, RecState
  <2>3. QED
    BY <1>9, <2>1, <2>2 DEF Finish
<1>10. QED
  BY <1>1, <1>2, <1>3, <1>4, <1>5, <1>6, <1>7, <1>8, <1>9, Zenon
  DEF Next, Process, User, Kill, ResumeRefused, ResumeFinished,
      StopAtBoundary, JudgeCandidate, SaveComplete, RequestStop, vars, memory

\* Every step keeps the types of the segment in hand.
LEMMA ScanStep ==
  ASSUME TypeOK, [Next]_vars PROVE ScanTyped'
<1> USE DEF TypeOK, ScanTyped
<1>1. CASE UNCHANGED <<carry, pending, keep, stop_at, segment>>
  BY <1>1
<1>2. ASSUME NEW s \in Sources, Start(s) PROVE ScanTyped'
  BY <1>2, FirstSegmentTyped DEF Start, ZeroCarry, work
<1>3. ASSUME NEW s \in Sources, Resume(s) PROVE ScanTyped'
  <2>1. index.checkpoint \in RecState
    BY <1>3 DEF Resume, Refusal, DiskTyped
  <2>2. index.checkpoint.carry_cover_end \in Nat /\ index.checkpoint.carry_candidates \in Nat
    BY <2>1 DEF RecState
  <2>3. QED
    BY <1>3, <2>2, FirstSegmentTyped DEF Resume, work
<1>4. ASSUME NEW r, Exit(r) PROVE ScanTyped'
  <2>1. /\ carry' = ZeroCarry /\ pending' = {} /\ keep' = <<>> /\ stop_at' = RangeStart
        /\ segment' = FirstSegmentSize
    BY <1>4 DEF Exit
  <2>2. RangeStart \in Offsets
    BY RangeAssumption DEF Offsets
  <2>3. QED
    BY <2>1, <2>2, FirstSegmentTyped DEF ZeroCarry
<1>5. CASE ScanSegment
  <2>1. PICK T \in SUBSET Claimed(device, state.next_offset,
                                  LesserOf(state.next_offset + segment, RangeEnd)) :
          /\ stop_at' = LesserOf(state.next_offset + segment, RangeEnd)
          /\ pending' = Accepted(T)
          /\ carry' = [carry EXCEPT !.candidates = @ + Cardinality(T)]
    BY <1>5 DEF ScanSegment
  <2>2. pc # "off"
    BY <1>5 DEF ScanSegment
  <2>3. T \subseteq Hit /\ Cardinality(T) \in Nat /\ stop_at' \in Offsets
    BY <2>1, <2>2, ScannedTyped
  <2>4. keep' = <<>> /\ segment' = segment
    BY <1>5 DEF ScanSegment
  <2>5. carry' \in [cover_end : Nat, candidates : Nat]
    BY <2>1, <2>3
  <2>6. QED
    BY <2>1, <2>3, <2>4, <2>5 DEF Accepted
<1>6. CASE JudgeCandidate
  <2>1. PICK c \in pending :
          /\ pending' = pending \ {c}
          /\ \/ UNCHANGED <<keep, carry>>
             \/ /\ keep' = Append(keep, c)
                /\ \/ carry' = [carry EXCEPT !.cover_end = End(c)]
                   \/ carry' = carry
    BY <1>6, Zenon DEF JudgeCandidate
  <2>2. c \in Hit
    OBVIOUS
  <2>3. End(c) \in Nat
    BY <2>2, RangeAssumption DEF Hit, End
  <2>4. keep' \in Seq(Hit)
    <3>1. keep \in Seq(Hit) /\ (keep' = keep \/ keep' = Append(keep, c))
      BY <2>1
    <3>2. QED
      BY <2>2, <3>1
  <2>5. carry' \in [cover_end : Nat, candidates : Nat]
    BY <2>1, <2>3
  <2>6. QED
    BY <1>6, <2>1, <2>4, <2>5 DEF JudgeCandidate
<1>7. CASE CommitSegment
  BY <1>7 DEF CommitSegment
<1>8. CASE SaveSegment
  BY <1>8, SegmentSizesTyped DEF SaveSegment, work
<1>9. QED
  BY <1>1, <1>2, <1>3, <1>4, <1>5, <1>6, <1>7, <1>8, Zenon
  DEF Next, Process, User, Kill, CommitFresh, SaveFresh, ResumeRefused, ResumeFinished,
      StopAtBoundary, EndSegment, Finish, CommitComplete, SaveComplete, RequestStop,
      vars, memory, work

\* Every step keeps the bounded counters within their bounds.
LEMMA CountsStep ==
  ASSUME TypeOK, [Next]_vars PROVE CountsTyped'
<1>1. outcome' \in Outcomes
  <2>1. outcome \in Outcomes
    BY DEF TypeOK, CountsTyped
  <2>2. ASSUME NEW s \in Sources, ResumeRefused(s) PROVE outcome' \in Outcomes
    BY <2>2 DEF ResumeRefused, Refusal, Outcomes
  <2>3. {"none", "stopped", "complete", "killed"} \subseteq Outcomes
    BY DEF Outcomes
  <2>4. QED
    BY <2>1, <2>2, <2>3, Zenon
    DEF Next, Process, User, Start, CommitFresh, SaveFresh, ResumeFinished, Resume,
        StopAtBoundary, ScanSegment, JudgeCandidate, EndSegment, CommitSegment,
        SaveSegment, Finish, CommitComplete, SaveComplete, RequestStop, Kill, Exit, vars
<1>2. /\ starts' = starts \/ (starts < MaxStarts /\ starts' = starts + 1)
      /\ kills' = kills \/ (kills < MaxKills /\ kills' = kills + 1)
      /\ stops' = stops \/ (stops < MaxStops /\ stops' = stops + 1)
  BY DEF Next, Process, User, Start, CommitFresh, SaveFresh, ResumeRefused, ResumeFinished,
      Resume, StopAtBoundary, ScanSegment, JudgeCandidate, EndSegment, CommitSegment,
      SaveSegment, Finish, CommitComplete, SaveComplete, RequestStop, Kill, vars, bounds
<1>3. starts \in 0 .. MaxStarts /\ kills \in 0 .. MaxKills /\ stops \in 0 .. MaxStops
  BY DEF TypeOK, CountsTyped
<1>4. starts' \in 0 .. MaxStarts /\ kills' \in 0 .. MaxKills /\ stops' \in 0 .. MaxStops
  BY <1>2, <1>3, SessionAssumption
<1>5. QED
  BY <1>1, <1>4 DEF CountsTyped

\* The variables keep their types in every step of the session.
THEOREM TypeCorrect == Spec => []TypeOK
<1>1. Init => TypeOK
  <2> SUFFICES ASSUME Init PROVE TypeOK
    OBVIOUS
  <2>1. DiskTyped
    BY DEF Init, DiskTyped, EmptyIndex
  <2>2. ControlTyped
    BY DEF Init, ControlTyped, Pcs
  <2>3. ScanTyped
    <3>1. RangeStart \in Offsets
      BY RangeAssumption DEF Offsets
    <3>2. /\ carry = ZeroCarry /\ pending = {} /\ keep = <<>> /\ stop_at = RangeStart
          /\ segment = FirstSegmentSize
      BY DEF Init
    <3>3. QED
      BY <3>1, <3>2, FirstSegmentTyped DEF ScanTyped, ZeroCarry
  <2>4. CountsTyped
    <3>1. outcome = "none" /\ starts = 0 /\ kills = 0 /\ stops = 0
      BY DEF Init
    <3>2. QED
      BY <3>1, SessionAssumption DEF CountsTyped, Outcomes
  <2>5. QED
    BY <2>1, <2>2, <2>3, <2>4 DEF Init, TypeOK
<1>2. ASSUME TypeOK, [Next]_vars PROVE stop' \in BOOLEAN
  BY <1>2, Zenon DEF TypeOK, Next, Process, User, vars, Exit,
    Start, CommitFresh, SaveFresh, ResumeRefused, ResumeFinished, Resume,
    StopAtBoundary, ScanSegment, JudgeCandidate, EndSegment, CommitSegment,
    SaveSegment, Finish, CommitComplete, SaveComplete, RequestStop, Kill
<1>3. TypeOK /\ [Next]_vars => TypeOK'
  BY <1>2, DiskStep, ControlStep, ScanStep, CountsStep DEF TypeOK
<1>4. QED
  BY <1>1, <1>3, PTL DEF Spec

-----------------------------------------------------------------------------
(* The inductive invariant.                                                *)

\* Everything one scan of s accepts, and everything it keeps.
Pool(s) == Accepted(Examined(s))
Expected(s) == Kept(Pool(s))

Part(S, from, to) == {c \in S : from <= c.offset /\ c.offset < to}

NothingIsBad == \A s \in Sources : Bad[s] = {}

\* Where a segment may begin or end.
Regular(o) == o = RangeEnd \/ Aligned(o) \/ NothingIsBad
RegularSize(n) == (\E k \in Nat : n = k * BlockBytes) \/ NothingIsBad

\* cover is the furthest end among the complete files of P.
Covers(cover, P) ==
  Suppress =>
    /\ \A d \in P : Judges(d) => End(d) <= cover
    /\ cover = 0 \/ \E d \in P : Judges(d) /\ End(d) = cover

UsedBudget(s, upto) == LesserOf(Cardinality(Below(AllClaimed(s), upto)), MaxCandidates)

\* What a checkpoint says of the part of the range below its next_offset.
Sound(r) ==
  /\ Regular(r.next_offset)
  /\ r.carry_candidates = UsedBudget(r.source, r.next_offset)
  /\ Covers(r.carry_cover_end, Below(Pool(r.source), r.next_offset))

\* The committed rows are one scan's below next_offset.
IndexInv ==
  IF index.checkpoint = NoCheckpoint
    THEN index.rows = <<>>
    ELSE /\ Sound(index.checkpoint)
         /\ Lists(index.rows, Below(Expected(index.checkpoint.source),
                                    index.checkpoint.next_offset))
         /\ index.checkpoint.complete => index.checkpoint.next_offset = RangeEnd

\* How the process's RecState stands to the committed one.
StateInv ==
  /\ pc # "off" => state.source = device
  /\ pc = "create" => index = EmptyIndex /\ state = Fresh(device)
  /\ pc \in {"saveFresh", "loop", "judge", "save", "sealSave"} => state = index.checkpoint
  /\ pc \in {"commit", "seal"} =>
       index.checkpoint \in RecState /\ index.checkpoint.source = device
  /\ pc = "seal" =>
       /\ state.next_offset = RangeEnd /\ index.checkpoint.next_offset = RangeEnd
       /\ state.carry_candidates = index.checkpoint.carry_candidates
       /\ state.carry_cover_end = index.checkpoint.carry_cover_end

CarryInv ==
  /\ pc \in {"create", "saveFresh", "loop", "save"} =>
       /\ carry.cover_end = state.carry_cover_end
       /\ carry.candidates = state.carry_candidates
  /\ pc \in {"create", "saveFresh", "loop"} => RegularSize(segment)

\* In the middle of a segment: what is judged precedes what is not, what is
\* kept is one scan's, and the cover is that of everything judged.
JudgeInv ==
  pc = "judge" =>
    /\ Regular(stop_at)
    /\ state.next_offset <= stop_at
    /\ carry.candidates = UsedBudget(device, stop_at)
    /\ pending \subseteq Part(Pool(device), state.next_offset, stop_at)
    /\ \A p \in Part(Pool(device), state.next_offset, stop_at) \ pending :
         \A q \in pending : Precedes(p, q)
    /\ Lists(keep, Part(Expected(device), state.next_offset, stop_at) \ pending)
    /\ Covers(carry.cover_end, Below(Pool(device), stop_at) \ pending)

\* Between judging a segment and committing it.
CommitInv ==
  pc = "commit" =>
    /\ Sound(state)
    /\ index.checkpoint.next_offset <= state.next_offset
    /\ Lists(keep, Part(Expected(device), index.checkpoint.next_offset, state.next_offset))
    /\ ~state.complete
    /\ carry.cover_end = state.carry_cover_end
    /\ carry.candidates = state.carry_candidates

Uncommitted ==
  pc \in {"create", "saveFresh", "loop", "judge", "save"} => ~state.complete

SessionInv == IndexInv /\ StateInv /\ CarryInv /\ JudgeInv /\ CommitInv /\ Uncommitted

-----------------------------------------------------------------------------
(* Lists.                                                                  *)

\* The empty list lists nothing.
LEMMA ListsEmpty == Lists(<<>>, {})
BY DEF Lists

\* A list with a candidate after all of it appended lists one candidate more.
LEMMA ListsAppend ==
  ASSUME NEW k \in Seq(Hit), NEW A, Lists(k, A), NEW c \in Hit,
         \A a \in A : Precedes(a, c)
  PROVE  Lists(Append(k, c), A \cup {c})
<1> DEFINE n == Len(k)
           kc == Append(k, c)
<1>1. n \in Nat /\ Len(kc) = n + 1 /\ kc[n + 1] = c /\ \A i \in 1 .. n : kc[i] = k[i]
  OBVIOUS
<1>2. \A i \in 1 .. n : k[i] \in A
  BY DEF Lists
<1>3. \A i, j \in 1 .. n : i < j => Precedes(k[i], k[j])
  BY DEF Lists
<1>4. {kc[i] : i \in 1 .. n + 1} = A \cup {c}
  <2>1. 1 .. n + 1 = (1 .. n) \cup {n + 1}
    BY <1>1
  <2>2. A = {k[i] : i \in 1 .. n}
    BY DEF Lists
  <2> HIDE DEF n, kc
  <2>3. QED
    BY <1>1, <2>1, <2>2
<1>5. \A i, j \in 1 .. n + 1 : i < j => Precedes(kc[i], kc[j])
  <2> SUFFICES ASSUME NEW i \in 1 .. n + 1, NEW j \in 1 .. n + 1, i < j
               PROVE  Precedes(kc[i], kc[j])
    OBVIOUS
  <2>1. i \in 1 .. n
    BY <1>1
  <2>2. CASE j \in 1 .. n
    BY <1>1, <1>3, <2>1, <2>2
  <2>3. CASE j = n + 1
    BY <1>1, <1>2, <2>1, <2>3
  <2>4. QED
    BY <1>1, <2>2, <2>3
<1>6. QED
  BY <1>1, <1>4, <1>5 DEF Lists

\* The list of a segment appended to the list of what precedes it lists both.
LEMMA ListsConcat ==
  ASSUME NEW r \in Seq(Hit), NEW k \in Seq(Hit), NEW A, NEW B,
         Lists(r, A), Lists(k, B), \A a \in A, b \in B : Precedes(a, b)
  PROVE  Lists(r \o k, A \cup B)
<1> DEFINE m == Len(r)
           n == Len(k)
           rk == r \o k
<1>1. /\ m \in Nat /\ n \in Nat /\ Len(rk) = m + n
      /\ \A i \in 1 .. m : rk[i] = r[i]
      /\ \A i \in 1 .. m + n : i > m => rk[i] = k[i - m]
  OBVIOUS
<1>2. \A i \in 1 .. m : r[i] \in A
  BY DEF Lists
<1>3. \A i \in 1 .. n : k[i] \in B
  BY DEF Lists
<1>4. /\ \A i, j \in 1 .. m : i < j => Precedes(r[i], r[j])
      /\ \A i, j \in 1 .. n : i < j => Precedes(k[i], k[j])
  BY DEF Lists
<1>5. A = {r[i] : i \in 1 .. m} /\ B = {k[i] : i \in 1 .. n}
  BY DEF Lists
<1> HIDE DEF m, n, rk
<1>6. {rk[i] : i \in 1 .. m + n} = A \cup B
  <2>1. ASSUME NEW i \in 1 .. m + n PROVE rk[i] \in A \cup B
    <3>1. CASE i <= m
      <4>1. i \in 1 .. m
        BY <1>1, <3>1
      <4>2. QED
        BY <1>1, <1>2, <4>1
    <3>2. CASE i > m
      <4>1. i - m \in 1 .. n
        BY <1>1, <3>2
      <4>2. QED
        BY <1>1, <1>3, <3>2, <4>1
    <3>3. QED
      BY <1>1, <3>1, <3>2
  <2>2. ASSUME NEW a \in A PROVE \E i \in 1 .. m + n : rk[i] = a
    <3>1. PICK i \in 1 .. m : r[i] = a
      BY <1>5
    <3>2. i \in 1 .. m + n
      BY <1>1
    <3>3. QED
      BY <1>1, <3>1, <3>2
  <2>3. ASSUME NEW b \in B PROVE \E i \in 1 .. m + n : rk[i] = b
    <3>1. PICK i \in 1 .. n : k[i] = b
      BY <1>5
    <3>2. m + i \in 1 .. m + n /\ m + i > m /\ (m + i) - m = i
      BY <1>1
    <3>3. QED
      BY <1>1, <3>1, <3>2
  <2>4. QED
    BY <2>1, <2>2, <2>3
<1>7. \A i, j \in 1 .. m + n : i < j => Precedes(rk[i], rk[j])
  <2> SUFFICES ASSUME NEW i \in 1 .. m + n, NEW j \in 1 .. m + n, i < j
               PROVE  Precedes(rk[i], rk[j])
    OBVIOUS
  <2>1. CASE j <= m
    <3>1. i \in 1 .. m /\ j \in 1 .. m
      BY <1>1, <2>1
    <3>2. QED
      BY <1>1, <1>4, <3>1
  <2>2. CASE i <= m /\ j > m
    <3>1. i \in 1 .. m /\ j - m \in 1 .. n
      BY <1>1, <2>2
    <3>2. QED
      BY <1>1, <1>2, <1>3, <2>2, <3>1
  <2>3. CASE i > m
    <3>1. i - m \in 1 .. n /\ j - m \in 1 .. n /\ i - m < j - m /\ j > m
      BY <1>1, <2>3
    <3>2. Precedes(k[i - m], k[j - m])
      BY <1>4, <3>1
    <3>3. QED
      BY <1>1, <2>3, <3>1, <3>2
  <2>4. QED
    BY <1>1, <2>1, <2>2, <2>3
<1>8. QED
  BY <1>1, <1>6, <1>7 DEF Lists, rk

-----------------------------------------------------------------------------
(* Judging one candidate.                                                  *)

\* What one scan accepts is a finite set of hits inside the range.
LEMMA PoolTyped ==
  ASSUME NEW s \in Sources
  PROVE  /\ Expected(s) \subseteq Pool(s) /\ Pool(s) \subseteq Hits[s] /\ Pool(s) \subseteq Hit
         /\ \A c \in Pool(s) : /\ c.offset \in Nat /\ RangeStart <= c.offset
                               /\ c.offset < RangeEnd
                               /\ c.length \in Nat /\ End(c) \in Nat
<1>1. Pool(s) \subseteq AllClaimed(s) /\ Expected(s) \subseteq Pool(s)
  BY ClaimedAreHits DEF Pool, Expected, Accepted, Kept
<1>2. Pool(s) \subseteq Hits[s] /\ Pool(s) \subseteq Hit
  BY <1>1, ClaimedAreHits
<1>3. \A c \in Hit : c.offset \in Nat /\ c.length \in Nat /\ End(c) \in Nat
  BY RangeAssumption DEF Hit, End
<1>4. \A c \in Pool(s) : RangeStart <= c.offset /\ c.offset < RangeEnd
  BY <1>1, ClaimedAreHits
<1>5. QED
  BY <1>1, <1>2, <1>3, <1>4

\* Comparing the next candidate's end with the cover decides containment.
LEMMA CoverDecides ==
  ASSUME NEW s \in Sources, NEW P, P \subseteq Pool(s), NEW c \in Pool(s),
         NEW cover \in Nat, Covers(cover, P),
         \A d \in P : Precedes(d, c),
         \A d \in Pool(s) : Precedes(d, c) => d \in P
  PROVE  (Suppress /\ c.length > 0 /\ End(c) <= cover) <=> c \notin Expected(s)
<1>1. c.offset \in Nat /\ c.length \in Nat /\ End(c) \in Nat /\ End(c) = c.offset + c.length
  BY PoolTyped DEF End
<1>2. \A d \in P : End(d) \in Nat
  BY PoolTyped
<1>3. c \notin Expected(s) <=>
        (Suppress /\ c.length > 0 /\ \E d \in P : Judges(d) /\ End(c) <= End(d))
  BY DEF Expected, Kept, Contained
<1>4. ASSUME Suppress, c.length > 0
      PROVE  End(c) <= cover <=> \E d \in P : Judges(d) /\ End(c) <= End(d)
  <2>1. End(c) > 0
    BY <1>1, <1>4
  <2>2. ASSUME End(c) <= cover PROVE \E d \in P : Judges(d) /\ End(c) <= End(d)
    <3>1. cover # 0
      BY <1>1, <2>1, <2>2
    <3>2. PICK d \in P : Judges(d) /\ End(d) = cover
      BY <1>4, <3>1 DEF Covers
    <3>3. QED
      BY <2>2, <3>2
  <2>3. ASSUME NEW d \in P, Judges(d), End(c) <= End(d) PROVE End(c) <= cover
    <3>1. End(d) <= cover
      BY <1>4, <2>3 DEF Covers
    <3>2. QED
      BY <1>1, <1>2, <2>3, <3>1
  <2>4. QED
    BY <2>2, <2>3
<1>5. QED
  BY <1>3, <1>4

\* The cover the judged candidate leaves behind.
LEMMA CoverGrows ==
  ASSUME NEW s \in Sources, NEW P, P \subseteq Pool(s), NEW c \in Pool(s),
         NEW cover \in Nat, Covers(cover, P), NEW new \in Nat,
         \/ new = cover /\ (Suppress /\ Judges(c) => End(c) <= cover)
         \/ new = End(c) /\ Suppress /\ Judges(c) /\ End(c) > cover
  PROVE  Covers(new, P \cup {c})
<1>1. End(c) \in Nat /\ \A d \in P : End(d) \in Nat
  BY PoolTyped
<1>2. CASE new = cover /\ (Suppress /\ Judges(c) => End(c) <= cover)
  BY <1>2 DEF Covers
<1>3. CASE new = End(c) /\ Suppress /\ Judges(c) /\ End(c) > cover
  BY <1>1, <1>3 DEF Covers
<1>4. QED
  BY <1>2, <1>3

-----------------------------------------------------------------------------
(* The invariant is kept by every step.                                    *)

\* The range begins on a block boundary.
LEMMA RegularStart == Regular(RangeStart)
<1>1. RangeStart = RangeStart + 0 * BlockBytes
  BY RangeAssumption, OptionsAssumption
<1>2. QED
  BY <1>1 DEF Regular, Aligned

\* Under WholeBlocks the first segment is whole blocks, or no read fails.
LEMMA RegularFirstSegment ==
  ASSUME WholeBlocks PROVE RegularSize(FirstSegmentSize)
BY FirstSegmentTyped DEF WholeBlocks, RegularSize, NothingIsBad

\* The adaptive segments are whole blocks.
LEMMA RegularSegmentSizes ==
  ASSUME NEW n \in SegmentSizes PROVE RegularSize(n)
BY SessionAssumption DEF SegmentSizes, RegularSize

\* A segment of whole blocks that begins on a block boundary ends on one, or
\* at the end of the range.
LEMMA RegularEnd ==
  ASSUME NEW from \in Offsets, Regular(from), from < RangeEnd,
         NEW size \in Nat, RegularSize(size)
  PROVE  Regular(LesserOf(from + size, RangeEnd))
<1>1. CASE NothingIsBad
  BY <1>1 DEF Regular
<1>2. CASE ~NothingIsBad
  <2>1. PICK m \in Nat : from = RangeStart + m * BlockBytes
    BY <1>2, RangeAssumption DEF Regular, Aligned, Offsets
  <2>2. PICK k \in Nat : size = k * BlockBytes
    BY <1>2 DEF RegularSize
  <2>3. m + k \in Nat /\ from + size = RangeStart + (m + k) * BlockBytes
    BY <2>1, <2>2, RangeAssumption, OptionsAssumption
  <2>4. QED
    BY <2>3 DEF Regular, Aligned, LesserOf
<1>3. QED
  BY <1>1, <1>2

\* Nothing of the range lies below its beginning.
LEMMA NothingBelow ==
  ASSUME NEW s \in Sources
  PROVE  /\ Below(AllClaimed(s), RangeStart) = {} /\ Below(Pool(s), RangeStart) = {}
         /\ Below(Expected(s), RangeStart) = {}
BY PoolTyped, ClaimedAreHits, RangeAssumption DEF Below

\* A carve that has scanned nothing has nothing to show.
LEMMA FreshIsSound ==
  ASSUME NEW s \in Sources PROVE Sound(Fresh(s))
<1>1. Regular(Fresh(s).next_offset)
  BY RegularStart DEF Fresh
<1>2. UsedBudget(s, RangeStart) = 0
  BY NothingBelow, FS_EmptySet, OptionsAssumption DEF UsedBudget, LesserOf
<1>3. Covers(0, Below(Pool(s), RangeStart))
  BY NothingBelow DEF Covers
<1>4. QED
  BY <1>1, <1>2, <1>3 DEF Sound, Fresh

\* Start: the index is empty and the RecState fresh.
LEMMA StartKeeps ==
  ASSUME TypeOK, SessionInv, WholeBlocks, NEW s \in Sources, Start(s)
  PROVE  SessionInv'
<1>1. /\ index' = EmptyIndex /\ device' = s /\ state' = Fresh(s) /\ carry' = ZeroCarry
      /\ segment' = FirstSegmentSize /\ pc' = "create"
  BY DEF Start
<1>2. IndexInv' /\ StateInv'
  BY <1>1 DEF IndexInv, StateInv, EmptyIndex, Fresh
<1>3. CarryInv'
  BY <1>1, RegularFirstSegment DEF CarryInv, ZeroCarry, Fresh
<1>4. JudgeInv' /\ CommitInv' /\ Uncommitted'
  BY <1>1 DEF JudgeInv, CommitInv, Uncommitted, Fresh
<1>5. QED
  BY <1>2, <1>3, <1>4 DEF SessionInv

\* CommitFresh: the first checkpoint goes with no rows.
LEMMA CommitFreshKeeps ==
  ASSUME TypeOK, SessionInv, CommitFresh
  PROVE  SessionInv'
<1>1. /\ pc = "create" /\ pc' = "saveFresh" /\ index' = [index EXCEPT !.checkpoint = state]
      /\ UNCHANGED memory
  BY DEF CommitFresh
<1>2. index = EmptyIndex /\ state = Fresh(device) /\ device \in Sources /\ state \in RecState
  BY <1>1 DEF SessionInv, StateInv, TypeOK, ControlTyped
<1>3. index' = [rows |-> <<>>, checkpoint |-> state]
  BY <1>1, <1>2 DEF EmptyIndex
<1>4. state.source = device /\ state.next_offset = RangeStart /\ ~state.complete
  BY <1>2 DEF Fresh
<1>5. Sound(state)
  BY <1>2, FreshIsSound
<1>6. Lists(<<>>, Below(Expected(device), RangeStart))
  BY <1>2, ListsEmpty, NothingBelow
<1>7. IndexInv'
  BY <1>1, <1>2, <1>3, <1>4, <1>5, <1>6 DEF IndexInv, Sound, RecState
<1>8. StateInv'
  BY <1>1, <1>3, <1>4 DEF StateInv, memory
<1>9. CarryInv' /\ JudgeInv' /\ CommitInv' /\ Uncommitted'
  BY <1>1, <1>4 DEF SessionInv, CarryInv, JudgeInv, CommitInv, Uncommitted, memory, work
<1>10. QED
  BY <1>7, <1>8, <1>9 DEF SessionInv

\* Resume: the committed checkpoint is sound, and becomes the RecState.
LEMMA ResumeKeeps ==
  ASSUME TypeOK, SessionInv, WholeBlocks, NEW s \in Sources, Resume(s)
  PROVE  SessionInv'
<1>1. /\ device' = s /\ state' = index.checkpoint /\ segment' = FirstSegmentSize
      /\ carry' = [cover_end  |-> index.checkpoint.carry_cover_end,
                   candidates |-> index.checkpoint.carry_candidates]
      /\ pc' = "loop" /\ UNCHANGED disk /\ ~index.checkpoint.complete
  BY DEF Resume
<1>2. index.checkpoint # NoCheckpoint /\ index.checkpoint.source = s
  BY DEF Resume, Refusal
<1>3. index' = index
  BY <1>1 DEF disk
<1>4. IndexInv'
  BY <1>3 DEF SessionInv, IndexInv
<1>5. StateInv'
  BY <1>1, <1>2, <1>3 DEF StateInv
<1>6. CarryInv'
  BY <1>1, RegularFirstSegment DEF CarryInv
<1>7. JudgeInv' /\ CommitInv' /\ Uncommitted'
  BY <1>1 DEF JudgeInv, CommitInv, Uncommitted
<1>8. QED
  BY <1>4, <1>5, <1>6, <1>7 DEF SessionInv

\* Stops and kills: what is on disk does not need the process.
LEMMA ExitKeeps ==
  ASSUME TypeOK, SessionInv, NEW r, Exit(r), index' = index
  PROVE  SessionInv'
<1>1. pc' = "off"
  BY DEF Exit
<1>2. IndexInv'
  BY DEF SessionInv, IndexInv
<1>3. QED
  BY <1>1, <1>2 DEF SessionInv, StateInv, CarryInv, JudgeInv, CommitInv, Uncommitted

\* ScanSegment: the cut hits are the ones one scan examines in this segment.
LEMMA ScanSegmentKeeps ==
  ASSUME TypeOK, SessionInv, ScanSegment
  PROVE  SessionInv'
<1> DEFINE from == state.next_offset
           to == LesserOf(from + segment, RangeEnd)
           s == device
<1>1. /\ pc = "loop" /\ pc' = "judge" /\ from < RangeEnd /\ keep' = <<>>
      /\ UNCHANGED <<disk, device, state, segment>>
  BY DEF ScanSegment
<1>2. /\ s \in Sources /\ state \in RecState /\ from \in Offsets /\ segment \in Nat
      /\ carry \in [cover_end : Nat, candidates : Nat]
  BY <1>1 DEF TypeOK, ControlTyped, ScanTyped, RecState
<1>3. /\ state = index.checkpoint /\ state.source = s /\ ~state.complete
      /\ carry.cover_end = state.carry_cover_end /\ carry.candidates = state.carry_candidates
      /\ RegularSize(segment)
  BY <1>1 DEF SessionInv, StateInv, CarryInv, Uncommitted
<1>4. /\ Regular(from) /\ state.carry_candidates = UsedBudget(s, from)
      /\ Covers(state.carry_cover_end, Below(Pool(s), from))
  <2>2. index.checkpoint # NoCheckpoint
    BY <1>2, <1>3, CheckpointAssumption
  <2>3. Sound(state)
    BY <1>3, <2>2 DEF SessionInv, IndexInv
  <2>4. QED
    BY <1>3, <2>3 DEF Sound
<1>5. PICK T \in SUBSET Claimed(s, from, to) :
        /\ Truncated(T, Claimed(s, from, to),
                     IF carry.candidates < MaxCandidates
                       THEN MaxCandidates - carry.candidates ELSE 0)
        /\ stop_at' = to
        /\ pending' = Accepted(T)
        /\ carry' = [carry EXCEPT !.candidates = @ + Cardinality(T)]
  BY DEF ScanSegment
<1>6. to \in Offsets /\ from <= to
  BY <1>1, ScannedTyped DEF TypeOK
<1>7. Regular(to)
  BY <1>1, <1>2, <1>3, <1>4, RegularEnd
<1>8. Claimed(s, from, to) = Segment(s, from, to)
  <2>1. Aligned(from) \/ Bad[s] = {}
    BY <1>1, <1>2, <1>4, RangeAssumption DEF Regular, NothingIsBad, Offsets
  <2>2. QED
    BY <1>2, <1>6, <2>1, ClaimedSegment DEF Segment
<1>9. /\ T = {h \in Examined(s) : from <= h.offset /\ h.offset < to}
      /\ carry.candidates + Cardinality(T) = UsedBudget(s, to)
  <2> DEFINE budget == IF carry.candidates < MaxCandidates
                         THEN MaxCandidates - carry.candidates ELSE 0
  <2>1. budget \in Nat /\ carry.candidates \in Nat
    BY <1>2, OptionsAssumption
  <2>2. carry.candidates = LesserOf(Cardinality(Below(AllClaimed(s), from)), MaxCandidates)
    BY <1>3, <1>4 DEF UsedBudget
  <2>3. T \subseteq Segment(s, from, to) /\ Truncated(T, Segment(s, from, to), budget)
    BY <1>5, <1>8
  <2> HIDE DEF to, from
  <2>4. QED
    BY <1>2, <1>6, <2>1, <2>2, <2>3, BudgetThreads DEF UsedBudget
<1>10. pending' = Part(Pool(s), from, to)
  BY <1>5, <1>9 DEF Part, Pool, Accepted
<1>11. Part(Expected(s), from, to) \ pending' = {}
  BY <1>2, <1>10, PoolTyped DEF Part
<1>12. Below(Pool(s), to) \ pending' = Below(Pool(s), from)
  <2>1. \A c \in Pool(s) : c.offset \in Nat
    BY <1>2, PoolTyped
  <2>2. from \in Nat /\ to \in Nat
    BY <1>2, <1>6, RangeAssumption DEF Offsets
  <2> HIDE DEF to, from
  <2>3. QED
    BY <1>6, <1>10, <2>1, <2>2 DEF Below, Part
<1>13. /\ carry'.cover_end = state.carry_cover_end
       /\ carry'.candidates = carry.candidates + Cardinality(T)
  BY <1>2, <1>3, <1>5
<1>14. JudgeInv'
  <2>1. /\ device' = s /\ state'.next_offset = from /\ stop_at' = to
    BY <1>1, <1>5
  <2> HIDE DEF to, from
  <2>2. Lists(keep', Part(Expected(s), from, to) \ pending')
    BY <1>1, <1>11, ListsEmpty
  <2>3. Covers(carry'.cover_end, Below(Pool(s), to) \ pending')
    BY <1>4, <1>12, <1>13
  <2>4. Part(Pool(s), from, to) \ pending' = {}
    BY <1>10
  <2>5. QED
    BY <1>6, <1>7, <1>9, <1>10, <1>13, <2>1, <2>2, <2>3, <2>4 DEF JudgeInv
<1>15. IndexInv' /\ StateInv' /\ CarryInv' /\ CommitInv' /\ Uncommitted'
  BY <1>1, <1>3 DEF SessionInv, IndexInv, StateInv, CarryInv, CommitInv, Uncommitted, disk
<1>16. QED
  BY <1>14, <1>15 DEF SessionInv

\* JudgeCandidate: the cover decides as one scan's containment does.
LEMMA JudgeCandidateKeeps ==
  ASSUME TypeOK, SessionInv, JudgeCandidate
  PROVE  SessionInv'
<1> DEFINE s == device
           from == state.next_offset
           here == Part(Pool(s), from, stop_at)
           P == Below(Pool(s), stop_at) \ pending
<1>1. /\ pc = "judge" /\ UNCHANGED <<disk, pc, device, state, segment, stop_at>>
  BY DEF JudgeCandidate
<1>2. PICK c \in pending :
        /\ \A d \in pending \ {c} : Precedes(c, d)
        /\ pending' = pending \ {c}
        /\ IF Suppress /\ c.length > 0 /\ End(c) <= carry.cover_end
             THEN UNCHANGED <<keep, carry>>
             ELSE /\ keep' = Append(keep, c)
                  /\ carry' = IF Suppress /\ Judges(c) /\ End(c) > carry.cover_end
                                THEN [carry EXCEPT !.cover_end = End(c)]
                                ELSE carry
  BY Zenon DEF JudgeCandidate
<1>3. /\ s \in Sources /\ keep \in Seq(Hit) /\ stop_at \in Nat /\ from \in Nat
      /\ carry \in [cover_end : Nat, candidates : Nat]
  BY <1>1, RangeAssumption DEF TypeOK, ControlTyped, ScanTyped, RecState, Offsets
<1>4. /\ pending \subseteq here
      /\ \A p \in here \ pending : \A q \in pending : Precedes(p, q)
      /\ Lists(keep, Part(Expected(s), from, stop_at) \ pending)
      /\ Covers(carry.cover_end, P)
      /\ Regular(stop_at) /\ from <= stop_at /\ carry.candidates = UsedBudget(s, stop_at)
  BY <1>1 DEF SessionInv, JudgeInv
<1>5. /\ c \in Pool(s) /\ c \in Hit /\ from <= c.offset /\ c.offset < stop_at
      /\ c.offset \in Nat /\ End(c) \in Nat
  BY <1>2, <1>3, <1>4, PoolTyped DEF Part
<1>6. \A d \in Pool(s) : d \in Hit /\ d \in Hits[s] /\ d.offset \in Nat
  BY <1>3, PoolTyped
<1>7. P \subseteq Pool(s)
  BY DEF Below
<1>8. \A d \in P : Precedes(d, c)
  <2> SUFFICES ASSUME NEW d \in P PROVE Precedes(d, c)
    OBVIOUS
  <2>1. d \in Pool(s) /\ d.offset < stop_at /\ d \notin pending /\ d.offset \in Nat
    BY <1>6 DEF Below
  <2>2. CASE d.offset < from
    BY <1>3, <1>5, <2>1, <2>2 DEF Precedes
  <2>3. CASE from <= d.offset
    BY <1>2, <1>4, <2>1, <2>3 DEF Part
  <2>4. QED
    BY <1>3, <2>1, <2>2, <2>3
<1>9. \A d \in Pool(s) : Precedes(d, c) => d \in P
  <2> SUFFICES ASSUME NEW d \in Pool(s), Precedes(d, c) PROVE d \in P
    OBVIOUS
  <2>1. ~Precedes(c, d)
    BY <1>5, <1>6, PrecedesAsymmetric
  <2>2. d # c
    BY <2>1
  <2>3. d \notin pending
    BY <1>2, <2>1, <2>2
  <2>4. d.offset < stop_at
    BY <1>3, <1>5, <1>6 DEF Precedes
  <2>5. QED
    BY <2>3, <2>4 DEF Below
<1>10. (Suppress /\ c.length > 0 /\ End(c) <= carry.cover_end) <=> c \notin Expected(s)
  <2> HIDE DEF P, s
  <2>1. QED
    BY <1>3, <1>4, <1>5, <1>7, <1>8, <1>9, CoverDecides
<1>11. Part(Expected(s), from, stop_at) \ pending' =
         IF c \in Expected(s) THEN (Part(Expected(s), from, stop_at) \ pending) \cup {c}
         ELSE Part(Expected(s), from, stop_at) \ pending
  BY <1>2, <1>5 DEF Part
<1>12. Below(Pool(s), stop_at) \ pending' = P \cup {c}
  BY <1>2, <1>5 DEF Below
<1>13. \A a \in Part(Expected(s), from, stop_at) \ pending : Precedes(a, c)
  BY <1>2, <1>3, <1>4, PoolTyped DEF Part
<1>14. Lists(keep', Part(Expected(s), from, stop_at) \ pending')
  <2>1. CASE c \in Expected(s)
    <3>1. keep' = Append(keep, c)
      BY <1>2, <1>10, <2>1
    <3>2. QED
      BY <1>3, <1>4, <1>5, <1>11, <1>13, <2>1, <3>1, ListsAppend
  <2>2. CASE c \notin Expected(s)
    BY <1>2, <1>4, <1>10, <1>11, <2>2
  <2>3. QED
    BY <2>1, <2>2
<1>15. /\ carry'.candidates = carry.candidates
       /\ carry'.cover_end \in Nat
       /\ \/ carry'.cover_end = carry.cover_end
             /\ (Suppress /\ Judges(c) => End(c) <= carry.cover_end)
          \/ carry'.cover_end = End(c) /\ Suppress /\ Judges(c) /\ End(c) > carry.cover_end
  BY <1>2, <1>3, <1>5
<1>16. Covers(carry'.cover_end, P \cup {c})
  <2> HIDE DEF P, s
  <2>1. QED
    BY <1>3, <1>4, <1>5, <1>7, <1>15, CoverGrows
<1>17. \A p \in here \ pending' : \A q \in pending' : Precedes(p, q)
  BY <1>2, <1>4
<1>18. JudgeInv'
  <2>1. /\ device' = s /\ state'.next_offset = from /\ stop_at' = stop_at
        /\ pending' \subseteq here
    BY <1>1, <1>2, <1>4
  <2> HIDE DEF s, from
  <2>2. QED
    BY <1>4, <1>12, <1>14, <1>15, <1>16, <1>17, <2>1 DEF JudgeInv
<1>19. IndexInv' /\ StateInv' /\ CarryInv' /\ CommitInv' /\ Uncommitted'
  BY <1>1 DEF SessionInv, IndexInv, StateInv, CarryInv, CommitInv, Uncommitted, disk
<1>20. QED
  BY <1>18, <1>19 DEF SessionInv

\* EndSegment: the RecState becomes sound for the segment's end.
LEMMA EndSegmentKeeps ==
  ASSUME TypeOK, SessionInv, EndSegment
  PROVE  SessionInv'
<1>1. /\ pc = "judge" /\ pc' = "commit" /\ pending = {}
      /\ UNCHANGED <<disk, device, carry, segment, work>>
      /\ state' = [state EXCEPT
                     !.next_offset = stop_at,
                     !.candidates_committed = @ + Len(keep),
                     !.carry_cover_end = carry.cover_end,
                     !.carry_candidates = carry.candidates]
  BY DEF EndSegment
<1>2. state \in RecState /\ device \in Sources
  BY <1>1 DEF TypeOK, ControlTyped
<1>3. state = index.checkpoint /\ state.source = device /\ ~state.complete
  BY <1>1 DEF SessionInv, StateInv, Uncommitted
<1>4. /\ Regular(stop_at) /\ state.next_offset <= stop_at
      /\ carry.candidates = UsedBudget(device, stop_at)
      /\ Lists(keep, Part(Expected(device), state.next_offset, stop_at))
      /\ Covers(carry.cover_end, Below(Pool(device), stop_at))
  BY <1>1 DEF SessionInv, JudgeInv
<1>5. /\ state'.next_offset = stop_at /\ state'.carry_cover_end = carry.cover_end
      /\ state'.carry_candidates = carry.candidates /\ state'.source = device
      /\ ~state'.complete
  BY <1>1, <1>2, <1>3 DEF RecState
<1>6. Sound(state')
  BY <1>4, <1>5 DEF Sound
<1>7. device' = device /\ index' = index /\ keep' = keep /\ carry' = carry
  BY <1>1 DEF disk, work
<1>8. CommitInv'
  <2>1. Sound(state)'
    BY <1>6 DEF Sound, Regular, UsedBudget, Aligned, NothingIsBad
  <2>2. QED
    BY <1>3, <1>4, <1>5, <1>7, <2>1 DEF CommitInv
<1>9. IndexInv' /\ StateInv'
  BY <1>1, <1>2, <1>3, <1>5, <1>7 DEF SessionInv, IndexInv, StateInv
<1>10. CarryInv' /\ JudgeInv' /\ Uncommitted'
  BY <1>1 DEF CarryInv, JudgeInv, Uncommitted
<1>11. QED
  BY <1>8, <1>9, <1>10 DEF SessionInv

\* Two neighbouring stretches of one scan's results make one stretch.
LEMMA Stretches ==
  ASSUME NEW s \in Sources, NEW from \in Offsets, NEW to \in Offsets, from <= to
  PROVE  /\ Below(Expected(s), to) = Below(Expected(s), from) \cup Part(Expected(s), from, to)
         /\ \A a \in Below(Expected(s), from), b \in Part(Expected(s), from, to) :
              Precedes(a, b)
<1>1. from \in Nat /\ to \in Nat
  BY RangeAssumption DEF Offsets
<1>2. \A c \in Expected(s) : c.offset \in Nat
  BY PoolTyped
<1>3. QED
  BY <1>1, <1>2 DEF Below, Part, Precedes

\* CommitSegment: the rows of the segment follow those of what precedes it.
LEMMA CommitSegmentKeeps ==
  ASSUME TypeOK, SessionInv, CommitSegment
  PROVE  SessionInv'
<1>1. /\ pc = "commit" /\ pc' = "save"
      /\ index' = [rows |-> index.rows \o keep, checkpoint |-> state]
      /\ UNCHANGED <<device, state, carry, segment>>
  BY DEF CommitSegment
<1>2. /\ state \in RecState /\ device \in Sources /\ keep \in Seq(Hit)
      /\ index.rows \in Seq(Hit)
  BY <1>1 DEF TypeOK, ControlTyped, ScanTyped, DiskTyped
<1>3. /\ index.checkpoint \in RecState /\ index.checkpoint.source = device
      /\ state.source = device
  BY <1>1 DEF SessionInv, StateInv
<1>4. /\ Sound(state) /\ ~state.complete
      /\ index.checkpoint.next_offset <= state.next_offset
      /\ Lists(keep, Part(Expected(device), index.checkpoint.next_offset, state.next_offset))
  BY <1>1 DEF SessionInv, CommitInv
<1>5. Lists(index.rows, Below(Expected(device), index.checkpoint.next_offset))
  BY <1>3, CheckpointAssumption DEF SessionInv, IndexInv
<1>6. Lists(index.rows \o keep, Below(Expected(device), state.next_offset))
  <2>1. index.checkpoint.next_offset \in Offsets /\ state.next_offset \in Offsets
    BY <1>2, <1>3 DEF RecState
  <2>2. QED
    BY <1>2, <1>4, <1>5, <2>1, Stretches, ListsConcat
<1>7. index'.rows = index.rows \o keep /\ index'.checkpoint = state
  BY <1>1
<1>8. IndexInv'
  <2>1. Sound(index.checkpoint)'
    BY <1>4, <1>7 DEF Sound, Regular, UsedBudget, Aligned, NothingIsBad
  <2>2. QED
    BY <1>2, <1>3, <1>4, <1>6, <1>7, <2>1, CheckpointAssumption DEF IndexInv
<1>9. StateInv' /\ Uncommitted'
  BY <1>1, <1>2, <1>3, <1>4, <1>7 DEF StateInv, Uncommitted
<1>10. CarryInv'
  <2>1. carry.cover_end = state.carry_cover_end /\ carry.candidates = state.carry_candidates
    BY <1>1 DEF SessionInv, CommitInv
  <2>2. QED
    BY <1>1, <2>1 DEF CarryInv
<1>11. JudgeInv' /\ CommitInv'
  BY <1>1 DEF JudgeInv, CommitInv
<1>12. QED
  BY <1>8, <1>9, <1>10, <1>11 DEF SessionInv

\* The steps that only move the process on.
LEMMA SavingKeeps ==
  ASSUME TypeOK, SessionInv, SaveFresh \/ SaveSegment
  PROVE  SessionInv'
<1>1. /\ pc \in {"saveFresh", "save"} /\ pc' = "loop"
      /\ index' = index /\ device' = device /\ state' = state /\ carry' = carry
  BY DEF SaveFresh, SaveSegment, memory, work
<1>2. RegularSize(segment')
  <2>1. CASE SaveFresh
    BY <2>1 DEF SaveFresh, memory, SessionInv, CarryInv
  <2>2. CASE SaveSegment
    BY <2>2, RegularSegmentSizes DEF SaveSegment
  <2>3. QED
    BY <2>1, <2>2
<1>3. IndexInv' /\ StateInv' /\ Uncommitted'
  BY <1>1 DEF SessionInv, IndexInv, StateInv, Uncommitted
<1>4. CarryInv'
  <2>1. carry.cover_end = state.carry_cover_end /\ carry.candidates = state.carry_candidates
    BY <1>1 DEF SessionInv, CarryInv
  <2>2. RegularSize(segment)'
    BY <1>2 DEF RegularSize, NothingIsBad
  <2>3. QED
    BY <1>1, <2>1, <2>2 DEF CarryInv
<1>5. JudgeInv' /\ CommitInv'
  BY <1>1 DEF JudgeInv, CommitInv
<1>6. QED
  BY <1>3, <1>4, <1>5 DEF SessionInv

\* Finish: the RecState is complete only at the end of the range.
LEMMA FinishKeeps ==
  ASSUME TypeOK, SessionInv, Finish
  PROVE  SessionInv'
<1>1. /\ pc = "loop" /\ pc' = "seal" /\ state.next_offset >= RangeEnd
      /\ state' = [state EXCEPT !.complete = TRUE]
      /\ index' = index /\ device' = device
  BY DEF Finish, disk
<1>2. state \in RecState
  BY <1>1 DEF TypeOK, ControlTyped
<1>3. state = index.checkpoint /\ state.source = device
  BY <1>1 DEF SessionInv, StateInv
<1>4. state.next_offset = RangeEnd
  <2>1. state.next_offset \in Offsets
    BY <1>2 DEF RecState
  <2>2. QED
    BY <1>1, <2>1, RangeAssumption DEF Offsets
<1>5. /\ state'.source = state.source /\ state'.next_offset = state.next_offset
      /\ state'.carry_candidates = state.carry_candidates
      /\ state'.carry_cover_end = state.carry_cover_end
  BY <1>1, <1>2 DEF RecState
<1>6. IndexInv'
  BY <1>1 DEF SessionInv, IndexInv
<1>7. StateInv'
  BY <1>1, <1>2, <1>3, <1>4, <1>5 DEF StateInv
<1>8. CarryInv' /\ JudgeInv' /\ CommitInv' /\ Uncommitted'
  BY <1>1 DEF CarryInv, JudgeInv, CommitInv, Uncommitted
<1>9. QED
  BY <1>6, <1>7, <1>8 DEF SessionInv

\* CommitComplete: the completed checkpoint stands over the same rows.
LEMMA CommitCompleteKeeps ==
  ASSUME TypeOK, SessionInv, CommitComplete
  PROVE  SessionInv'
<1>1. /\ pc = "seal" /\ pc' = "sealSave" /\ index' = [index EXCEPT !.checkpoint = state]
      /\ device' = device /\ state' = state
  BY DEF CommitComplete, memory
<1>2. state \in RecState /\ index \in [rows : Seq(Hit), checkpoint : RecState \cup {NoCheckpoint}]
  BY <1>1 DEF TypeOK, ControlTyped, DiskTyped
<1>3. /\ index.checkpoint \in RecState /\ index.checkpoint.source = state.source
      /\ state.source = device
      /\ state.next_offset = RangeEnd /\ index.checkpoint.next_offset = RangeEnd
      /\ state.carry_candidates = index.checkpoint.carry_candidates
      /\ state.carry_cover_end = index.checkpoint.carry_cover_end
  BY <1>1 DEF SessionInv, StateInv
<1>4. index'.rows = index.rows /\ index'.checkpoint = state
  BY <1>1, <1>2
<1>5. /\ Sound(index.checkpoint)
      /\ Lists(index.rows, Below(Expected(index.checkpoint.source),
                                 index.checkpoint.next_offset))
  BY <1>3, CheckpointAssumption DEF SessionInv, IndexInv
<1>6. Sound(index.checkpoint)'
  BY <1>3, <1>4, <1>5 DEF Sound, Regular, UsedBudget, Aligned, NothingIsBad
<1>7. IndexInv'
  BY <1>2, <1>3, <1>4, <1>5, <1>6, CheckpointAssumption DEF IndexInv
<1>8. StateInv'
  BY <1>1, <1>3, <1>4 DEF StateInv
<1>9. CarryInv' /\ JudgeInv' /\ CommitInv' /\ Uncommitted'
  BY <1>1 DEF CarryInv, JudgeInv, CommitInv, Uncommitted
<1>10. QED
  BY <1>7, <1>8, <1>9 DEF SessionInv

\* Steps that touch nothing the invariant speaks of.
LEMMA OthersKeep ==
  ASSUME SessionInv, UNCHANGED <<disk, pc, memory>>
  PROVE  SessionInv'
<1>1. /\ index' = index /\ pc' = pc /\ device' = device /\ state' = state /\ carry' = carry
      /\ segment' = segment /\ pending' = pending /\ keep' = keep /\ stop_at' = stop_at
  BY DEF disk, memory, work
<1>2. IndexInv' /\ StateInv' /\ CarryInv'
  BY <1>1 DEF SessionInv, IndexInv, StateInv, CarryInv
<1>3. JudgeInv' /\ CommitInv' /\ Uncommitted'
  BY <1>1 DEF SessionInv, JudgeInv, CommitInv, Uncommitted
<1>4. QED
  BY <1>2, <1>3 DEF SessionInv

\* The invariant is kept by every step.
LEMMA SessionStep ==
  ASSUME WholeBlocks, TypeOK, SessionInv, [Next]_vars
  PROVE  SessionInv'
<1>1. ASSUME NEW s \in Sources, Start(s) \/ Resume(s) PROVE SessionInv'
  BY <1>1, StartKeeps, ResumeKeeps
<1>2. ASSUME NEW s \in Sources, ResumeRefused(s) \/ ResumeFinished(s) PROVE SessionInv'
  BY <1>2, OthersKeep DEF ResumeRefused, ResumeFinished
<1>3. CASE RequestStop \/ UNCHANGED vars
  BY <1>3, OthersKeep DEF RequestStop, vars
<1>4. CASE StopAtBoundary \/ SaveComplete \/ Kill
  BY <1>4, ExitKeeps DEF StopAtBoundary, SaveComplete, Kill, disk
<1>5. QED
  BY <1>1, <1>2, <1>3, <1>4, CommitFreshKeeps, ScanSegmentKeeps, JudgeCandidateKeeps,
     EndSegmentKeeps, CommitSegmentKeeps, SavingKeeps, FinishKeeps, CommitCompleteKeeps
  DEF Next, Process, User

\* The invariant in the terms of the properties.
LEMMA SessionInvMeans ==
  ASSUME TypeOK, SessionInv
  PROVE  /\ RowsMatch
         /\ index.checkpoint # NoCheckpoint /\ index.checkpoint.complete =>
              Lists(index.rows, Reported(index.checkpoint.source, RangeEnd))
<1> SUFFICES ASSUME index.checkpoint # NoCheckpoint
             PROVE  /\ Lists(index.rows, Reported(index.checkpoint.source,
                                                  index.checkpoint.next_offset))
                    /\ index.checkpoint.complete => index.checkpoint.next_offset = RangeEnd
  BY DEF RowsMatch
<1>1. index.checkpoint \in RecState
  BY DEF TypeOK, DiskTyped
<1>2. index.checkpoint.source \in Sources /\ index.checkpoint.next_offset \in Offsets
  BY <1>1 DEF RecState
<1>3. Reported(index.checkpoint.source, index.checkpoint.next_offset) =
        Below(Expected(index.checkpoint.source), index.checkpoint.next_offset)
  BY <1>2, ReportedIsBelow DEF Expected, Pool
<1>4. QED
  BY <1>3 DEF SessionInv, IndexInv

\* The session keeps its invariant, where segments are whole blocks or nothing
\* is bad.
LEMMA SessionKept == Spec => [](WholeBlocks => SessionInv)
<1>1. Init => (WholeBlocks => SessionInv)
  <2> SUFFICES ASSUME Init PROVE SessionInv
    OBVIOUS
  <2>1. index = EmptyIndex /\ pc = "off"
    BY DEF Init
  <2>2. QED
    BY <2>1 DEF SessionInv, IndexInv, StateInv, CarryInv, JudgeInv, CommitInv,
                Uncommitted, EmptyIndex
<1>2. TypeOK /\ (WholeBlocks => SessionInv) /\ [Next]_vars => (WholeBlocks => SessionInv)'
  <2>1. WholeBlocks' <=> WholeBlocks
    BY DEF WholeBlocks
  <2>2. QED
    BY <2>1, SessionStep
<1>3. QED
  BY <1>1, <1>2, TypeCorrect, PTL DEF Spec

\* However a carve is killed, stopped and resumed, the rows its index holds are
\* at every moment those one uninterrupted scan reports below next_offset, in
\* order, none lost and none twice.
THEOREM RowsAreOneScans == Spec => []CommittedRowsAreTheScan
<1>1. TypeOK /\ (WholeBlocks => SessionInv) => CommittedRowsAreTheScan
  BY SessionInvMeans DEF CommittedRowsAreTheScan
<1>2. QED
  BY <1>1, TypeCorrect, SessionKept, PTL

\* A carve that is called complete holds all that the one scan reports of the
\* whole range.
THEOREM CompleteCarvesAreWhole == Spec => []CompleteIsWholeScan
<1>1. TypeOK /\ (WholeBlocks => SessionInv) => CompleteIsWholeScan
  BY SessionInvMeans DEF CompleteIsWholeScan
<1>2. QED
  BY <1>1, TypeCorrect, SessionKept, PTL

-----------------------------------------------------------------------------
(* The row count.                                                          *)

\* Rows and counter move together, except between judging a segment and
\* committing it, when the counter is ahead by what is kept.
CountInv ==
  /\ index.checkpoint # NoCheckpoint =>
       Len(index.rows) = index.checkpoint.candidates_committed
  /\ pc \notin {"off", "commit"} => state.candidates_committed = Len(index.rows)
  /\ pc = "commit" => state.candidates_committed = Len(index.rows) + Len(keep)

\* Every step keeps the number of rows and the counts in step.
LEMMA CountStep ==
  ASSUME TypeOK, CountInv, [Next]_vars PROVE CountInv'
<1>0. /\ pc # "off" => state \in RecState
      /\ index \in [rows : Seq(Hit), checkpoint : RecState \cup {NoCheckpoint}]
      /\ keep \in Seq(Hit)
  BY DEF TypeOK, ControlTyped, DiskTyped, ScanTyped
<1>1. ASSUME NEW s \in Sources, Start(s) PROVE CountInv'
  BY <1>1 DEF CountInv, Start, EmptyIndex, Fresh
<1>2. CASE CommitFresh \/ CommitComplete
  <2>1. /\ index' = [index EXCEPT !.checkpoint = state] /\ state' = state
        /\ pc \notin {"off", "commit"} /\ pc' \notin {"off", "commit"}
    BY <1>2 DEF CommitFresh, CommitComplete, memory
  <2>2. index'.rows = index.rows /\ index'.checkpoint = state
    BY <1>0, <2>1
  <2>3. QED
    BY <2>1, <2>2 DEF CountInv
<1>3. ASSUME NEW s \in Sources, Resume(s) PROVE CountInv'
  BY <1>3 DEF CountInv, Resume, Refusal, disk
<1>4. ASSUME pc' = "off", index' = index PROVE CountInv'
  BY <1>4 DEF CountInv
<1>5. CASE SaveFresh \/ SaveSegment \/ ScanSegment \/ JudgeCandidate
  <2>1. /\ index' = index /\ state' = state
        /\ pc \notin {"off", "commit"} /\ pc' \notin {"off", "commit"}
    BY <1>5, Zenon DEF SaveFresh, SaveSegment, ScanSegment, JudgeCandidate, disk, memory
  <2>2. QED
    BY <2>1 DEF CountInv
<1>6. CASE EndSegment
  <2>1. /\ pc = "judge" /\ pc' = "commit" /\ index' = index /\ keep' = keep
        /\ state' = [state EXCEPT
                       !.next_offset = stop_at,
                       !.candidates_committed = @ + Len(keep),
                       !.carry_cover_end = carry.cover_end,
                       !.carry_candidates = carry.candidates]
    BY <1>6 DEF EndSegment, disk, work
  <2>2. state'.candidates_committed = state.candidates_committed + Len(keep)
    BY <1>0, <2>1 DEF RecState
  <2>3. QED
    BY <2>1, <2>2 DEF CountInv
<1>7. CASE CommitSegment
  <2>1. /\ pc = "commit" /\ pc' = "save" /\ state' = state
        /\ index' = [rows |-> index.rows \o keep, checkpoint |-> state]
    BY <1>7 DEF CommitSegment
  <2>2. Len(index.rows \o keep) = Len(index.rows) + Len(keep)
    BY <1>0
  <2>3. QED
    BY <2>1, <2>2 DEF CountInv
<1>8. CASE Finish
  <2>1. /\ pc = "loop" /\ pc' = "seal" /\ index' = index
        /\ state' = [state EXCEPT !.complete = TRUE]
    BY <1>8 DEF Finish, disk
  <2>2. state'.candidates_committed = state.candidates_committed
    BY <1>0, <2>1 DEF RecState
  <2>3. QED
    BY <2>1, <2>2 DEF CountInv
<1>9. ASSUME UNCHANGED <<disk, pc, memory>> PROVE CountInv'
  BY <1>9 DEF CountInv, disk, memory, work
<1>10. QED
  BY <1>1, <1>2, <1>3, <1>4, <1>5, <1>6, <1>7, <1>8, <1>9, Zenon
  DEF Next, Process, User, ResumeRefused, ResumeFinished, StopAtBoundary, SaveComplete,
      RequestStop, Kill, Exit, vars, disk

\* With the counts in step no resume is refused for the row count.
LEMMA NotRefused ==
  ASSUME CountInv, outcome # "row count", [Next]_vars PROVE outcome' # "row count"
<1>1. ASSUME NEW s \in Sources, ResumeRefused(s) PROVE outcome' # "row count"
  BY <1>1 DEF CountInv, ResumeRefused, Refusal
<1>2. /\ "none" # "row count" /\ "stopped" # "row count"
      /\ "complete" # "row count" /\ "killed" # "row count"
  OBVIOUS
<1>3. QED
  BY <1>1, <1>2, Zenon
  DEF Next, Process, User, Start, CommitFresh, SaveFresh, ResumeFinished, Resume,
      StopAtBoundary, ScanSegment, JudgeCandidate, EndSegment, CommitSegment,
      SaveSegment, Finish, CommitComplete, SaveComplete, RequestStop, Kill, Exit, vars

\* A resume never refuses an index this program wrote for its row count.
THEOREM OwnIndexNeverRefused == Spec => []OwnIndexIsAccepted
<1>1. Init => CountInv /\ outcome # "row count"
  BY DEF Init, CountInv, EmptyIndex
<1>2. TypeOK /\ (CountInv /\ outcome # "row count") /\ [Next]_vars
        => (CountInv /\ outcome # "row count")'
  BY CountStep, NotRefused
<1>3. CountInv /\ outcome # "row count" => OwnIndexIsAccepted
  BY DEF CountInv, OwnIndexIsAccepted
<1>4. QED
  BY <1>1, <1>2, <1>3, TypeCorrect, PTL DEF Spec

-----------------------------------------------------------------------------
(* Committed work.                                                         *)

\* How the process stands to the committed checkpoint at each step.  It needs
\* nothing of the blocks: what a scan finds may be wrong, and is kept all the
\* same.
KeepInv ==
  /\ pc = "create" => index.checkpoint = NoCheckpoint
  /\ pc \in {"saveFresh", "loop", "judge", "save", "sealSave"} => index.checkpoint = state
  /\ pc \in {"loop", "judge"} => ~state.complete
  /\ pc = "judge" => state.next_offset <= stop_at
  /\ pc \in {"commit", "seal"} =>
       /\ index.checkpoint \in RecState /\ ~index.checkpoint.complete
       /\ index.checkpoint.source = state.source
       /\ index.checkpoint.next_offset <= state.next_offset
  /\ pc \in {"create", "saveFresh", "commit", "save"} => ~state.complete

\* Every step keeps the process in its place.
LEMMA KeepStep ==
  ASSUME TypeOK, KeepInv, [Next]_vars PROVE KeepInv'
<1>0. /\ pc # "off" => state \in RecState
      /\ index \in [rows : Seq(Hit), checkpoint : RecState \cup {NoCheckpoint}]
  BY DEF TypeOK, ControlTyped, DiskTyped
<1>1. ASSUME NEW s \in Sources, Start(s) PROVE KeepInv'
  BY <1>1 DEF KeepInv, Start, EmptyIndex, Fresh
<1>2. CASE CommitFresh \/ CommitComplete
  <2>1. /\ index' = [index EXCEPT !.checkpoint = state] /\ state' = state
        /\ \/ pc = "create" /\ pc' = "saveFresh"
           \/ pc = "seal" /\ pc' = "sealSave"
    BY <1>2 DEF CommitFresh, CommitComplete, memory
  <2>2. index'.checkpoint = state
    BY <1>0, <2>1
  <2>3. QED
    BY <2>1, <2>2 DEF KeepInv
<1>3. ASSUME NEW s \in Sources, Resume(s) PROVE KeepInv'
  BY <1>3 DEF KeepInv, Resume, disk
<1>4. ASSUME pc' = "off" PROVE KeepInv'
  BY <1>4 DEF KeepInv
<1>5. CASE SaveFresh \/ SaveSegment
  BY <1>5 DEF KeepInv, SaveFresh, SaveSegment, memory
<1>6. CASE ScanSegment
  <2>1. PICK T \in SUBSET Claimed(device, state.next_offset,
                                  LesserOf(state.next_offset + segment, RangeEnd)) :
          stop_at' = LesserOf(state.next_offset + segment, RangeEnd)
    BY <1>6 DEF ScanSegment
  <2>2. /\ pc = "loop" /\ pc' = "judge" /\ index' = index /\ state' = state
    BY <1>6 DEF ScanSegment, disk
  <2>3. state.next_offset <= stop_at'
    BY <2>1, <2>2, ScannedTyped DEF TypeOK
  <2>4. QED
    BY <2>2, <2>3 DEF KeepInv
<1>7. CASE JudgeCandidate
  BY <1>7 DEF KeepInv, JudgeCandidate, disk
<1>8. CASE EndSegment
  <2>1. /\ pc = "judge" /\ pc' = "commit" /\ index' = index
        /\ state' = [state EXCEPT
                       !.next_offset = stop_at,
                       !.candidates_committed = @ + Len(keep),
                       !.carry_cover_end = carry.cover_end,
                       !.carry_candidates = carry.candidates]
    BY <1>8 DEF EndSegment, disk
  <2>2. /\ state'.next_offset = stop_at /\ state'.source = state.source
        /\ state'.complete = state.complete
    BY <1>0, <2>1 DEF RecState
  <2>3. QED
    BY <1>0, <2>1, <2>2 DEF KeepInv
<1>9. CASE CommitSegment
  BY <1>9 DEF KeepInv, CommitSegment
<1>10. CASE Finish
  <2>1. /\ pc = "loop" /\ pc' = "seal" /\ index' = index
        /\ state' = [state EXCEPT !.complete = TRUE]
    BY <1>10 DEF Finish, disk
  <2>2. /\ state'.next_offset = state.next_offset /\ state'.source = state.source
        /\ state.next_offset \in Int
    BY <1>0, <2>1, RangeAssumption DEF RecState, Offsets
  <2>3. QED
    BY <1>0, <2>1, <2>2 DEF KeepInv
<1>11. ASSUME UNCHANGED <<disk, pc, memory>> PROVE KeepInv'
  BY <1>11 DEF KeepInv, disk, memory, work
<1>12. QED
  BY <1>1, <1>2, <1>3, <1>4, <1>5, <1>6, <1>7, <1>8, <1>9, <1>10, <1>11, Zenon
  DEF Next, Process, User, ResumeRefused, ResumeFinished, StopAtBoundary, SaveComplete,
      RequestStop, Kill, Exit, vars

\* The process is in its place in every state of the session.
LEMMA WorkIsInPlace == Spec => []KeepInv
<1>1. Init => KeepInv
  BY DEF Init, KeepInv
<1>2. TypeOK /\ KeepInv /\ [Next]_vars => KeepInv'
  BY KeepStep
<1>3. QED
  BY <1>1, <1>2, TypeCorrect, PTL DEF Spec

\* What a step may do to an index that has a checkpoint.
WorkIsKept ==
  \/ starts' # starts
  \/ index.checkpoint = NoCheckpoint
  \/ /\ index'.checkpoint # NoCheckpoint
     /\ IsExtension(index.rows, index'.rows)
     /\ index'.checkpoint.source = index.checkpoint.source
     /\ index'.checkpoint.next_offset >= index.checkpoint.next_offset
     /\ index.checkpoint.complete => index' = index

\* A list is an extension of itself, and so is what it is the beginning of.
LEMMA Extensions ==
  ASSUME NEW r \in Seq(Hit), NEW k \in Seq(Hit)
  PROVE  IsExtension(r, r) /\ IsExtension(r, r \o k)
BY DEF IsExtension

\* No step but a fresh start takes anything back from the index.
LEMMA WorkStep ==
  ASSUME TypeOK, KeepInv, [Next]_vars PROVE WorkIsKept
<1> SUFFICES ASSUME index.checkpoint # NoCheckpoint, starts' = starts
             PROVE  /\ index'.checkpoint # NoCheckpoint
                    /\ IsExtension(index.rows, index'.rows)
                    /\ index'.checkpoint.source = index.checkpoint.source
                    /\ index'.checkpoint.next_offset >= index.checkpoint.next_offset
                    /\ index.checkpoint.complete => index' = index
  BY DEF WorkIsKept
<1>1. /\ pc # "off" => state \in RecState
      /\ index.checkpoint \in RecState /\ index.rows \in Seq(Hit) /\ keep \in Seq(Hit)
      /\ index \in [rows : Seq(Hit), checkpoint : RecState \cup {NoCheckpoint}]
  BY DEF TypeOK, ControlTyped, DiskTyped, ScanTyped
<1>2. CASE index' = index
  <2>1. index.checkpoint.next_offset \in Int
    BY <1>1, RangeAssumption DEF RecState, Offsets
  <2>2. QED
    BY <1>1, <1>2, <2>1, Extensions
<1>3. CASE CommitSegment
  <2>1. /\ pc = "commit" /\ index' = [rows |-> index.rows \o keep, checkpoint |-> state]
    BY <1>3 DEF CommitSegment
  <2>2. /\ index'.rows = index.rows \o keep /\ index'.checkpoint = state
        /\ state \in RecState
    BY <1>1, <2>1
  <2>3. IsExtension(index.rows, index'.rows)
    BY <1>1, <2>2, Extensions
  <2>4. /\ state.source = index.checkpoint.source /\ ~index.checkpoint.complete
        /\ index.checkpoint.next_offset <= state.next_offset
    BY <2>1 DEF KeepInv
  <2>5. index.checkpoint.next_offset \in Int /\ state.next_offset \in Int
    BY <1>1, <2>2, RangeAssumption DEF RecState, Offsets
  <2>6. QED
    BY <2>2, <2>3, <2>4, <2>5, CheckpointAssumption
<1>4. CASE CommitComplete
  <2>1. /\ pc = "seal" /\ index' = [index EXCEPT !.checkpoint = state]
    BY <1>4 DEF CommitComplete
  <2>2. /\ index'.rows = index.rows /\ index'.checkpoint = state /\ state \in RecState
    BY <1>1, <2>1
  <2>3. IsExtension(index.rows, index'.rows)
    BY <1>1, <2>2, Extensions
  <2>4. /\ state.source = index.checkpoint.source /\ ~index.checkpoint.complete
        /\ index.checkpoint.next_offset <= state.next_offset
    BY <2>1 DEF KeepInv
  <2>5. index.checkpoint.next_offset \in Int /\ state.next_offset \in Int
    BY <1>1, <2>2, RangeAssumption DEF RecState, Offsets
  <2>6. QED
    BY <2>2, <2>3, <2>4, <2>5, CheckpointAssumption
<1>5. ~CommitFresh
  BY DEF CommitFresh, KeepInv
<1>6. ASSUME NEW s \in Sources PROVE ~Start(s)
  <2>1. starts \in Nat
    BY SessionAssumption DEF TypeOK, CountsTyped
  <2>2. QED
    BY <2>1 DEF Start
<1>7. QED
  BY <1>2, <1>3, <1>4, <1>5, <1>6, Zenon
  DEF Next, Process, User, SaveFresh, ResumeRefused, ResumeFinished, Resume,
      StopAtBoundary, ScanSegment, JudgeCandidate, EndSegment, SaveSegment, Finish,
      SaveComplete, RequestStop, Kill, vars, disk

\* Until the user begins afresh, no kill, stop or resume takes back a committed
\* row, moves the checkpoint back, gives it to another device, or touches a
\* complete carve.
THEOREM CommittedWorkIsNeverLost == Spec => CommittedWorkIsKept
<1>1. TypeOK /\ KeepInv /\ [Next]_vars => [WorkIsKept]_index
  BY WorkStep
<1>2. CommittedWorkIsKept <=> [][WorkIsKept]_index
  BY PTL DEF CommittedWorkIsKept, WorkIsKept
<1>3. QED
  BY <1>1, <1>2, TypeCorrect, WorkIsInPlace, PTL DEF Spec

-----------------------------------------------------------------------------
(* Stops.                                                                  *)

\* What a stop finds: a process with nothing kept back at a boundary, on its own
\* device, beside the file a resume looks for.
StopInv ==
  /\ pc = "off" => ~stop
  /\ pc \notin {"judge", "commit"} => keep = <<>>
  /\ pc \notin {"off", "create", "saveFresh"} => recstate # NoCheckpoint
  /\ pc # "off" => state.source = device

\* Every step keeps it so.
LEMMA StopInvStep ==
  ASSUME TypeOK, StopInv, [Next]_vars PROVE StopInv'
<1>0. pc # "off" => state \in RecState /\ state # NoCheckpoint
  BY CheckpointAssumption DEF TypeOK, ControlTyped
<1>1. ASSUME NEW s \in Sources, Start(s) PROVE StopInv'
  BY <1>1 DEF StopInv, Start, Fresh, work
<1>2. ASSUME NEW s \in Sources, Resume(s) PROVE StopInv'
  BY <1>2 DEF StopInv, Resume, Refusal, disk, work
<1>3. CASE CommitFresh \/ CommitComplete
  BY <1>3 DEF StopInv, CommitFresh, CommitComplete, memory, work
<1>4. CASE SaveFresh \/ SaveSegment
  BY <1>0, <1>4 DEF StopInv, SaveFresh, SaveSegment, memory, work
<1>5. ASSUME Exit("stopped") \/ Exit("complete") \/ Exit("killed") PROVE StopInv'
  BY <1>5 DEF StopInv, Exit
<1>6. CASE ScanSegment \/ JudgeCandidate
  <2>1. /\ pc \in {"loop", "judge"} /\ pc' = "judge"
        /\ UNCHANGED <<recstate, state, device>>
    BY <1>6, Zenon DEF ScanSegment, JudgeCandidate, disk
  <2> QED BY <2>1 DEF StopInv
<1>7. CASE EndSegment \/ Finish
  <2>1. /\ (pc = "judge" /\ pc' = "commit") \/ (pc = "loop" /\ pc' = "seal")
        /\ UNCHANGED <<recstate, device, keep>>
    BY <1>7 DEF EndSegment, Finish, disk, work
  <2>2. state'.source = state.source
    BY <1>0, <1>7 DEF EndSegment, Finish, RecState
  <2> QED BY <2>1, <2>2 DEF StopInv
<1>8. CASE CommitSegment
  BY <1>8 DEF StopInv, CommitSegment
<1>9. CASE RequestStop
  BY <1>9 DEF StopInv, RequestStop, disk, memory, work
<1>10. ASSUME UNCHANGED <<disk, pc, memory, stop>> PROVE StopInv'
  BY <1>10 DEF StopInv, disk, memory, work
<1>11. QED
  BY <1>1, <1>2, <1>3, <1>4, <1>5, <1>6, <1>7, <1>8, <1>9, <1>10, Zenon
  DEF Next, Process, User, ResumeRefused, ResumeFinished, StopAtBoundary, SaveComplete, Kill, vars

\* What a step may do while the flag is up, and what a stopped process leaves.
StopObeyed ==
  /\ stop /\ pc' # "off" =>
       /\ stop' /\ stop_at' = stop_at
       /\ state'.next_offset \in {state.next_offset, stop_at}
  /\ outcome' = "stopped" /\ outcome # "stopped" =>
       /\ keep = <<>> /\ Refusal(device) = "none"
       /\ index.checkpoint = state /\ ~state.complete

LEMMA StopStep ==
  ASSUME TypeOK, KeepInv, CountInv, StopInv, [Next]_vars PROVE StopObeyed \/ UNCHANGED vars
<1> SUFFICES ASSUME Next PROVE StopObeyed
  OBVIOUS
<1>0. pc # "off" => state \in RecState /\ state # NoCheckpoint
  BY CheckpointAssumption DEF TypeOK, ControlTyped
<1>1. ASSUME stop, pc' # "off"
      PROVE  stop' /\ stop_at' = stop_at /\ state'.next_offset \in {state.next_offset, stop_at}
  <2>1. pc # "off" /\ ~ScanSegment
    BY <1>1 DEF StopInv, ScanSegment, StopSeen
  <2>2. ASSUME EndSegment \/ Finish
        PROVE  stop_at' = stop_at /\ state'.next_offset \in {state.next_offset, stop_at}
    BY <1>0, <2>1, <2>2 DEF EndSegment, Finish, RecState, work
  <2>4. ASSUME ~EndSegment, ~Finish PROVE UNCHANGED <<stop_at, state>> /\ stop'
    BY <1>1, <2>1, <2>4, Zenon
    DEF Next, Process, User, Start, CommitFresh, SaveFresh, ResumeRefused, ResumeFinished, Resume,
        StopAtBoundary, JudgeCandidate, CommitSegment, SaveSegment, CommitComplete, SaveComplete,
        RequestStop, Kill, Exit, memory, work
  <2>5. stop'
    BY <1>1, <2>4, Zenon DEF EndSegment, Finish
  <2>6. CASE EndSegment \/ Finish
    BY <2>2, <2>5, <2>6
  <2>7. CASE ~EndSegment /\ ~Finish
    BY <2>4, <2>7
  <2> QED BY <2>6, <2>7
<1>2. ASSUME outcome' = "stopped", outcome # "stopped"
      PROVE  /\ keep = <<>> /\ Refusal(device) = "none"
             /\ index.checkpoint = state /\ ~state.complete
  <2>1. StopAtBoundary
    <3>1. "none" # "stopped" /\ "complete" # "stopped" /\ "killed" # "stopped"
      OBVIOUS
    <3>2. \A s \in Sources : Refusal(s) # "stopped"
      BY DEF Refusal
    <3> QED
      BY <1>2, <3>1, <3>2, Zenon
      DEF Next, Process, User, Start, CommitFresh, SaveFresh, ResumeRefused, ResumeFinished, Resume,
          ScanSegment, JudgeCandidate, EndSegment, CommitSegment, SaveSegment, Finish, CommitComplete,
          SaveComplete, RequestStop, Kill, Exit
  <2>2. pc = "loop"
    BY <2>1 DEF StopAtBoundary
  <2>3. /\ index.checkpoint = state /\ ~state.complete /\ keep = <<>>
        /\ recstate # NoCheckpoint /\ state.source = device
    BY <2>2 DEF KeepInv, StopInv
  <2>4. Len(index.rows) = index.checkpoint.candidates_committed
    BY <1>0, <2>2, <2>3 DEF CountInv
  <2> QED BY <1>0, <2>2, <2>3, <2>4 DEF Refusal
<1>3. QED
  BY <1>1, <1>2 DEF StopObeyed

\* A stop is honoured at the next segment boundary, with everything kept so far
\* committed and the carve ready to be resumed from there.
THEOREM StopsAreHonoured == Spec => StopIsObeyed
<1>1. Init => CountInv /\ StopInv
  BY DEF Init, CountInv, EmptyIndex, StopInv
<1>2. TypeOK /\ (CountInv /\ StopInv) /\ [Next]_vars => (CountInv /\ StopInv)'
  BY CountStep, StopInvStep
<1>3. TypeOK /\ KeepInv /\ CountInv /\ StopInv /\ [Next]_vars => [StopObeyed]_vars
  BY StopStep
<1>4. StopIsObeyed <=> [][StopObeyed]_vars
  BY PTL DEF StopIsObeyed, StopObeyed
<1>5. QED
  BY <1>1, <1>2, <1>3, <1>4, TypeCorrect, WorkIsInPlace, PTL DEF Spec

-----------------------------------------------------------------------------
(* The refinement of CarveJob.                                             *)

Whole(s) == Listing(Reported(s, RangeEnd))

\* The whole list of a device lists what one scan expects of it.
LEMMA WholeLists ==
  ASSUME NEW s \in Sources
  PROVE  /\ Expected(s) \subseteq Hits[s] /\ Whole(s) \in Seq(Hit)
         /\ Lists(Whole(s), Expected(s))
         /\ \A c \in Expected(s) : c.offset < RangeEnd
<1>1. /\ Expected(s) \subseteq Hits[s]
      /\ \A c \in Expected(s) : c.offset \in Nat /\ c.offset < RangeEnd
  BY ClaimedAreHits DEF Expected, Kept, Pool, Accepted
<1>2. Reported(s, RangeEnd) = Below(Expected(s), RangeEnd)
  <2>1. RangeEnd \in Offsets
    BY RangeAssumption DEF Offsets
  <2>2. QED
    BY <2>1, ReportedIsBelow DEF Expected, Pool
<1>3. Below(Expected(s), RangeEnd) = Expected(s)
  BY <1>1 DEF Below
<1>4. QED
  BY <1>1, <1>2, <1>3, ListingLists DEF Whole

\* The committed rows are the beginning of that list, and all of it at the end
\* of the range.
RowsBegin ==
  index.checkpoint # NoCheckpoint =>
    /\ Len(index.rows) <= Len(Whole(index.checkpoint.source))
    /\ index.rows = SubSeq(Whole(index.checkpoint.source), 1, Len(index.rows))
    /\ index.checkpoint.next_offset = RangeEnd => index.rows = Whole(index.checkpoint.source)

\* So they are in every state the session's invariant allows.
LEMMA RowsBeginTheList == TypeOK /\ SessionInv => RowsBegin
<1> SUFFICES ASSUME TypeOK, SessionInv, index.checkpoint # NoCheckpoint
             PROVE  LET q == Whole(index.checkpoint.source) IN
                    /\ Len(index.rows) <= Len(q)
                    /\ index.rows = SubSeq(q, 1, Len(index.rows))
                    /\ index.checkpoint.next_offset = RangeEnd => index.rows = q
  BY DEF RowsBegin
<1> DEFINE s == index.checkpoint.source
           n == index.checkpoint.next_offset
           r == index.rows
           q == Whole(s)
           A == Below(Expected(s), n)
<1>1. s \in Sources /\ n \in Offsets /\ r \in Seq(Hit)
  BY DEF TypeOK, DiskTyped, RecState
<1>2. Lists(r, A)
  BY DEF SessionInv, IndexInv
<1>3. /\ Expected(s) \subseteq Hits[s] /\ q \in Seq(Hit) /\ Lists(q, Expected(s))
      /\ \A c \in Expected(s) : c.offset < RangeEnd
  BY <1>1, WholeLists
<1>4. A \subseteq Expected(s)
  BY DEF Below
<1>5. \A a \in A, b \in Expected(s) : Precedes(b, a) => b \in A
  <2> SUFFICES ASSUME NEW a \in A, NEW b \in Expected(s), Precedes(b, a) PROVE b.offset < n
    BY DEF Below
  <2>1. a \in Hit /\ b \in Hit
    BY <1>1, <1>3, <1>4, SubsetsOfHits
  <2>2. a.offset < n /\ b.offset <= a.offset
    BY <2>1, RangeAssumption DEF Below, Precedes, Hit
  <2>3. QED
    BY <1>1, <2>1, <2>2, RangeAssumption DEF Hit, Offsets
<1>6. Len(r) <= Len(q) /\ r = SubSeq(q, 1, Len(r))
  <2> HIDE DEF s, n, r, q, A
  <2>1. QED
    BY <1>1, <1>2, <1>3, <1>4, <1>5, ListsBeginAlike
<1>7. ASSUME n = RangeEnd PROVE r = q
  <2>1. A = Expected(s)
    BY <1>3, <1>7 DEF Below
  <2>2. Len(r) = Cardinality(A) /\ Len(q) = Cardinality(A)
    <3> HIDE DEF s, n, r, q, A
    <3>1. QED
      BY <1>1, <1>2, <1>3, <2>1, ListedLength
  <2>3. r = SubSeq(q, 1, Len(q))
    BY <1>6, <2>2
  <2> HIDE DEF s, n, r, q, A
  <2>4. QED
    BY <1>3, <2>3
<1>8. QED
  BY <1>6, <1>7

\* Every step of the session is a step of the job, or nothing to it.
LEMMA StepIsJobs ==
  ASSUME TypeOK, SessionInv, KeepInv, RowsBegin, RowsBegin', [Next]_vars
  PROVE  [Job!Next]_(Job!vars)
<1>1. /\ pc # "off" => state \in RecState
      /\ index \in [rows : Seq(Hit), checkpoint : RecState \cup {NoCheckpoint}]
  BY DEF TypeOK, ControlTyped, DiskTyped
<1>2. CASE index' = index
  BY <1>2 DEF Job!vars
<1>3. ASSUME NEW s \in Sources, Start(s) PROVE Job!Next
  <2>1. index' = EmptyIndex
    BY <1>3 DEF Start
  <2>2. QED
    BY <2>1 DEF EmptyIndex, Job!Next, Job!Discard
<1>4. CASE CommitFresh
  <2>1. /\ pc = "create" /\ index' = [index EXCEPT !.checkpoint = state]
    BY <1>4 DEF CommitFresh
  <2>2. /\ index.checkpoint = NoCheckpoint /\ ~state.complete
        /\ index'.rows = index.rows /\ index'.checkpoint = state /\ state \in RecState
    BY <1>1, <2>1 DEF KeepInv
  <2>3. state # NoCheckpoint /\ state.source \in Sources
    BY <2>2, CheckpointAssumption DEF RecState
  <2>4. Job!Begin(state.source)
    BY <2>2, <2>3 DEF Job!Begin
  <2>5. QED
    BY <2>3, <2>4 DEF Job!Next
<1>5. CASE CommitSegment
  <2>1. /\ pc = "commit" /\ index' = [rows |-> index.rows \o keep, checkpoint |-> state]
    BY <1>5 DEF CommitSegment
  <2>2. /\ index.checkpoint \in RecState /\ ~index.checkpoint.complete /\ ~state.complete
        /\ index.checkpoint.source = state.source /\ state \in RecState
    BY <1>1, <2>1 DEF KeepInv
  <2>3. /\ index.checkpoint # NoCheckpoint /\ index'.checkpoint # NoCheckpoint
        /\ index'.checkpoint = state /\ index'.rows = index.rows \o keep
        /\ state.source \in Sources
    BY <2>1, <2>2, CheckpointAssumption DEF RecState
  <2>4. /\ Len(index'.rows) <= Len(Whole(state.source))
        /\ index'.rows = SubSeq(Whole(state.source), 1, Len(index'.rows))
    BY <2>3 DEF RowsBegin
  <2>5. Len(index'.rows) \in Len(index.rows) .. Len(Whole(state.source))
    <3>1. index.rows \in Seq(Hit) /\ keep \in Seq(Hit) /\ Whole(state.source) \in Seq(Hit)
      BY <1>1, <2>3, WholeLists DEF TypeOK, ScanTyped
    <3>2. Len(index.rows \o keep) = Len(index.rows) + Len(keep)
      BY <3>1
    <3>3. QED
      BY <2>3, <2>4, <3>1, <3>2
  <2>6. Job!Extend
    <3> DEFINE job == IF index.checkpoint = NoCheckpoint THEN NoCheckpoint
                      ELSE index.checkpoint.source
               list == [s \in Sources |-> Listing(Reported(s, RangeEnd))]
               complete == index.checkpoint # NoCheckpoint /\ index.checkpoint.complete
    <3>1. job = state.source /\ job # NoCheckpoint
      BY <2>2, <2>3, CheckpointAssumption
    <3>2. list[job] = Whole(state.source)
      BY <2>3, <3>1 DEF Whole
    <3>3. ~complete
      BY <2>2
    <3>4. \E n \in Len(index.rows) .. Len(list[job]) : index.rows' = SubSeq(list[job], 1, n)
      BY <2>4, <2>5, <3>2
    <3>5. job' = job
      BY <2>2, <2>3, <3>1
    <3>6. complete' = complete
      BY <2>2, <2>3
    <3>7. QED
      BY <3>1, <3>3, <3>4, <3>5, <3>6 DEF Job!Extend
  <2>7. QED
    BY <2>6 DEF Job!Next
<1>6. CASE CommitComplete
  <2>1. /\ pc = "seal" /\ index' = [index EXCEPT !.checkpoint = state]
    BY <1>6 DEF CommitComplete
  <2>2. /\ index.checkpoint \in RecState /\ ~index.checkpoint.complete
        /\ index.checkpoint.source = state.source /\ state \in RecState
        /\ index.checkpoint.next_offset = RangeEnd
    BY <1>1, <2>1 DEF KeepInv, SessionInv, StateInv
  <2>3. /\ index.checkpoint # NoCheckpoint /\ index'.checkpoint # NoCheckpoint
        /\ index'.checkpoint = state /\ index'.rows = index.rows
        /\ state.source \in Sources
    BY <1>1, <2>1, <2>2, CheckpointAssumption DEF RecState
  <2>4. index.rows = Whole(state.source)
    BY <2>2, <2>3 DEF RowsBegin
  <2>5. CASE state.complete
    <3> DEFINE job == IF index.checkpoint = NoCheckpoint THEN NoCheckpoint
                      ELSE index.checkpoint.source
               list == [s \in Sources |-> Listing(Reported(s, RangeEnd))]
               complete == index.checkpoint # NoCheckpoint /\ index.checkpoint.complete
    <3>1. job = state.source /\ job # NoCheckpoint
      BY <2>2, <2>3, CheckpointAssumption
    <3>2. list[job] = index.rows
      BY <2>3, <2>4, <3>1 DEF Whole
    <3>3. ~complete
      BY <2>2
    <3>4. job' = job /\ index.rows' = index.rows
      BY <2>2, <2>3, <3>1
    <3>5. complete' = TRUE
      BY <2>2, <2>3, <2>5
    <3>6. Job!Finish
      BY <3>1, <3>2, <3>3, <3>4, <3>5 DEF Job!Finish
    <3>7. QED
      BY <3>6 DEF Job!Next
  <2>6. CASE ~state.complete
    BY <2>2, <2>3, <2>6 DEF Job!vars
  <2>7. QED
    BY <2>5, <2>6
<1>7. QED
  BY <1>2, <1>3, <1>4, <1>5, <1>6, Zenon
  DEF Next, Process, User, SaveFresh, ResumeRefused, ResumeFinished, Resume,
      StopAtBoundary, ScanSegment, JudgeCandidate, EndSegment, SaveSegment, Finish,
      SaveComplete, RequestStop, Kill, vars, disk

\* The session, killed, stopped and resumed as it may be, implements the carve
\* that has no process in it: its results only grow along the list of the one
\* uninterrupted scan, and are called complete when they are that list.
THEOREM SessionIsACarveJob == ASSUME WholeBlocks PROVE Spec => ImplementsCarveJob
<1>1. Init => Job!Init
  BY DEF Init, EmptyIndex, Job!Init
<1>2. TypeOK /\ SessionInv /\ KeepInv /\ RowsBegin /\ RowsBegin' /\ [Next]_vars
        => [Job!Next]_(Job!vars)
  BY StepIsJobs
<1>3. (WholeBlocks => SessionInv) <=> SessionInv
  OBVIOUS
<1>4. Spec => []SessionInv
  BY <1>3, SessionKept, PTL
<1>5. QED
  BY <1>1, <1>2, <1>4, TypeCorrect, WorkIsInPlace, RowsBeginTheList, PTL
  DEF Spec, ImplementsCarveJob, Job!Spec
=============================================================================
