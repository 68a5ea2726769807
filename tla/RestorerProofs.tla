--------------------------- MODULE RestorerProofs ---------------------------
(***************************************************************************)
(* Proofs about Restorer, for any files, devices, callers and names, and   *)
(* any number of runs, faults, kills and other programs' files: what was   *)
(* there is never written over, and a manifest is true, to the byte.       *)
(***************************************************************************)
EXTENDS Restorer, ListProofs

-----------------------------------------------------------------------------
(* Names.                                                                  *)

\* A list has its elements, and is one of the sequences of them.
LEMMA ListIsSeq ==
  ASSUME NEW s, IsList(s), NEW T, \A i \in 1 .. Len(s) : s[i] \in T
  PROVE  s \in Seq(T) /\ DOMAIN s = 1 .. Len(s)
<1>1. s = [i \in 1 .. Len(s) |-> s[i]] /\ Len(s) \in Nat
  BY DEF IsList
<1> DEFINE n == Len(s)
<1>2. s \in [1 .. n -> T]
  BY <1>1
<1> HIDE DEF n
<1>3. s \in Seq(T)
  BY <1>1, <1>2 DEF n
<1>4. QED
  BY <1>3

\* A sequence is a list.
LEMMA SeqIsList ==
  ASSUME NEW T, NEW s \in Seq(T) PROVE IsList(s)
BY DEF IsList

\* Adding a number to a list makes another list, and numbers tell them apart.
LEMMA AppendedLists ==
  ASSUME NEW s, IsList(s), NEW n, NEW m
  PROVE  IsList(Append(s, n)) /\ (Append(s, n) = Append(s, m) => n = m)
<1> DEFINE T == {s[i] : i \in 1 .. Len(s)} \cup {n, m}
<1>1. \A i \in 1 .. Len(s) : s[i] \in T
  OBVIOUS
<1>2. n \in T /\ m \in T
  OBVIOUS
<1> HIDE DEF T
<1>3. s \in Seq(T)
  BY <1>1, ListIsSeq
<1>4. Append(s, n) \in Seq(T)
  BY <1>2, <1>3
<1>5. Append(s, n) = Append(s, m) => n = m
  BY <1>2, <1>3, AppendInjective
<1>6. QED
  BY <1>4, <1>5, SeqIsList

\* A path that names something.
Names(p) == IsPath(p) /\ p # <<>>

\* Numbering a path changes its last name only, and numbers tell them apart.
LEMMA NumberedNames ==
  ASSUME NEW p, Names(p), NEW n, NEW m
  PROVE  /\ Names(Numbered(p, n)) /\ Len(Numbered(p, n)) = Len(p)
         /\ Numbered(p, n) = Numbered(p, m) => n = m
<1> DEFINE X(k) == Append(Last(p), k)
           T == {p[i] : i \in 1 .. Len(p)} \cup {X(n), X(m)}
<1>1. /\ IsList(p) /\ \A i \in 1 .. Len(p) : IsList(p[i]) /\ p[i] \in T
      /\ X(n) \in T /\ X(m) \in T
  BY DEF Names, IsPath
<1> HIDE DEF T
<1>2. p \in Seq(T) /\ Len(p) \in Nat \ {0}
  BY <1>1, ListIsSeq, EmptySeq DEF Names
<1>3. IsList(Last(p))
  BY <1>1, <1>2 DEF Last
<1>4. IsList(X(n)) /\ (X(n) = X(m) => n = m)
  BY <1>3, AppendedLists
<1> HIDE DEF X
<1>5. \A k \in {n, m} : X(k) \in T /\ Numbered(p, k) = Front(p) \o <<X(k)>>
  BY <1>1 DEF Numbered, X
<1>6. /\ Front(p) \in Seq(T) /\ Len(Front(p)) = Len(p) - 1
      /\ \A i \in 1 .. Len(p) - 1 : Front(p)[i] = p[i]
  <2>1. \A i \in 1 .. Len(p) - 1 : p[i] \in T
    BY <1>1, <1>2
  <2>2. 1 \in Int /\ Len(p) - 1 \in Int
    BY <1>2
  <2>3. /\ Front(p) \in Seq(T)
        /\ Len(Front(p)) = IF 1 <= Len(p) - 1 THEN Len(p) - 1 - 1 + 1 ELSE 0
        /\ \A i \in 1 .. Len(p) - 1 - 1 + 1 : Front(p)[i] = p[1 + i - 1]
    BY <2>1, <2>2, SubSeqProperties DEF Front
  <2>4. Len(Front(p)) = Len(p) - 1
    <3>1. PICK l \in Nat : l = Len(p) /\ l >= 1
      BY <1>2
    <3>2. PICK f : f = Len(Front(p))
      OBVIOUS
    <3>3. f = IF 1 <= l - 1 THEN l - 1 - 1 + 1 ELSE 0
      BY <2>3, <3>1, <3>2
    <3>4. f = l - 1
      BY <3>1, <3>3
    <3>5. QED
      BY <3>1, <3>2, <3>4
  <2>5. \A i \in 1 .. Len(p) - 1 : Front(p)[i] = p[i]
    BY <1>2, <2>3
  <2>6. QED
    BY <2>3, <2>4, <2>5
<1>7. ASSUME NEW k \in {n, m}
      PROVE  /\ Numbered(p, k) \in Seq(T) /\ Len(Numbered(p, k)) = Len(p)
             /\ Numbered(p, k)[Len(p)] = X(k)
             /\ \A i \in 1 .. Len(p) - 1 : Numbered(p, k)[i] = p[i]
  <2>1. <<X(k)>> \in Seq(T) /\ Len(<<X(k)>>) = 1 /\ <<X(k)>>[1] = X(k)
    BY <1>5
  <2>2. /\ Numbered(p, k) \in Seq(T)
        /\ Len(Numbered(p, k)) = Len(Front(p)) + 1
        /\ \A i \in 1 .. Len(Front(p)) + 1 :
             Numbered(p, k)[i] = IF i <= Len(Front(p)) THEN Front(p)[i]
                                 ELSE <<X(k)>>[i - Len(Front(p))]
    <3>1. Front(p) \in Seq(T) /\ <<X(k)>> \in Seq(T)
      BY <1>6, <2>1
    <3>2. Numbered(p, k) = Front(p) \o <<X(k)>>
      BY <1>5
    <3> DEFINE a == Front(p)
               b == <<X(k)>>
    <3>3. Len(b) = 1
      BY <2>1
    <3> HIDE DEF a, b
    <3>4. /\ a \o b \in Seq(T) /\ Len(a \o b) = Len(a) + Len(b)
          /\ \A i \in 1 .. Len(a) + Len(b) : (a \o b)[i] = IF i <= Len(a) THEN a[i] ELSE b[i - Len(a)]
      BY <3>1, ConcatProperties DEF a, b
    <3>5. QED
      BY <3>2, <3>3, <3>4 DEF a, b
  <2>3. /\ Len(Numbered(p, k)) = Len(p)
        /\ \A i \in 1 .. Len(p) :
             Numbered(p, k)[i] = IF i <= Len(p) - 1 THEN Front(p)[i] ELSE <<X(k)>>[i - (Len(p) - 1)]
    BY <1>2, <1>6, <2>2
  <2>4. Numbered(p, k)[Len(p)] = X(k)
    BY <1>2, <2>1, <2>3
  <2>5. \A i \in 1 .. Len(p) - 1 : Numbered(p, k)[i] = p[i]
    BY <1>2, <1>6, <2>3
  <2>6. QED
    BY <2>2, <2>3, <2>4, <2>5
<1>8. \A i \in 1 .. Len(p) : IsList(Numbered(p, n)[i])
  <2> TAKE i \in 1 .. Len(p)
  <2>1. CASE i = Len(p)
    BY <1>4, <1>7, <2>1
  <2>2. CASE i # Len(p)
    <3>1. i \in 1 .. Len(p) - 1
      BY <1>2, <2>2
    <3>2. QED
      BY <1>1, <1>7, <3>1
  <2>3. QED
    BY <2>1, <2>2
<1>9. IsList(Numbered(p, n)) /\ Numbered(p, n) # <<>>
  BY <1>2, <1>7, SeqIsList, EmptySeq
<1>10. QED
  BY <1>4, <1>7, <1>8, <1>9 DEF Names, IsPath

\* The name chosen is not one that is used.
LEMMA FirstFreeIsFree ==
  ASSUME NEW p, Names(p), NEW used, IsFiniteSet(used)
  PROVE  FirstFree(p, used) \notin used /\ Names(FirstFree(p, used))
<1>1. CASE p \notin used
  BY <1>1 DEF FirstFree
<1>2. CASE p \in used
  <2> DEFINE c == Cardinality(used) + 1
             f == [n \in 1 .. c |-> Numbered(p, n)]
             free == {n \in 1 .. c : Numbered(p, n) \notin used}
             Good(n) == /\ Numbered(p, n) \notin used
                        /\ \A k \in 1 .. n - 1 : Numbered(p, k) \in used
  <2>1. c \in Nat /\ IsFiniteSet(1 .. c) /\ Cardinality(1 .. c) = c
    <3>1. c \in Nat
      BY FS_CardinalityType
    <3>2. QED
      BY <3>1, FS_Interval
  <2>2. free # {}
    <3> SUFFICES ASSUME free = {} PROVE FALSE
      OBVIOUS
    <3>1. f \in [1 .. c -> used]
      OBVIOUS
    <3>2. Cardinality(used) < c /\ Cardinality(used) \in Nat
      BY FS_CardinalityType
    <3>3. \E x, y \in 1 .. c : x # y /\ f[x] = f[y]
      <4> HIDE DEF f, c
      <4>1. Cardinality(used) < Cardinality(1 .. c)
        BY <2>1, <3>2
      <4>2. QED
        BY <2>1, <3>1, <4>1, FS_PigeonHole
    <3>4. QED
      BY <3>3, NumberedNames
  <2>3. PICK n \in free : \A k \in free : n <= k
    <3>1. free \in SUBSET Int /\ free \subseteq 1 .. c
      BY <2>1
    <3>2. IsFiniteSet(free)
      BY <2>1, <3>1, FS_Subset
    <3>3. QED
      BY <2>2, <3>1, <3>2, LeastExists
  <2>4. Good(n)
    <3> SUFFICES ASSUME NEW k \in 1 .. n - 1, Numbered(p, k) \notin used PROVE FALSE
      OBVIOUS
    <3>1. k \in free /\ k < n /\ n \in Nat
      BY <2>1
    <3>2. QED
      BY <2>3, <3>1
  <2>5. FirstFree(p, used) = Numbered(p, CHOOSE m \in 1 .. c : Good(m))
    BY <1>2 DEF FirstFree
  <2>6. n \in 1 .. c
    OBVIOUS
  <2> HIDE DEF Good
  <2>7. Good(CHOOSE m \in 1 .. c : Good(m))
    BY <2>4, <2>6
  <2>8. QED
    BY <2>5, <2>7, NumberedNames DEF Good
<1>3. QED
  BY <1>1, <1>2

\* A name made safe is a name.
LEMMA SafeIsList ==
  ASSUME NEW c, IsList(c) PROVE IsList(SafeComponent(c))
BY RestoreAssumption DEF SafeComponent

\* A file's destination is a name that is not used.
LEMMA DestinationIsFree ==
  ASSUME NEW rel, IsPath(rel),
         IsFiniteSet(DOMAIN files), IsFiniteSet(folders), IsFiniteSet(taken)
  PROVE  /\ Names(Destination(rel)) /\ ~Exists(Destination(rel))
         /\ Destination(rel) \notin taken
<1> DEFINE T == {rel[i] : i \in 1 .. Len(rel)}
           S == {i \in DOMAIN rel : rel[i] \notin {<<".">>, <<"..">>}}
           parts == PartOf(rel, S)
           p == IF parts = <<>> THEN <<<<"unnamed">>>>
                ELSE [i \in 1 .. Len(parts) |-> SafeComponent(parts[i])]
           used == DOMAIN files \cup folders \cup taken
<1>1. rel \in Seq(T) /\ \A x \in T : IsList(x)
  <2>1. IsList(rel) /\ \A i \in 1 .. Len(rel) : IsList(rel[i]) /\ rel[i] \in T
    BY DEF IsPath
  <2>2. rel \in Seq(T)
    BY <2>1, ListIsSeq
  <2>3. QED
    BY <2>1, <2>2
<1>2. S \in SUBSET DOMAIN rel
  OBVIOUS
<1> HIDE DEF S, T
<1>3. parts \in Seq(T)
  BY <1>1, <1>2, PartIsList
<1> HIDE DEF parts
<1>4. Names(p)
  <2>1. CASE parts = <<>>
    <3>1. /\ p = <<<<"unnamed">>>>
          /\ <<<<"unnamed">>>> \in Seq({<<"unnamed">>}) /\ <<"unnamed">> \in Seq({"unnamed"})
          /\ Len(<<<<"unnamed">>>>) = 1 /\ <<<<"unnamed">>>>[1] = <<"unnamed">>
          /\ <<<<"unnamed">>>> # <<>>
      BY <2>1
    <3>2. IsList(<<<<"unnamed">>>>) /\ IsList(<<"unnamed">>)
      BY <3>1, SeqIsList
    <3>3. QED
      BY <3>1, <3>2 DEF Names, IsPath
  <2>2. CASE parts # <<>>
    <3> DEFINE n == Len(parts)
               safe(i) == SafeComponent(parts[i])
               U == {safe(i) : i \in 1 .. n}
               q == [i \in 1 .. n |-> safe(i)]
    <3>1. n \in Nat \ {0} /\ \A i \in 1 .. n : parts[i] \in T
      BY <1>3, <2>2, EmptySeq, ElementOfSeq
    <3>2. \A i \in 1 .. n : IsList(safe(i)) /\ safe(i) \in U
      BY <1>1, <3>1, SafeIsList
    <3>3. p = q
      BY <2>2
    <3> HIDE DEF safe, U, n
    <3>4. q \in [1 .. n -> U] /\ \A i \in 1 .. n : q[i] = safe(i)
      BY <3>2
    <3> HIDE DEF q
    <3>5. q \in Seq(U) /\ Len(q) = n
      BY <3>1, <3>4
    <3>6. IsList(q) /\ q # <<>>
      BY <3>1, <3>5, SeqIsList, EmptySeq
    <3>7. QED
      BY <3>2, <3>3, <3>4, <3>5, <3>6 DEF Names, IsPath
  <2>3. QED
    BY <2>1, <2>2
<1>5. IsFiniteSet(used)
  BY FS_Union
<1>6. Destination(rel) = FirstFree(p, used)
  BY DEF Destination, parts, S
<1> HIDE DEF p
<1>7. QED
  BY <1>4, <1>5, <1>6, FirstFreeIsFree DEF Exists

\* So is the manifest's path.
LEMMA ManifestPathIsFree ==
  ASSUME IsFiniteSet(DOMAIN files), IsFiniteSet(folders)
  PROVE  Names(ManifestPath)
<1> DEFINE p == <<<<"restore-manifest">>>>
<1>1. /\ p \in Seq({<<"restore-manifest">>}) /\ <<"restore-manifest">> \in Seq({"restore-manifest"})
      /\ Len(p) = 1 /\ p[1] = <<"restore-manifest">> /\ p # <<>>
  OBVIOUS
<1>2. Names(p)
  <2>1. IsList(p) /\ IsList(<<"restore-manifest">>)
    BY <1>1, SeqIsList
  <2> HIDE DEF p
  <2>2. \A i \in 1 .. Len(p) : p[i] = <<"restore-manifest">>
    BY <1>1
  <2>3. QED
    BY <1>1, <2>1, <2>2 DEF Names, IsPath
<1>3. IsFiniteSet(DOMAIN files \cup folders)
  BY FS_Union
<1>4. QED
  BY <1>2, <1>3, FirstFreeIsFree DEF ManifestPath

\* The directories above a path are as many as its names.
LEMMA AboveIsFinite ==
  ASSUME NEW p, Names(p) PROVE IsFiniteSet(Above(p))
<1> DEFINE n == Len(p) - 1
           f == [k \in 0 .. n |-> SubSeq(p, 1, k)]
<1>1. n \in Int /\ 0 \in Int
  BY DEF Names, IsPath, IsList
<1>2. IsFiniteSet(0 .. n)
  BY <1>1, FS_Interval
<1>3. f \in Surjection(0 .. n, Above(p))
  <2>1. f \in [0 .. n -> Above(p)]
    BY DEF Above
  <2>2. \A d \in Above(p) : \E k \in 0 .. n : f[k] = d
    BY DEF Above
  <2> HIDE DEF f, n
  <2>3. QED
    BY <2>1, <2>2 DEF Surjection
<1>4. QED
  BY <1>2, <1>3, FS_Surjection

-----------------------------------------------------------------------------
(* Reading: any bytes of a device, from reads of whole sectors.            *)

\* Quotient and remainder.
LEMMA Division ==
  ASSUME NEW s \in Nat \ {0}, NEW a \in Nat
  PROVE  /\ a \div s \in Nat /\ a % s \in Nat
         /\ (a \div s) * s <= a /\ a < (a \div s) * s + s
         /\ a - (a % s) = (a \div s) * s
OBVIOUS

\* Division rounded up.
LEMMA Ceiling ==
  ASSUME NEW s \in Nat \ {0}, NEW a \in Nat
  PROVE  /\ RoundUp(a, s) \in Nat
         /\ a <= RoundUp(a, s) * s /\ RoundUp(a, s) * s < a + s
<1>1. a + s - 1 \in Nat /\ RoundUp(a, s) = (a + s - 1) \div s
  BY DEF RoundUp
<1>2. PICK q \in Nat : q = RoundUp(a, s) /\ q * s <= a + s - 1 /\ a + s - 1 < q * s + s
  BY <1>1, Division
<1>3. q * s \in Nat
  OBVIOUS
<1>4. QED
  BY <1>2, <1>3

\* Multiples of one number are as their factors are.
LEMMA Multiples ==
  ASSUME NEW s \in Nat \ {0}, NEW a \in Nat, NEW b \in Nat
  PROVE  /\ a * s \in Nat
         /\ a < b <=> a * s < b * s
         /\ a < b <=> a * s + s <= b * s
         /\ a * s - b * s = (a - b) * s
         /\ (a * s) \div s = a /\ (a * s) % s = 0
OBVIOUS

\* A device.
IsDevice(m) == m.sector \in Nat \ {0} /\ m.sectors \in Nat /\ m.bad \subseteq Nat

\* The window covers what is wanted, in whole sectors of the device.
LEMMA WindowCovers ==
  ASSUME NEW m, IsDevice(m), NEW offset \in Nat, NEW end \in Nat,
         offset < end, end <= TotalBytes(m),
         NEW want, want = end - offset
  PROVE  LET s == m.sector
             q == offset \div s
             r == RoundUp(end, s)
         IN  /\ q \in Nat /\ r \in Nat /\ q < r /\ q < m.sectors /\ r <= m.sectors
             /\ q * s <= offset /\ offset < q * s + s /\ end <= r * s /\ r * s < end + s
             /\ Window(m, offset, want) = [start |-> q * s, span |-> (r - q) * s]
<1> DEFINE s == m.sector
           q == offset \div s
           r == RoundUp(end, s)
<1>1. s \in Nat \ {0} /\ m.sectors \in Nat
  BY DEF IsDevice
<1>2. /\ q \in Nat /\ q * s <= offset /\ offset < q * s + s
      /\ offset - (offset % s) = q * s
  BY <1>1, Division
<1>3. r \in Nat /\ end <= r * s /\ r * s < end + s
  BY <1>1, Ceiling
<1>4. offset + want = end
  OBVIOUS
<1>5. AlignDown(s, offset) = q * s /\ AlignUp(s, offset + want) = r * s
  BY <1>2, <1>4 DEF AlignDown, AlignUp
<1> HIDE DEF q, r, s
<1>6. q * s \in Nat /\ r * s \in Nat
  BY <1>1, <1>2, <1>3
<1>7. q * s < r * s
  BY <1>2, <1>3, <1>6
<1>8. q < r
  BY <1>1, <1>2, <1>3, <1>7, Multiples
<1>9. q * s < m.sectors * s /\ r * s < m.sectors * s + s
  BY <1>1, <1>2, <1>3, <1>6 DEF TotalBytes, s
<1>10. q < m.sectors
  BY <1>1, <1>2, <1>9, Multiples
<1>11. r <= m.sectors
  <2>1. (m.sectors + 1) * s = m.sectors * s + s
    BY <1>1
  <2>2. r * s < (m.sectors + 1) * s
    BY <1>9, <2>1
  <2>3. r < m.sectors + 1
    BY <1>1, <1>3, <2>2, Multiples
  <2>4. QED
    BY <1>1, <1>3, <2>3
<1>12. r * s - q * s = (r - q) * s
  BY <1>1, <1>2, <1>3, Multiples
<1>13. Window(m, offset, want) = [start |-> q * s, span |-> (r - q) * s]
  BY <1>5, <1>12 DEF Window, s
<1>14. QED
  BY <1>2, <1>3, <1>8, <1>10, <1>11, <1>13 DEF q, r, s

\* A list of bytes.
LEMMA BytesAreThere ==
  ASSUME NEW a \in Nat, NEW b \in Nat
  PROVE  /\ Bytes(a, b) \in Seq(Nat)
         /\ a <= b => Len(Bytes(a, b)) = b - a
         /\ b <= a => Bytes(a, b) = <<>>
         /\ \A i \in 1 .. b - a : Bytes(a, b)[i] = a + i - 1
<1>1. \A i \in 1 .. b - a : a + i - 1 \in Nat
  OBVIOUS
<1>2. Bytes(a, b) = [i \in 1 .. b - a |-> a + i - 1]
  BY DEF Bytes
<1>3. CASE a <= b
  <2>1. b - a \in Nat
    BY <1>3
  <2>2. Bytes(a, b) \in [1 .. b - a -> Nat]
    BY <1>1, <1>2
  <2>3. Bytes(a, b) \in Seq(Nat) /\ Len(Bytes(a, b)) = b - a
    BY <2>1, <2>2
  <2>4. QED
    BY <1>2, <1>3, <2>3
<1>4. CASE b <= a
  <2>1. 1 .. b - a = {} /\ 1 .. b - a = 1 .. 0
    BY <1>4
  <2>2. Bytes(a, b) \in [1 .. 0 -> Nat]
    BY <1>2, <2>1
  <2>3. Bytes(a, b) \in Seq(Nat) /\ Len(Bytes(a, b)) = 0
    BY <2>2
  <2>4. Bytes(a, b) = <<>>
    BY <2>3, EmptySeq
  <2>5. a <= b => b - a = 0
    BY <1>4
  <2>6. QED
    BY <2>1, <2>3, <2>4, <2>5
<1>5. QED
  BY <1>3, <1>4

\* A read of whole sectors of the device returns them, or fails.
LEMMA SectorsAreRead ==
  ASSUME NEW m, IsDevice(m), None \notin Nat, NEW q \in Nat, NEW r \in Nat, q < r, r <= m.sectors
  PROVE  ReadAt(m, q, (r - q) * m.sector) =
           IF HasBadSector(m, q * m.sector, r * m.sector) THEN None
           ELSE Bytes(q * m.sector, r * m.sector)
<1> DEFINE s == m.sector
           n == r - q
<1>1. s \in Nat \ {0} /\ m.sectors \in Nat /\ n \in Nat \ {0}
  BY DEF IsDevice
<1>2. /\ n * s \in Nat /\ n * s # 0 /\ (n * s) % s = 0 /\ (n * s) \div s = n
      /\ q * s + n * s = r * s
  <2>1. q * s + n * s = r * s
    BY <1>1
  <2> HIDE DEF n
  <2>2. n * s \in Nat /\ n * s # 0
    BY <1>1
  <2>3. QED
    BY <1>1, <2>1, <2>2, Multiples
<1>3. LesserOf(m.sectors - q, n) = n
  BY <1>1 DEF LesserOf
<1>4. ~(q >= m.sectors)
  BY <1>1
<1> HIDE DEF n
<1>5. ValidateRead(m, q, n * s) = n * s
  BY <1>2, <1>3, <1>4 DEF ValidateRead
<1>6. ValidateRead(m, q, n * s) # None
  BY <1>2, <1>5
<1>7. QED
  BY <1>2, <1>5, <1>6 DEF ReadAt, n

\* The sectors of the window that fail are those that hold a byte wanted.
LEMMA SameFailures ==
  ASSUME NEW m, IsDevice(m), NEW offset \in Nat, NEW end \in Nat, NEW q \in Nat, NEW r \in Nat,
         q * m.sector <= offset, offset < q * m.sector + m.sector,
         end <= r * m.sector, r * m.sector < end + m.sector
  PROVE  HasBadSector(m, q * m.sector, r * m.sector) = HasBadSector(m, offset, end)
<1> DEFINE s == m.sector
<1>1. s \in Nat \ {0}
  BY DEF IsDevice
<1>2. ASSUME NEW b \in Nat
      PROVE  (b * s < r * s /\ q * s < (b + 1) * s) <=> (b * s < end /\ offset < (b + 1) * s)
  <2>1. b * s \in Nat /\ r * s \in Nat /\ q * s \in Nat /\ (b + 1) * s = b * s + s
    BY <1>1, <1>2
  <2>2. b * s < r * s <=> b * s + s <= r * s
    BY <1>1, Multiples
  <2>3. q * s < (b + 1) * s <=> q * s + s <= (b + 1) * s
    <3>1. b + 1 \in Nat
      OBVIOUS
    <3> DEFINE c == b + 1
    <3> HIDE DEF c
    <3>2. q * s < c * s <=> q * s + s <= c * s
      BY <1>1, <3>1, Multiples DEF c
    <3>3. QED
      BY <3>2 DEF c
  <2>4. s \in Nat
    BY <1>1
  <2> HIDE DEF s
  <2>5. b * s < r * s <=> b * s < end
    BY <2>1, <2>2, <2>4 DEF s
  <2>6. q * s < (b + 1) * s <=> offset < (b + 1) * s
    BY <2>1, <2>3, <2>4 DEF s
  <2>7. QED
    BY <2>5, <2>6
<1>3. \A b \in m.bad : b \in Nat
  BY DEF IsDevice
<1>4. QED
  BY <1>2, <1>3 DEF HasBadSector

\* Any bytes are read as they are on the device, short at its end, and the read
\* fails only for a sector that holds one of them (read_bytes_at).
THEOREM ReadIsExact ==
  ASSUME NEW m, IsDevice(m), None \notin Nat, None \notin Seq(Nat),
         NEW offset \in Nat, NEW len \in Nat
  PROVE  ByteReadsAreExact(m, offset, len)
<1> DEFINE total == TotalBytes(m)
           end == LesserOf(offset + len, total)
           want == LesserOf(len, total - offset)
           s == m.sector
           q == offset \div s
           r == RoundUp(end, s)
           w == Window(m, offset, want)
           got == ReadAt(m, w.start \div m.sector, w.span)
           skip == offset - w.start
<1>1. s \in Nat \ {0} /\ total \in Nat /\ end \in Nat
  <2>1. s \in Nat \ {0} /\ m.sectors \in Nat
    BY DEF IsDevice
  <2>2. total \in Nat
    BY <2>1 DEF TotalBytes
  <2>3. QED
    BY <2>1, <2>2 DEF LesserOf
<1>2. CASE len = 0 \/ offset >= total
  <2>1. ~(offset < end)
    BY <1>1, <1>2 DEF LesserOf
  <2>2. end <= offset
    BY <1>1, <2>1
  <2>3. Bytes(offset, end) = <<>>
    BY <1>1, <2>2, BytesAreThere
  <2>4. ReadBytesAt(m, offset, len) = <<>>
    BY <1>2 DEF ReadBytesAt
  <2>5. QED
    BY <2>1, <2>3, <2>4 DEF ByteReadsAreExact
<1>3. CASE ~(len = 0 \/ offset >= total)
  <2>1. offset < end /\ end <= total /\ want = end - offset
    BY <1>1, <1>3 DEF LesserOf
  <2>2. /\ q \in Nat /\ r \in Nat /\ q < r /\ q < m.sectors /\ r <= m.sectors
        /\ q * s <= offset /\ offset < q * s + s /\ end <= r * s /\ r * s < end + s
        /\ w = [start |-> q * s, span |-> (r - q) * s]
    BY <1>1, <2>1, WindowCovers
  <2> HIDE DEF q, r, w, end, want, total
  <2>3. got = IF HasBadSector(m, q * s, r * s) THEN None ELSE Bytes(q * s, r * s)
    <3>1. w.start \div m.sector = q /\ w.span = (r - q) * m.sector
      BY <1>1, <2>2, Multiples
    <3>2. QED
      BY <2>2, <3>1, SectorsAreRead
  <2>4. HasBadSector(m, q * s, r * s) = HasBadSector(m, offset, end)
    BY <1>1, <2>2, SameFailures
  <2>5. CASE HasBadSector(m, offset, end)
    <3>1. got = None
      BY <2>3, <2>4, <2>5
    <3>2. ReadBytesAt(m, offset, len) = None
      BY <1>3, <3>1 DEF ReadBytesAt, w, want, total
    <3>3. QED
      BY <2>1, <2>5, <3>2 DEF ByteReadsAreExact, end, total
  <2>6. CASE ~HasBadSector(m, offset, end)
    <3> DEFINE a == q * s
               b == r * s
    <3>1. got = Bytes(a, b)
      BY <2>3, <2>4, <2>6
    <3>2. a \in Nat /\ b \in Nat /\ a <= offset /\ offset < end /\ end <= b /\ skip = offset - a
      BY <1>1, <2>1, <2>2
    <3> HIDE DEF a, b, got, skip
    <3>3. /\ got \in Seq(Nat) /\ Len(got) = b - a
          /\ \A i \in 1 .. b - a : got[i] = a + i - 1
      <4>1. a <= b /\ b \in Nat
        BY <1>1, <2>2, <3>2 DEF b
      <4>2. QED
        BY <3>1, <3>2, <4>1, BytesAreThere
    <3>4. got # None /\ ~(Len(got) <= skip) /\ LesserOf(Len(got) - skip, want) = want
      BY <1>1, <2>1, <3>2, <3>3 DEF LesserOf
    <3>5. ReadBytesAt(m, offset, len) = SubSeq(got, skip + 1, skip + want)
      BY <1>3, <3>4 DEF ReadBytesAt, w, want, total, got, skip
    <3>6. /\ SubSeq(got, skip + 1, skip + want) \in Seq(Nat)
          /\ Len(SubSeq(got, skip + 1, skip + want)) = want
          /\ \A i \in 1 .. want : SubSeq(got, skip + 1, skip + want)[i] = got[skip + i]
      BY <1>1, <2>1, <3>2, <3>3
    <3>7. /\ Bytes(offset, end) \in Seq(Nat) /\ Len(Bytes(offset, end)) = want
          /\ \A i \in 1 .. want : Bytes(offset, end)[i] = offset + i - 1
      <4>1. offset <= end
        BY <1>1, <2>1
      <4>2. QED
        BY <1>1, <2>1, <4>1, BytesAreThere
    <3>8. \A i \in 1 .. want : got[skip + i] = offset + i - 1
      BY <1>1, <2>1, <3>2, <3>3
    <3>9. SubSeq(got, skip + 1, skip + want) = Bytes(offset, end)
      <4> DEFINE u == SubSeq(got, skip + 1, skip + want)
                 v == Bytes(offset, end)
      <4>1. /\ u \in Seq(Nat) /\ v \in Seq(Nat) /\ Len(u) = want /\ Len(v) = want
            /\ \A i \in 1 .. want : u[i] = v[i]
        BY <3>6, <3>7, <3>8
      <4> HIDE DEF u, v
      <4>2. u = v
        BY <4>1, SeqEqual
      <4>3. QED
        BY <4>2 DEF u, v
    <3>10. QED
      BY <2>1, <2>6, <3>5, <3>9 DEF ByteReadsAreExact, end, total
  <2>7. QED
    BY <2>5, <2>6
<1>4. QED
  BY <1>2, <1>3

\* An image is read through an unbuffered handle as through a buffered one, for
\* any alignment, offset and length (read_unbuffered; a read has a length, says
\* validate_read).
THEOREM UnbufferedIsExact ==
  ASSUME NEW offset \in Nat, NEW len \in Nat \ {0}, NEW file_len \in Nat,
         NEW align \in Nat \ {0}, NEW in_place \in BOOLEAN
  PROVE  UnbufferedReadsAgree(offset, len, file_len, align, in_place)
<1> DEFINE start == offset - (offset % align)
           end == RoundUp(offset + len, align) * align
           got == GreaterOf(0, LesserOf(end, file_len) - start)
           skip == offset - start
           there == GreaterOf(0, file_len - start)
<1>1. start \in Nat /\ start <= offset
  <2>1. PICK r \in Nat : r = offset % align /\ r <= offset
    <3>1. offset % align \in Nat /\ offset - (offset % align) = (offset \div align) * align
      BY Division
    <3>2. offset \div align \in Nat /\ (offset \div align) * align \in Nat
      BY Division, Multiples
    <3>3. QED
      BY <3>1, <3>2
  <2>2. QED
    BY <2>1
<1>2. end \in Nat /\ offset + len <= end
  <2>1. offset + len \in Nat
    OBVIOUS
  <2>2. RoundUp(offset + len, align) \in Nat /\ offset + len <= end
    BY <2>1, Ceiling
  <2>3. QED
    BY <2>2, Multiples
<1> HIDE DEF start, end
<1>3. start + skip = offset /\ start + skip + len = offset + len
  BY <1>1
<1>4. skip + len > there \/ got < skip + len <=> ~(offset + len <= file_len)
  <2>1. skip + len > there <=> offset + len > file_len
    BY <1>1 DEF GreaterOf
  <2>2. offset + len <= file_len => ~(got < skip + len)
    BY <1>1, <1>2 DEF GreaterOf, LesserOf
  <2>3. QED
    BY <2>1, <2>2
<1>5. ReadUnbuffered(offset, len, file_len, align, in_place) =
        IF in_place /\ offset % align = 0 /\ len % align = 0
          THEN IF offset + len <= file_len THEN Bytes(offset, offset + len) ELSE None
          ELSE IF skip + len > there \/ got < skip + len THEN None
               ELSE Bytes(start + skip, start + skip + len)
  BY DEF ReadUnbuffered, start, end
<1> HIDE DEF got, skip, there
<1>6. QED
  BY <1>3, <1>4, <1>5 DEF UnbufferedReadsAgree

\* A volume's geometry is one mapping: each byte of a cluster belongs to that
\* cluster and to no other (cluster_offset, cluster_at).
THEOREM GeometryMapsOnce ==
  ASSUME NEW g, g.first \in Nat, g.count \in Nat, g.bytes \in Nat \ {0}, g.heap \in Nat,
         None \notin Nat, NEW offsets \in SUBSET Nat
  PROVE  GeometryIsOneMapping(g, offsets)
<1>1. PICK f \in Nat, n \in Nat, b \in Nat \ {0}, h \in Nat :
        f = g.first /\ n = g.count /\ b = g.bytes /\ h = g.heap
  OBVIOUS
<1>2. ASSUME NEW c \in f .. f + n - 1, NEW i \in 0 .. b - 1
      PROVE  ClusterAt(g, ClusterOffset(g, c) + i) = c
  <2>1. PICK k \in Nat : k = c - f /\ k < n /\ c = k + f
    BY <1>1
  <2>2. k * b \in Nat
    BY <1>1
  <2>3. ~(c < f \/ c - f >= n \/ b = 0)
    BY <1>1, <2>1
  <2>4. ClusterOffset(g, c) = k * b + h
    BY <1>1, <2>1, <2>3 DEF ClusterOffset
  <2>5. (k * b + i) \div b = k
    <3>1. k * b + i \in Nat /\ i < b
      BY <2>2
    <3>2. PICK d \in Nat : d = (k * b + i) \div b /\ d * b <= k * b + i /\ k * b + i < d * b + b
      BY <1>1, <3>1, Division
    <3>3. d * b < (k + 1) * b /\ k * b < (d + 1) * b
      <4>1. (k + 1) * b = k * b + b /\ (d + 1) * b = d * b + b /\ d * b \in Nat
        BY <1>1
      <4>2. QED
        BY <2>2, <3>1, <3>2, <4>1
    <3>4. d < k + 1 /\ k < d + 1
      BY <1>1, <3>3, Multiples
    <3>5. QED
      BY <3>2, <3>4
  <2>6. /\ k * b + h + i \in Nat /\ ~(k * b + h + i < h)
        /\ k * b + h + i - h = k * b + i
    BY <2>2
  <2>7. ClusterAt(g, k * b + h + i) = k + f
    BY <1>1, <2>1, <2>5, <2>6 DEF ClusterAt
  <2>8. QED
    BY <2>1, <2>4, <2>7
<1>3. ASSUME NEW o \in offsets, ClusterAt(g, o) # None
      PROVE  ClusterOffset(g, ClusterAt(g, o)) \in o - b + 1 .. o
  <2> DEFINE k == (o - h) \div b
  <2>1. o \in Nat /\ ~(o < h) /\ ~(k >= n) /\ ClusterAt(g, o) = k + f
    BY <1>1, <1>3 DEF ClusterAt
  <2>2. o - h \in Nat
    BY <1>1, <2>1
  <2>3. k \in Nat /\ k * b <= o - h /\ o - h < k * b + b
    BY <1>1, <2>2, Division
  <2> HIDE DEF k
  <2>4. k * b \in Nat
    BY <1>1, <2>3
  <2>5. ClusterOffset(g, k + f) = k * b + h
    <3>1. PICK c \in Nat : c = k + f
      BY <2>3
    <3>2. k = c - f /\ ~(c < f \/ c - f >= n \/ b = 0)
      BY <1>1, <2>1, <2>3, <3>1
    <3>3. ClusterOffset(g, c) = k * b + h
      BY <1>1, <3>2 DEF ClusterOffset
    <3>4. QED
      BY <3>1, <3>3
  <2>6. o - b + 1 <= k * b + h /\ k * b + h <= o
    BY <2>1, <2>3, <2>4
  <2>7. QED
    BY <2>1, <2>4, <2>5, <2>6
<1>4. QED
  BY <1>1, <1>2, <1>3 DEF GeometryIsOneMapping

-----------------------------------------------------------------------------
(* What a file should hold.                                                *)

\* What stands at place k of a span: nothing past the end of the device.
StoredAt(offset, k) ==
  IF offset = Hole \/ offset + k - 1 >= TotalBytes(Device) THEN Zero ELSE offset + k - 1

\* A buffer has what stands there, zeros for a hole and past the end.
LEMMA BufferIsRead ==
  ASSUME NEW offset \in Nat \cup {Hole}, NEW len \in Nat, Buffer(offset, len) # None
  PROVE  /\ Buffer(offset, len) \in Seq(Int) /\ Len(Buffer(offset, len)) = len
         /\ \A k \in 1 .. len : Buffer(offset, len)[k] = StoredAt(offset, k)
<1>1. \A n \in Nat : /\ Zeros(n) \in Seq(Int) /\ Len(Zeros(n)) = n
                     /\ \A k \in 1 .. n : Zeros(n)[k] = Zero
  BY DEF Zeros, Zero
<1>2. CASE offset = Hole
  BY <1>1, <1>2 DEF Buffer, StoredAt
<1>3. CASE offset # Hole
  <2> DEFINE total == TotalBytes(Device)
             end == LesserOf(offset + len, total)
             got == ReadBytesAt(Device, offset, len)
             z == Zeros(len - Len(got))
  <2>1. offset \in Nat /\ total \in Nat /\ IsDevice(Device)
    <3>1. Device.sector \in Nat /\ Device.sectors \in Nat
      BY RestoreAssumption
    <3>2. total \in Nat
      BY <3>1 DEF TotalBytes
    <3>3. QED
      BY <1>3, <3>2, RestoreAssumption DEF IsDevice
  <2>2. end \in Nat
    BY <2>1 DEF LesserOf
  <2>3. ByteReadsAreExact(Device, offset, len)
    BY <2>1, RestoreAssumption, ReadIsExact
  <2>4. got # None /\ Buffer(offset, len) = got \o z
    BY <1>3 DEF Buffer
  <2>5. got = Bytes(offset, end)
    BY <2>3, <2>4 DEF ByteReadsAreExact
  <2> HIDE DEF got, end, z, total
  <2>6. /\ got \in Seq(Nat)
        /\ offset <= end => Len(got) = end - offset
        /\ end <= offset => Len(got) = 0
        /\ \A k \in 1 .. end - offset : got[k] = offset + k - 1
    BY <2>1, <2>2, <2>5, BytesAreThere, EmptySeq
  <2>7. Len(got) \in Nat /\ Len(got) <= len
    <3>1. end <= offset + len
      BY <2>1 DEF LesserOf, end
    <3>2. QED
      BY <2>1, <2>2, <2>6, <3>1
  <2>8. /\ z \in Seq(Int) /\ Len(z) = len - Len(got)
        /\ \A k \in 1 .. len - Len(got) : z[k] = Zero
    <3>1. PICK n \in Nat : n = len - Len(got)
      BY <2>7
    <3>2. z = Zeros(n)
      BY <3>1 DEF z
    <3>3. QED
      BY <1>1, <3>1, <3>2
  <2>9. got \in Seq(Int)
    BY <2>6
  <2>10. /\ got \o z \in Seq(Int) /\ Len(got \o z) = Len(got) + Len(z)
         /\ \A k \in 1 .. Len(got) + Len(z) :
              (got \o z)[k] = IF k <= Len(got) THEN got[k] ELSE z[k - Len(got)]
    BY <2>8, <2>9, ConcatProperties
  <2>11. ASSUME NEW k \in 1 .. len PROVE (got \o z)[k] = StoredAt(offset, k)
    <3>1. CASE k <= Len(got)
      <4>1. got[k] = offset + k - 1 /\ offset + k - 1 < end
        BY <2>1, <2>2, <2>6, <2>7, <3>1
      <4>2. end <= total
        BY <2>1 DEF LesserOf, end
      <4>3. ~(offset + k - 1 >= total)
        BY <2>1, <2>2, <4>1, <4>2
      <4>4. QED
        BY <1>3, <2>7, <2>8, <2>10, <3>1, <4>1, <4>3 DEF StoredAt, total
    <3>2. CASE ~(k <= Len(got))
      <4>1. k - Len(got) \in 1 .. len - Len(got)
        BY <2>7, <3>2
      <4>2. (got \o z)[k] = Zero
        BY <2>7, <2>8, <2>10, <3>2, <4>1
      <4>3. offset + k - 1 >= end /\ end < offset + len
        BY <2>1, <2>2, <2>6, <2>7, <3>2
      <4>4. end = total
        BY <2>1, <4>3 DEF LesserOf, end
      <4>5. QED
        BY <4>2, <4>3, <4>4 DEF StoredAt, total
    <3>3. QED
      BY <3>1, <3>2
  <2>12. Len(got \o z) = len
    BY <2>7, <2>8, <2>10
  <2>13. QED
    BY <2>4, <2>10, <2>11, <2>12
<1>4. QED
  BY <1>2, <1>3

\* How many bytes come before a span grows by the span.
LEMMA BytesAddUp ==
  ASSUME NEW spans, NEW n \in Nat, \A j \in 1 .. n : spans[j].length \in Nat
  PROVE  /\ BytesBefore(spans, 1) = 0
         /\ \A i \in 1 .. n + 1 : BytesBefore(spans, i) \in Nat
         /\ \A i \in 1 .. n : BytesBefore(spans, i + 1) = BytesBefore(spans, i) + spans[i].length
         /\ \A i, j \in 1 .. n + 1 : i <= j => BytesBefore(spans, i) <= BytesBefore(spans, j)
<1> DEFINE Row(j) == {j} \X (1 .. spans[j].length)
           Rows(i) == {Row(j) : j \in 1 .. i - 1}
           All(i) == UNION Rows(i)
<1>1. \A i : BytesBefore(spans, i) = Cardinality(All(i))
  BY DEF BytesBefore
<1>2. \A j \in 1 .. n : IsFiniteSet(Row(j)) /\ Cardinality(Row(j)) = spans[j].length
  <2> TAKE j \in 1 .. n
  <2> DEFINE l == spans[j].length
  <2>1. l \in Nat
    OBVIOUS
  <2> HIDE DEF l
  <2>2. IsFiniteSet(1 .. l) /\ Cardinality(1 .. l) = l
    BY <2>1, FS_Interval
  <2>3. IsFiniteSet({j}) /\ Cardinality({j}) = 1
    BY FS_Singleton
  <2>4. IsFiniteSet({j} \X (1 .. l)) /\ Cardinality({j} \X (1 .. l)) = 1 * l
    <3> DEFINE S == {j}
               T == 1 .. l
    <3>1. IsFiniteSet(S) /\ Cardinality(S) = 1 /\ IsFiniteSet(T) /\ Cardinality(T) = l
      BY <2>2, <2>3
    <3> HIDE DEF S, T
    <3>2. IsFiniteSet(S \X T) /\ Cardinality(S \X T) = 1 * l
      BY <3>1, FS_Product
    <3>3. QED
      BY <3>2 DEF S, T
  <2>5. QED
    BY <2>1, <2>4 DEF l
<1> HIDE DEF Row
<1>3. \A i \in 1 .. n + 1 : IsFiniteSet(All(i))
  <2> TAKE i \in 1 .. n + 1
  <2> DEFINE f == [j \in 1 .. i - 1 |-> Row(j)]
  <2>1. IsFiniteSet(1 .. i - 1)
    BY FS_Interval
  <2>2. f \in Surjection(1 .. i - 1, Rows(i))
    <3>1. f \in [1 .. i - 1 -> Rows(i)]
      OBVIOUS
    <3>2. \A R \in Rows(i) : \E j \in 1 .. i - 1 : f[j] = R
      OBVIOUS
    <3> HIDE DEF f, Rows
    <3>3. QED
      BY <3>1, <3>2 DEF Surjection
  <2>3. IsFiniteSet(Rows(i))
    BY <2>1, <2>2, FS_Surjection
  <2>4. \A R \in Rows(i) : IsFiniteSet(R)
    BY <1>2
  <2>5. QED
    BY <2>3, <2>4, FS_UNION
<1>4. BytesBefore(spans, 1) = 0
  <2>1. All(1) = {}
    OBVIOUS
  <2>2. QED
    BY <1>1, <2>1, FS_EmptySet
<1>5. \A i \in 1 .. n + 1 : BytesBefore(spans, i) \in Nat
  BY <1>1, <1>3, FS_CardinalityType
<1>6. ASSUME NEW i \in 1 .. n
      PROVE  BytesBefore(spans, i + 1) = BytesBefore(spans, i) + spans[i].length
  <2>1. i \in 1 .. n + 1 /\ i + 1 \in 1 .. n + 1
    OBVIOUS
  <2>2. All(i + 1) = All(i) \cup Row(i)
    <3>1. \A j : j \in 1 .. i + 1 - 1 <=> j \in 1 .. i - 1 \/ j = i
      OBVIOUS
    <3>2. QED
      BY <3>1
  <2>3. All(i) \cap Row(i) = {}
    BY DEF Row
  <2> HIDE DEF All
  <2>4. IsFiniteSet(All(i)) /\ IsFiniteSet(Row(i))
    BY <1>2, <1>3, <2>1
  <2>5. Cardinality(All(i) \cup Row(i)) =
          Cardinality(All(i)) + Cardinality(Row(i)) - Cardinality(All(i) \cap Row(i))
    BY <2>4, FS_Union
  <2>6. Cardinality(All(i) \cap Row(i)) = 0
    BY <2>3, FS_EmptySet
  <2>7. Cardinality(All(i)) \in Nat /\ Cardinality(Row(i)) = spans[i].length
    BY <1>2, <2>4, FS_CardinalityType
  <2>8. Cardinality(All(i + 1)) = Cardinality(All(i)) + spans[i].length
    <3>1. PICK a \in Nat, l \in Nat : a = Cardinality(All(i)) /\ l = spans[i].length
      BY <2>7
    <3>2. Cardinality(All(i) \cup Row(i)) = a + l - 0
      BY <2>5, <2>6, <2>7, <3>1
    <3>3. a + l - 0 = a + l
      OBVIOUS
    <3>4. QED
      BY <2>2, <3>1, <3>2, <3>3, Zenon
  <2>9. BytesBefore(spans, i + 1) = Cardinality(All(i + 1))
    BY <1>1
  <2>10. BytesBefore(spans, i) = Cardinality(All(i))
    BY <1>1
  <2>11. QED
    BY <2>8, <2>9, <2>10
<1>7. ASSUME NEW i \in 1 .. n + 1, NEW j \in 1 .. n + 1, i <= j
      PROVE  BytesBefore(spans, i) <= BytesBefore(spans, j)
  <2>1. All(i) \subseteq All(j)
    <3>1. 1 .. i - 1 \subseteq 1 .. j - 1
      BY <1>7
    <3>2. QED
      BY <3>1
  <2> HIDE DEF All
  <2>2. QED
    BY <1>1, <1>3, <2>1, FS_Subset
<1>8. QED
  BY <1>4, <1>5, <1>6, <1>7

Span == [offset : Nat \cup {Hole}, length : Nat]

\* The spans of a file that can be restored.
LEMMA SpansAreTyped ==
  ASSUME NEW t \in 1 .. Len(Wanted), Restorable(Wanted[t])
  PROVE  SpansOf(Wanted[t]) \in Seq(Span)
<1> DEFINE w == Wanted[t]
           at == w.location
<1>1. /\ w.size \in Nat /\ IsLocation(at) /\ at.where # "unknown"
      /\ \A i \in DOMAIN SpansOf(w) : SpansOf(w)[i].offset # None
  BY RestoreAssumption DEF Restorable
<1>2. /\ Geom.first \in Nat /\ Geom.count \in Nat /\ Geom.bytes \in Nat \ {0} /\ Geom.heap \in Nat
  BY RestoreAssumption
<1>3. \A c \in Nat : ClusterOffset(Geom, c) \in Nat \/ ClusterOffset(Geom, c) = None
  BY <1>2 DEF ClusterOffset
<1> HIDE DEF w
<1>4. CASE at.where = "resident"
  <2>1. SpansOf(w) = <<>>
    BY <1>4 DEF SpansOf
  <2>2. QED
    BY <2>1, EmptySeq DEF w
<1>5. CASE at.where = "runs"
  <2> DEFINE n == Len(at.extents)
             span_of(i) == [offset |-> IF at.extents[i].sparse THEN Hole
                                       ELSE ClusterOffset(Geom, at.extents[i].start),
                            length |-> at.extents[i].count * Geom.bytes]
             q == [i \in 1 .. n |-> span_of(i)]
  <2>1. /\ n \in Nat /\ DOMAIN at.extents = 1 .. n
        /\ \A i \in 1 .. n : at.extents[i].start \in Nat /\ at.extents[i].count \in Nat
    <3>1. /\ IsList(at.extents)
          /\ \A i \in 1 .. n : at.extents[i].start \in Nat /\ at.extents[i].count \in Nat
      BY <1>1, <1>5 DEF IsLocation
    <3>2. at.extents = [i \in 1 .. n |-> at.extents[i]] /\ n \in Nat
      BY <3>1 DEF IsList
    <3>3. QED
      BY <3>1, <3>2
  <2>2. SpansOf(w) = q
    BY <1>5, <2>1 DEF SpansOf
  <2>3. ASSUME NEW i \in 1 .. n PROVE span_of(i) \in Span
    <3>1. span_of(i).offset # None
      BY <1>1, <2>2
    <3>2. span_of(i).length \in Nat
      BY <1>2, <2>1
    <3>3. span_of(i).offset \in Nat \cup {Hole}
      BY <1>3, <2>1, <3>1
    <3>4. QED
      BY <3>2, <3>3 DEF Span
  <2> HIDE DEF span_of, n
  <2>4. q \in [1 .. n -> Span]
    BY <2>3
  <2> HIDE DEF q
  <2>5. q \in Seq(Span)
    BY <2>1, <2>4
  <2>6. QED
    BY <2>2, <2>5 DEF w
<1>6. CASE at.where = "first"
  <2> DEFINE x == [offset |-> ClusterOffset(Geom, at.cluster), length |-> AlignUp(Geom.bytes, w.size)]
  <2>1. SpansOf(w) = <<x>>
    BY <1>6 DEF SpansOf
  <2>2. at.cluster \in Nat
    BY <1>1, <1>6 DEF IsLocation
  <2>3. AlignUp(Geom.bytes, w.size) \in Nat
    <3>1. RoundUp(w.size, Geom.bytes) \in Nat
      BY <1>1, <1>2, Ceiling
    <3>2. QED
      BY <1>2, <3>1 DEF AlignUp
  <2>4. x.offset # None
    <3>1. 1 \in DOMAIN <<x>> /\ <<x>>[1] = x
      OBVIOUS
    <3> HIDE DEF x
    <3>2. QED
      BY <1>1, <2>1, <3>1
  <2>5. x \in Span
    BY <1>3, <2>2, <2>3, <2>4 DEF Span
  <2> HIDE DEF x
  <2>6. <<x>> \in Seq(Span)
    BY <2>5
  <2>7. QED
    BY <2>1, <2>6 DEF w
<1>7. CASE at.where = "spans"
  <2> DEFINE n == Len(at.spans)
  <2>1. SpansOf(w) = at.spans
    BY <1>7 DEF SpansOf
  <2>2. /\ IsList(at.spans)
        /\ \A i \in 1 .. n : at.spans[i] \in Span
    BY <1>1, <1>7 DEF IsLocation, Span
  <2>3. at.spans \in Seq(Span)
    BY <2>2, ListIsSeq
  <2>4. QED
    BY <2>1, <2>3 DEF w
<1>8. QED
  BY <1>1, <1>4, <1>5, <1>6, <1>7 DEF IsLocation

\* A file's content has at each place what stands there in the span that holds it,
\* for as many bytes as its spans have and its size asks for.
LEMMA ContentOfSpans ==
  ASSUME NEW t \in 1 .. Len(Wanted), Restorable(Wanted[t]),
         Wanted[t].location.where # "resident"
  PROVE  LET w == Wanted[t]
             spans == SpansOf(w)
             all == BytesBefore(spans, Len(spans) + 1)
         IN  /\ Content(w) \in Seq(Int) /\ all \in Nat
             /\ Len(Content(w)) = LesserOf(w.size, all)
             /\ \A j \in 1 .. Len(spans) : \A k \in 1 .. spans[j].length :
                  BytesBefore(spans, j) + k <= w.size =>
                    Content(w)[BytesBefore(spans, j) + k] = StoredAt(spans[j].offset, k)
<1> DEFINE w == Wanted[t]
           spans == SpansOf(w)
           n == Len(spans)
           before(i) == BytesBefore(spans, i)
           all == before(n + 1)
           Holds(i, k) == before(i) < k /\ k <= before(i + 1)
           holder(k) == CHOOSE i \in 1 .. n : Holds(i, k)
           byte(k) == ByteOf(spans[holder(k)], k - before(holder(k)))
           m == LesserOf(w.size, all)
<1>1. /\ spans \in Seq(Span) /\ n \in Nat
      /\ \A i \in 1 .. n : spans[i].offset \in Nat \cup {Hole} /\ spans[i].length \in Nat
  <2>1. spans \in Seq(Span)
    BY SpansAreTyped
  <2> HIDE DEF spans
  <2>2. \A i \in 1 .. n : spans[i] \in Span
    BY <2>1
  <2>3. QED
    BY <2>1, <2>2 DEF Span
<1>2. w.size \in Nat
  BY RestoreAssumption
<1>3. Content(w) = [k \in 1 .. m |-> byte(k)]
  BY DEF Content
<1> HIDE DEF spans, w
<1>4. /\ before(1) = 0
      /\ \A i \in 1 .. n + 1 : before(i) \in Nat
      /\ \A i \in 1 .. n : before(i + 1) = before(i) + spans[i].length
      /\ \A i, j \in 1 .. n + 1 : i <= j => before(i) <= before(j)
  BY <1>1, BytesAddUp
<1> HIDE DEF before, n
<1>5. all \in Nat /\ m \in Nat /\ m <= all /\ m <= w.size
  BY <1>1, <1>2, <1>4 DEF LesserOf
<1>6. ASSUME NEW k \in 1 .. all PROVE \E i \in 1 .. n : Holds(i, k)
  <2> DEFINE S == {i \in 1 .. n : k <= before(i + 1)}
  <2>1. n # 0
    BY <1>1, <1>4, <1>6
  <2>2. n \in S
    BY <1>1, <2>1
  <2>3. S \in SUBSET Int /\ IsFiniteSet(S) /\ S # {}
    <3>1. IsFiniteSet(1 .. n)
      BY <1>1, FS_Interval
    <3>2. S \subseteq 1 .. n
      OBVIOUS
    <3>3. IsFiniteSet(S)
      BY <3>1, <3>2, FS_Subset
    <3>4. 1 .. n \subseteq Int
      BY <1>1
    <3> HIDE DEF S
    <3>5. S # {}
      BY <2>2
    <3>6. QED
      BY <3>2, <3>3, <3>4, <3>5
  <2>4. PICK i \in S : \A j \in S : i <= j
    BY <2>3, LeastExists
  <2>5. before(i) < k
    <3>1. i \in 1 .. n /\ i \in 1 .. n + 1
      BY <1>1
    <3>2. CASE i = 1
      BY <1>4, <1>5, <3>2
    <3>3. CASE i # 1
      <4>1. i - 1 \in 1 .. n /\ i - 1 + 1 = i
        BY <1>1, <3>1, <3>3
      <4>2. i - 1 \notin S
        <5> HIDE DEF S
        <5>1. i - 1 \in S => i <= i - 1
          BY <2>4
        <5>2. QED
          BY <1>1, <3>1, <5>1
      <4>3. ~(k <= before(i))
        BY <4>1, <4>2
      <4>4. QED
        BY <1>4, <1>5, <3>1, <4>3
    <3>4. QED
      BY <3>2, <3>3
  <2>6. QED
    BY <2>5
<1>7. ASSUME NEW k \in Int, NEW i \in 1 .. n, NEW j \in 1 .. n, Holds(i, k), Holds(j, k)
      PROVE  i = j
  <2>1. \A a, b \in 1 .. n : a < b => before(a + 1) <= before(b)
    <3> TAKE a, b \in 1 .. n
    <3> HAVE a < b
    <3>1. a + 1 \in 1 .. n + 1 /\ b \in 1 .. n + 1 /\ a + 1 <= b
      BY <1>1
    <3>2. QED
      BY <1>4, <3>1
  <2>2. /\ i \in Nat /\ j \in Nat
        /\ before(i) \in Nat /\ before(j) \in Nat /\ before(i + 1) \in Nat /\ before(j + 1) \in Nat
    BY <1>1, <1>4
  <2>3. QED
    BY <1>7, <2>1, <2>2
<1>8. ASSUME NEW k \in 1 .. all PROVE holder(k) \in 1 .. n /\ Holds(holder(k), k)
  <2> HIDE DEF Holds
  <2>1. QED
    BY <1>6
<1>9. ASSUME NEW k \in 1 .. m PROVE byte(k) \in Int
  <2>1. k \in 1 .. all
    BY <1>5
  <2>2. holder(k) \in 1 .. n
    BY <1>8, <2>1
  <2> DEFINE h == holder(k)
  <2>3. h \in 1 .. n /\ k - before(h) \in Int /\ spans[h].offset \in Nat \cup {Hole}
    BY <1>1, <1>4, <2>2
  <2> HIDE DEF h
  <2>4. ByteOf(spans[h], k - before(h)) \in Int
    BY <2>3 DEF ByteOf, Zero, Hole
  <2>5. QED
    BY <2>4 DEF h
<1>10. Content(w) \in Seq(Int) /\ Len(Content(w)) = m
  <2> HIDE DEF byte, m
  <2>1. Content(w) \in [1 .. m -> Int]
    BY <1>3, <1>9
  <2>2. QED
    BY <1>5, <2>1
<1>11. ASSUME NEW j \in 1 .. n, NEW k \in 1 .. spans[j].length, before(j) + k <= w.size
       PROVE  Content(w)[before(j) + k] = StoredAt(spans[j].offset, k)
  <2> DEFINE p == before(j) + k
  <2>1. /\ j \in 1 .. n + 1 /\ j + 1 \in 1 .. n + 1 /\ n + 1 \in 1 .. n + 1 /\ j + 1 <= n + 1
        /\ k \in Nat \ {0} /\ k <= spans[j].length
    BY <1>1
  <2>2. /\ before(j) \in Nat /\ before(j + 1) = before(j) + spans[j].length
        /\ before(j + 1) <= all /\ before(j + 1) \in Nat
    BY <1>4, <2>1
  <2>3. p \in 1 .. all /\ Holds(j, p) /\ p \in 1 .. m /\ p - before(j) = k
    <3>1. PICK b \in Nat : b = before(j)
      BY <2>2
    <3>2. PICK l \in Nat : l = spans[j].length
      BY <1>1
    <3>3. before(j + 1) = b + l /\ b + l <= all /\ k <= l /\ b + k <= w.size
      BY <1>11, <2>1, <2>2, <3>1, <3>2
    <3>4. p = b + k
      BY <3>1
    <3>5. b + k \in Nat /\ 1 <= b + k /\ b + k <= b + l
      BY <2>1, <3>1, <3>2, <3>3
    <3>6. b + k \in 1 .. all
      BY <1>5, <3>2, <3>3, <3>5
    <3>7. m = w.size \/ m = all
      BY DEF LesserOf
    <3>8. b + k \in 1 .. m
      BY <1>2, <1>5, <3>3, <3>6, <3>7
    <3>9. b < b + k /\ b + k - b = k
      BY <2>1, <3>1
    <3>10. QED
      BY <3>1, <3>3, <3>4, <3>5, <3>6, <3>8, <3>9
  <2> HIDE DEF p
  <2>4. holder(p) \in 1 .. n /\ Holds(holder(p), p)
    BY <1>8, <2>3
  <2>5. holder(p) = j
    <3> HIDE DEF Holds, holder
    <3>1. p \in Int
      BY <2>3
    <3>2. QED
      BY <1>7, <2>3, <2>4, <3>1
  <2>6. byte(p) = ByteOf(spans[j], k)
    <3> HIDE DEF holder
    <3>1. QED
      BY <2>3, <2>5
  <2>7. ByteOf(spans[j], k) = StoredAt(spans[j].offset, k)
    BY DEF ByteOf, StoredAt
  <2> HIDE DEF byte, m
  <2>8. Content(w)[p] = byte(p)
    BY <1>3, <2>3
  <2>9. QED
    BY <2>6, <2>7, <2>8 DEF p
<1>12. QED
  BY <1>5, <1>10, <1>11 DEF spans, w, n, before

-----------------------------------------------------------------------------
(* What a run does to the directory.                                       *)

Wheres == {"off", "next", "create", "open", "copy"}

\* Where the process has a file in hand.
InHand == pc \in {"create", "open", "copy"}

Types ==
  /\ IsFiniteSet(DOMAIN files) /\ IsFiniteSet(folders) /\ IsFiniteSet(taken)
  /\ caller \in Callers /\ pc \in Wheres
  /\ todo \in 1 .. Len(Wanted) + 1
  /\ InHand => Names(dest)
  /\ foreign \in Nat

\* The device is open, and so known to the sink, whenever a file is in hand.
DeviceIsKnown ==
  InHand \/ (pc = "next" /\ (caller.opens_first \/ todo > 1)) => registered \/ NothingAsked

\* The file being written is one the sink did not see, and not on the source.
DestIsNew ==
  /\ pc \in {"open", "copy"} => dest \notin seen /\ (home # "source" \/ NothingAsked)
  /\ pc = "copy" => dest \in DOMAIN files

NewInv == Types /\ DeviceIsKnown /\ DestIsNew

\* Whatever goes wrong, the process goes on with the next file or ends.
LEMMA FailKeepsNew ==
  ASSUME NewInv, Fail, pc \in {"next", "create", "copy"}, pc = "next" => registered,
         UNCHANGED <<disk, files, foreign>>
  PROVE  NewInv' /\ pc' \in {"next", "off"}
<1>1. Len(Wanted) \in Nat
  BY RestoreAssumption DEF IsList
<1>2. /\ UNCHANGED <<home, folders, files, caller, taken, foreign, NothingAsked>>
      /\ registered \/ NothingAsked
  BY DEF Fail, End, disk, restorer, NewInv, DeviceIsKnown, InHand, NothingAsked
<1>3. CASE pc' = "next" /\ todo' = todo + 1 /\ ~AllTaken /\ UNCHANGED registered
  <2>1. todo' \in 1 .. Len(Wanted) + 1
    BY <1>1, <1>3 DEF AllTaken, NewInv, Types
  <2>2. QED
    BY <1>2, <1>3, <2>1 DEF NewInv, Types, DeviceIsKnown, DestIsNew, InHand, Wheres
<1>4. CASE pc' = "off" /\ UNCHANGED todo
  BY <1>2, <1>4 DEF NewInv, Types, DeviceIsKnown, DestIsNew, InHand, Wheres
<1>5. QED
  BY <1>3, <1>4 DEF Fail, End, restorer

\* Putting a file into the directory.
LEMMA PutAdds ==
  ASSUME NEW p, NEW x, files' = Put(p, x), IsFiniteSet(DOMAIN files)
  PROVE  /\ DOMAIN files' = DOMAIN files \cup {p} /\ IsFiniteSet(DOMAIN files')
         /\ files'[p] = x
         /\ \A q \in DOMAIN files : q # p => files'[q] = files[q]
<1>1. files' = [q \in DOMAIN files \cup {p} |-> IF q = p THEN x ELSE files[q]]
  BY DEF Put
<1>2. QED
  BY <1>1, FS_AddElement

\* Every step keeps it.
LEMMA NewInvStep ==
  ASSUME NewInv, [Next]_vars PROVE NewInv'
<1> USE DEF Wheres, InHand, NothingAsked, bounds
<1>1. Len(Wanted) \in Nat /\ 1 \in 1 .. Len(Wanted) + 1
  BY RestoreAssumption DEF IsList
<1>2. CASE UNCHANGED vars
  BY <1>2 DEF vars, disk, restorer, file, NewInv, Types, DeviceIsKnown, DestIsNew
<1>3. ASSUME NEW c \in Callers, Start(c) PROVE NewInv'
  <2>1. IsFiniteSet(folders') /\ IsFiniteSet(taken')
    BY <1>3, FS_AddElement, FS_EmptySet DEF Start, NewInv, Types
  <2>2. QED
    BY <1>1, <1>3, <2>1 DEF Start, NewInv, Types, DeviceIsKnown, DestIsNew
<1>4. ASSUME NEW c \in Callers, StartRefused(c) PROVE NewInv'
  BY <1>4 DEF StartRefused, disk, restorer, file, NewInv, Types, DeviceIsKnown, DestIsNew
<1>5. CASE OpenDevice
  BY <1>5 DEF OpenDevice, disk, restorer, file, NewInv, Types, DeviceIsKnown, DestIsNew
<1>6. CASE CannotRestore \/ CreateFails \/ ReadFails \/ WriteFails
  BY <1>6, FailKeepsNew DEF CannotRestore, CreateFails, ReadFails, WriteFails, bounds
<1>7. CASE Choose
  <2>1. todo \in 1 .. Len(Wanted)
    BY <1>1, <1>7 DEF Choose, AllTaken, NewInv, Types
  <2>2. IsPath(Now.rel)
    BY <2>1, RestoreAssumption DEF Now
  <2>3. Names(dest')
    BY <1>7, <2>2, DestinationIsFree DEF Choose, NewInv, Types
  <2>4. IsFiniteSet(taken')
    BY <1>7, FS_AddElement DEF Choose, NewInv, Types
  <2>5. QED
    BY <1>7, <2>3, <2>4 DEF Choose, disk, NewInv, Types, DeviceIsKnown, DestIsNew
<1>8. CASE ChooseManifest
  <2>1. Names(dest')
    BY <1>8, ManifestPathIsFree DEF ChooseManifest, NewInv, Types
  <2>2. NothingAsked \/ caller.opens_first \/ todo > 1
    <3>1. CASE Wanted = <<>>
      BY <3>1
    <3>2. CASE Wanted # <<>>
      <4>1. Len(Wanted) # 0
        <5>1. Wanted \in Seq({Wanted[i] : i \in 1 .. Len(Wanted)})
          BY RestoreAssumption, ListIsSeq
        <5>2. QED
          BY <3>2, <5>1, EmptySeq
      <4>2. QED
        BY <1>1, <1>8, <4>1 DEF ChooseManifest, AllTaken, NewInv, Types
    <3>3. QED
      BY <3>1, <3>2
  <2>3. registered \/ NothingAsked
    BY <1>8, <2>2 DEF ChooseManifest, NewInv, DeviceIsKnown
  <2>4. QED
    BY <1>8, <2>1, <2>3 DEF ChooseManifest, disk, restorer, NewInv, Types, DeviceIsKnown, DestIsNew
<1>9. CASE Create
  <2>1. IsFiniteSet(folders')
    BY <1>9, AboveIsFinite, FS_Union DEF Create, NewInv, Types
  <2>2. (registered \/ NothingAsked) /\ ~CreateRefused /\ seen' = DOMAIN files
    BY <1>9 DEF Create, NewInv, DeviceIsKnown
  <2>3. (home # "source" \/ NothingAsked) /\ dest \notin seen'
    BY <2>2 DEF CreateRefused, OnSource, Exists
  <2>4. QED
    BY <1>9, <2>1, <2>3 DEF Create, restorer, file, NewInv, Types, DeviceIsKnown, DestIsNew
<1>10. CASE Open
  <2>1. IsFiniteSet(DOMAIN files') /\ dest \in DOMAIN files'
    BY <1>10, PutAdds DEF Open, NewInv, Types
  <2>2. QED
    BY <1>10, <2>1 DEF Open, disk, restorer, file, NewInv, Types, DeviceIsKnown, DestIsNew
<1>11. CASE Copy \/ CopyResident
  <2>1. DOMAIN files' = DOMAIN files
    BY <1>11 DEF Copy, CopyResident
  <2>2. QED
    BY <1>11, <2>1 DEF Copy, CopyResident, disk, restorer, file, NewInv, Types, DeviceIsKnown, DestIsNew
<1>12. CASE NextSpan
  BY <1>12 DEF NextSpan, disk, restorer, NewInv, Types, DeviceIsKnown, DestIsNew
<1>13. CASE Finish
  <2>1. todo' = todo + 1 /\ todo' \in 1 .. Len(Wanted) + 1
    BY <1>1, <1>13 DEF Finish, AllTaken, NewInv, Types
  <2>2. QED
    BY <1>13, <2>1 DEF Finish, disk, file, NewInv, Types, DeviceIsKnown, DestIsNew
<1>14. CASE FinishManifest
  <2>1. DOMAIN files' = DOMAIN files
    BY <1>14 DEF FinishManifest
  <2>2. QED
    BY <1>14, <2>1 DEF FinishManifest, End, disk, restorer, file, NewInv, Types, DeviceIsKnown, DestIsNew
<1>15. CASE Kill
  BY <1>15 DEF Kill, End, disk, restorer, file, NewInv, Types, DeviceIsKnown, DestIsNew
<1>16. CASE Intrude
  <2>1. PICK p \in Foreign : files' = Put(p, File(<<-2>>))
    BY <1>16 DEF Intrude
  <2>2. IsFiniteSet(DOMAIN files') /\ DOMAIN files \subseteq DOMAIN files'
    BY <2>1, PutAdds DEF NewInv, Types
  <2>3. QED
    BY <1>16, <2>2 DEF Intrude, disk, restorer, file, NewInv, Types, DeviceIsKnown, DestIsNew
<1>17. QED
  BY <1>2, <1>3, <1>4, <1>5, <1>6, <1>7, <1>8, <1>9, <1>10, <1>11, <1>12, <1>13, <1>14, <1>15,
     <1>16 DEF Next, Process

\* It holds from the start.
LEMMA NewInvKept == Spec => []NewInv
<1>1. Init => NewInv
  <2> SUFFICES ASSUME Init PROVE NewInv
    OBVIOUS
  <2>1. Len(Wanted) \in Nat
    BY RestoreAssumption DEF IsList
  <2>2. DOMAIN files = {}
    BY DEF Init
  <2>3. QED
    BY <2>1, <2>2, FS_EmptySet DEF Init, NewInv, Types, DeviceIsKnown, DestIsNew, Wheres, InHand
<1>2. NewInv /\ [Next]_vars => NewInv'
  BY NewInvStep
<1>3. QED
  BY <1>1, <1>2, PTL DEF Spec

\* What a step does to the files: it makes or fills the one in hand, or another
\* program adds one.
LEMMA FileSteps ==
  ASSUME NewInv, [Next]_vars
  PROVE  \/ UNCHANGED files
         \/ /\ pc \in {"open", "copy"}
            /\ pc = "copy" => dest \in DOMAIN files
            /\ DOMAIN files' = DOMAIN files \cup {dest}
            /\ \A q \in DOMAIN files : q # dest => files'[q] = files[q]
         \/ /\ Intrude /\ DOMAIN files \subseteq DOMAIN files'
            /\ \A q \in DOMAIN files : files'[q] = files[q]
<1>1. CASE Open
  BY <1>1, PutAdds DEF Open, NewInv, Types
<1>2. CASE Copy \/ CopyResident \/ FinishManifest
  <2>1. pc = "copy" /\ dest \in DOMAIN files
    BY <1>2 DEF Copy, CopyResident, FinishManifest, NewInv, DestIsNew
  <2>2. DOMAIN files' = DOMAIN files \cup {dest}
    BY <1>2, <2>1 DEF Copy, CopyResident, FinishManifest
  <2>3. \A q \in DOMAIN files : q # dest => files'[q] = files[q]
    BY <1>2 DEF Copy, CopyResident, FinishManifest
  <2>4. QED
    BY <2>1, <2>2, <2>3
<1>3. CASE Intrude
  <2>1. PICK p \in Foreign : ~Exists(p) /\ files' = Put(p, File(<<-2>>))
    BY <1>3 DEF Intrude
  <2>2. p \notin DOMAIN files
    BY <2>1 DEF Exists
  <2>3. QED
    BY <1>3, <2>1, <2>2, PutAdds DEF NewInv, Types
<1>4. QED
  BY <1>1, <1>2, <1>3
  DEF Next, Process, Start, StartRefused, OpenDevice, CannotRestore, Choose, ChooseManifest, Create,
      CreateFails, NextSpan, ReadFails, WriteFails, Finish, Kill, vars

\* "Existing files are never overwritten" and nothing is made on the source:
\* a step changes only a file that was not there when the sink looked, for any
\* names, callers, faults, kills and other programs.
THEOREM NothingIsOverwritten == Spec => OnlyNewFiles
<1>1. NewInv /\ [Next]_vars =>
        [\A p \in DOMAIN files' :
           /\ p \in DOMAIN files /\ files'[p] # files[p] => p = dest /\ p \notin seen
           /\ p \notin DOMAIN files =>
                home # "source" \/ NothingAsked \/ foreign' # foreign]_files
  <2> SUFFICES ASSUME NewInv, [Next]_vars, ~UNCHANGED files, NEW p \in DOMAIN files'
               PROVE  /\ p \in DOMAIN files /\ files'[p] # files[p] => p = dest /\ p \notin seen
                      /\ p \notin DOMAIN files =>
                           home # "source" \/ NothingAsked \/ foreign' # foreign
    OBVIOUS
  <2>1. CASE /\ pc \in {"open", "copy"}
             /\ DOMAIN files' = DOMAIN files \cup {dest}
             /\ \A q \in DOMAIN files : q # dest => files'[q] = files[q]
    BY <2>1 DEF NewInv, DestIsNew
  <2>2. CASE Intrude /\ \A q \in DOMAIN files : files'[q] = files[q]
    <3>1. foreign' # foreign
      BY <2>2 DEF Intrude, NewInv, Types
    <3>2. QED
      BY <2>2, <3>1
  <2>3. QED
    BY <2>1, <2>2, FileSteps
<1>2. QED
  BY <1>1, NewInvKept, PTL DEF Spec, OnlyNewFiles
-----------------------------------------------------------------------------
(* What a manifest says.                                                   *)

RecordIsTrue(r, there) ==
  /\ r.which \in 1 .. Len(Wanted) /\ r.dest \in DOMAIN there
  /\ there[r.dest] = File(Content(Wanted[r.which]))
  /\ r.short <=> /\ Wanted[r.which].location.where # "resident"
                 /\ Len(Content(Wanted[r.which])) < Wanted[r.which].size

RecordsAreTrue(records, there) ==
  /\ \A i \in DOMAIN records : RecordIsTrue(records[i], there)
  /\ \A i, j \in DOMAIN records : records[i].dest = records[j].dest => i = j

Unlisted(p, records) == \A i \in DOMAIN records : records[i].dest # p

IsManifest(p) == p \in DOMAIN files /\ files[p].kind = "manifest"

\* What is listed, in a manifest or for the next one, is there and whole.
ListedIsTrue ==
  /\ RecordsAreTrue(written, files)
  /\ \A p : IsManifest(p) => RecordsAreTrue(files[p].records, files)

\* The file in hand is not listed yet.
DestIsUnlisted ==
  pc \in {"open", "copy"} =>
    /\ Unlisted(dest, written)
    /\ \A p : IsManifest(p) => Unlisted(dest, files[p].records)

\* Every file taken up was written or skipped.
Accounts ==
  /\ IsList(written) /\ IsFiniteSet(skipped)
  /\ {written[i].which : i \in DOMAIN written} \cup skipped = 1 .. todo - 1
  /\ Len(written) + Cardinality(skipped) = todo - 1

SuccessIsWhole ==
  outcome = "ok" => /\ pc = "off" /\ todo = Len(Wanted) + 1
                    /\ \E p \in DOMAIN files : files[p] = Manifest(written)

\* What the file in hand holds, and that it is the content up to there.
InFile == files[dest].bytes

SpansSoFar ==
  /\ InFile \in Seq(Int) /\ Len(InFile) <= Now.size
  /\ span \in 1 .. Len(Spans) + 1 /\ done \in Nat
  /\ span <= Len(Spans) => done <= Spans[span].length
  /\ span > Len(Spans) => done = 0
  /\ Len(InFile) = BytesBefore(Spans, span) + done
  /\ \A k \in 1 .. Len(InFile) : InFile[k] = Content(Now)[k]

CopyIsTrue ==
  /\ pc \in {"create", "open"} /\ ~AllTaken => Restorable(Now) /\ span = 1 /\ done = 0
  /\ pc = "copy" /\ ~AllTaken =>
       /\ Restorable(Now) /\ files[dest] = File(InFile)
       /\ Now.location.where = "resident" => span = 1 /\ (InFile = <<>> \/ InFile = Content(Now))
       /\ Now.location.where # "resident" => SpansSoFar
  /\ pc = "copy" /\ AllTaken => files[dest] = Manifest(<<>>)

TrueInv == ListedIsTrue /\ DestIsUnlisted /\ Accounts /\ SuccessIsWhole /\ CopyIsTrue

\* One more at the end of a list.
LEMMA ListGrows ==
  ASSUME NEW s, IsList(s), NEW x
  PROVE  /\ IsList(Append(s, x)) /\ Len(Append(s, x)) = Len(s) + 1
         /\ DOMAIN s = 1 .. Len(s) /\ DOMAIN Append(s, x) = 1 .. Len(s) + 1
         /\ \A i \in 1 .. Len(s) : Append(s, x)[i] = s[i]
         /\ Append(s, x)[Len(s) + 1] = x
<1> DEFINE T == {s[i] : i \in 1 .. Len(s)} \cup {x}
<1>1. s \in Seq(T) /\ DOMAIN s = 1 .. Len(s)
  <2>1. \A i \in 1 .. Len(s) : s[i] \in T
    OBVIOUS
  <2> HIDE DEF T
  <2>2. QED
    BY <2>1, ListIsSeq
<1>2. x \in T
  OBVIOUS
<1> HIDE DEF T
<1>3. Append(s, x) \in Seq(T)
  BY <1>1, <1>2
<1>4. QED
  <2>1. IsList(Append(s, x))
    BY <1>3, SeqIsList
  <2>2. PICK n \in Nat : n = Len(s)
    BY DEF IsList
  <2>3. Len(Append(s, x)) = n + 1 /\ DOMAIN Append(s, x) = 1 .. n + 1
    BY <1>1, <1>2, <1>3, <2>2
  <2>4. /\ \A i \in 1 .. n : Append(s, x)[i] = s[i]
        /\ Append(s, x)[n + 1] = x
    BY <1>1, <1>2, <2>2, AppendProperties
  <2>5. QED
    BY <1>1, <2>1, <2>2, <2>3, <2>4

\* The accounts are kept whatever happens.
LEMMA AccountsStep ==
  ASSUME NewInv, Accounts, [Next]_vars PROVE Accounts'
<1>1. todo \in Nat \ {0}
  BY DEF NewInv, Types
<1>2. CASE UNCHANGED <<todo, written, skipped>>
  BY <1>2 DEF Accounts
<1>3. CASE todo' = 1 /\ written' = <<>> /\ skipped' = {}
  <2>1. IsList(written') /\ Len(written') = 0 /\ DOMAIN written' = {}
    <3>1. <<>> \in Seq(Int) /\ Len(<<>>) = 0 /\ DOMAIN <<>> = {}
      OBVIOUS
    <3>2. IsList(<<>>)
      BY <3>1, SeqIsList
    <3>3. QED
      BY <1>3, <3>1, <3>2
  <2>2. IsFiniteSet(skipped') /\ Cardinality(skipped') = 0
    BY <1>3, FS_EmptySet
  <2>3. {written'[i].which : i \in DOMAIN written'} = {}
    BY <2>1
  <2>4. QED
    BY <1>3, <2>1, <2>2, <2>3 DEF Accounts
<1>4. CASE skipped' = skipped \cup {todo} /\ todo' = todo + 1 /\ UNCHANGED written
  <2>1. todo \notin skipped
    BY <1>1 DEF Accounts
  <2>2. IsFiniteSet(skipped') /\ Cardinality(skipped') = Cardinality(skipped) + 1
    BY <1>4, <2>1, FS_AddElement DEF Accounts
  <2>3. 1 .. todo' - 1 = (1 .. todo - 1) \cup {todo}
    BY <1>1, <1>4
  <2>4. Len(written) \in Nat /\ Cardinality(skipped) \in Nat
    BY FS_CardinalityType DEF Accounts, IsList
  <2>5. Len(written') + Cardinality(skipped') = todo' - 1
    BY <1>1, <1>4, <2>2, <2>4 DEF Accounts
  <2>6. QED
    BY <1>4, <2>2, <2>3, <2>5 DEF Accounts
<1>5. CASE Finish
  <2>1. written' = Append(written, Record) /\ todo' = todo + 1 /\ UNCHANGED skipped
    BY <1>5 DEF Finish
  <2> DEFINE n == Len(written)
  <2>2. /\ IsList(written') /\ Len(written') = n + 1 /\ n \in Nat
        /\ DOMAIN written = 1 .. n /\ DOMAIN written' = 1 .. n + 1
        /\ \A i \in 1 .. n : written'[i] = written[i]
        /\ written'[n + 1].which = todo
    BY <2>1, ListGrows DEF Accounts, IsList, Record
  <2>3. {written'[i].which : i \in DOMAIN written'} = {written[i].which : i \in DOMAIN written} \cup {todo}
    BY <2>2
  <2>4. 1 .. todo' - 1 = (1 .. todo - 1) \cup {todo}
    BY <1>1, <2>1
  <2>5. Cardinality(skipped) \in Nat
    BY FS_CardinalityType DEF Accounts
  <2>6. Len(written') + Cardinality(skipped') = todo' - 1
    <3>1. PICK c \in Nat : c = Cardinality(skipped)
      BY <2>5
    <3>2. n + c = todo - 1 /\ Len(written') = n + 1 /\ Cardinality(skipped') = c
      BY <2>1, <2>2, <3>1 DEF Accounts
    <3> HIDE DEF n
    <3>3. QED
      BY <1>1, <2>1, <2>2, <3>2
  <2>7. QED
    BY <2>1, <2>2, <2>3, <2>4, <2>6 DEF Accounts
<1>6. CASE Fail
  BY <1>2, <1>4, <1>6 DEF Fail, End, restorer
<1>7. QED
  BY <1>2, <1>3, <1>5, <1>6
  DEF Next, Process, Start, StartRefused, OpenDevice, CannotRestore, Choose, ChooseManifest, Create,
      CreateFails, Open, Copy, CopyResident, NextSpan, ReadFails, WriteFails, FinishManifest, Kill,
      Intrude, End, restorer, vars

\* Records stay true while their files are left alone.
LEMMA RecordsStayTrue ==
  ASSUME NEW records, NEW there, NEW now, NEW d, RecordsAreTrue(records, there),
         DOMAIN there \subseteq DOMAIN now, Unlisted(d, records),
         \A q \in DOMAIN there : q # d => now[q] = there[q]
  PROVE  RecordsAreTrue(records, now)
BY DEF RecordsAreTrue, RecordIsTrue, Unlisted

\* What a file must hold when it is put on the list.
LEMMA FinishedIsWhole ==
  ASSUME NewInv, CopyIsTrue, Finish
  PROVE  /\ todo \in 1 .. Len(Wanted) /\ files[dest] = File(Content(Now))
         /\ RecordIsTrue(Record, files)
<1>1. todo \in 1 .. Len(Wanted) /\ Len(Wanted) \in Nat
  BY RestoreAssumption DEF Finish, AllTaken, NewInv, Types, IsList
<1>2. /\ pc = "copy" /\ ~AllTaken /\ Copied /\ Restorable(Now) /\ files[dest] = File(InFile)
      /\ dest \in DOMAIN files /\ Now.size \in Nat
  BY <1>1, RestoreAssumption DEF Finish, CopyIsTrue, NewInv, DestIsNew, Now
<1>3. InFile = Content(Now)
  <2>1. CASE Now.location.where = "resident"
    <3> DEFINE all == Now.location.bytes
               m == LesserOf(Now.size, Len(all))
    <3>1. IsLocation(Now.location)
      BY <1>1, RestoreAssumption DEF Now
    <3>2. all \in Seq(Int)
      BY <2>1, <3>1, ListIsSeq DEF IsLocation
    <3>3. Content(Now) = SubSeq(all, 1, m) /\ Len(InFile) = m
      BY <1>2, <2>1 DEF Content, Copied, Out, InFile
    <3>4. m = 0 => SubSeq(all, 1, m) = <<>>
      BY <3>2
    <3>5. QED
      BY <1>2, <2>1, <3>3, <3>4, EmptySeq DEF CopyIsTrue
  <2>2. CASE Now.location.where # "resident"
    <3> DEFINE n == Len(Spans)
               all == BytesBefore(Spans, n + 1)
    <3>1. SpansSoFar
      BY <1>2, <2>2 DEF CopyIsTrue
    <3>2. Content(Now) \in Seq(Int) /\ all \in Nat /\ Len(Content(Now)) = LesserOf(Now.size, all)
      BY <1>1, <1>2, <2>2, ContentOfSpans DEF Now, Spans
    <3>3. Spans \in Seq(Span) /\ n \in Nat /\ \A j \in 1 .. n : Spans[j].length \in Nat
      <4>1. Spans \in Seq(Span)
        BY <1>1, <1>2, SpansAreTyped DEF Now, Spans
      <4>2. \A j \in 1 .. n : Spans[j] \in Span
        BY <4>1
      <4>3. QED
        BY <4>1, <4>2 DEF Span
    <3>4. /\ \A i \in 1 .. n + 1 : BytesBefore(Spans, i) \in Nat
          /\ \A i \in 1 .. n : BytesBefore(Spans, i + 1) = BytesBefore(Spans, i) + Spans[i].length
          /\ \A i, j \in 1 .. n + 1 : i <= j => BytesBefore(Spans, i) <= BytesBefore(Spans, j)
      BY <3>3, BytesAddUp
    <3>5. Len(InFile) = LesserOf(Now.size, all)
      <4>1. CASE span > n
        <5>1. span = n + 1 /\ done = 0
          BY <3>1, <3>3, <4>1 DEF SpansSoFar
        <5>2. Len(InFile) = all
          BY <3>1, <3>2, <5>1 DEF SpansSoFar
        <5>3. QED
          BY <1>2, <3>1, <3>2, <5>2 DEF SpansSoFar, LesserOf
      <4>2. CASE ~(span > n)
        <5>1. InSpan /\ Out >= Now.size
          BY <1>2, <2>2, <4>2 DEF Copied
        <5>2. Len(InFile) = Now.size
          BY <1>2, <3>1, <5>1 DEF SpansSoFar, Out, InFile
        <5>3. span \in 1 .. n /\ done \in Nat /\ done <= Spans[span].length
          BY <3>1, <3>3, <4>2 DEF SpansSoFar
        <5>4. /\ span \in 1 .. n + 1 /\ span + 1 \in 1 .. n + 1 /\ span + 1 <= n + 1
              /\ n + 1 \in 1 .. n + 1
          BY <3>3, <5>3
        <5>5. PICK b \in Nat, l \in Nat : b = BytesBefore(Spans, span) /\ l = Spans[span].length
          BY <3>3, <3>4, <5>3, <5>4
        <5>6. Len(InFile) = b + done /\ done <= l /\ b + l <= all
          <6>1. BytesBefore(Spans, span + 1) <= all /\ BytesBefore(Spans, span + 1) = b + l
            BY <3>4, <5>3, <5>4, <5>5
          <6>2. QED
            BY <3>1, <5>3, <5>5, <6>1 DEF SpansSoFar
        <5>7. QED
          BY <1>2, <3>2, <5>2, <5>3, <5>5, <5>6 DEF LesserOf
      <4>3. QED
        BY <4>1, <4>2
    <3>6. QED
      BY <3>1, <3>2, <3>5, SeqEqual DEF SpansSoFar
  <2>3. QED
    BY <2>1, <2>2
<1>4. /\ Record.which = todo /\ Record.dest = dest
      /\ Record.short <=> Now.location.where # "resident" /\ Len(InFile) < Now.size
  BY DEF Record, Out, InFile
<1>5. QED
  BY <1>1, <1>2, <1>3, <1>4 DEF RecordIsTrue, Now
\* A buffer that was read adds to the content what comes next.
LEMMA BufferExtends ==
  ASSUME todo \in 1 .. Len(Wanted), Restorable(Now), Now.location.where # "resident",
         SpansSoFar, Copy, dest \in DOMAIN files, files[dest] = File(InFile)
  PROVE  SpansSoFar' /\ files'[dest] = File(InFile')
<1> DEFINE n == Len(Spans)
           s == Spans[span]
           want == Want
           buf == Buffer(From, want)
<1>1. /\ InSpan /\ Out < Now.size /\ buf # None
      /\ files' = [files EXCEPT ![dest].bytes = @ \o buf]
      /\ done' = done + want /\ UNCHANGED <<todo, dest, span>>
  BY DEF Copy, restorer
<1>2. UNCHANGED <<Now, Spans>>
  BY <1>1 DEF Now, Spans
<1>3. Spans \in Seq(Span) /\ n \in Nat /\ \A j \in 1 .. n : Spans[j] \in Span
  <2>1. Spans \in Seq(Span)
    BY SpansAreTyped DEF Now, Spans
  <2>2. QED
    BY <2>1
<1>4. span \in 1 .. n /\ s.offset \in Nat \cup {Hole} /\ s.length \in Nat
  <2>1. span \in 1 .. n
    BY <1>1, <1>3 DEF InSpan, SpansSoFar
  <2>2. QED
    BY <1>3, <2>1 DEF Span
<1>5. PICK b \in Nat, l \in Nat, size \in Nat, out \in Nat :
        /\ b = BytesBefore(Spans, span) /\ l = s.length /\ size = Now.size /\ out = Len(InFile)
  <2>1. \A j \in 1 .. n : Spans[j].length \in Nat
    BY <1>3 DEF Span
  <2>2. span \in 1 .. n + 1
    BY <1>3, <1>4
  <2>3. BytesBefore(Spans, span) \in Nat
    BY <1>3, <2>1, <2>2, BytesAddUp
  <2>4. Now.size \in Nat
    BY RestoreAssumption DEF Now
  <2>5. Len(InFile) \in Nat
    BY DEF SpansSoFar
  <2>6. QED
    BY <1>4, <2>3, <2>4, <2>5
<1>6. /\ done \in Nat /\ done < l /\ out = b + done /\ out < size /\ Out = out
      /\ InFile \in Seq(Int) /\ \A k \in 1 .. out : InFile[k] = Content(Now)[k]
  BY <1>1, <1>5 DEF SpansSoFar, InSpan, Out, InFile
<1>7. want \in Nat /\ done + want <= l /\ out + want <= size
  <2>1. want = LesserOf(LesserOf(l - done, Chunk), size - out)
    BY <1>5, <1>6 DEF Want
  <2>2. PICK c \in Nat : c = Chunk
    BY RestoreAssumption
  <2>3. PICK d \in Nat, e \in Nat : d = l - done /\ e = size - out
    <3>1. \A x, y \in Nat : x < y => y - x \in Nat
      OBVIOUS
    <3>2. done \in Nat /\ done < l /\ out < size
      BY <1>6
    <3>3. l - done \in Nat /\ size - out \in Nat
      BY <3>1, <3>2
    <3>4. QED
      BY <3>3
  <2>4. want \in Nat /\ want <= d /\ want <= e
    <3> HIDE DEF want
    <3>1. QED
      BY <2>1, <2>2, <2>3 DEF LesserOf
  <2> HIDE DEF want
  <2>5. done \in Nat
    BY <1>6
  <2>6. QED
    BY <2>3, <2>4, <2>5
<1>8. From \in Nat \cup {Hole} /\ \A k \in Nat : StoredAt(From, k) = StoredAt(s.offset, done + k)
  <2>1. CASE s.offset = Hole
    BY <2>1 DEF From, StoredAt
  <2>2. CASE s.offset # Hole
    <3>1. PICK o \in Nat : o = s.offset
      BY <1>4, <2>2
    <3>2. From = o + done /\ o # Hole /\ o + done # Hole
      BY <1>6, <2>2, <3>1 DEF From, Hole
    <3>3. ASSUME NEW k \in Nat PROVE StoredAt(From, k) = StoredAt(s.offset, done + k)
      <4> DEFINE total == TotalBytes(Device)
      <4>1. o + done + k - 1 = o + (done + k) - 1
        BY <1>6
      <4> HIDE DEF total
      <4>2. StoredAt(o + done, k) = IF o + done + k - 1 >= total THEN Zero ELSE o + done + k - 1
        BY <3>2 DEF StoredAt, total
      <4>3. StoredAt(o, done + k) =
              IF o + (done + k) - 1 >= total THEN Zero ELSE o + (done + k) - 1
        BY <3>2 DEF StoredAt, total
      <4>4. QED
        BY <3>1, <3>2, <4>1, <4>2, <4>3
    <3>4. From \in Nat
      BY <1>6, <3>2
    <3> HIDE DEF s
    <3>5. QED
      BY <3>3, <3>4
  <2>3. QED
    BY <2>1, <2>2
<1> HIDE DEF want
<1>9. /\ buf \in Seq(Int) /\ Len(buf) = want
      /\ \A k \in 1 .. want : buf[k] = StoredAt(From, k)
  BY <1>1, <1>7, <1>8, BufferIsRead
<1> HIDE DEF buf, s, n
<1>10. InFile' = InFile \o buf /\ files'[dest] = File(InFile')
  <2>1. files'[dest] = [files[dest] EXCEPT !.bytes = @ \o buf]
    BY <1>1
  <2>2. files'[dest] = File(InFile \o buf)
    <3>1. \A x, y : [[kind |-> "file", bytes |-> x] EXCEPT !.bytes = y] = [kind |-> "file", bytes |-> y]
      OBVIOUS
    <3>2. files[dest] = [kind |-> "file", bytes |-> InFile]
      BY DEF File
    <3>3. files'[dest] = [[kind |-> "file", bytes |-> InFile] EXCEPT !.bytes = InFile \o buf]
      BY <2>1, <3>2
    <3>4. QED
      BY <3>1, <3>3 DEF File
  <2>3. InFile' = InFile \o buf
    BY <1>1, <2>2 DEF InFile, File
  <2>4. QED
    BY <2>2, <2>3
<1>11. /\ InFile' \in Seq(Int) /\ Len(InFile') = out + want
       /\ \A k \in 1 .. out + want : InFile'[k] = IF k <= out THEN InFile[k] ELSE buf[k - out]
  <2>1. PICK v \in Seq(Int) : v = InFile /\ Len(v) = out
    BY <1>5, <1>6
  <2>2. /\ v \o buf \in Seq(Int) /\ Len(v \o buf) = Len(v) + Len(buf)
        /\ \A k \in 1 .. Len(v) + Len(buf) :
             (v \o buf)[k] = IF k <= Len(v) THEN v[k] ELSE buf[k - Len(v)]
    BY <1>9, ConcatProperties
  <2>3. QED
    BY <1>9, <1>10, <2>1, <2>2
<1>12. ASSUME NEW k \in 1 .. out + want PROVE InFile'[k] = Content(Now)[k]
  <2>1. CASE k <= out
    <3>1. k \in 1 .. out
      BY <1>7, <2>1
    <3>2. InFile'[k] = InFile[k]
      BY <1>11, <2>1
    <3>3. QED
      BY <1>6, <3>1, <3>2
  <2>2. CASE ~(k <= out)
    <3>1. PICK i \in 1 .. want : i = k - out
      <4> HIDE DEF want
      <4>1. \A x, y \in Nat : \A z \in 1 .. x + y : ~(z <= x) => z - x \in 1 .. y
        OBVIOUS
      <4>2. k - out \in 1 .. want
        BY <1>5, <1>7, <2>2, <4>1
      <4>3. QED
        BY <4>2
    <3>2. InFile'[k] = StoredAt(s.offset, done + i)
      BY <1>5, <1>7, <1>8, <1>9, <1>11, <2>2, <3>1
    <3>3. done + i \in 1 .. l /\ b + (done + i) = k /\ k <= size
      <4> HIDE DEF want
      <4>1. \A w, x, y, z, max \in Nat : \A j \in 1 .. w :
              x + w <= y /\ z + x + w <= max =>
                x + j \in 1 .. y /\ z + x + j = z + (x + j) /\ z + x + j <= max
        OBVIOUS
      <4>2. k = b + done + i
        BY <1>6, <1>7, <3>1
      <4>3. b + done + want <= size
        BY <1>6, <1>7
      <4>4. QED
        BY <1>6, <1>7, <4>1, <4>2, <4>3
    <3>4. Content(Now)[b + (done + i)] = StoredAt(s.offset, done + i)
      BY <1>4, <1>5, <3>3, ContentOfSpans DEF Now, Spans, s, n
    <3>5. QED
      BY <3>2, <3>3, <3>4
  <2>3. QED
    BY <2>1, <2>2
<1>13. done' \in Nat /\ out + want = b + done'
  BY <1>1, <1>5, <1>6, <1>7
<1>14. SpansSoFar'
  <2>1. span \in 1 .. n + 1 /\ ~(span > n)
    BY <1>3, <1>4 DEF n
  <2>2. done' <= s.length /\ out + want <= Now.size
    BY <1>1, <1>5, <1>7
  <2>3. Len(InFile') = BytesBefore(Spans, span) + done'
    BY <1>5, <1>11, <1>13
  <2>4. QED
    BY <1>1, <1>2, <1>5, <1>11, <1>12, <1>13, <2>1, <2>2, <2>3 DEF SpansSoFar, s, n
<1>15. QED
  BY <1>10, <1>14

\* So does the end of a span.
LEMMA SpanEnds ==
  ASSUME todo \in 1 .. Len(Wanted), Restorable(Now), SpansSoFar, NextSpan
  PROVE  SpansSoFar'
<1> DEFINE n == Len(Spans)
           s == Spans[span]
<1>1. /\ span <= Len(Spans) /\ ~InSpan /\ span' = span + 1 /\ done' = 0
      /\ UNCHANGED <<files, todo, dest>>
  BY DEF NextSpan, restorer
<1>2. UNCHANGED <<Now, Spans, InFile>>
  BY <1>1 DEF Now, Spans, InFile
<1>3. Spans \in Seq(Span) /\ n \in Nat /\ \A j \in 1 .. n : Spans[j].length \in Nat
  <2>1. Spans \in Seq(Span)
    BY SpansAreTyped DEF Now, Spans
  <2>2. \A j \in 1 .. n : Spans[j] \in Span
    BY <2>1
  <2>3. QED
    BY <2>1, <2>2 DEF Span
<1>4. span \in 1 .. n /\ span + 1 \in 1 .. n + 1 /\ done = s.length
  BY <1>1, <1>3 DEF SpansSoFar, InSpan
<1>5. BytesBefore(Spans, span + 1) = BytesBefore(Spans, span) + s.length
  BY <1>3, <1>4, BytesAddUp
<1>6. BytesBefore(Spans, span + 1) \in Nat
  BY <1>3, <1>4, BytesAddUp
<1>7. Len(InFile) = BytesBefore(Spans, span + 1) + 0
  BY <1>4, <1>5, <1>6 DEF SpansSoFar
<1>8. /\ span + 1 <= n => 0 <= Spans[span + 1].length
      /\ 0 \in Nat
  BY <1>3, <1>4
<1>9. QED
  BY <1>1, <1>2, <1>4, <1>7, <1>8 DEF SpansSoFar

\* A step that touches no listed file leaves every record true.
LEMMA OthersStayTrue ==
  ASSUME ListedIsTrue, NEW d,
         Unlisted(d, written), \A p : IsManifest(p) => Unlisted(d, files[p].records),
         DOMAIN files \subseteq DOMAIN files', DOMAIN files' \subseteq DOMAIN files \cup {d},
         \A q \in DOMAIN files : q # d => files'[q] = files[q]
  PROVE  /\ RecordsAreTrue(written, files')
         /\ \A p : p # d /\ IsManifest(p)' =>
              /\ IsManifest(p) /\ files'[p] = files[p]
              /\ RecordsAreTrue(files'[p].records, files')
<1>1. RecordsAreTrue(written, files')
  BY RecordsStayTrue DEF ListedIsTrue
<1>2. ASSUME NEW p, p # d, IsManifest(p)'
      PROVE  /\ IsManifest(p) /\ files'[p] = files[p]
             /\ RecordsAreTrue(files'[p].records, files')
  <2>1. IsManifest(p) /\ files'[p] = files[p]
    BY <1>2 DEF IsManifest
  <2>2. RecordsAreTrue(files[p].records, files) /\ Unlisted(d, files[p].records)
    BY <2>1 DEF ListedIsTrue
  <2>3. RecordsAreTrue(files[p].records, files')
    BY <2>2, RecordsStayTrue
  <2>4. QED
    BY <2>1, <2>3
<1>3. QED
  BY <1>1, <1>2

\* A name that is not in the directory is not listed.
LEMMA AbsentIsUnlisted ==
  ASSUME ListedIsTrue, NEW d, d \notin DOMAIN files
  PROVE  Unlisted(d, written) /\ \A p : IsManifest(p) => Unlisted(d, files[p].records)
<1>1. \A records : RecordsAreTrue(records, files) => Unlisted(d, records)
  BY DEF RecordsAreTrue, RecordIsTrue, Unlisted
<1>2. QED
  BY <1>1 DEF ListedIsTrue

\* Every step leaves what is listed true.
LEMMA RecordsStep ==
  ASSUME NewInv, TrueInv, [Next]_vars PROVE ListedIsTrue' /\ DestIsUnlisted'
<1>1. CASE /\ UNCHANGED <<files, written>>
           /\ pc' \in {"open", "copy"} => pc \in {"open", "copy"} /\ UNCHANGED dest
  BY <1>1 DEF TrueInv, ListedIsTrue, DestIsUnlisted, IsManifest
<1>2. CASE UNCHANGED files /\ written' = <<>> /\ pc' = "next"
  <2>1. RecordsAreTrue(<<>>, files)
    BY DEF RecordsAreTrue
  <2>2. QED
    BY <1>2, <2>1 DEF TrueInv, ListedIsTrue, DestIsUnlisted, IsManifest
<1>3. CASE Create
  <2>1. dest \notin DOMAIN files /\ UNCHANGED <<files, written, dest>>
    BY <1>3 DEF Create, CreateRefused, Exists, restorer, file
  <2>2. Unlisted(dest, written) /\ \A p : IsManifest(p) => Unlisted(dest, files[p].records)
    BY <2>1, AbsentIsUnlisted DEF TrueInv
  <2>3. QED
    BY <2>1, <2>2 DEF TrueInv, ListedIsTrue, DestIsUnlisted, IsManifest
<1>4. ASSUME pc \in {"open", "copy"}, UNCHANGED <<written, dest>>,
             DOMAIN files' = DOMAIN files \cup {dest},
             \A q \in DOMAIN files : q # dest => files'[q] = files[q],
             \/ files'[dest].kind = "file"
             \/ files'[dest] = Manifest(<<>>)
             \/ files'[dest] = Manifest(written) /\ pc' = "off"
      PROVE  ListedIsTrue' /\ DestIsUnlisted'
  <2>1. Unlisted(dest, written) /\ \A p : IsManifest(p) => Unlisted(dest, files[p].records)
    BY <1>4 DEF TrueInv, DestIsUnlisted
  <2>2. /\ RecordsAreTrue(written, files')
        /\ \A p : p # dest /\ IsManifest(p)' =>
             /\ IsManifest(p) /\ files'[p] = files[p]
             /\ RecordsAreTrue(files'[p].records, files')
    BY <1>4, <2>1, OthersStayTrue DEF TrueInv
  <2>3. ASSUME NEW p, p = dest, IsManifest(p)'
        PROVE  /\ RecordsAreTrue(files'[p].records, files')
               /\ pc' # "off" => Unlisted(dest, files'[p].records)
    <3>1. RecordsAreTrue(<<>>, files') /\ Unlisted(dest, <<>>)
      BY DEF RecordsAreTrue, Unlisted
    <3>2. \A records : Manifest(records).records = records
      BY DEF Manifest
    <3>3. files'[p].kind # "file"
      BY <2>3 DEF IsManifest
    <3>4. QED
      BY <1>4, <2>2, <2>3, <3>1, <3>2, <3>3
  <2>4. ListedIsTrue'
    BY <1>4, <2>2, <2>3 DEF ListedIsTrue
  <2>5. ASSUME pc' # "off", NEW p, IsManifest(p)' PROVE Unlisted(dest, files'[p].records)
    BY <2>1, <2>2, <2>3, <2>5
  <2>6. DestIsUnlisted'
    BY <1>4, <2>1, <2>5 DEF DestIsUnlisted
  <2>7. QED
    BY <2>4, <2>6
<1>5. CASE Open
  <2>1. /\ UNCHANGED <<written, dest>> /\ pc = "open"
        /\ files' = Put(dest, IF AllTaken THEN Manifest(<<>>) ELSE File(<<>>))
    BY <1>5 DEF Open, restorer, file
  <2>2. /\ DOMAIN files' = DOMAIN files \cup {dest}
        /\ \A q \in DOMAIN files : q # dest => files'[q] = files[q]
        /\ files'[dest] = Manifest(<<>>) \/ files'[dest].kind = "file"
    <3>1. File(<<>>).kind = "file"
      BY DEF File
    <3>2. IsFiniteSet(DOMAIN files)
      BY DEF NewInv, Types
    <3>3. QED
      BY <2>1, <3>1, <3>2, PutAdds
  <2>3. QED
    BY <1>4, <2>1, <2>2
<1>6. CASE Copy \/ CopyResident
  <2>1. /\ pc = "copy" /\ ~AllTaken /\ UNCHANGED <<written, dest>> /\ dest \in DOMAIN files
        /\ \E b : files' = [files EXCEPT ![dest].bytes = b]
    BY <1>6 DEF Copy, CopyResident, restorer, file, NewInv, DestIsNew
  <2>2. PICK b : files' = [files EXCEPT ![dest] = [files[dest] EXCEPT !.bytes = b]]
    BY <2>1
  <2>3. files[dest] = [kind |-> "file", bytes |-> InFile]
    BY <2>1 DEF TrueInv, CopyIsTrue, File
  <2>4. /\ DOMAIN files' = DOMAIN files \cup {dest}
        /\ \A q \in DOMAIN files : q # dest => files'[q] = files[q]
        /\ files'[dest] = [files[dest] EXCEPT !.bytes = b]
    BY <2>1, <2>2
  <2>5. files'[dest].kind = "file"
    BY <2>3, <2>4
  <2>6. QED
    BY <1>4, <2>1, <2>4, <2>5
<1>7. CASE FinishManifest
  <2>1. /\ pc = "copy" /\ UNCHANGED <<written, dest>> /\ dest \in DOMAIN files /\ pc' = "off"
        /\ files' = [files EXCEPT ![dest] = Manifest(written)]
    BY <1>7 DEF FinishManifest, End, restorer, file, NewInv, DestIsNew
  <2>2. /\ DOMAIN files' = DOMAIN files \cup {dest}
        /\ \A q \in DOMAIN files : q # dest => files'[q] = files[q]
        /\ files'[dest] = Manifest(written)
    BY <2>1
  <2>3. QED
    BY <1>4, <2>1, <2>2
<1>8. CASE Intrude
  <2>1. PICK p \in Foreign : ~Exists(p) /\ files' = Put(p, File(<<-2>>))
    BY <1>8 DEF Intrude
  <2>2. p \notin DOMAIN files /\ UNCHANGED <<pc, written, dest>>
    BY <1>8, <2>1 DEF Intrude, Exists, restorer, file
  <2>3. /\ DOMAIN files' = DOMAIN files \cup {p} /\ files'[p].kind = "file"
        /\ \A q \in DOMAIN files : q # p => files'[q] = files[q]
    <3>1. File(<<-2>>).kind = "file"
      BY DEF File
    <3>2. IsFiniteSet(DOMAIN files)
      BY DEF NewInv, Types
    <3>3. QED
      BY <2>1, <3>1, <3>2, PutAdds
  <2>4. /\ RecordsAreTrue(written, files')
        /\ \A q : q # p /\ IsManifest(q)' =>
             /\ IsManifest(q) /\ files'[q] = files[q]
             /\ RecordsAreTrue(files'[q].records, files')
    BY <2>2, <2>3, AbsentIsUnlisted, OthersStayTrue DEF TrueInv
  <2>5. ~IsManifest(p)'
    BY <2>3 DEF IsManifest
  <2>6. ListedIsTrue'
    BY <2>2, <2>4, <2>5 DEF ListedIsTrue
  <2>7. DestIsUnlisted'
    BY <2>2, <2>4, <2>5 DEF TrueInv, DestIsUnlisted
  <2>8. QED
    BY <2>6, <2>7
<1>9. CASE Finish
  <2> DEFINE n == Len(written)
  <2>1. /\ pc = "copy" /\ pc' = "next" /\ UNCHANGED files /\ written' = Append(written, Record)
        /\ RecordIsTrue(Record, files) /\ Record.dest = dest
    BY <1>9, FinishedIsWhole DEF Finish, TrueInv, Record
  <2>2. /\ DOMAIN written = 1 .. n /\ DOMAIN written' = 1 .. n + 1 /\ n \in Nat
        /\ \A i \in 1 .. n : written'[i] = written[i]
        /\ written'[n + 1] = Record
    BY <2>1, ListGrows DEF TrueInv, Accounts, IsList
  <2>3. /\ \A i \in 1 .. n : RecordIsTrue(written[i], files) /\ written[i].dest # dest
        /\ \A i, j \in 1 .. n : written[i].dest = written[j].dest => i = j
    BY <2>1, <2>2 DEF TrueInv, ListedIsTrue, RecordsAreTrue, DestIsUnlisted, Unlisted
  <2> HIDE DEF n
  <2>4. \A i \in 1 .. n + 1 : i \in 1 .. n \/ i = n + 1
    BY <2>2
  <2>5. RecordsAreTrue(written', files')
    BY <2>1, <2>2, <2>3, <2>4 DEF RecordsAreTrue
  <2>6. QED
    BY <2>1, <2>5 DEF TrueInv, ListedIsTrue, DestIsUnlisted, IsManifest
<1>10. CASE Fail /\ UNCHANGED files
  BY <1>1, <1>10 DEF Fail, End, restorer
<1>11. QED
  BY <1>1, <1>2, <1>3, <1>5, <1>6, <1>7, <1>8, <1>9, <1>10
  DEF Next, Process, Start, StartRefused, OpenDevice, CannotRestore, Choose, ChooseManifest,
      CreateFails, NextSpan, ReadFails, WriteFails, Kill, End, restorer, file, vars

\* Every step leaves the file in hand true.
LEMMA CopyStep ==
  ASSUME NewInv, TrueInv, [Next]_vars PROVE CopyIsTrue'
<1>1. CASE pc' \notin {"create", "open", "copy"}
  BY <1>1 DEF CopyIsTrue
<1>2. CASE UNCHANGED <<files, pc, todo, dest, span, done>>
  BY <1>2 DEF TrueInv, CopyIsTrue, SpansSoFar, InFile, Now, Spans, AllTaken
<1>3. CASE Choose
  BY <1>3 DEF Choose, CopyIsTrue, Now, AllTaken
<1>4. CASE ChooseManifest
  BY <1>4 DEF ChooseManifest, restorer, CopyIsTrue, AllTaken
<1>5. CASE Create
  BY <1>5 DEF Create, restorer, file, TrueInv, CopyIsTrue, Now, AllTaken
<1>6. CASE Open
  <2>1. /\ pc = "open" /\ pc' = "copy" /\ UNCHANGED <<todo, dest, span, done>>
        /\ files'[dest] = IF AllTaken THEN Manifest(<<>>) ELSE File(<<>>)
    BY <1>6, PutAdds DEF Open, restorer, file, NewInv, Types
  <2>2. CASE AllTaken
    BY <2>1, <2>2 DEF CopyIsTrue, AllTaken
  <2>3. CASE ~AllTaken
    <3>1. Restorable(Now) /\ span = 1 /\ done = 0
      BY <2>1, <2>3 DEF TrueInv, CopyIsTrue
    <3>2. todo \in 1 .. Len(Wanted) /\ Len(Wanted) \in Nat
      BY <2>3, RestoreAssumption DEF AllTaken, NewInv, Types, IsList
    <3>3. InFile' = <<>> /\ files'[dest'] = File(InFile') /\ UNCHANGED <<Now, Spans>>
      BY <2>1, <2>3 DEF InFile, File, Now, Spans
    <3>4. SpansSoFar'
      <4>1. Spans \in Seq(Span) /\ Now.size \in Nat
        BY <3>1, <3>2, SpansAreTyped, RestoreAssumption DEF Now, Spans
      <4>2. \A j \in 1 .. Len(Spans) : Spans[j].length \in Nat
        <5>1. \A j \in 1 .. Len(Spans) : Spans[j] \in Span
          BY <4>1
        <5>2. QED
          BY <5>1 DEF Span
      <4>3. BytesBefore(Spans, 1) = 0 /\ Len(Spans) \in Nat
        BY <4>1, <4>2, BytesAddUp
      <4>4. span' = 1 /\ done' = 0 /\ 1 \in 1 .. Len(Spans) + 1
        BY <2>1, <3>1, <4>3
      <4>5. <<>> \in Seq(Int) /\ Len(<<>>) = 0
        OBVIOUS
      <4>6. \A k \in 1 .. Len(<<>>) : FALSE
        BY <4>5
      <4>7. 1 <= Len(Spans) => 0 <= Spans[1].length
        BY <4>2, <4>3
      <4>8. QED
        BY <3>3, <4>1, <4>3, <4>4, <4>5, <4>6, <4>7 DEF SpansSoFar
    <3>5. QED
      BY <2>1, <2>3, <3>1, <3>3, <3>4 DEF CopyIsTrue, AllTaken, Now, Restorable
  <2>4. QED
    BY <2>2, <2>3
<1>7. ASSUME pc = "copy", ~AllTaken
      PROVE  /\ todo \in 1 .. Len(Wanted) /\ Restorable(Now) /\ dest \in DOMAIN files
             /\ files[dest] = File(InFile)
             /\ Now.location.where = "resident" => span = 1 /\ Spans = <<>>
             /\ Now.location.where # "resident" => SpansSoFar
  <2>1. todo \in 1 .. Len(Wanted)
    BY <1>7, RestoreAssumption DEF AllTaken, NewInv, Types, IsList
  <2>2. Now.location.where = "resident" => Spans = <<>>
    BY DEF Spans, SpansOf
  <2>3. QED
    BY <1>7, <2>1, <2>2 DEF TrueInv, CopyIsTrue, NewInv, DestIsNew
<1>8. CASE Copy
  <2>1. pc = "copy" /\ ~AllTaken /\ InSpan /\ UNCHANGED <<pc, todo, dest>>
    BY <1>8 DEF Copy, restorer
  <2>2. Now.location.where # "resident"
    <3>1. 1 <= Len(<<>>) => FALSE
      OBVIOUS
    <3>2. QED
      BY <1>7, <2>1, <3>1 DEF InSpan
  <2>3. SpansSoFar' /\ files'[dest] = File(InFile')
    BY <1>7, <1>8, <2>1, <2>2, BufferExtends
  <2>4. Restorable(Now)' /\ UNCHANGED <<Now, AllTaken>>
    BY <1>7, <2>1 DEF Now, AllTaken, Restorable
  <2>5. QED
    BY <2>1, <2>2, <2>3, <2>4 DEF CopyIsTrue
<1>9. CASE NextSpan
  <2>1. /\ pc = "copy" /\ ~AllTaken /\ span <= Len(Spans) /\ UNCHANGED <<files, pc, todo, dest>>
    BY <1>9 DEF NextSpan, restorer
  <2>2. Now.location.where # "resident"
    <3>1. 1 <= Len(<<>>) => FALSE
      OBVIOUS
    <3>2. QED
      BY <1>7, <2>1, <3>1
  <2>3. SpansSoFar'
    BY <1>7, <1>9, <2>1, <2>2, SpanEnds
  <2>4. Restorable(Now)' /\ UNCHANGED <<Now, AllTaken, InFile>>
    BY <1>7, <2>1 DEF Now, AllTaken, InFile, Restorable
  <2>5. QED
    BY <1>7, <2>1, <2>2, <2>3, <2>4 DEF CopyIsTrue
<1>10. CASE CopyResident
  <2> DEFINE x == SubSeq(Now.location.bytes, 1, LesserOf(Now.size, Len(Now.location.bytes)))
  <2>1. /\ pc = "copy" /\ ~AllTaken /\ Now.location.where = "resident"
        /\ UNCHANGED <<pc, todo, dest, span>>
        /\ files' = [files EXCEPT ![dest].bytes = x]
    BY <1>10 DEF CopyResident, restorer, file
  <2>2. x = Content(Now)
    BY <2>1 DEF Content
  <2> HIDE DEF x
  <2>3. files'[dest] = File(x) /\ InFile' = x
    <3>1. \A b, c : [[kind |-> "file", bytes |-> b] EXCEPT !.bytes = c] = [kind |-> "file", bytes |-> c]
      OBVIOUS
    <3>2. files[dest] = [kind |-> "file", bytes |-> InFile] /\ dest \in DOMAIN files
      BY <1>7, <2>1 DEF File
    <3>3. files'[dest] = [[kind |-> "file", bytes |-> InFile] EXCEPT !.bytes = x]
      BY <2>1, <3>2
    <3>4. files'[dest] = File(x)
      BY <3>1, <3>3 DEF File
    <3>5. QED
      BY <2>1, <3>4 DEF InFile, File
  <2>4. Restorable(Now)' /\ UNCHANGED <<Now, AllTaken, Content(Now)>>
    BY <1>7, <2>1 DEF Now, AllTaken, Restorable
  <2>5. QED
    BY <1>7, <2>1, <2>2, <2>3, <2>4 DEF CopyIsTrue
<1>11. CASE Intrude
  <2>1. PICK p \in Foreign : ~Exists(p) /\ files' = Put(p, File(<<-2>>))
    BY <1>11 DEF Intrude
  <2>2. UNCHANGED <<pc, todo, dest, span, done>>
    BY <1>11 DEF Intrude, restorer, file
  <2>3. \A q \in DOMAIN files : files'[q] = files[q]
    BY <2>1, PutAdds DEF NewInv, Types, Exists
  <2>4. pc = "copy" => files'[dest] = files[dest]
    BY <2>3 DEF NewInv, DestIsNew
  <2>5. QED
    BY <2>2, <2>4 DEF TrueInv, CopyIsTrue, SpansSoFar, InFile, Now, Spans, AllTaken
<1>12. CASE UNCHANGED vars
  BY <1>2, <1>12 DEF vars, restorer, file
<1>13. QED
  BY <1>1, <1>2, <1>3, <1>4, <1>5, <1>6, <1>8, <1>9, <1>10, <1>11, <1>12
  DEF Next, Process, Start, StartRefused, OpenDevice, CannotRestore, CreateFails, ReadFails,
      WriteFails, Finish, FinishManifest, Kill, Fail, End, restorer, file

\* Every step leaves it so that a run that reports success has listed its files.
LEMMA SuccessStep ==
  ASSUME NewInv, TrueInv, [Next]_vars PROVE SuccessIsWhole'
<1>1. CASE outcome' # "ok"
  BY <1>1 DEF SuccessIsWhole
<1>2. CASE FinishManifest
  <2>1. todo = Len(Wanted) + 1
    BY <1>2, RestoreAssumption DEF FinishManifest, AllTaken, NewInv, Types, IsList
  <2>2. dest \in DOMAIN files' /\ files'[dest] = Manifest(written)
    BY <1>2 DEF FinishManifest, NewInv, DestIsNew
  <2>3. pc' = "off" /\ UNCHANGED <<todo, written>>
    BY <1>2 DEF FinishManifest, End, restorer
  <2>4. QED
    BY <2>1, <2>2, <2>3 DEF SuccessIsWhole
<1>3. CASE UNCHANGED <<files, pc, todo, written, outcome>>
  BY <1>3 DEF TrueInv, SuccessIsWhole
<1>4. CASE pc # "off" /\ UNCHANGED outcome
  BY <1>4 DEF TrueInv, SuccessIsWhole
<1>5. CASE Intrude
  <2>1. PICK p \in Foreign : ~Exists(p) /\ files' = Put(p, File(<<-2>>))
    BY <1>5 DEF Intrude
  <2>2. UNCHANGED <<pc, todo, written, outcome>>
    BY <1>5 DEF Intrude, restorer
  <2>3. DOMAIN files \subseteq DOMAIN files' /\ \A q \in DOMAIN files : files'[q] = files[q]
    BY <2>1, PutAdds DEF NewInv, Types, Exists
  <2>4. QED
    BY <2>2, <2>3 DEF TrueInv, SuccessIsWhole
<1>6. QED
  BY <1>1, <1>2, <1>3, <1>4, <1>5
  DEF Next, Process, Start, StartRefused, OpenDevice, CannotRestore, Choose, ChooseManifest, Create,
      CreateFails, Open, Copy, CopyResident, NextSpan, ReadFails, WriteFails, Finish, Kill, Fail, End,
      restorer, vars

\* "A manifest of what was written" is true however the runs before it ended:
\* each file it lists has its content to the byte, and a success lists them all.
THEOREM ManifestsAreTrue == Spec => []ManifestIsTrue
<1>1. Init => TrueInv
  <2> SUFFICES ASSUME Init PROVE TrueInv
    OBVIOUS
  <2>1. /\ files = <<>> /\ written = <<>> /\ skipped = {} /\ todo = 1 /\ pc = "off" /\ outcome = "none"
    BY DEF Init
  <2>2. <<>> \in Seq(Int) /\ Len(<<>>) = 0 /\ DOMAIN <<>> = {}
    OBVIOUS
  <2>3. IsList(<<>>)
    BY <2>2, SeqIsList
  <2>4. ListedIsTrue
    BY <2>1, <2>2 DEF ListedIsTrue, RecordsAreTrue, IsManifest
  <2>5. Accounts
    BY <2>1, <2>2, <2>3, FS_EmptySet DEF Accounts
  <2>6. QED
    BY <2>1, <2>4, <2>5 DEF TrueInv, DestIsUnlisted, SuccessIsWhole, CopyIsTrue
<1>2. NewInv /\ TrueInv /\ [Next]_vars => TrueInv'
  BY AccountsStep, RecordsStep, CopyStep, SuccessStep DEF TrueInv
<1>3. NewInv /\ TrueInv => ManifestIsTrue
  <2> SUFFICES ASSUME NewInv, TrueInv PROVE ManifestIsTrue
    OBVIOUS
  <2>1. ASSUME NEW p \in DOMAIN files, files[p].kind = "manifest",
               NEW i \in DOMAIN files[p].records
        PROVE  LET records == files[p].records IN
               /\ \A j \in DOMAIN records : records[i].dest = records[j].dest => i = j
               /\ records[i].dest \in DOMAIN files
               /\ files[records[i].dest] = File(Content(Wanted[records[i].which]))
               /\ records[i].short <=>
                    /\ Wanted[records[i].which].location.where # "resident"
                    /\ Len(Content(Wanted[records[i].which])) < Wanted[records[i].which].size
    BY <2>1 DEF TrueInv, ListedIsTrue, RecordsAreTrue, RecordIsTrue, IsManifest
  <2>2. ASSUME outcome = "ok"
        PROVE  /\ {written[i].which : i \in DOMAIN written} \cup skipped = DOMAIN Wanted
               /\ Len(written) + Cardinality(skipped) = Len(Wanted)
               /\ \E p \in DOMAIN files : files[p] = Manifest(written)
    <3>1. DOMAIN Wanted = 1 .. Len(Wanted) /\ Len(Wanted) \in Nat
      BY RestoreAssumption DEF IsList
    <3>2. todo = Len(Wanted) + 1 /\ \E p \in DOMAIN files : files[p] = Manifest(written)
      BY <2>2 DEF TrueInv, SuccessIsWhole
    <3>3. QED
      BY <3>1, <3>2 DEF TrueInv, Accounts
  <2>3. QED
    BY <2>1, <2>2 DEF ManifestIsTrue
<1>4. QED
  BY <1>1, <1>2, <1>3, NewInvKept, PTL DEF Spec
=============================================================================
