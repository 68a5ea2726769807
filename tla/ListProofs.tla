----------------------------- MODULE ListProofs -----------------------------
(***************************************************************************)
(* Lemmas about Lists: a strict order of a finite set lists it, each       *)
(* element in a place of its own, and sorting changes only the order.  And *)
(* about numbers, folds and finite sets, which the proofs share.           *)
(***************************************************************************)
EXTENDS Lists, FiniteSetTheorems, SequenceTheorems, TLAPS

StrictOrder(order, S) ==
  /\ \A i \in S : <<i, i>> \notin order
  /\ \A i, j \in S : i # j => <<i, j>> \in order \/ <<j, i>> \in order
  /\ \A i, j, k \in S : <<i, j>> \in order /\ <<j, k>> \in order => <<i, k>> \in order

Earlier(i, S, order) == {j \in S : <<j, i>> \in order}

\* In a strict order a finite set has its elements in places of their own.
LEMMA EachPlaceIsTaken ==
  ASSUME NEW S, IsFiniteSet(S), NEW order, StrictOrder(order, S), NEW k \in 1 .. Cardinality(S)
  PROVE  \E i \in S : Cardinality(Earlier(i, S, order)) = k - 1
<1> DEFINE n == Cardinality(S)
           Place(i) == Cardinality(Earlier(i, S, order))
           place == [i \in S |-> Place(i)]
<1>1. n \in Nat
  BY FS_CardinalityType
<1>2. \A i \in S : IsFiniteSet(Earlier(i, S, order)) /\ Place(i) \in 0 .. n - 1
  <2> TAKE i \in S
  <2>1. Earlier(i, S, order) \subseteq S \ {i}
    BY DEF Earlier, StrictOrder
  <2>2. IsFiniteSet(S \ {i}) /\ Cardinality(S \ {i}) = n - 1
    BY FS_RemoveElement
  <2>3. /\ IsFiniteSet(Earlier(i, S, order)) /\ Place(i) <= n - 1 /\ Place(i) \in Nat
    BY <2>1, <2>2, FS_Subset, FS_CardinalityType
  <2>4. QED
    BY <1>1, <2>3
<1>3. \A i, j \in S : <<i, j>> \in order => Place(i) < Place(j)
  <2> TAKE i \in S, j \in S
  <2> HAVE <<i, j>> \in order
  <2>1. Earlier(i, S, order) \cup {i} \subseteq Earlier(j, S, order)
    BY DEF Earlier, StrictOrder
  <2>2. i \notin Earlier(i, S, order)
    BY DEF Earlier, StrictOrder
  <2>3. Cardinality(Earlier(i, S, order) \cup {i}) = Place(i) + 1
    BY <1>2, <2>2, FS_AddElement
  <2>4. Cardinality(Earlier(i, S, order) \cup {i}) <= Place(j)
    BY <1>2, <2>1, FS_Subset
  <2>5. Place(i) \in Int /\ Place(j) \in Int
    BY <1>2
  <2> HIDE DEF Place
  <2>6. QED
    BY <2>3, <2>4, <2>5
<1>4. place \in Injection(S, 0 .. n - 1)
  <2>1. place \in [S -> 0 .. n - 1]
    BY <1>2
  <2>2. ASSUME NEW i \in S, NEW j \in S, place[i] = place[j], i # j PROVE FALSE
    <3>1. <<i, j>> \in order \/ <<j, i>> \in order
      BY <2>2 DEF StrictOrder
    <3>2. Place(i) < Place(j) \/ Place(j) < Place(i)
      BY <1>3, <3>1
    <3>3. Place(i) = Place(j) /\ Place(i) \in Int
      BY <1>2, <2>2
    <3> HIDE DEF Place
    <3>4. QED
      BY <3>2, <3>3
  <2>3. QED
    BY <2>1, <2>2 DEF Injection, IsInjective
<1>5. IsFiniteSet(0 .. n - 1) /\ Cardinality(0 .. n - 1) = n
  <2>1. 0 \in Int /\ n - 1 \in Int
    BY <1>1
  <2>2. IsFiniteSet(0 .. n - 1) /\ Cardinality(0 .. n - 1) = IF 0 > n - 1 THEN 0 ELSE n - 1 - 0 + 1
    BY <2>1, FS_Interval
  <2>3. QED
    BY <1>1, <2>2
<1>6. place \in Surjection(S, 0 .. n - 1)
  BY <1>4, <1>5, FS_Injection
<1>7. k - 1 \in 0 .. n - 1
  BY <1>1
<1>8. \E i \in S : place[i] = k - 1
  BY <1>6, <1>7 DEF Surjection
<1>9. QED
  BY <1>8

\* The list has every element of the set in a place of its own.
LEMMA ListInOrder ==
  ASSUME NEW S, IsFiniteSet(S), NEW order, StrictOrder(order, S)
  PROVE  /\ InOrder(S, order) \in Seq(S) /\ Len(InOrder(S, order)) = Cardinality(S)
         /\ \A k \in 1 .. Cardinality(S) :
              Cardinality(Earlier(InOrder(S, order)[k], S, order)) = k - 1
         /\ \A k, l \in 1 .. Cardinality(S) :
              InOrder(S, order)[k] = InOrder(S, order)[l] => k = l
<1> DEFINE n == Cardinality(S)
           q == InOrder(S, order)
<1>1. n \in Nat
  BY FS_CardinalityType
<1>2. \A k \in 1 .. n : q[k] \in S /\ Cardinality(Earlier(q[k], S, order)) = k - 1
  <2> TAKE k \in 1 .. n
  <2>1. \E i \in S : Cardinality(Earlier(i, S, order)) = k - 1
    BY EachPlaceIsTaken
  <2>2. q[k] = CHOOSE i \in S : Cardinality(Earlier(i, S, order)) = k - 1
    BY DEF InOrder, Earlier
  <2>3. QED
    BY <2>1, <2>2
<1>3. q \in [1 .. n -> S] /\ q \in Seq(S) /\ Len(q) = n
  <2> DEFINE at(k) == CHOOSE i \in S : Cardinality(Earlier(i, S, order)) = k - 1
  <2>a. q = [k \in 1 .. n |-> at(k)]
    BY DEF InOrder, Earlier
  <2> HIDE DEF at
  <2>1. q = [k \in 1 .. n |-> q[k]]
    BY <2>a
  <2>2. q \in [1 .. n -> S]
    BY <1>2, <2>1
  <2> HIDE DEF q, n
  <2>3. QED
    BY <1>1, <2>2
<1>4. \A k, l \in 1 .. n : q[k] = q[l] => k = l
  <2> SUFFICES ASSUME NEW k \in 1 .. n, NEW l \in 1 .. n, q[k] = q[l] PROVE k = l
    OBVIOUS
  <2>1. k - 1 = l - 1
    BY <1>2
  <2>2. QED
    BY <1>1, <2>1
<1>5. QED
  BY <1>2, <1>3, <1>4

\* A list in order has every element, and what it has first comes first.
LEMMA ListAscends ==
  ASSUME NEW S, IsFiniteSet(S), NEW order, StrictOrder(order, S)
  PROVE  /\ \A i \in S : \E k \in 1 .. Cardinality(S) : InOrder(S, order)[k] = i
         /\ \A k, l \in 1 .. Cardinality(S) :
              k < l => <<InOrder(S, order)[k], InOrder(S, order)[l]>> \in order
<1> DEFINE n == Cardinality(S)
           q == InOrder(S, order)
<1>1. /\ q \in Seq(S) /\ Len(q) = n /\ n \in Nat
      /\ \A k \in 1 .. n : Cardinality(Earlier(q[k], S, order)) = k - 1
      /\ \A k, l \in 1 .. n : q[k] = q[l] => k = l
  BY ListInOrder, FS_CardinalityType
<1> HIDE DEF q
<1>2. q \in Injection(1 .. n, S)
  <2>1. q \in [1 .. n -> S]
    BY <1>1
  <2>2. QED
    BY <1>1, <2>1 DEF Injection, IsInjective
<1>3. q \in Surjection(1 .. n, S)
  <2>1. Cardinality(1 .. n) = n
    BY <1>1, FS_Interval
  <2> HIDE DEF n
  <2>2. QED
    BY <1>2, <2>1, FS_Injection DEF n
<1>4. ASSUME NEW k \in 1 .. n, NEW l \in 1 .. n, k < l PROVE <<q[k], q[l]>> \in order
  <2>1. q[k] \in S /\ q[l] \in S /\ q[k] # q[l]
    <3>1. k # l
      BY <1>4
    <3>2. QED
      BY <1>1, <3>1
  <2>2. SUFFICES ASSUME <<q[l], q[k]>> \in order PROVE FALSE
    BY <2>1 DEF StrictOrder
  <2>3. Earlier(q[l], S, order) \subseteq Earlier(q[k], S, order)
    BY <2>1, <2>2 DEF Earlier, StrictOrder
  <2>4. IsFiniteSet(Earlier(q[k], S, order))
    <3>1. Earlier(q[k], S, order) \subseteq S
      BY DEF Earlier
    <3>2. QED
      BY <3>1, FS_Subset
  <2>5. Cardinality(Earlier(q[l], S, order)) <= Cardinality(Earlier(q[k], S, order))
    BY <2>3, <2>4, FS_Subset
  <2>6. l - 1 <= k - 1
    BY <1>1, <2>5
  <2>7. QED
    BY <1>4, <2>6
<1>5. QED
  BY <1>3, <1>4 DEF Surjection, q

\* The list of 1 .. n in ascending order is its places.
LEMMA AscendingPlaces ==
  ASSUME NEW n \in Nat, NEW k \in 1 .. n
  PROVE  InOrder(1 .. n, Ascending(1 .. n))[k] = k
<1> DEFINE S == 1 .. n
           order == Ascending(S)
<1>1. IsFiniteSet(S) /\ Cardinality(S) = n
  BY FS_Interval
<1>2. StrictOrder(order, S)
  BY DEF StrictOrder, Ascending
<1>3. \A i \in S : Cardinality(Earlier(i, S, order)) = i - 1
  <2> TAKE i \in S
  <2>1. Earlier(i, S, order) = 1 .. i - 1
    BY DEF Earlier, Ascending
  <2>2. Cardinality(1 .. i - 1) = i - 1
    <3>1. 1 \in Int /\ i - 1 \in Int /\ i >= 1
      OBVIOUS
    <3>2. Cardinality(1 .. i - 1) = IF 1 > i - 1 THEN 0 ELSE i - 1 - 1 + 1
      BY <3>1, FS_Interval
    <3>3. QED
      BY <3>1, <3>2
  <2>3. QED
    BY <2>1, <2>2
<1>4. /\ InOrder(S, order) \in Seq(S) /\ Len(InOrder(S, order)) = n
      /\ Cardinality(Earlier(InOrder(S, order)[k], S, order)) = k - 1
  BY <1>1, <1>2, ListInOrder
<1>5. InOrder(S, order)[k] \in S
  BY <1>4
<1>6. InOrder(S, order)[k] - 1 = k - 1
  BY <1>3, <1>4, <1>5
<1>7. QED
  BY <1>5, <1>6

\* A set of numbers is in strict order.
LEMMA AscendingIsStrict ==
  ASSUME NEW S \in SUBSET Int PROVE StrictOrder(Ascending(S), S)
BY DEF StrictOrder, Ascending

\* A finite set of numbers that is not empty has a least one.
LEMMA LeastExists ==
  ASSUME NEW S \in SUBSET Int, IsFiniteSet(S), S # {}
  PROVE  \E i \in S : \A j \in S : i <= j
<1>1. Cardinality(S) \in Nat /\ Cardinality(S) # 0
  BY FS_CardinalityType, FS_EmptySet
<1>2. PICK i \in S : Cardinality(Earlier(i, S, Ascending(S))) = 1 - 1
  <2>1. 1 \in 1 .. Cardinality(S)
    BY <1>1
  <2>2. QED
    BY <2>1, EachPlaceIsTaken, AscendingIsStrict
<1>3. Earlier(i, S, Ascending(S)) = {}
  <2>1. Earlier(i, S, Ascending(S)) \subseteq S
    BY DEF Earlier
  <2>2. IsFiniteSet(Earlier(i, S, Ascending(S)))
    BY <2>1, FS_Subset
  <2>3. QED
    BY <1>2, <2>2, FS_EmptySet
<1>4. \A j \in S : ~(j < i)
  BY <1>3 DEF Earlier, Ascending
<1>5. QED
  BY <1>4

\* And a greatest one.
LEMMA GreatestExists ==
  ASSUME NEW S \in SUBSET Int, IsFiniteSet(S), S # {}
  PROVE  \E i \in S : \A j \in S : i >= j
<1> DEFINE order == {p \in S \X S : p[1] > p[2]}
<1>1. Cardinality(S) \in Nat /\ Cardinality(S) # 0
  BY FS_CardinalityType, FS_EmptySet
<1>2. StrictOrder(order, S)
  <2>1. \A i, j \in S : <<i, j>> \in order <=> i > j
    OBVIOUS
  <2> HIDE DEF order
  <2>2. QED
    BY <2>1 DEF StrictOrder
<1>3. PICK i \in S : Cardinality(Earlier(i, S, order)) = 1 - 1
  <2>1. 1 \in 1 .. Cardinality(S)
    BY <1>1
  <2> HIDE DEF order
  <2>2. QED
    BY <1>2, <2>1, EachPlaceIsTaken
<1>4. Earlier(i, S, order) = {}
  <2>1. Earlier(i, S, order) \subseteq S
    BY DEF Earlier
  <2>2. IsFiniteSet(Earlier(i, S, order))
    BY <2>1, FS_Subset
  <2> HIDE DEF order
  <2>3. Cardinality(Earlier(i, S, order)) = 0
    BY <1>3
  <2>4. QED
    BY <2>2, <2>3, FS_EmptySet
<1>5. \A j \in S : ~(j > i)
  BY <1>4 DEF Earlier
<1>6. QED
  BY <1>5

\* Part of a list is a list of what it has at those places.
LEMMA PartIsList ==
  ASSUME NEW T, NEW list \in Seq(T), NEW S \in SUBSET DOMAIN list
  PROVE  /\ PartOf(list, S) \in Seq(T) /\ Len(PartOf(list, S)) = Cardinality(S)
         /\ IsFiniteSet(S)
         /\ \A k \in 1 .. Cardinality(S) : \E i \in S : PartOf(list, S)[k] = list[i]
<1> DEFINE order == InOrder(S, Ascending(S))
<1>1. DOMAIN list = 1 .. Len(list) /\ Len(list) \in Nat
  OBVIOUS
<1>2. IsFiniteSet(S)
  <2>1. IsFiniteSet(1 .. Len(list))
    BY <1>1, FS_Interval
  <2>2. QED
    BY <1>1, <2>1, FS_Subset
<1>3. S \in SUBSET Int
  BY <1>1
<1>4. order \in Seq(S) /\ Len(order) = Cardinality(S) /\ Cardinality(S) \in Nat
  BY <1>2, <1>3, AscendingIsStrict, ListInOrder, FS_CardinalityType
<1> HIDE DEF order
<1>5. \A k \in 1 .. Cardinality(S) : order[k] \in S /\ list[order[k]] \in T
  BY <1>1, <1>4
<1>6. PartOf(list, S) = [k \in 1 .. Cardinality(S) |-> list[order[k]]]
  BY DEF PartOf, order
<1>7. PartOf(list, S) \in Seq(T) /\ Len(PartOf(list, S)) = Cardinality(S)
  <2> DEFINE q == PartOf(list, S)
             n == Cardinality(S)
  <2>1. q \in [1 .. n -> T]
    BY <1>5, <1>6
  <2> HIDE DEF q, n
  <2>2. q \in Seq(T) /\ Len(q) = n
    BY <1>4, <2>1 DEF n
  <2>3. QED
    BY <2>2 DEF q, n
<1>8. \A k \in 1 .. Cardinality(S) : PartOf(list, S)[k] = list[order[k]]
  BY <1>6
<1>9. QED
  BY <1>2, <1>5, <1>7, <1>8

-----------------------------------------------------------------------------
(* Sorting.                                                                *)

\* What comes no later by its key.
NoLater(a, b) == a[1] < b[1] \/ (a[1] = b[1] /\ a[2] <= b[2])

\* By the first of three numbers, then the second, then the third.
ComesBefore(a, p, i, b, q, j) == a < b \/ (a = b /\ (p < q \/ (p = q /\ i < j)))

\* Such a comparison is transitive.
LEMMA ComingBeforeIsTransitive ==
  ASSUME NEW a \in Int, NEW b \in Int, NEW c \in Int, NEW p \in Int, NEW q \in Int, NEW r \in Int,
         NEW i \in Int, NEW j \in Int, NEW k \in Int,
         ComesBefore(a, p, i, b, q, j), ComesBefore(b, q, j, c, r, k)
  PROVE  ComesBefore(a, p, i, c, r, k)
BY DEF ComesBefore

\* The places of a list of keys in the order of their keys.
LEMMA KeysAreInOrder ==
  ASSUME NEW n \in Nat, NEW key \in [1 .. n -> Int \X Int]
  PROVE  StrictOrder(ByKey(key), 1 .. n)
<1> DEFINE first == [i \in 1 .. n |-> key[i][1]]
           second == [i \in 1 .. n |-> key[i][2]]
           Less(i, j) == ComesBefore(first[i], second[i], i, first[j], second[j], j)
<1>1. first \in [1 .. n -> Int] /\ second \in [1 .. n -> Int]
  OBVIOUS
<1>2. \A i, j \in 1 .. n : <<i, j>> \in ByKey(key) <=> Less(i, j)
  BY DEF ByKey, ComesBefore
<1> HIDE DEF first, second
<1>3. \A i \in 1 .. n : ~Less(i, i)
  BY <1>1 DEF ComesBefore
<1>4. \A i, j \in 1 .. n : i # j => Less(i, j) \/ Less(j, i)
  BY <1>1 DEF ComesBefore
<1>5. \A i, j, k \in 1 .. n : Less(i, j) /\ Less(j, k) => Less(i, k)
  <2> SUFFICES ASSUME NEW i \in 1 .. n, NEW j \in 1 .. n, NEW k \in 1 .. n
               PROVE  Less(i, j) /\ Less(j, k) => Less(i, k)
    OBVIOUS
  <2>1. /\ first[i] \in Int /\ first[j] \in Int /\ first[k] \in Int
        /\ second[i] \in Int /\ second[j] \in Int /\ second[k] \in Int
        /\ i \in Int /\ j \in Int /\ k \in Int
    BY <1>1
  <2>2. QED
    BY <2>1, ComingBeforeIsTransitive
<1> HIDE DEF Less
<1>6. QED
  BY <1>2, <1>3, <1>4, <1>5 DEF StrictOrder

\* at says which place of list each place of the sorted list comes from.
Sorts(at, list, key) ==
  /\ \A k \in DOMAIN list : SortedBy(list, key)[k] = list[at[k]]
  /\ \A i \in DOMAIN list : \E k \in DOMAIN list : at[k] = i
  /\ \A k, l \in DOMAIN list : k < l => at[k] # at[l] /\ NoLater(key[at[k]], key[at[l]])

\* A sorted list has what the list has, each as often, in the order of the keys.
LEMMA SortedIsList ==
  ASSUME NEW T, NEW list \in Seq(T), NEW key \in [DOMAIN list -> Int \X Int]
  PROVE  /\ SortedBy(list, key) \in Seq(T) /\ Len(SortedBy(list, key)) = Len(list)
         /\ \E at \in [DOMAIN list -> DOMAIN list] : Sorts(at, list, key)
<1> DEFINE n == Len(list)
           at == InOrder(1 .. n, ByKey(key))
           s == SortedBy(list, key)
<1>1. n \in Nat /\ DOMAIN list = 1 .. n /\ key \in [1 .. n -> Int \X Int] /\ DOMAIN key = 1 .. n
  OBVIOUS
<1>2. StrictOrder(ByKey(key), 1 .. n)
  <2> HIDE DEF n
  <2>1. QED
    BY <1>1, KeysAreInOrder
<1>3. IsFiniteSet(1 .. n) /\ Cardinality(1 .. n) = n
  <2> HIDE DEF n
  <2>1. QED
    BY <1>1, FS_Interval
<1>4. /\ at \in Seq(1 .. n) /\ Len(at) = n
      /\ \A k, l \in 1 .. n : at[k] = at[l] => k = l
      /\ \A i \in 1 .. n : \E k \in 1 .. n : at[k] = i
      /\ \A k, l \in 1 .. n : k < l => <<at[k], at[l]>> \in ByKey(key)
  <2> DEFINE S == 1 .. n
             order == ByKey(key)
  <2> HIDE DEF n, S, order
  <2>1. IsFiniteSet(S) /\ Cardinality(S) = n /\ StrictOrder(order, S)
    BY <1>2, <1>3 DEF S, order
  <2>2. /\ InOrder(S, order) \in Seq(S) /\ Len(InOrder(S, order)) = n
        /\ \A k, l \in 1 .. n : InOrder(S, order)[k] = InOrder(S, order)[l] => k = l
    BY <2>1, ListInOrder
  <2>3. /\ \A i \in S : \E k \in 1 .. n : InOrder(S, order)[k] = i
        /\ \A k, l \in 1 .. n : k < l => <<InOrder(S, order)[k], InOrder(S, order)[l]>> \in order
    BY <2>1, ListAscends
  <2>4. QED
    BY <2>2, <2>3 DEF S, order
<1>5. s = [k \in 1 .. n |-> list[at[k]]]
  BY <1>1 DEF SortedBy
<1> HIDE DEF at, s, n
<1>6. at \in [1 .. n -> 1 .. n]
  BY <1>4
<1>7. s \in [1 .. n -> T]
  <2>1. \A k \in 1 .. n : list[at[k]] \in T
    BY <1>1, <1>6
  <2>2. QED
    BY <1>5, <2>1
<1>8. s \in Seq(T) /\ Len(s) = n
  BY <1>1, <1>7
<1>9. \A k, l \in 1 .. n : k < l => at[k] # at[l] /\ NoLater(key[at[k]], key[at[l]])
  <2> SUFFICES ASSUME NEW k \in 1 .. n, NEW l \in 1 .. n, k < l
               PROVE  at[k] # at[l] /\ NoLater(key[at[k]], key[at[l]])
    OBVIOUS
  <2>1. at[k] # at[l]
    BY <1>4
  <2>2. <<at[k], at[l]>> \in ByKey(key)
    BY <1>4
  <2>3. QED
    BY <2>1, <2>2 DEF ByKey, NoLater
<1>10. Sorts(at, list, key)
  BY <1>1, <1>4, <1>5, <1>9 DEF Sorts, s, n
<1>11. QED
  BY <1>1, <1>6, <1>8, <1>10 DEF s, n

\* Part of a list whose elements at those places are in U.
LEMMA PartIsIn ==
  ASSUME NEW T, NEW list \in Seq(T), NEW S \in SUBSET DOMAIN list, NEW U, \A i \in S : list[i] \in U
  PROVE  PartOf(list, S) \in Seq(U)
<1>1. /\ PartOf(list, S) \in Seq(T) /\ Len(PartOf(list, S)) = Cardinality(S)
      /\ \A k \in 1 .. Cardinality(S) : \E i \in S : PartOf(list, S)[k] = list[i]
  BY PartIsList
<1> DEFINE q == PartOf(list, S)
<1> HIDE DEF q
<1>2. \A k \in 1 .. Len(q) : q[k] \in U
  BY <1>1 DEF q
<1>3. q \in Seq(T)
  BY <1>1 DEF q
<1>4. q \in [1 .. Len(q) -> U] /\ Len(q) \in Nat
  BY <1>2, <1>3
<1>5. q \in Seq(U)
  BY <1>4
<1>6. QED
  BY <1>5 DEF q

-----------------------------------------------------------------------------
(* Counting, and folds.                                                    *)

\* A set of numbers that has 0 and what follows each of its numbers below n
\* has all up to n.
LEMMA CountingUp ==
  ASSUME NEW n \in Nat, NEW S, 0 \in S, \A k \in 0 .. n - 1 : k \in S => k + 1 \in S
  PROVE  0 .. n \subseteq S
<1> DEFINE missing == {k \in 0 .. n : k \notin S}
<1> SUFFICES ASSUME missing # {} PROVE FALSE
  OBVIOUS
<1>1. IsFiniteSet(missing)
  <2>1. IsFiniteSet(0 .. n)
    BY FS_Interval
  <2>2. QED
    BY <2>1, FS_Subset
<1>2. PICK k \in missing : \A j \in missing : k <= j
  <2>1. missing \in SUBSET Int
    OBVIOUS
  <2> HIDE DEF missing
  <2>2. QED
    BY <1>1, <2>1, LeastExists
<1>3. k # 0 /\ k - 1 \in 0 .. n - 1 /\ k - 1 + 1 = k
  OBVIOUS
<1>4. k - 1 \in S
  BY <1>2, <1>3
<1>5. QED
  BY <1>3, <1>4

\* A way to pick an element of every part of a set that is not empty.
IsPick(pick, S) == \A T \in SUBSET S : T # {} => pick[T] \in T

\* What holds of the empty set, and of a set when it holds of it without the
\* element picked, holds of every finite set.
LEMMA PickedApart ==
  ASSUME NEW S, IsFiniteSet(S), NEW pick, IsPick(pick, S), NEW P, {} \in P,
         \A T \in SUBSET S : T # {} /\ T \ {pick[T]} \in P => T \in P
  PROVE  S \in P
<1> DEFINE n == Cardinality(S)
           Sized(k) == {T \in SUBSET S : Cardinality(T) = k}
           small == {k \in 0 .. n : Sized(k) \subseteq P}
<1>1. n \in Nat
  BY FS_CardinalityType
<1>2. \A T \in SUBSET S : IsFiniteSet(T) /\ Cardinality(T) \in Nat
  BY FS_Subset, FS_CardinalityType
<1>3. 0 \in small
  <2>1. ASSUME NEW T \in SUBSET S, Cardinality(T) = 0 PROVE T \in P
    <3>1. T = {}
      BY <1>2, <2>1, FS_EmptySet
    <3>2. QED
      BY <3>1
  <2>2. QED
    BY <1>1, <2>1
<1>4. ASSUME NEW k \in 0 .. n - 1, k \in small PROVE k + 1 \in small
  <2>1. ASSUME NEW T \in SUBSET S, Cardinality(T) = k + 1 PROVE T \in P
    <3>1. T # {}
      <4>1. Cardinality(T) # 0
        BY <2>1
      <4>2. QED
        BY <4>1, FS_EmptySet
    <3>2. pick[T] \in T
      BY <3>1 DEF IsPick
    <3>3. Cardinality(T \ {pick[T]}) = k
      <4>1. IsFiniteSet(T)
        BY <1>2
      <4>2. Cardinality(T \ {pick[T]}) = Cardinality(T) - 1
        BY <3>2, <4>1, FS_RemoveElement
      <4>3. QED
        BY <2>1, <4>2
    <3>4. T \ {pick[T]} \in P
      BY <1>4, <3>3
    <3>5. QED
      BY <3>1, <3>4
  <2>2. k + 1 \in 0 .. n
    BY <1>1
  <2>3. QED
    BY <2>1, <2>2
<1>5. n \in small
  <2>1. 0 .. n \subseteq small
    <3> HIDE DEF small, n
    <3>1. QED
      BY <1>1, <1>3, <1>4, CountingUp
  <2>2. QED
    BY <1>1, <2>1
<1>6. QED
  BY <1>5

\* A fold that takes the elements of a set one at a time, as a function of the
\* set's parts: next is what the element picked makes of the rest.
IsFold(f, S, base, next, pick) ==
  \A T \in SUBSET S : f[T] = IF T = {} THEN base ELSE next[<<pick[T], f[T \ {pick[T]}]>>]

\* There is one.
LEMMA FoldExists ==
  ASSUME NEW S, IsFiniteSet(S), NEW A, NEW base \in A, NEW next \in [S \X A -> A],
         NEW pick, IsPick(pick, S)
  PROVE  \E f \in [SUBSET S -> A] : IsFold(f, S, base, next, pick)
<1> DEFINE n == Cardinality(S)
           Value(f, T) == IF T = {} THEN base ELSE next[<<pick[T], f[T \ {pick[T]}]>>]
           Right(f, k) == \A T \in SUBSET S : Cardinality(T) <= k => f[T] = Value(f, T)
           reached == {k \in 0 .. n : \E f \in [SUBSET S -> A] : Right(f, k)}
<1>1. n \in Nat
  BY FS_CardinalityType
<1>2. \A T \in SUBSET S : /\ IsFiniteSet(T) /\ Cardinality(T) \in Nat /\ Cardinality(T) <= n
                          /\ T # {} => /\ pick[T] \in T /\ T \ {pick[T]} \in SUBSET S
                                       /\ Cardinality(T \ {pick[T]}) = Cardinality(T) - 1
  BY FS_Subset, FS_CardinalityType, FS_RemoveElement DEF IsPick
<1>3. \A f \in [SUBSET S -> A] : \A T \in SUBSET S : Value(f, T) \in A
  <2> SUFFICES ASSUME NEW f \in [SUBSET S -> A], NEW T \in SUBSET S PROVE Value(f, T) \in A
    OBVIOUS
  <2>1. CASE T = {}
    BY <2>1
  <2>2. CASE T # {}
    <3>1. pick[T] \in S /\ f[T \ {pick[T]}] \in A
      BY <2>2 DEF IsPick
    <3>2. next[<<pick[T], f[T \ {pick[T]}]>>] \in A
      BY <3>1
    <3>3. QED
      BY <2>2, <3>2
  <2>3. QED
    BY <2>1, <2>2
<1>4. 0 \in reached
  <2> DEFINE f == [T \in SUBSET S |-> base]
  <2>1. f \in [SUBSET S -> A]
    OBVIOUS
  <2>2. Right(f, 0)
    <3> SUFFICES ASSUME NEW T \in SUBSET S, Cardinality(T) <= 0 PROVE f[T] = Value(f, T)
      OBVIOUS
    <3>1. IsFiniteSet(T) /\ Cardinality(T) \in Nat
      BY <1>2
    <3>2. T = {}
      BY <3>1, FS_EmptySet
    <3>3. QED
      BY <3>2
  <2> HIDE DEF Right, f, n
  <2>3. QED
    BY <1>1, <2>1, <2>2
<1>5. ASSUME NEW k \in 0 .. n - 1, k \in reached PROVE k + 1 \in reached
  <2>1. PICK f \in [SUBSET S -> A] : Right(f, k)
    BY <1>5
  <2> DEFINE g == [T \in SUBSET S |-> IF Cardinality(T) = k + 1 THEN Value(f, T) ELSE f[T]]
  <2>2. g \in [SUBSET S -> A]
    BY <1>3
  <2>3. \A T \in SUBSET S : Cardinality(T) <= k + 1 => Value(g, T) = Value(f, T)
    <3> TAKE T \in SUBSET S
    <3> HAVE Cardinality(T) <= k + 1
    <3>1. CASE T = {}
      BY <3>1
    <3>2. CASE T # {}
      <4>1. /\ T \ {pick[T]} \in SUBSET S
            /\ Cardinality(T \ {pick[T]}) = Cardinality(T) - 1 /\ Cardinality(T) \in Nat
        BY <1>2, <3>2
      <4>2. Cardinality(T \ {pick[T]}) # k + 1
        BY <4>1
      <4>3. g[T \ {pick[T]}] = f[T \ {pick[T]}]
        BY <4>1, <4>2
      <4>4. QED
        BY <3>2, <4>3
    <3>3. QED
      BY <3>1, <3>2
  <2>4. Right(g, k + 1)
    <3> SUFFICES ASSUME NEW T \in SUBSET S, Cardinality(T) <= k + 1 PROVE g[T] = Value(g, T)
      OBVIOUS
    <3>1. Value(g, T) = Value(f, T)
      BY <2>3
    <3>2. CASE Cardinality(T) = k + 1
      BY <3>1, <3>2
    <3>3. CASE Cardinality(T) # k + 1
      <4>1. Cardinality(T) <= k
        <5>1. Cardinality(T) \in Nat
          BY <1>2
        <5>2. QED
          BY <3>3, <5>1
      <4>2. f[T] = Value(f, T)
        BY <2>1, <4>1
      <4>3. QED
        BY <3>1, <3>3, <4>2
    <3>4. QED
      BY <3>2, <3>3
  <2>5. k + 1 \in 0 .. n
    BY <1>1
  <2> HIDE DEF g, Right
  <2>6. QED
    BY <2>2, <2>4, <2>5
<1>6. n \in reached
  <2>1. 0 .. n \subseteq reached
    <3> HIDE DEF reached, n
    <3>1. QED
      BY <1>1, <1>4, <1>5, CountingUp
  <2> HIDE DEF reached, n
  <2>2. QED
    BY <1>1, <2>1
<1>7. PICK f \in [SUBSET S -> A] : Right(f, n)
  BY <1>6
<1>8. \A T \in SUBSET S : f[T] = Value(f, T)
  BY <1>2, <1>7
<1>9. QED
  BY <1>8 DEF IsFold

Greatest(S) == CHOOSE x \in S : \A y \in S : x >= y

\* The greatest of 1 .. k is k.
LEMMA LastPlace ==
  ASSUME NEW k \in Nat, k # 0
  PROVE  Greatest(1 .. k) = k
<1>1. k \in 1 .. k /\ \A y \in 1 .. k : k >= y
  OBVIOUS
<1>2. \A x \in 1 .. k : (\A y \in 1 .. k : x >= y) => x = k
  OBVIOUS
<1>3. QED
  BY <1>1, <1>2 DEF Greatest

\* Places that are not none have a greatest.
LEMMA GreatestIsOne ==
  ASSUME NEW n \in Nat, NEW T \in SUBSET (1 .. n), T # {}
  PROVE  Greatest(T) \in T
<1>1. T \in SUBSET Int
  OBVIOUS
<1>2. IsFiniteSet(1 .. n)
  BY FS_Interval
<1>3. IsFiniteSet(T)
  BY <1>2, FS_Subset
<1>4. QED
  BY <1>1, <1>3, GreatestExists DEF Greatest

\* The same along a list, from its first place to its last.
IsFoldAlong(f, n, base, next) ==
  \A T \in SUBSET (1 .. n) :
    f[T] = IF T = {} THEN base ELSE next[<<Greatest(T), f[T \ {Greatest(T)}]>>]

LEMMA FoldAlongExists ==
  ASSUME NEW n \in Nat, NEW A, NEW base \in A, NEW next \in [(1 .. n) \X A -> A]
  PROVE  \E f \in [SUBSET (1 .. n) -> A] : IsFoldAlong(f, n, base, next)
<1> DEFINE S == 1 .. n
           pick == [T \in SUBSET S |-> Greatest(T)]
<1>1. IsFiniteSet(S)
  BY FS_Interval
<1>2. IsPick(pick, S)
  <2> SUFFICES ASSUME NEW T \in SUBSET S, T # {} PROVE Greatest(T) \in T
    BY DEF IsPick
  <2>1. QED
    BY GreatestIsOne
<1>3. PICK f \in [SUBSET S -> A] : IsFold(f, S, base, next, pick)
  <2>1. base \in A /\ next \in [S \X A -> A]
    OBVIOUS
  <2> HIDE DEF S, pick
  <2>2. QED
    BY <1>1, <1>2, <2>1, FoldExists
<1>4. QED
  BY <1>3 DEF IsFold, IsFoldAlong

-----------------------------------------------------------------------------
(* Arithmetic.                                                             *)

\* A product grows with its factor, and only with it.
LEMMA Times ==
  ASSUME NEW c \in Nat, NEW i \in Int, NEW j \in Int, i <= j
  PROVE  c * i <= c * j
OBVIOUS

LEMMA TimesLess ==
  ASSUME NEW c \in Nat, NEW i \in Int, NEW j \in Int, c * i < c * j
  PROVE  i < j
BY Times

\* Of a byte, the cluster and the byte in it.
LEMMA DivIs ==
  ASSUME NEW c \in Nat \ {0}, NEW q \in Nat, NEW x \in 0 .. c - 1
  PROVE  (c * q + x) \div c = q /\ (c * q + x) % c = x
OBVIOUS

LEMMA DivSplits ==
  ASSUME NEW c \in Nat \ {0}, NEW x \in Nat
  PROVE  /\ x \div c \in Nat /\ x % c \in 0 .. c - 1
         /\ x = c * (x \div c) + (x % c)
<1>1. x \div c \in Nat /\ x % c \in Nat
  OBVIOUS
<1>2. (x \div c) * c <= x /\ x < (x \div c) * c + c /\ x - (x % c) = (x \div c) * c
  OBVIOUS
<1> DEFINE q == x \div c
           r == x % c
<1> HIDE DEF q, r
<1>3. q * c = c * q /\ q * c \in Nat
  BY <1>1 DEF q, r
<1>4. r \in 0 .. c - 1 /\ x = q * c + r
  <2>1. PICK p \in Nat : p = q * c
    BY <1>3
  <2>2. r \in Nat /\ p <= x /\ x < p + c /\ x - r = p
    BY <1>1, <1>2, <2>1 DEF q, r
  <2>3. r \in 0 .. c - 1 /\ x = p + r
    BY <2>2
  <2>4. QED
    BY <2>1, <2>3
<1>5. q \in Nat
  BY <1>1 DEF q
<1>6. x = c * q + r
  BY <1>3, <1>4
<1>7. QED
  BY <1>4, <1>5, <1>6, Zenon DEF q, r

\* A byte below the end of the n-th cluster is in one of the first n.
LEMMA DivBelow ==
  ASSUME NEW c \in Nat \ {0}, NEW n \in Nat, NEW x \in Nat, x < c * n
  PROVE  x \div c \in 0 .. n - 1
<1> DEFINE q == x \div c
           r == x % c
<1>1. q \in Nat /\ r \in 0 .. c - 1 /\ x = c * q + r
  BY DivSplits
<1> HIDE DEF q, r
<1>2. c * q < c * n
  <2>1. c * q \in Nat /\ c * n \in Nat
    BY <1>1
  <2> DEFINE cq == c * q
             cn == c * n
  <2>2. cq \in Nat /\ cn \in Nat /\ x = cq + r /\ x < cn
    BY <1>1, <2>1
  <2> HIDE DEF cq, cn
  <2>3. cq < cn
    BY <1>1, <2>2
  <2>4. QED
    BY <2>3 DEF cq, cn
<1>3. q < n
  BY <1>1, <1>2, TimesLess
<1>4. q \in 0 .. n - 1
  BY <1>1, <1>3
<1>5. QED
  BY <1>4 DEF q

\* What a function makes of a finite set is finite.
LEMMA ImageIsFinite ==
  ASSUME NEW S, IsFiniteSet(S), NEW f, DOMAIN f = S
  PROVE  IsFiniteSet({f[x] : x \in S})
<1> DEFINE T == {f[x] : x \in S}
           g == [x \in S |-> f[x]]
<1>1. g \in Surjection(S, T)
  BY DEF Surjection
<1> HIDE DEF T, g
<1>2. IsFiniteSet(T)
  BY <1>1, FS_Surjection
<1>3. QED
  BY <1>2 DEF T

=============================================================================
