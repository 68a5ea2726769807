---------------------------- MODULE BifragProofs ----------------------------
(* The search for a fragmented file: what it reports is what the validator  *)
(* said of exactly the bytes reported, and a file whose fragments are       *)
(* within the windows is found.                                             *)
(*                                                                          *)
(* For the first, SearchInv: the path rises on the disk, the decisions are  *)
(* inside it in order, and a report is the pieces of rising clusters cut    *)
(* at a length that was judged.  It rests on two lemmas about the           *)
(* operators: a verdict "valid" stands when the clusters after its length   *)
(* are left out (JudgeCut), and the pieces spell the clusters' bytes up to  *)
(* the cut (PiecesSpell, PiecesRise, UsedIs).                               *)
(*                                                                          *)
(* For the second, FoundInv: in an attempt with the widest window the path  *)
(* is along the file, or one of the decisions waits at a cluster of it and  *)
(* has the file's next one still to try.                                    *)
EXTENDS Bifrag, ListProofs

-----------------------------------------------------------------------------
(* The validator.                                                          *)

Clustered == Seq(1 .. DiskClusters)

\* The clusters of a path are clusters of the disk.
LEMMA ClusteredIs ==
  ASSUME NEW places \in Clustered
  PROVE  /\ Len(places) \in Nat /\ DOMAIN places = 1 .. Len(places)
         /\ \A i \in 1 .. Len(places) : places[i] \in 1 .. DiskClusters
BY ElementOfSeq, Zenon, LenProperties DEF Clustered

Disk == [1 .. DiskClusters -> Clusters]

Outcomes == [length : Nat, valid : BOOLEAN, ran_out : BOOLEAN]

\* The parts of Judge.
Marked(places, i) == disk[places[i]].mark # None

Met(places, i) == Cardinality({j \in 1 .. i : disk[places[j]].mark # None})

WrongAt(places, i) ==
  \/ disk[places[i]].noise
  \/ /\ disk[places[i]].mark # None
     /\ \/ disk[places[i]].mark # (Met(places, i) - 1) % Phases
        \/ disk[places[i]].ends # (Met(places, i) = Landmarks)

StopsAt(places, i) ==
  WrongAt(places, i) \/ (disk[places[i]].mark # None /\ disk[places[i]].ends)

ReadOf(places) == {i \in DOMAIN places : \A j \in 1 .. (i - 1) : ~StopsAt(places, j)}

GoodOf(places) ==
  {i \in ReadOf(places) : disk[places[i]].mark # None /\ ~WrongAt(places, i)}

LastOf(places) == Max(GoodOf(places) \cup {0})

LEMMA JudgeIs ==
  ASSUME NEW places
  PROVE  /\ Judge(places).length =
              IF LastOf(places) = 0 THEN 0
              ELSE ClusterBytes * (LastOf(places) - 1) + disk[places[LastOf(places)]].at
         /\ Judge(places).valid =
              ((\E i \in GoodOf(places) : disk[places[i]].ends)
                 /\ \A i \in GoodOf(places) : ~disk[places[i]].bad)
         /\ Judge(places).ran_out = (\A i \in ReadOf(places) : ~StopsAt(places, i))
         /\ Judge(places) = [length |-> Judge(places).length, valid |-> Judge(places).valid,
                             ran_out |-> Judge(places).ran_out]
BY DEF Judge, LastOf, GoodOf, ReadOf, StopsAt, WrongAt, Met

\* The last good cluster is the greatest.
LEMMA LastIsGreatest ==
  ASSUME NEW places \in Clustered
  PROVE  /\ LastOf(places) \in GoodOf(places) \cup {0}
         /\ \A i \in GoodOf(places) : i <= LastOf(places)
         /\ GoodOf(places) \subseteq 1 .. Len(places)
<1> DEFINE S == GoodOf(places) \cup {0}
<1>1. GoodOf(places) \subseteq 1 .. Len(places)
  BY DEF GoodOf, ReadOf, Clustered
<1>2. IsFiniteSet(S) /\ S \in SUBSET Int /\ S # {}
  <2>1. IsFiniteSet(1 .. Len(places))
    BY FS_Interval DEF Clustered
  <2>2. IsFiniteSet(GoodOf(places))
    BY <1>1, <2>1, FS_Subset
  <2>3. IsFiniteSet(S)
    BY <2>2, FS_AddElement
  <2>4. QED
    BY <1>1, <2>3
<1> HIDE DEF S
<1>3. \E i \in S : \A j \in S : i >= j
  BY <1>2, GreatestExists
<1>4. Max(S) \in S /\ \A j \in S : Max(S) >= j
  BY <1>3 DEF Max
<1>5. QED
  BY <1>1, <1>2, <1>4 DEF S, LastOf

LEMMA OutcomeIs ==
  ASSUME NEW o, o = [length |-> o.length, valid |-> o.valid, ran_out |-> o.ran_out],
         o.length \in Nat, o.valid \in BOOLEAN, o.ran_out \in BOOLEAN
  PROVE  o \in Outcomes
BY DEF Outcomes

\* What is judged good ends within the bytes given.
LEMMA JudgeBounds ==
  ASSUME NEW places \in Clustered, disk \in Disk
  PROVE  Judge(places) \in Outcomes /\ Judge(places).length <= ClusterBytes * Len(places)
<1> DEFINE last == LastOf(places)
           at == disk[places[last]].at
<1>1. ClusterBytes \in Nat \ {0} /\ Len(places) \in Nat
  BY SearchAssumption DEF Clustered
<1>2. last \in GoodOf(places) \cup {0} /\ GoodOf(places) \subseteq 1 .. Len(places)
  BY LastIsGreatest
<1>o. /\ Judge(places).valid \in BOOLEAN /\ Judge(places).ran_out \in BOOLEAN
      /\ Judge(places) = [length |-> Judge(places).length, valid |-> Judge(places).valid,
                          ran_out |-> Judge(places).ran_out]
  BY JudgeIs
<1>3. CASE last = 0
  <2>1. Judge(places).length = 0
    BY <1>3, JudgeIs
  <2>2. ClusterBytes * Len(places) \in Nat
    BY <1>1
  <2>3. Judge(places) \in Outcomes
    BY <1>o, <2>1, OutcomeIs
  <2>4. QED
    BY <2>1, <2>2, <2>3
<1>4. CASE last # 0
  <2>1. last \in GoodOf(places) /\ last \in 1 .. Len(places)
    BY <1>2, <1>4
  <2>2. disk[places[last]] \in Clusters /\ disk[places[last]].mark # None
    <3>1. places[last] \in 1 .. DiskClusters
      BY <2>1, ClusteredIs
    <3>2. disk[places[last]] \in Clusters
      BY <3>1 DEF Disk
    <3>3. disk[places[last]].mark # None
      BY <2>1 DEF GoodOf
    <3>4. QED
      BY <3>2, <3>3
  <2>3. at \in 1 .. ClusterBytes
    BY <2>2, ClusterAssumption
  <2> HIDE DEF last, at
  <2>4. Judge(places).length = ClusterBytes * (last - 1) + at
    BY <1>4, JudgeIs DEF last, at
  <2>5. ClusterBytes * (last - 1) + ClusterBytes = ClusterBytes * last
    BY <1>1, <2>1
  <2>6. ClusterBytes * last <= ClusterBytes * Len(places)
    BY <1>1, <2>1, Times
  <2>7. ClusterBytes * (last - 1) \in Nat /\ ClusterBytes * last \in Nat
    BY <1>1, <2>1
  <2> DEFINE before == ClusterBytes * (last - 1)
             upto == ClusterBytes * last
             all == ClusterBytes * Len(places)
  <2>8. /\ before \in Nat /\ upto \in Nat /\ all \in Nat
        /\ before + ClusterBytes = upto /\ upto <= all
    BY <1>1, <2>5, <2>6, <2>7
  <2> HIDE DEF before, upto, all
  <2>9. before + at \in Nat /\ before + at <= all
    BY <1>1, <2>3, <2>8
  <2>10. Judge(places).length \in Nat /\ Judge(places).length <= all
    BY <2>4, <2>9 DEF before
  <2>11. Judge(places) \in Outcomes
    BY <1>o, <2>10, OutcomeIs
  <2>12. QED
    BY <2>10, <2>11 DEF all
<1>5. QED
  BY <1>3, <1>4

\* What was good of some clusters is good of the first of them that hold it.
LEMMA JudgeCut ==
  ASSUME NEW places \in Clustered, NEW q \in Clustered, disk \in Disk,
         Len(q) <= Len(places), \A i \in 1 .. Len(q) : q[i] = places[i],
         Judge(places).valid, Judge(places).length <= ClusterBytes * Len(q)
  PROVE  Judge(q).valid /\ Judge(q).length = Judge(places).length
<1> DEFINE n == Len(q)
           last == LastOf(places)
<1>1. ClusterBytes \in Nat \ {0} /\ Len(places) \in Nat /\ n \in Nat
      /\ DOMAIN places = 1 .. Len(places) /\ DOMAIN q = 1 .. n
  BY SearchAssumption DEF Clustered
<1>2. /\ last \in GoodOf(places) \cup {0}
      /\ \A i \in GoodOf(places) : i <= last
      /\ GoodOf(places) \subseteq 1 .. Len(places)
  BY LastIsGreatest
<1>3. PICK g \in GoodOf(places) : disk[places[g]].ends
  BY JudgeIs
<1>4. g \in 1 .. Len(places) /\ StopsAt(places, g) /\ g \in ReadOf(places)
  BY <1>2, <1>3 DEF StopsAt, GoodOf
<1>5. \A i \in ReadOf(places) : i <= g
  BY <1>1, <1>4 DEF ReadOf
<1>6. g = last
  <2>1. g <= last
    BY <1>2
  <2>2. last \in GoodOf(places)
    BY <1>2, <1>4, <2>1
  <2>3. last <= g /\ last \in Nat
    BY <1>2, <1>5, <2>2 DEF GoodOf
  <2>4. QED
    BY <1>4, <2>1, <2>3
<1>7. g <= n
  <2> DEFINE at == disk[places[g]].at
  <2>1. Judge(places).length = ClusterBytes * (g - 1) + at
    <3>1. g # 0
      BY <1>4
    <3>2. Judge(places).length = ClusterBytes * (last - 1) + disk[places[last]].at
      BY <1>6, <3>1, JudgeIs
    <3>3. QED
      BY <1>6, <3>2, Zenon
  <2>2. at \in 1 .. ClusterBytes
    <3>1. places[g] \in 1 .. DiskClusters
      BY <1>4, ClusteredIs
    <3>2. disk[places[g]] \in Clusters
      BY <3>1 DEF Disk
    <3>3. disk[places[g]].mark # None
      BY <1>3 DEF GoodOf
    <3>4. QED
      BY <3>2, <3>3, ClusterAssumption
  <2> HIDE DEF at
  <2> DEFINE before == ClusterBytes * (g - 1)
             held == ClusterBytes * n
  <2>3. before \in Nat /\ held \in Nat
    BY <1>1, <1>4
  <2>4. before + at <= held
    BY <2>1
  <2> HIDE DEF before
  <2>5. before < held
    BY <1>1, <2>2, <2>3, <2>4
  <2>6. g - 1 < n
    BY <1>1, <1>4, <2>5, TimesLess DEF before
  <2>7. QED
    BY <1>1, <1>4, <2>6
<1> HIDE DEF n, last
<1>8. \A i \in 1 .. n : /\ i \in 1 .. Len(places) /\ q[i] = places[i]
                        /\ \A j \in 1 .. i : q[j] = places[j]
  BY <1>1 DEF n
<1>9. \A i \in 1 .. n : Met(q, i) = Met(places, i)
  <2> SUFFICES ASSUME NEW i \in 1 .. n PROVE Met(q, i) = Met(places, i)
    OBVIOUS
  <2>1. {j \in 1 .. i : disk[q[j]].mark # None} = {j \in 1 .. i : disk[places[j]].mark # None}
    BY <1>8
  <2>2. QED
    BY <2>1 DEF Met
<1>10. \A i \in 1 .. n : WrongAt(q, i) = WrongAt(places, i)
  BY <1>8, <1>9 DEF WrongAt
<1>11. \A i \in 1 .. n : StopsAt(q, i) = StopsAt(places, i)
  BY <1>8, <1>10 DEF StopsAt
<1>12. ReadOf(q) = ReadOf(places)
  <2>1. ReadOf(places) \subseteq 1 .. n
    BY <1>1, <1>4, <1>5, <1>7 DEF ReadOf
  <2>2. \A i \in 1 .. n : (\A j \in 1 .. (i - 1) : ~StopsAt(q, j))
                            <=> (\A j \in 1 .. (i - 1) : ~StopsAt(places, j))
    BY <1>1, <1>11
  <2>3. \A i \in 1 .. n : i \in ReadOf(q) <=> i \in ReadOf(places)
    BY <1>1, <1>8, <2>2 DEF ReadOf
  <2>4. ReadOf(q) \subseteq 1 .. n
    BY <1>1 DEF ReadOf
  <2>5. QED
    BY <2>1, <2>3, <2>4
<1>13. ReadOf(q) \subseteq 1 .. n
  BY <1>1 DEF ReadOf
<1>14. GoodOf(q) = GoodOf(places)
  BY <1>8, <1>10, <1>12, <1>13 DEF GoodOf
<1>15. GoodOf(q) \subseteq 1 .. n
  BY <1>13 DEF GoodOf
<1>16. LastOf(q) = last
  BY <1>14 DEF LastOf, last
<1>17. Judge(q).valid
  <2>1. /\ \E i \in GoodOf(places) : disk[places[i]].ends
        /\ \A i \in GoodOf(places) : ~disk[places[i]].bad
    BY JudgeIs
  <2>2. /\ \E i \in GoodOf(q) : disk[q[i]].ends
        /\ \A i \in GoodOf(q) : ~disk[q[i]].bad
    BY <1>8, <1>14, <1>15, <2>1
  <2>3. QED
    BY <2>2, JudgeIs
<1>18. Judge(q).length = Judge(places).length
  <2>1. last \in 1 .. n /\ last # 0 /\ q[last] = places[last]
    BY <1>1, <1>4, <1>6, <1>7, <1>8
  <2>2. /\ Judge(q).length = ClusterBytes * (last - 1) + disk[q[last]].at
        /\ Judge(places).length = ClusterBytes * (last - 1) + disk[places[last]].at
    BY <1>16, <2>1, JudgeIs DEF last
  <2>3. QED
    BY <2>1, <2>2
<1>19. QED
  BY <1>17, <1>18

-----------------------------------------------------------------------------
(* The report.                                                             *)

\* A part of a list after the part before it.
LEMMA PartsJoin ==
  ASSUME NEW V, NEW t \in Seq(V), NEW d \in Nat, NEW e \in Nat, d <= e, e <= Len(t)
  PROVE  SubSeq(t, 1, d) \o SubSeq(t, d + 1, e) = SubSeq(t, 1, e)
<1> DEFINE a == SubSeq(t, 1, d)
           b == SubSeq(t, d + 1, e)
           c == SubSeq(t, 1, e)
<1>1. a \in Seq(V) /\ Len(a) = d /\ \A i \in 1 .. d : a[i] = t[i]
  OBVIOUS
<1>2. b \in Seq(V) /\ Len(b) = e - d /\ \A i \in 1 .. e - d : b[i] = t[d + i]
  OBVIOUS
<1>3. c \in Seq(V) /\ Len(c) = e /\ \A i \in 1 .. e : c[i] = t[i]
  OBVIOUS
<1> HIDE DEF a, b, c
<1>4. a \o b \in Seq(V) /\ Len(a \o b) = e
  <2>1. a \in Seq(V) /\ b \in Seq(V)
    BY <1>1, <1>2
  <2>2. a \o b \in Seq(V) /\ Len(a \o b) = Len(a) + Len(b)
    BY <2>1, ConcatProperties, Zenon
  <2>3. QED
    BY <1>1, <1>2, <2>2
<1>5. \A i \in 1 .. e : (a \o b)[i] = t[i]
  <2> SUFFICES ASSUME NEW i \in 1 .. e PROVE (a \o b)[i] = t[i]
    OBVIOUS
  <2>1. CASE i <= d
    BY <1>1, <1>2, <2>1
  <2>2. CASE i > d
    <3>1. i - d \in 1 .. e - d /\ d + (i - d) = i
      BY <2>2
    <3>2. (a \o b)[i] = b[i - d]
      BY <1>1, <1>2, <2>2
    <3>3. QED
      BY <1>2, <3>1, <3>2
  <2>3. i <= d \/ i > d
    OBVIOUS
  <2>4. QED
    BY <2>1, <2>2, <2>3, Zenon
<1>6. a \o b = c
  BY <1>3, <1>4, <1>5, SeqEqual
<1>7. QED
  BY <1>6 DEF a, b, c

\* The parts of a list that begin where the one before ends are the list.
LEMMA FlattenIs ==
  ASSUME NEW V, NEW t \in Seq(V), NEW n \in Nat \ {0}, NEW ss, Len(ss) = n,
         NEW edge \in [1 .. n + 1 -> Nat], edge[1] = 0, edge[n + 1] = Len(t),
         \A h \in 1 .. n : edge[h] <= edge[h + 1] /\ edge[h + 1] <= Len(t),
         \A h \in 1 .. n : ss[h] = SubSeq(t, edge[h] + 1, edge[h + 1])
  PROVE  FlattenSeq(ss) = t
<1> DEFINE Right(f) ==
             f = [i \in 1 .. n |-> IF i = 1 THEN ss[i] ELSE f[i - 1] \o ss[i]]
           f0 == [i \in 1 .. n |-> SubSeq(t, 1, edge[i + 1])]
           g == CHOOSE f : Right(f)
<1>1. FlattenSeq(ss) = g[n]
  BY DEF FlattenSeq
<1>2. \A h \in 2 .. n : SubSeq(t, 1, edge[h]) \o ss[h] = SubSeq(t, 1, edge[h + 1])
  <2> SUFFICES ASSUME NEW h \in 2 .. n
               PROVE  SubSeq(t, 1, edge[h]) \o ss[h] = SubSeq(t, 1, edge[h + 1])
    OBVIOUS
  <2>1. h \in 1 .. n /\ h \in 1 .. n + 1 /\ h + 1 \in 1 .. n + 1
    OBVIOUS
  <2>2. edge[h] \in Nat /\ edge[h + 1] \in Nat
    BY <2>1
  <2>3. edge[h] <= edge[h + 1] /\ edge[h + 1] <= Len(t)
    BY <2>1
  <2>4. ss[h] = SubSeq(t, edge[h] + 1, edge[h + 1])
    BY <2>1
  <2>5. SubSeq(t, 1, edge[h]) \o SubSeq(t, edge[h] + 1, edge[h + 1]) = SubSeq(t, 1, edge[h + 1])
    BY <2>2, <2>3, PartsJoin, Zenon
  <2>6. QED
    BY <2>4, <2>5
<1>3. ss[1] = SubSeq(t, 1, edge[2])
  <2>1. 1 \in 1 .. n /\ 1 + 1 = 2 /\ 0 + 1 = 1
    OBVIOUS
  <2>2. ss[1] = SubSeq(t, edge[1] + 1, edge[1 + 1])
    BY <2>1
  <2>3. QED
    BY <2>1, <2>2
<1>4. Right(f0)
  <2>1. \A i \in 1 .. n : f0[i] = IF i = 1 THEN ss[i] ELSE f0[i - 1] \o ss[i]
    <3> SUFFICES ASSUME NEW i \in 1 .. n
                 PROVE  f0[i] = IF i = 1 THEN ss[i] ELSE f0[i - 1] \o ss[i]
      OBVIOUS
    <3>1. CASE i = 1
      BY <1>3, <3>1
    <3>2. CASE i # 1
      <4>1. i \in 2 .. n /\ i - 1 \in 1 .. n /\ (i - 1) + 1 = i
        BY <3>2
      <4>2. f0[i - 1] = SubSeq(t, 1, edge[i]) /\ f0[i] = SubSeq(t, 1, edge[i + 1])
        BY <4>1
      <4>3. QED
        BY <1>2, <3>2, <4>1, <4>2
    <3>3. QED
      BY <3>1, <3>2
  <2>2. DOMAIN f0 = 1 .. n /\ f0 = [i \in 1 .. n |-> f0[i]]
    OBVIOUS
  <2> HIDE DEF f0
  <2>3. QED
    BY <2>1, <2>2, Zenon
<1>5. Right(g)
  <2> HIDE DEF Right, f0
  <2>1. QED
    BY <1>4
<1> HIDE DEF g
<1>6. \A i \in 1 .. n : g[i] = IF i = 1 THEN ss[i] ELSE g[i - 1] \o ss[i]
  BY <1>5
<1> HIDE DEF Right, f0
<1> DEFINE S == {k \in 0 .. n - 1 : g[k + 1] = SubSeq(t, 1, edge[k + 2])}
<1>7. 0 \in S
  <2>1. 1 \in 1 .. n /\ 0 \in 0 .. n - 1 /\ 0 + 1 = 1 /\ 0 + 2 = 2
    OBVIOUS
  <2>2. g[1] = ss[1]
    BY <1>6, <2>1
  <2>3. QED
    BY <1>3, <2>1, <2>2
<1>8. \A k \in 0 .. (n - 1) - 1 : k \in S => k + 1 \in S
  <2> SUFFICES ASSUME NEW k \in 0 .. (n - 1) - 1, k \in S PROVE k + 1 \in S
    OBVIOUS
  <2>1. /\ k + 2 \in 2 .. n /\ k + 2 \in 1 .. n /\ k + 2 # 1 /\ k + 1 \in 0 .. n - 1
        /\ (k + 2) - 1 = k + 1 /\ (k + 1) + 1 = k + 2 /\ (k + 2) + 1 = (k + 1) + 2
    OBVIOUS
  <2>2. g[k + 2] = g[k + 1] \o ss[k + 2]
    BY <1>6, <2>1
  <2>3. g[k + 1] = SubSeq(t, 1, edge[k + 2])
    OBVIOUS
  <2>4. SubSeq(t, 1, edge[k + 2]) \o ss[k + 2] = SubSeq(t, 1, edge[(k + 2) + 1])
    BY <1>2, <2>1
  <2>5. QED
    BY <2>1, <2>2, <2>3, <2>4
<1>9. n - 1 \in S
  <2> HIDE DEF S
  <2>1. n - 1 \in Nat /\ n - 1 \in 0 .. n - 1
    OBVIOUS
  <2>2. 0 .. n - 1 \subseteq S
    BY <1>7, <1>8, <2>1, CountingUp
  <2>3. QED
    BY <2>1, <2>2
<1>10. g[n] = SubSeq(t, 1, Len(t))
  <2>1. (n - 1) + 1 = n /\ (n - 1) + 2 = n + 1
    OBVIOUS
  <2>2. g[(n - 1) + 1] = SubSeq(t, 1, edge[(n - 1) + 2])
    BY <1>9
  <2>3. QED
    BY <2>1, <2>2
<1>11. SubSeq(t, 1, Len(t)) = t
  OBVIOUS
<1>12. QED
  BY <1>1, <1>10, <1>11

Ascends(q) == \A i, j \in 1 .. Len(q) : i < j => q[i] < q[j]

\* The parts of Pieces.
Joins(chosen, i) == i > 1 /\ chosen[i] = chosen[i - 1] + 1

HeldIn(cut, i) == Least(ClusterBytes, Most(0, cut - ClusterBytes * (i - 1)))

Begins(chosen, cut) == {i \in DOMAIN chosen : ~Joins(chosen, i) /\ HeldIn(cut, i) > 0}

Heads(chosen, cut) == InOrder(Begins(chosen, cut), Ascending(Begins(chosen, cut)))

UntilOf(chosen, cut, h) ==
  IF h = Len(Heads(chosen, cut)) THEN Len(chosen) ELSE Heads(chosen, cut)[h + 1] - 1

PieceOf(chosen, cut, h) ==
  [offset |-> ClusterBytes * (chosen[Heads(chosen, cut)[h]] - 1),
   length |-> Least(ClusterBytes * (UntilOf(chosen, cut, h) - Heads(chosen, cut)[h] + 1),
                    cut - ClusterBytes * (Heads(chosen, cut)[h] - 1))]

LEMMA PiecesIs ==
  ASSUME NEW chosen, NEW cut
  PROVE  Pieces(chosen, cut) = [h \in DOMAIN Heads(chosen, cut) |-> PieceOf(chosen, cut, h)]
BY DEF Pieces, PieceOf, UntilOf, Heads, Begins, HeldIn, Joins

\* A cluster counts when its first byte does.
LEMMA HeldInIs ==
  ASSUME NEW cut \in Nat, NEW i \in Nat \ {0}
  PROVE  HeldIn(cut, i) > 0 <=> ClusterBytes * (i - 1) < cut
<1>1. ClusterBytes \in Nat \ {0} /\ ClusterBytes * (i - 1) \in Nat
  BY SearchAssumption
<1> DEFINE before == ClusterBytes * (i - 1)
<1> HIDE DEF before
<1>2. Least(ClusterBytes, Most(0, cut - before)) > 0 <=> before < cut
  BY <1>1 DEF Least, Most, before
<1>3. QED
  BY <1>2 DEF HeldIn, before

LEMMA HeadsAre ==
  ASSUME NEW chosen \in Clustered, NEW cut \in 0 .. ClusterBytes * Len(chosen)
  PROVE  LET hs == Heads(chosen, cut)
             n == Len(hs) IN
         /\ n \in Nat /\ DOMAIN hs = 1 .. n
         /\ \A h \in 1 .. n : /\ hs[h] \in 1 .. Len(chosen) /\ ~Joins(chosen, hs[h])
                              /\ ClusterBytes * (hs[h] - 1) < cut
         /\ \A g, h \in 1 .. n : g < h => hs[g] < hs[h]
         /\ \A i \in 1 .. Len(chosen) :
              ~Joins(chosen, i) /\ ClusterBytes * (i - 1) < cut => \E h \in 1 .. n : hs[h] = i
         /\ cut > 0 => n > 0 /\ hs[1] = 1
         /\ cut = 0 => n = 0
<1> DEFINE S == Begins(chosen, cut)
           order == Ascending(S)
           hs == InOrder(S, order)
           n == Cardinality(S)
<1>1. Len(chosen) \in Nat /\ DOMAIN chosen = 1 .. Len(chosen)
  BY ClusteredIs
<1>2. S = {i \in 1 .. Len(chosen) : ~Joins(chosen, i) /\ ClusterBytes * (i - 1) < cut}
  <2>1. \A i \in 1 .. Len(chosen) : HeldIn(cut, i) > 0 <=> ClusterBytes * (i - 1) < cut
    BY HeldInIs
  <2>2. QED
    BY <1>1, <2>1 DEF Begins
<1> HIDE DEF S
<1>3. IsFiniteSet(S) /\ S \in SUBSET Int
  <2>1. IsFiniteSet(1 .. Len(chosen))
    BY <1>1, FS_Interval
  <2>2. S \subseteq 1 .. Len(chosen)
    BY <1>2
  <2>3. IsFiniteSet(S)
    BY <2>1, <2>2, FS_Subset
  <2>4. QED
    BY <2>2, <2>3
<1>4. StrictOrder(order, S) /\ n \in Nat
  BY <1>3, AscendingIsStrict, FS_CardinalityType
<1>5. \A i, j \in S : <<i, j>> \in order => i < j
  BY DEF Ascending
<1>6. hs \in Seq(S) /\ Len(hs) = n
  BY <1>3, <1>4, ListInOrder
<1>7. /\ \A i \in S : \E k \in 1 .. n : hs[k] = i
      /\ \A k, l \in 1 .. n : k < l => <<hs[k], hs[l]>> \in order
  BY <1>3, <1>4, ListAscends
<1>8. Heads(chosen, cut) = hs
  BY DEF Heads, S
<1> HIDE DEF order, hs, n
<1>9. \A k \in 1 .. n : hs[k] \in S
  BY <1>6, ElementOfSeq
<1>10. \A k, l \in 1 .. n : k < l => hs[k] < hs[l]
  BY <1>5, <1>7, <1>9
<1>11. DOMAIN hs = 1 .. n
  BY <1>6, LenProperties, Zenon
<1>12. cut > 0 => n > 0 /\ hs[1] = 1
  <2> SUFFICES ASSUME cut > 0 PROVE n > 0 /\ hs[1] = 1
    OBVIOUS
  <2>1. Len(chosen) >= 1
    <3>1. CASE Len(chosen) = 0
      BY <3>1, SearchAssumption
    <3>2. QED
      BY <1>1, <3>1
  <2>2. 1 \in S
    <3>1. ~Joins(chosen, 1) /\ 1 \in 1 .. Len(chosen)
      BY <1>1, <2>1 DEF Joins
    <3>2. ClusterBytes * (1 - 1) < cut
      BY SearchAssumption
    <3>3. QED
      BY <1>2, <3>1, <3>2
  <2>3. PICK k \in 1 .. n : hs[k] = 1
    BY <1>7, <2>2
  <2>4. n > 0 /\ 1 \in 1 .. n
    BY <1>4, <2>3
  <2>5. hs[1] >= 1 /\ hs[1] \in Int
    BY <1>2, <1>9, <2>4
  <2>6. CASE k = 1
    BY <2>3, <2>4, <2>6
  <2>7. CASE k > 1
    BY <1>10, <2>3, <2>4, <2>5, <2>7
  <2>8. QED
    BY <2>6, <2>7
<1>13. cut = 0 => n = 0
  <2> SUFFICES ASSUME cut = 0, n # 0 PROVE FALSE
    OBVIOUS
  <2>1. hs[1] \in S
    BY <1>4, <1>9
  <2>2. ClusterBytes * (hs[1] - 1) < 0 /\ hs[1] - 1 \in Nat
    BY <1>2, <2>1
  <2>3. ClusterBytes \in Nat
    BY SearchAssumption
  <2> DEFINE x == hs[1] - 1
  <2>4. x \in Nat /\ ClusterBytes * x < 0
    BY <2>2
  <2> HIDE DEF x
  <2>5. ClusterBytes * 0 <= ClusterBytes * x /\ ClusterBytes * 0 = 0 /\ ClusterBytes * x \in Nat
    BY <2>3, <2>4
  <2>6. QED
    BY <2>4, <2>5
<1>14. QED
  BY <1>2, <1>4, <1>6, <1>7, <1>8, <1>9, <1>10, <1>11, <1>12, <1>13

\* A run of chosen clusters goes up to the next head, and has no head inside.
LEMMA UntilIs ==
  ASSUME NEW chosen \in Clustered, NEW cut \in 0 .. ClusterBytes * Len(chosen),
         NEW h \in 1 .. Len(Heads(chosen, cut))
  PROVE  LET hs == Heads(chosen, cut)
             until == UntilOf(chosen, cut, h) IN
         /\ until \in hs[h] .. Len(chosen)
         /\ \A g \in 1 .. Len(hs) : hs[g] <= hs[h] \/ hs[g] > until
<1> DEFINE hs == Heads(chosen, cut)
           n == Len(hs)
           until == UntilOf(chosen, cut, h)
<1>1. /\ n \in Nat
      /\ \A g \in 1 .. n : hs[g] \in 1 .. Len(chosen)
      /\ \A f, g \in 1 .. n : f < g => hs[f] < hs[g]
  BY HeadsAre
<1>2. until = IF h = n THEN Len(chosen) ELSE hs[h + 1] - 1
  BY DEF UntilOf
<1>3. Len(chosen) \in Nat
  BY ClusteredIs
<1>h. h \in 1 .. n
  OBVIOUS
<1> HIDE DEF hs, n, until
<1>4. until \in hs[h] .. Len(chosen)
  <2>1. CASE h = n
    BY <1>1, <1>2, <1>3, <1>h, <2>1
  <2>2. CASE h # n
    <3>1. h + 1 \in 1 .. n /\ h < h + 1
      BY <1>1, <1>h, <2>2
    <3>2. hs[h] < hs[h + 1] /\ hs[h + 1] \in 1 .. Len(chosen) /\ hs[h] \in 1 .. Len(chosen)
      BY <1>1, <1>h, <3>1
    <3>3. QED
      BY <1>2, <1>3, <2>2, <3>2
  <2>3. QED
    BY <2>1, <2>2
<1>5. ASSUME NEW g \in 1 .. n PROVE hs[g] <= hs[h] \/ hs[g] > until
  <2>1. CASE g <= h
    BY <1>1, <1>h, <2>1
  <2>2. CASE g > h
    <3>1. h # n /\ h + 1 \in 1 .. n /\ h + 1 <= g
      BY <1>1, <1>h, <2>2
    <3>2. hs[h + 1] <= hs[g] /\ hs[h + 1] \in Int /\ hs[g] \in Int
      BY <1>1, <3>1
    <3>3. QED
      BY <1>2, <3>1, <3>2
  <2>3. QED
    BY <1>1, <1>h, <2>1, <2>2
<1>6. QED
  BY <1>4, <1>5 DEF hs, n, until

\* The clusters of a run follow one another on the disk.
LEMMA RunFollows ==
  ASSUME NEW chosen \in Clustered, NEW cut \in 0 .. ClusterBytes * Len(chosen),
         NEW h \in 1 .. Len(Heads(chosen, cut)), NEW k \in Nat,
         Heads(chosen, cut)[h] + k <= UntilOf(chosen, cut, h),
         ClusterBytes * (Heads(chosen, cut)[h] + k - 1) < cut
  PROVE  chosen[Heads(chosen, cut)[h] + k] = chosen[Heads(chosen, cut)[h]] + k
<1> DEFINE hs == Heads(chosen, cut)
           b == hs[h]
           until == UntilOf(chosen, cut, h)
           S == {m \in 0 .. k : chosen[b + m] = chosen[b] + m}
<1>1. /\ \A g \in 1 .. Len(hs) : hs[g] \in 1 .. Len(chosen)
      /\ \A i \in 1 .. Len(chosen) :
           ~Joins(chosen, i) /\ ClusterBytes * (i - 1) < cut => \E g \in 1 .. Len(hs) : hs[g] = i
  BY HeadsAre
<1>2. /\ until \in b .. Len(chosen)
      /\ \A g \in 1 .. Len(hs) : hs[g] <= b \/ hs[g] > until
  BY UntilIs
<1>3. Len(chosen) \in Nat /\ \A i \in 1 .. Len(chosen) : chosen[i] \in 1 .. DiskClusters
  BY ClusteredIs
<1>4. b \in 1 .. Len(chosen) /\ b + k <= until /\ ClusterBytes * (b + k - 1) < cut
  BY <1>1
<1>5. ClusterBytes \in Nat
  BY SearchAssumption
<1> HIDE DEF hs, b, until
<1>6. 0 \in S
  <2>1. b + 0 = b /\ chosen[b] + 0 = chosen[b]
    BY <1>3, <1>4
  <2>2. 0 \in 0 .. k
    OBVIOUS
  <2>3. QED
    BY <2>1, <2>2
<1>7. \A m \in 0 .. k - 1 : m \in S => m + 1 \in S
  <2> SUFFICES ASSUME NEW m \in 0 .. k - 1, m \in S PROVE m + 1 \in S
    OBVIOUS
  <2> DEFINE i == b + (m + 1)
  <2>1. i \in 1 .. Len(chosen) /\ i - 1 = b + m /\ i > b /\ i <= until /\ i - 1 <= b + k - 1
    BY <1>2, <1>3, <1>4
  <2>2. ClusterBytes * (i - 1) < cut
    <3>1. ClusterBytes * (i - 1) <= ClusterBytes * (b + k - 1)
      BY <1>3, <1>4, <1>5, <2>1, Times
    <3> DEFINE x == ClusterBytes * (i - 1)
               y == ClusterBytes * (b + k - 1)
    <3>2. x \in Nat /\ y \in Nat /\ x <= y /\ y < cut /\ cut \in Nat
      <4>1. b + k - 1 \in Nat /\ i - 1 \in Nat
        BY <1>3, <1>4, <2>1
      <4>2. ClusterBytes * Len(chosen) \in Nat
        BY <1>3, <1>5
      <4>3. QED
        BY <1>4, <1>5, <3>1, <4>1, <4>2
    <3> HIDE DEF x, y
    <3>3. x < cut
      BY <3>2
    <3>4. QED
      BY <3>3 DEF x
  <2>3. ~(\E g \in 1 .. Len(hs) : hs[g] = i)
    <3> HIDE DEF i
    <3>1. ASSUME NEW g \in 1 .. Len(hs), hs[g] = i PROVE FALSE
      <4>1. i <= b \/ i > until
        BY <1>2, <3>1
      <4>2. QED
        BY <1>2, <1>3, <1>4, <2>1, <4>1
    <3>2. QED
      BY <3>1
  <2> HIDE DEF i
  <2>4. Joins(chosen, i)
    BY <1>1, <2>1, <2>2, <2>3
  <2>5. chosen[i] = chosen[b + m] + 1
    BY <2>1, <2>4 DEF Joins
  <2>6. chosen[b + m] = chosen[b] + m /\ chosen[b] \in Nat /\ m \in Nat
    BY <1>3, <1>4
  <2>7. chosen[i] = chosen[b] + (m + 1) /\ m + 1 \in 0 .. k
    <3>1. chosen[i] = (chosen[b] + m) + 1
      BY <2>5, <2>6, Zenon
    <3>2. (chosen[b] + m) + 1 = chosen[b] + (m + 1)
      <4>1. PICK v \in Nat : v = chosen[b]
        BY <2>6
      <4>2. (v + m) + 1 = v + (m + 1)
        BY <2>6
      <4>3. QED
        BY <4>1, <4>2, Zenon
    <3>3. QED
      BY <3>1, <3>2
  <2>8. QED
    BY <2>7 DEF i
<1>8. k \in S
  <2> HIDE DEF S
  <2>1. 0 .. k \subseteq S
    BY <1>6, <1>7, CountingUp
  <2>2. QED
    BY <2>1
<1>9. QED
  BY <1>8 DEF b, hs

Edge(chosen, cut) ==
  [h \in 1 .. Len(Heads(chosen, cut)) + 1 |->
     IF h = Len(Heads(chosen, cut)) + 1 THEN cut
     ELSE ClusterBytes * (Heads(chosen, cut)[h] - 1)]

\* A piece ends where the next begins, and the last where the bytes end.
LEMMA EdgesAre ==
  ASSUME NEW chosen \in Clustered, NEW cut \in 0 .. ClusterBytes * Len(chosen)
  PROVE  LET hs == Heads(chosen, cut)
             n == Len(hs)
             edge == Edge(chosen, cut) IN
         /\ edge \in [1 .. n + 1 -> Nat] /\ edge[n + 1] = cut /\ edge[1] = 0
         /\ \A h \in 1 .. n : /\ edge[h] = ClusterBytes * (hs[h] - 1)
                              /\ edge[h] < edge[h + 1] /\ edge[h + 1] <= cut
                              /\ edge[h + 1] <= ClusterBytes * UntilOf(chosen, cut, h)
                              /\ PieceOf(chosen, cut, h).length = edge[h + 1] - edge[h]
<1> DEFINE hs == Heads(chosen, cut)
           n == Len(hs)
           edge == Edge(chosen, cut)
<1>1. /\ n \in Nat
      /\ \A g \in 1 .. n : hs[g] \in 1 .. Len(chosen) /\ ClusterBytes * (hs[g] - 1) < cut
      /\ \A f, g \in 1 .. n : f < g => hs[f] < hs[g]
      /\ cut > 0 => n > 0 /\ hs[1] = 1
      /\ cut = 0 => n = 0
  BY HeadsAre
<1>2. ClusterBytes \in Nat /\ Len(chosen) \in Nat
  BY SearchAssumption, ClusteredIs
<1>3. cut \in Nat /\ cut <= ClusterBytes * Len(chosen) /\ ClusterBytes * Len(chosen) \in Nat
  BY <1>2
<1>4. /\ edge[n + 1] = cut
      /\ \A h \in 1 .. n : edge[h] = ClusterBytes * (hs[h] - 1) /\ h \in 1 .. n + 1
      /\ DOMAIN edge = 1 .. n + 1 /\ edge = [h \in 1 .. n + 1 |-> edge[h]]
  <2>1. edge = [h \in 1 .. n + 1 |-> IF h = n + 1 THEN cut ELSE ClusterBytes * (hs[h] - 1)]
    BY DEF Edge
  <2>2. n + 1 \in 1 .. n + 1 /\ \A h \in 1 .. n : h \in 1 .. n + 1 /\ h # n + 1
    BY <1>1
  <2> HIDE DEF edge, hs, n
  <2>3. QED
    BY <2>1, <2>2
<1> HIDE DEF hs, n, edge
<1>5. ASSUME NEW h \in 1 .. n PROVE edge[h] \in Nat /\ edge[h] < cut
  <2>1. edge[h] = ClusterBytes * (hs[h] - 1)
    BY <1>4
  <2>2. hs[h] \in 1 .. Len(chosen) /\ ClusterBytes * (hs[h] - 1) < cut
    BY <1>1
  <2>3. hs[h] - 1 \in Nat
    BY <1>2, <2>2
  <2>4. ClusterBytes * (hs[h] - 1) \in Nat
    BY <1>2, <2>3
  <2>5. QED
    BY <2>1, <2>2, <2>4
<1>6. edge \in [1 .. n + 1 -> Nat]
  <2>1. \A h \in 1 .. n + 1 : edge[h] \in Nat
    <3> SUFFICES ASSUME NEW h \in 1 .. n + 1 PROVE edge[h] \in Nat
      OBVIOUS
    <3>1. h \in 1 .. n \/ h = n + 1
      BY <1>1
    <3>2. QED
      BY <1>3, <1>4, <1>5, <3>1
  <2>2. QED
    BY <1>4, <2>1
<1>7. edge[1] = 0
  <2>1. CASE cut = 0
    BY <1>1, <1>4, <2>1
  <2>2. CASE cut > 0
    <3>1. 1 \in 1 .. n /\ hs[1] = 1
      BY <1>1, <2>2
    <3>2. edge[1] = ClusterBytes * (hs[1] - 1)
      BY <1>4, <3>1
    <3>3. QED
      BY <1>2, <3>1, <3>2
  <2>3. QED
    BY <1>3, <2>1, <2>2
<1>8. ASSUME NEW h \in 1 .. n
      PROVE  LET until == UntilOf(chosen, cut, h) IN
             /\ edge[h] < edge[h + 1] /\ edge[h + 1] <= cut
             /\ edge[h + 1] <= ClusterBytes * until
             /\ PieceOf(chosen, cut, h).length = edge[h + 1] - edge[h]
  <2> DEFINE until == UntilOf(chosen, cut, h)
             b == hs[h]
             e == ClusterBytes * (b - 1)
             u == ClusterBytes * until
  <2>1. until \in b .. Len(chosen) /\ b \in 1 .. Len(chosen)
    BY <1>1, UntilIs DEF hs, n
  <2>2. until = IF h = n THEN Len(chosen) ELSE hs[h + 1] - 1
    BY DEF UntilOf, hs, n
  <2>3. PieceOf(chosen, cut, h).length = Least(ClusterBytes * (until - b + 1), cut - e)
    BY DEF PieceOf, hs
  <2> HIDE DEF until, b
  <2>4. e \in Nat /\ u \in Nat /\ until \in Int /\ b \in Int
    BY <1>2, <2>1
  <2>5. ClusterBytes * (until - b + 1) = u - e
    BY <1>2, <2>4
  <2>6. edge[h] = e /\ e < cut
    BY <1>4, <1>5 DEF b
  <2>7. edge[h + 1] = Least(u, cut) /\ e < u
    <3>1. e < u
      <4>1. ClusterBytes \in Nat \ {0}
        BY SearchAssumption
      <4>2. ClusterBytes * (b - 1) + ClusterBytes = ClusterBytes * b
        BY <1>2, <2>4
      <4>3. ClusterBytes * b <= ClusterBytes * until
        BY <1>2, <2>1, Times
      <4> DEFINE w == ClusterBytes * b
      <4>4. e + ClusterBytes = w /\ w <= u /\ w \in Int
        BY <1>2, <2>4, <4>2, <4>3
      <4> HIDE DEF e, u, w
      <4>5. QED
        BY <2>4, <4>1, <4>4
    <3>2. CASE h = n
      <4>1. edge[h + 1] = cut /\ cut <= u
        BY <1>3, <1>4, <2>2, <3>2
      <4>2. Least(u, cut) = cut
        <5> HIDE DEF u
        <5>1. QED
          BY <1>3, <2>4, <4>1 DEF Least
      <4>3. QED
        BY <3>1, <4>1, <4>2
    <3>3. CASE h # n
      <4>1. h + 1 \in 1 .. n
        BY <1>1, <3>3
      <4>2. edge[h + 1] = ClusterBytes * (hs[h + 1] - 1) /\ edge[h + 1] < cut
        BY <1>4, <1>5, <4>1
      <4>3. edge[h + 1] = u
        BY <2>2, <3>3, <4>2
      <4>4. Least(u, cut) = u
        <5> HIDE DEF u
        <5>1. QED
          BY <1>3, <2>4, <4>2, <4>3 DEF Least
      <4>5. QED
        BY <3>1, <4>3, <4>4
    <3>4. QED
      BY <3>2, <3>3
  <2> HIDE DEF e, u
  <2>8. PieceOf(chosen, cut, h).length = Least(u - e, cut - e)
    BY <2>3, <2>5
  <2>9. /\ e < Least(u, cut) /\ Least(u, cut) <= cut /\ Least(u, cut) <= u
        /\ Least(u - e, cut - e) = Least(u, cut) - e
    BY <1>3, <2>4, <2>6, <2>7 DEF Least
  <2>10. QED
    BY <2>6, <2>7, <2>8, <2>9 DEF u, until
<1>9. QED
  BY <1>4, <1>6, <1>7, <1>8 DEF hs, n, edge

\* The bytes of the chosen clusters, up to some length.
ByteOf(chosen, x) == ClusterBytes * (chosen[x \div ClusterBytes + 1] - 1) + (x % ClusterBytes)

Spelt(chosen, cut) == [b \in 1 .. cut |-> ByteOf(chosen, b - 1)]

\* The first byte of a cluster, and the ones after it.
LEMMA ByteIs ==
  ASSUME NEW chosen, NEW i \in Nat \ {0}, NEW r \in 0 .. ClusterBytes - 1
  PROVE  ByteOf(chosen, ClusterBytes * (i - 1) + r) = ClusterBytes * (chosen[i] - 1) + r
<1> DEFINE x == ClusterBytes * (i - 1) + r
<1>1. ClusterBytes \in Nat \ {0} /\ i - 1 \in Nat
  BY SearchAssumption
<1>2. x \div ClusterBytes = i - 1 /\ x % ClusterBytes = r
  BY <1>1, DivIs
<1> HIDE DEF x
<1>3. x \div ClusterBytes + 1 = i
  BY <1>2
<1>4. QED
  BY <1>2, <1>3, Zenon DEF ByteOf, x

LEMMA SpeltIs ==
  ASSUME NEW chosen \in Clustered, NEW cut \in 0 .. ClusterBytes * Len(chosen)
  PROVE  Spelt(chosen, cut) \in Seq(Nat) /\ Len(Spelt(chosen, cut)) = cut
<1>1. ClusterBytes \in Nat \ {0} /\ Len(chosen) \in Nat
  BY SearchAssumption, ClusteredIs
<1>2. ClusterBytes * Len(chosen) \in Nat /\ cut \in Nat
  BY <1>1
<1>3. ASSUME NEW b \in 1 .. cut PROVE ByteOf(chosen, b - 1) \in Nat
  <2> DEFINE x == b - 1
             q == x \div ClusterBytes
             r == x % ClusterBytes
  <2>1. x \in Nat /\ x < ClusterBytes * Len(chosen)
    BY <1>2
  <2> HIDE DEF x
  <2>2. q \in 0 .. Len(chosen) - 1 /\ r \in Nat
    <3>1. q \in 0 .. Len(chosen) - 1
      BY <1>1, <2>1, DivBelow
    <3>2. r \in 0 .. ClusterBytes - 1
      BY <1>1, <2>1, DivSplits
    <3> HIDE DEF q, r
    <3>3. QED
      BY <1>1, <3>1, <3>2
  <2> HIDE DEF q, r
  <2>3. q + 1 \in 1 .. Len(chosen)
    BY <1>1, <2>2
  <2>4. chosen[q + 1] \in 1 .. DiskClusters
    BY <2>3, ClusteredIs
  <2>5. chosen[q + 1] - 1 \in Nat
    BY <2>4
  <2>6. ClusterBytes * (chosen[q + 1] - 1) + r \in Nat
    BY <1>1, <2>2, <2>5
  <2>7. QED
    BY <2>6 DEF ByteOf, q, r, x
<1>4. Spelt(chosen, cut) \in [1 .. cut -> Nat]
  BY <1>3 DEF Spelt
<1> DEFINE t == Spelt(chosen, cut)
<1> HIDE DEF t
<1>5. t \in Seq(Nat) /\ Len(t) = cut
  BY <1>2, <1>4 DEF t
<1>6. QED
  BY <1>5 DEF t

\* A piece is its part of them.
LEMMA PieceSpells ==
  ASSUME NEW chosen \in Clustered, NEW cut \in 0 .. ClusterBytes * Len(chosen),
         NEW h \in 1 .. Len(Heads(chosen, cut))
  PROVE  PieceBytes(PieceOf(chosen, cut, h))
           = SubSeq(Spelt(chosen, cut), Edge(chosen, cut)[h] + 1, Edge(chosen, cut)[h + 1])
<1> DEFINE hs == Heads(chosen, cut)
           b == hs[h]
           until == UntilOf(chosen, cut, h)
           p == PieceOf(chosen, cut, h)
           t == Spelt(chosen, cut)
           d == Edge(chosen, cut)[h]
           e == Edge(chosen, cut)[h + 1]
<1>1. /\ d = ClusterBytes * (b - 1) /\ d \in Nat /\ e \in Nat
      /\ d < e /\ e <= cut /\ e <= ClusterBytes * until /\ p.length = e - d
  <2>1. h + 1 \in 1 .. Len(Heads(chosen, cut)) + 1 /\ h \in 1 .. Len(Heads(chosen, cut)) + 1
    BY HeadsAre
  <2>2. QED
    BY <2>1, EdgesAre
<1>2. p.offset = ClusterBytes * (chosen[b] - 1)
  BY DEF PieceOf
<1>3. t \in Seq(Nat) /\ Len(t) = cut /\ \A x \in 1 .. cut : t[x] = ByteOf(chosen, x - 1)
  BY SpeltIs DEF Spelt
<1>4. b \in 1 .. Len(chosen) /\ until \in b .. Len(chosen)
  BY HeadsAre, UntilIs
<1>5. ClusterBytes \in Nat \ {0} /\ Len(chosen) \in Nat /\ cut \in Nat /\ chosen[b] \in Nat \ {0}
  <2>1. ClusterBytes \in Nat \ {0} /\ DiskClusters \in Nat
    BY SearchAssumption
  <2>2. Len(chosen) \in Nat /\ chosen[b] \in 1 .. DiskClusters
    BY <1>4, ClusteredIs
  <2> HIDE DEF b
  <2>3. chosen[b] \in Nat \ {0}
    BY <2>1, <2>2
  <2>4. QED
    BY <2>1, <2>2, <2>3
<1>a. d \in Nat /\ e \in Nat /\ d < e /\ e <= cut /\ cut \in Nat
  BY <1>1, <1>5
<1>6. \A k \in Nat : b + k <= until /\ ClusterBytes * (b + k - 1) < cut
                       => chosen[b + k] = chosen[b] + k
  BY RunFollows
<1>7. PieceBytes(p) = [i \in 1 .. p.length |-> p.offset + i - 1]
  BY DEF PieceBytes
<1> HIDE DEF hs, b, until, p, t, d, e
<1>8. ASSUME NEW i \in 1 .. e - d PROVE t[d + i] = p.offset + i - 1
  <2> DEFINE y == i - 1
             k == y \div ClusterBytes
             r == y % ClusterBytes
  <2>1. y \in Nat
    OBVIOUS
  <2>2. k \in Nat /\ r \in 0 .. ClusterBytes - 1 /\ y = ClusterBytes * k + r
    BY <1>5, <2>1, DivSplits
  <2>3. i = y + 1 /\ d + i \in 1 .. cut /\ d + y < e /\ d + y < cut /\ (d + i) - 1 = d + y
    BY <1>a
  <2> HIDE DEF y, k, r
  <2>4. ClusterBytes * (b + k - 1) = d + ClusterBytes * k /\ b + k - 1 \in Nat
    BY <1>1, <1>4, <1>5, <2>2
  <2> DEFINE ck == ClusterBytes * k
             cu == ClusterBytes * until
             cb == ClusterBytes * (b + k - 1)
  <2>5. ck \in Nat /\ cu \in Int /\ e <= cu /\ y = ck + r /\ cb = d + ck
    BY <1>1, <1>4, <1>5, <2>2, <2>4
  <2>6. cb < cu /\ cb < cut /\ d + y = cb + r
    <3> HIDE DEF ck, cu, cb
    <3>1. QED
      <4>1. r \in Nat
        BY <1>5, <2>2
      <4>2. QED
        BY <1>a, <2>1, <2>3, <2>5, <4>1
  <2>7. b + k - 1 < until
    BY <1>4, <1>5, <2>2, <2>6, TimesLess
  <2>8. chosen[b + k] = chosen[b] + k
    BY <1>4, <1>5, <1>6, <2>2, <2>6, <2>7
  <2>9. t[d + i] = ByteOf(chosen, ClusterBytes * ((b + k) - 1) + r)
    <3>1. t[d + i] = ByteOf(chosen, (d + i) - 1)
      BY <1>3, <2>3
    <3>2. (d + i) - 1 = ClusterBytes * ((b + k) - 1) + r
      <4>1. cb = ClusterBytes * ((b + k) - 1)
        <5>1. b + k - 1 = (b + k) - 1
          BY <1>4, <1>5, <2>2
        <5>2. QED
          BY <5>1
      <4> HIDE DEF cb
      <4>2. (d + i) - 1 = d + y /\ d + y = cb + r
        BY <2>3, <2>6
      <4>3. QED
        BY <4>1, <4>2, Zenon
    <3>3. QED
      BY <3>1, <3>2
  <2>10. t[d + i] = ClusterBytes * (chosen[b + k] - 1) + r
    <3>1. b + k \in Nat \ {0}
      BY <1>4, <2>2
    <3>2. QED
      BY <2>2, <2>9, <3>1, ByteIs
  <2>11. ClusterBytes * (chosen[b + k] - 1) = p.offset + ClusterBytes * k
    BY <1>2, <1>5, <2>2, <2>8
  <2>12. p.offset \in Nat
    BY <1>2, <1>5
  <2>13. t[d + i] = p.offset + y
    BY <2>2, <2>5, <2>10, <2>11, <2>12
  <2>14. QED
    BY <2>1, <2>3, <2>12, <2>13
<1>9. PieceBytes(p) = [i \in 1 .. e - d |-> p.offset + i - 1]
  BY <1>1, <1>7
<1> DEFINE q == SubSeq(t, d + 1, e)
<1>10. /\ q \in Seq(Nat) /\ Len(q) = e - d /\ \A i \in 1 .. e - d : q[i] = t[d + i]
  <2>1. \A x \in d + 1 .. e : t[x] \in Nat
    <3>1. \A x \in 1 .. Len(t) : t[x] \in Nat
      BY <1>3, ElementOfSeq
    <3>2. QED
      BY <1>3, <1>a, <3>1
  <2>2. /\ q \in Seq(Nat) /\ Len(q) = IF d + 1 <= e THEN e - (d + 1) + 1 ELSE 0
        /\ \A i \in 1 .. e - (d + 1) + 1 : q[i] = t[(d + 1) + i - 1]
    BY <1>a, <2>1, SubSeqProperties
  <2> HIDE DEF q
  <2>3. e - (d + 1) + 1 = e - d /\ d + 1 <= e
    BY <1>a
  <2>4. \A i \in 1 .. e - d : (d + 1) + i - 1 = d + i
    BY <1>a
  <2>5. QED
    BY <2>2, <2>3, <2>4
<1>11. q = [i \in 1 .. e - d |-> q[i]]
  <2>1. q \in [1 .. Len(q) -> Nat]
    BY <1>10, LenProperties
  <2>2. q \in [1 .. e - d -> Nat]
    BY <1>10, <2>1
  <2> HIDE DEF q
  <2>3. QED
    BY <2>2
<1> HIDE DEF q
<1>12. [i \in 1 .. e - d |-> q[i]] = [i \in 1 .. e - d |-> p.offset + i - 1]
  BY <1>8, <1>10
<1>13. QED
  BY <1>9, <1>11, <1>12 DEF q, t, d, e, p

\* The pieces hold the bytes of the chosen clusters, up to the cut.
LEMMA PiecesSpell ==
  ASSUME NEW chosen \in Clustered, NEW cut \in 0 .. ClusterBytes * Len(chosen)
  PROVE  LET ps == Pieces(chosen, cut) IN
         FlattenSeq([i \in DOMAIN ps |-> PieceBytes(ps[i])]) = Spelt(chosen, cut)
<1> DEFINE hs == Heads(chosen, cut)
           n == Len(hs)
           ps == Pieces(chosen, cut)
           ss == [i \in DOMAIN ps |-> PieceBytes(ps[i])]
           t == Spelt(chosen, cut)
           edge == Edge(chosen, cut)
<1>1. /\ n \in Nat /\ DOMAIN hs = 1 .. n
      /\ cut > 0 => n > 0
      /\ cut = 0 => n = 0
  BY HeadsAre
<1>2. ps = [h \in 1 .. n |-> PieceOf(chosen, cut, h)]
  BY <1>1, PiecesIs
<1> HIDE DEF ps
<1>3. ss = [h \in 1 .. n |-> PieceBytes(PieceOf(chosen, cut, h))]
  BY <1>2
<1>4. \A h \in 1 .. n : ss[h] = SubSeq(t, edge[h] + 1, edge[h + 1])
  <2>1. \A h \in 1 .. n : PieceBytes(PieceOf(chosen, cut, h))
                            = SubSeq(t, edge[h] + 1, edge[h + 1])
    BY PieceSpells
  <2> HIDE DEF ss, n, t, edge
  <2>2. QED
    BY <1>3, <2>1
<1>5. t \in Seq(Nat) /\ Len(t) = cut /\ cut \in Nat
  <2>1. cut \in Nat
    <3>1. ClusterBytes * Len(chosen) \in Nat
      BY SearchAssumption, ClusteredIs
    <3>2. QED
      BY <3>1
  <2>2. QED
    BY <2>1, SpeltIs
<1>6. /\ edge \in [1 .. n + 1 -> Nat] /\ edge[n + 1] = cut /\ edge[1] = 0
      /\ \A h \in 1 .. n : edge[h] < edge[h + 1] /\ edge[h + 1] <= cut
  BY EdgesAre
<1> HIDE DEF ss, hs, n, t, edge
<1>7. Len(ss) = n
  <2>1. DOMAIN ss = 1 .. n
    BY <1>3
  <2>2. QED
    BY <1>1, <1>3
<1>8. CASE cut = 0
  <2>1. n = 0 /\ 1 .. n = {}
    BY <1>1, <1>8
  <2>2. ss = <<>>
    BY <1>3, <2>1
  <2>3. FlattenSeq(ss) = ss
    BY <1>7, <2>1 DEF FlattenSeq
  <2>4. t = <<>>
    BY <1>5, <1>8
  <2>5. QED
    BY <2>2, <2>3, <2>4 DEF ss, t, ps
<1>9. CASE cut > 0
  <2>1. n \in Nat \ {0}
    BY <1>1, <1>9
  <2>2. \A h \in 1 .. n : edge[h] <= edge[h + 1] /\ edge[h + 1] <= Len(t)
    <3> SUFFICES ASSUME NEW h \in 1 .. n
                 PROVE  edge[h] <= edge[h + 1] /\ edge[h + 1] <= Len(t)
      OBVIOUS
    <3>1. edge[h] < edge[h + 1] /\ edge[h + 1] <= cut
      BY <1>6
    <3>2. h \in 1 .. n + 1 /\ h + 1 \in 1 .. n + 1
      BY <1>1
    <3>3. edge[h] \in Nat /\ edge[h + 1] \in Nat
      BY <1>6, <3>2
    <3>4. QED
      BY <1>5, <3>1, <3>3
  <2>3. edge[n + 1] = Len(t)
    BY <1>5, <1>6
  <2>4. FlattenSeq(ss) = t
    BY <1>4, <1>5, <1>6, <1>7, <2>1, <2>2, <2>3, FlattenIs
  <2>5. QED
    BY <2>4 DEF ss, t, ps
<1>10. QED
  BY <1>5, <1>8, <1>9

\* The pieces rise on the disk, with a gap between any two.
LEMMA PiecesRise ==
  ASSUME NEW chosen \in Clustered, Ascends(chosen),
         NEW cut \in 0 .. ClusterBytes * Len(chosen)
  PROVE  LET ps == Pieces(chosen, cut) IN
         \A i \in 1 .. Len(ps) - 1 : ps[i].offset + ps[i].length < ps[i + 1].offset
<1> DEFINE hs == Heads(chosen, cut)
           n == Len(hs)
           ps == Pieces(chosen, cut)
           edge == Edge(chosen, cut)
<1>1. /\ n \in Nat /\ DOMAIN hs = 1 .. n
      /\ \A h \in 1 .. n : /\ hs[h] \in 1 .. Len(chosen) /\ ~Joins(chosen, hs[h])
                           /\ ClusterBytes * (hs[h] - 1) < cut
      /\ \A g, h \in 1 .. n : g < h => hs[g] < hs[h]
  BY HeadsAre
<1>2. ps = [h \in 1 .. n |-> PieceOf(chosen, cut, h)]
  BY <1>1, PiecesIs
<1>3. Len(ps) = n /\ \A h \in 1 .. n : ps[h] = PieceOf(chosen, cut, h)
  <2> HIDE DEF ps, n
  <2>1. QED
    BY <1>1, <1>2
<1>4. /\ ClusterBytes \in Nat \ {0} /\ Len(chosen) \in Nat
      /\ \A i \in 1 .. Len(chosen) : chosen[i] \in 1 .. DiskClusters
  BY SearchAssumption, ClusteredIs
<1> SUFFICES ASSUME NEW i \in 1 .. n - 1
             PROVE  PieceOf(chosen, cut, i).offset + PieceOf(chosen, cut, i).length
                      < PieceOf(chosen, cut, i + 1).offset
  <2>1. \A i \in 1 .. n - 1 : i \in 1 .. n /\ i + 1 \in 1 .. n
    BY <1>1
  <2> HIDE DEF n
  <2>2. ASSUME NEW i \in 1 .. Len(ps) - 1
        PROVE  ps[i].offset + ps[i].length < ps[i + 1].offset
    <3>1. i \in 1 .. n /\ i + 1 \in 1 .. n /\ i \in 1 .. n - 1
      BY <1>3, <2>1
    <3>2. ps[i] = PieceOf(chosen, cut, i) /\ ps[i + 1] = PieceOf(chosen, cut, i + 1)
      BY <1>3, <3>1
    <3>3. QED
      BY <3>1, <3>2
  <2>3. QED
    BY <2>2
<1> DEFINE a == hs[i]
           b == hs[i + 1]
<1>5. i \in 1 .. n /\ i + 1 \in 1 .. n /\ i < i + 1 /\ i # n
  <2>1. n \in Nat
    BY <1>1
  <2> HIDE DEF n
  <2>2. QED
    BY <2>1
<1>6. /\ a \in 1 .. Len(chosen) /\ b \in 1 .. Len(chosen) /\ a < b /\ ~Joins(chosen, b)
      /\ ClusterBytes * (b - 1) < cut
  BY <1>1, <1>5
<1>7. UntilOf(chosen, cut, i) = b - 1
  BY <1>5 DEF UntilOf
<1>8. /\ PieceOf(chosen, cut, i).offset = ClusterBytes * (chosen[a] - 1)
      /\ PieceOf(chosen, cut, i + 1).offset = ClusterBytes * (chosen[b] - 1)
      /\ PieceOf(chosen, cut, i).length = edge[i + 1] - edge[i]
      /\ edge[i] = ClusterBytes * (a - 1) /\ edge[i + 1] = ClusterBytes * (b - 1)
  BY <1>5, EdgesAre DEF PieceOf
<1> DEFINE k == (b - 1) - a
<1>9. k \in Nat /\ a + k = b - 1 /\ ClusterBytes * (a + k - 1) < cut
  <2> HIDE DEF a, b
  <2>1. k \in Nat /\ a + k = b - 1 /\ a + k - 1 \in Nat /\ b - 1 \in Nat /\ a + k - 1 <= b - 1
    BY <1>4, <1>6
  <2> HIDE DEF k
  <2>2. ClusterBytes * (a + k - 1) <= ClusterBytes * (b - 1)
    <3>1. ClusterBytes \in Nat /\ a + k - 1 \in Int /\ b - 1 \in Int
      BY <1>4, <2>1
    <3>2. QED
      BY <2>1, <3>1, Times
  <2> DEFINE x == ClusterBytes * (a + k - 1)
             y == ClusterBytes * (b - 1)
  <2>3. x \in Nat /\ y \in Nat /\ x <= y /\ y < cut /\ cut \in Nat
    <3>1. ClusterBytes * Len(chosen) \in Nat
      BY <1>4
    <3>2. QED
      BY <1>4, <1>6, <2>1, <2>2, <3>1
  <2> HIDE DEF x, y
  <2>4. x < cut
    BY <2>3
  <2>5. QED
    BY <2>1, <2>4 DEF x
<1>10. chosen[b - 1] = chosen[a] + k
  <2>1. chosen[a + k] = chosen[a] + k
    <3>1. Heads(chosen, cut)[i] + k <= UntilOf(chosen, cut, i)
      BY <1>4, <1>6, <1>7, <1>9
    <3>2. ClusterBytes * (Heads(chosen, cut)[i] + k - 1) < cut
      BY <1>9
    <3> HIDE DEF k
    <3>3. QED
      BY <1>5, <1>9, <3>1, <3>2, RunFollows
  <2>2. QED
    BY <1>9, <2>1
<1>11. chosen[b - 1] + 1 < chosen[b]
  <2> HIDE DEF a, b
  <2>1. b > 1 /\ b - 1 \in 1 .. Len(chosen) /\ b - 1 < b
    BY <1>4, <1>6
  <2>2. chosen[b - 1] < chosen[b] /\ chosen[b] # chosen[b - 1] + 1
    BY <1>6, <2>1 DEF Ascends, Joins
  <2>3. chosen[b - 1] \in Nat /\ chosen[b] \in Nat
    BY <1>4, <1>6, <2>1
  <2>4. QED
    BY <2>2, <2>3
<1>12. chosen[a] \in Nat /\ chosen[b] \in Nat /\ a \in Nat /\ b \in Nat
  BY <1>4, <1>6
<1> DEFINE x == chosen[a]
           y == chosen[b]
<1>13. x + (b - a) < y /\ x \in Nat /\ y \in Nat
  <2> HIDE DEF a, b
  <2>1. x \in Nat /\ y \in Nat /\ k = (b - 1) - a /\ chosen[b - 1] = x + k /\ x + k + 1 < y
    BY <1>10, <1>11, <1>12
  <2> HIDE DEF x, y
  <2>2. QED
    BY <1>12, <2>1
<1> HIDE DEF a, b, x, y
<1>14. ClusterBytes * (x - 1) + (ClusterBytes * (b - 1) - ClusterBytes * (a - 1))
         = ClusterBytes * (x + (b - a) - 1)
  BY <1>4, <1>12, <1>13
<1>15. ClusterBytes * (x + (b - a) - 1) < ClusterBytes * (y - 1)
  <2> DEFINE v == x + (b - a) - 1
             w == y - 1
  <2>1. v \in Int /\ w \in Int /\ v + 1 <= w
    BY <1>12, <1>13
  <2> HIDE DEF v, w
  <2>2. ClusterBytes * (v + 1) <= ClusterBytes * w
    BY <1>4, <2>1, Times
  <2>3. ClusterBytes * (v + 1) = ClusterBytes * v + ClusterBytes
    BY <1>4, <2>1
  <2> DEFINE cv == ClusterBytes * v
             cw == ClusterBytes * w
  <2>4. cv + ClusterBytes <= cw /\ cv \in Int /\ cw \in Int
    BY <1>4, <2>1, <2>2, <2>3
  <2> HIDE DEF cv, cw
  <2>5. cv < cw
    BY <1>4, <2>4
  <2>6. QED
    BY <2>5 DEF cv, cw, v, w
<1>16. QED
  BY <1>8, <1>14, <1>15 DEF x, y

\* What is reported of some chosen clusters, those the bytes are in.
UsedOf(cut) == (cut + ClusterBytes - 1) \div ClusterBytes

LEMMA UsedIs ==
  ASSUME NEW chosen \in Clustered, NEW cut \in 0 .. ClusterBytes * Len(chosen)
  PROVE  LET u == UsedOf(cut)
             used == SubSeq(chosen, 1, u)
             t == Spelt(chosen, cut) IN
         /\ u \in 0 .. Len(chosen) /\ cut <= ClusterBytes * u
         /\ used \in Clustered /\ Len(used) = u /\ \A i \in 1 .. u : used[i] = chosen[i]
         /\ used = [i \in 1 .. u |-> t[ClusterBytes * (i - 1) + 1] \div ClusterBytes + 1]
         /\ t = SubSeq(Spelt(used, ClusterBytes * u), 1, cut)
<1> DEFINE c == ClusterBytes
           n == Len(chosen)
           u == UsedOf(cut)
           used == SubSeq(chosen, 1, u)
           t == Spelt(chosen, cut)
<1>1. c \in Nat \ {0} /\ n \in Nat /\ \A i \in 1 .. n : chosen[i] \in 1 .. DiskClusters
  BY SearchAssumption, ClusteredIs
<1>2. c * n \in Nat /\ cut \in Nat /\ cut <= c * n
  BY <1>1
<1>3. t \in Seq(Nat) /\ Len(t) = cut /\ \A b \in 1 .. cut : t[b] = ByteOf(chosen, b - 1)
  BY SpeltIs DEF Spelt
<1>u. u = (cut + c - 1) \div c
  BY DEF UsedOf
<1> HIDE DEF c, n, u, t
<1>4. /\ u \in Nat /\ c * u \in Nat /\ cut <= c * u
      /\ u > 0 => c * (u - 1) \in Nat /\ c * (u - 1) < cut
  <2> DEFINE x == cut + c - 1
             r == x % c
             cu == c * u
  <2>1. x \in Nat
    BY <1>1, <1>2
  <2> HIDE DEF x
  <2>2. u \in Nat /\ r \in 0 .. c - 1 /\ x = c * u + r
    BY <1>1, <1>u, <2>1, DivSplits DEF x
  <2> HIDE DEF r
  <2>3. cu \in Nat /\ x = cu + r /\ x = cut + (c - 1)
    BY <1>1, <1>2, <2>2 DEF x
  <2>4. c * (u - 1) = cu - c
    BY <1>1, <2>2
  <2>5. u > 0 => c * (u - 1) \in Nat
    BY <1>1, <2>2
  <2> DEFINE cl == c * (u - 1)
  <2> HIDE DEF cu, cl
  <2>6. cut <= cu
    BY <1>1, <1>2, <2>2, <2>3
  <2>7. u > 0 => cl < cut
    BY <1>1, <1>2, <2>2, <2>3, <2>4, <2>5 DEF cl
  <2>8. QED
    BY <2>2, <2>3, <2>5, <2>6, <2>7 DEF cu, cl
<1>5. u <= n
  <2>1. CASE u = 0
    BY <1>1, <2>1
  <2>2. CASE u > 0
    <3> DEFINE cl == c * (u - 1)
               cn == c * n
    <3>1. cl \in Nat /\ cn \in Nat /\ cl < cut /\ cut <= cn
      BY <1>2, <1>4, <2>2
    <3> HIDE DEF cl, cn
    <3>2. cl < cn
      BY <1>2, <3>1
    <3>3. u - 1 < n
      BY <1>1, <1>4, <3>2, TimesLess DEF cl, cn
    <3>4. QED
      BY <1>1, <1>4, <3>3
  <2>3. QED
    BY <1>4, <2>1, <2>2
<1>6. u \in 0 .. n
  BY <1>1, <1>4, <1>5
<1>7. used \in Clustered /\ Len(used) = u /\ \A i \in 1 .. u : used[i] = chosen[i]
  <2>1. \A i \in 1 .. u : chosen[i] \in 1 .. DiskClusters
    BY <1>1, <1>6
  <2>2. /\ used \in Seq(1 .. DiskClusters) /\ Len(used) = IF 1 <= u THEN u - 1 + 1 ELSE 0
        /\ \A i \in 1 .. u - 1 + 1 : used[i] = chosen[1 + i - 1]
    BY <1>4, <2>1, SubSeqProperties
  <2> HIDE DEF used
  <2>3. u - 1 + 1 = u /\ \A i \in 1 .. u : 1 + i - 1 = i
    BY <1>4
  <2>4. Len(used) = u
    BY <1>4, <2>2, <2>3
  <2>5. QED
    BY <2>2, <2>3, <2>4 DEF Clustered
<1> HIDE DEF used
<1>8. ASSUME NEW i \in 1 .. u
      PROVE  used[i] = t[c * (i - 1) + 1] \div c + 1
  <2> DEFINE x == c * (i - 1)
  <2>1. i \in Nat \ {0} /\ i - 1 \in Nat /\ u - 1 \in Nat /\ i - 1 <= u - 1 /\ i \in 1 .. n
    BY <1>1, <1>6
  <2>2. x \in Nat
    BY <1>1, <2>1
  <2>3. x <= c * (u - 1)
    BY <1>1, <2>1, Times
  <2>4. x + 1 \in 1 .. cut
    <3> DEFINE cl == c * (u - 1)
    <3>1. cl \in Nat /\ cl < cut /\ x <= cl
      BY <1>4, <2>1, <2>3
    <3> HIDE DEF x, cl
    <3>2. QED
      BY <1>2, <2>2, <3>1
  <2>5. t[x + 1] = ByteOf(chosen, x + 0)
    <3> HIDE DEF x
    <3>1. (x + 1) - 1 = x + 0
      BY <2>2
    <3>2. t[x + 1] = ByteOf(chosen, (x + 1) - 1)
      BY <1>3, <2>4
    <3>3. QED
      BY <3>1, <3>2
  <2>6. t[x + 1] = c * (chosen[i] - 1) + 0
    <3>1. 0 \in 0 .. ClusterBytes - 1
      BY <1>1 DEF c
    <3>2. ByteOf(chosen, ClusterBytes * (i - 1) + 0) = ClusterBytes * (chosen[i] - 1) + 0
      BY <2>1, <3>1, ByteIs
    <3>3. QED
      BY <2>5, <3>2 DEF c
  <2> HIDE DEF x
  <2>7. chosen[i] \in 1 .. DiskClusters
    BY <1>1, <2>1
  <2>8. (c * (chosen[i] - 1) + 0) \div c = chosen[i] - 1
    <3>1. chosen[i] - 1 \in Nat /\ 0 \in 0 .. c - 1
      BY <1>1, <2>7
    <3>2. QED
      BY <1>1, <3>1, DivIs
  <2>9. (chosen[i] - 1) + 1 = chosen[i]
    BY <2>7
  <2>10. t[x + 1] \div c + 1 = chosen[i]
    BY <2>6, <2>8, <2>9
  <2>11. QED
    BY <1>7, <2>10 DEF x
<1>9. used = [i \in 1 .. u |-> t[c * (i - 1) + 1] \div c + 1]
  <2>1. used \in [1 .. u -> 1 .. DiskClusters]
    BY <1>7, LenProperties DEF Clustered
  <2>2. QED
    BY <1>8, <2>1
<1>10. t = SubSeq(Spelt(used, c * u), 1, cut)
  <2> DEFINE w == Spelt(used, c * u)
             q == SubSeq(w, 1, cut)
  <2>1. w \in Seq(Nat) /\ Len(w) = c * u
    <3>1. c * u \in 0 .. ClusterBytes * Len(used)
      BY <1>4, <1>7 DEF c
    <3>2. QED
      BY <1>7, <3>1, SpeltIs
  <2>2. \A b \in 1 .. c * u : w[b] = ByteOf(used, b - 1)
    BY DEF Spelt
  <2> HIDE DEF w
  <2> DEFINE cu == c * u
  <2>3. cu \in Nat /\ cut <= cu /\ Len(w) = cu /\ \A b \in 1 .. cu : w[b] = ByteOf(used, b - 1)
    BY <1>4, <2>1, <2>2
  <2> HIDE DEF cu
  <2>4. q \in Seq(Nat) /\ Len(q) = cut /\ \A b \in 1 .. cut : q[b] = w[b]
    <3>1. \A b \in 1 .. cut : w[b] \in Nat
      <4>1. \A b \in 1 .. Len(w) : w[b] \in Nat
        BY <2>1, ElementOfSeq
      <4>2. QED
        BY <1>2, <2>3, <4>1
    <3>2. /\ q \in Seq(Nat) /\ Len(q) = IF 1 <= cut THEN cut - 1 + 1 ELSE 0
          /\ \A b \in 1 .. cut - 1 + 1 : q[b] = w[1 + b - 1]
      BY <1>2, <3>1, SubSeqProperties
    <3> HIDE DEF q
    <3>3. cut - 1 + 1 = cut /\ \A b \in 1 .. cut : 1 + b - 1 = b
      BY <1>2
    <3>4. Len(q) = cut
      BY <1>2, <3>2, <3>3
    <3>5. QED
      BY <3>2, <3>3, <3>4
  <2> HIDE DEF q
  <2>5. ASSUME NEW b \in 1 .. cut PROVE q[b] = t[b]
    <3> DEFINE x == b - 1
               k == x \div c
    <3>1. x \in Nat /\ x < cu /\ b \in 1 .. cu
      BY <1>2, <2>3
    <3>2. k \in 0 .. u - 1
      <4> HIDE DEF x
      <4>1. x < c * u
        BY <3>1 DEF cu
      <4>2. QED
        BY <1>1, <1>4, <3>1, <4>1, DivBelow
    <3> HIDE DEF k
    <3>3. k + 1 \in 1 .. u
      BY <1>4, <3>2
    <3>4. used[k + 1] = chosen[k + 1]
      BY <1>7, <3>3
    <3>5. ByteOf(used, x) = ByteOf(chosen, x)
      BY <3>4 DEF ByteOf, k, c
    <3>6. q[b] = ByteOf(used, x) /\ t[b] = ByteOf(chosen, x)
      BY <1>3, <2>3, <2>4, <3>1
    <3>7. QED
      BY <3>5, <3>6
  <2>6. q = t
    BY <1>3, <2>4, <2>5, SeqEqual
  <2>7. QED
    BY <2>6 DEF q, w
<1>11. QED
  BY <1>4, <1>6, <1>7, <1>9, <1>10 DEF c, n, u, used, t

\* A report of some chosen clusters, that says what was judged of them.
JudgedReport(r) ==
  \E chosen \in Clustered : \E cut \in 0 .. ClusterBytes * Len(chosen) :
    /\ Ascends(chosen)
    /\ r.pieces = Pieces(chosen, cut) /\ r.length = cut
    /\ r.status = "valid" => Judge(chosen).valid /\ Judge(chosen).length = cut

LEMMA ReportTrue ==
  ASSUME disk \in Disk, result # None => JudgedReport(result)
  PROVE  ReportIsJudged
<1> SUFFICES ASSUME JudgedReport(result), result # None PROVE ReportIsJudged
  BY DEF ReportIsJudged
<1>1. PICK chosen \in Clustered : \E cut \in 0 .. ClusterBytes * Len(chosen) :
        /\ Ascends(chosen)
        /\ result.pieces = Pieces(chosen, cut) /\ result.length = cut
        /\ result.status = "valid" => Judge(chosen).valid /\ Judge(chosen).length = cut
  BY DEF JudgedReport
<1>2. PICK cut \in 0 .. ClusterBytes * Len(chosen) :
        /\ Ascends(chosen)
        /\ result.pieces = Pieces(chosen, cut) /\ result.length = cut
        /\ result.status = "valid" => Judge(chosen).valid /\ Judge(chosen).length = cut
  BY <1>1
<1> DEFINE ps == result.pieces
           bytes == FlattenSeq([i \in DOMAIN ps |-> PieceBytes(ps[i])])
           t == Spelt(chosen, cut)
           u == UsedOf(cut)
           used == SubSeq(chosen, 1, u)
           o == Judge(used)
<1>3. bytes = t
  BY <1>2, PiecesSpell
<1>4. Len(t) = cut
  BY SpeltIs
<1>5. /\ u \in 0 .. Len(chosen) /\ cut <= ClusterBytes * u
      /\ used \in Clustered /\ Len(used) = u /\ \A i \in 1 .. u : used[i] = chosen[i]
      /\ used = [i \in 1 .. u |-> t[ClusterBytes * (i - 1) + 1] \div ClusterBytes + 1]
      /\ t = SubSeq(Spelt(used, ClusterBytes * u), 1, cut)
  BY UsedIs
<1>6. \A i \in 1 .. Len(ps) - 1 : ps[i].offset + ps[i].length < ps[i + 1].offset
  BY <1>2, PiecesRise
<1> HIDE DEF ps, bytes, t, u, used, o
<1>7. (Len(bytes) + ClusterBytes - 1) \div ClusterBytes = u
  BY <1>3, <1>4 DEF u, UsedOf
<1>8. [i \in 1 .. ((Len(bytes) + ClusterBytes - 1) \div ClusterBytes) |->
         bytes[ClusterBytes * (i - 1) + 1] \div ClusterBytes + 1] = used
  BY <1>3, <1>5, <1>7
<1>9. bytes = SubSeq(Bytes(used), 1, result.length)
  <2>1. Bytes(used) = Spelt(used, ClusterBytes * u)
    BY <1>5 DEF Bytes, Spelt, Held, ByteOf
  <2>2. QED
    BY <1>2, <1>3, <1>5, <2>1
<1>10. result.status = "valid" => o.valid /\ o.length = result.length
  <2> SUFFICES ASSUME result.status = "valid" PROVE o.valid /\ o.length = result.length
    OBVIOUS
  <2>1. Judge(chosen).valid /\ Judge(chosen).length = cut
    BY <1>2
  <2>2. Len(used) <= Len(chosen) /\ \A i \in 1 .. Len(used) : used[i] = chosen[i]
    <3>1. Len(chosen) \in Nat
      BY ClusteredIs
    <3>2. Len(used) = u /\ \A i \in 1 .. u : used[i] = chosen[i]
      BY <1>5
    <3>3. u \in 0 .. Len(chosen)
      BY <1>5
    <3>4. QED
      BY <3>1, <3>2, <3>3
  <2>3. cut <= ClusterBytes * Len(used)
    BY <1>5
  <2>4. Judge(used).valid /\ Judge(used).length = Judge(chosen).length
    BY <1>5, <2>1, <2>2, <2>3, JudgeCut
  <2>5. QED
    BY <1>2, <2>1, <2>4 DEF o
<1>11. Len(bytes) = result.length
  BY <1>2, <1>3, <1>4
<1>12. QED
  BY <1>6, <1>8, <1>9, <1>10, <1>11 DEF ReportIsJudged, ps, bytes, o

LEMMA FinishIsJudged ==
  ASSUME NEW chosen \in Clustered, Ascends(chosen), NEW length \in Nat, NEW status,
         status = "valid" => Judge(chosen).valid /\ Judge(chosen).length = length
                               /\ length <= ClusterBytes * Len(chosen)
  PROVE  /\ JudgedReport(Finish(chosen, length, status))
         /\ \A why : JudgedReport([Finish(chosen, length, status) EXCEPT !.why = why])
<1> DEFINE cut == Least(length, Held(chosen))
           f == Finish(chosen, length, status)
<1>1. /\ cut \in 0 .. ClusterBytes * Len(chosen)
      /\ length <= ClusterBytes * Len(chosen) => cut = length
  <2> DEFINE held == ClusterBytes * Len(chosen)
  <2>1. held \in Nat
    BY SearchAssumption, ClusteredIs
  <2> HIDE DEF held
  <2>2. Least(length, held) \in 0 .. held /\ (length <= held => Least(length, held) = length)
    BY <2>1 DEF Least
  <2>3. QED
    BY <2>2 DEF held, Held
<1> HIDE DEF cut
<1>2. f = [pieces |-> Pieces(chosen, cut), length |-> cut, status |-> status, why |-> "done"]
  BY DEF Finish, cut
<1> HIDE DEF f
<1>3. f.pieces = Pieces(chosen, cut) /\ f.length = cut /\ f.status = status
  BY <1>2
<1>4. \A why : LET g == [f EXCEPT !.why = why] IN
                 g.pieces = f.pieces /\ g.length = f.length /\ g.status = f.status
  BY <1>2
<1>5. status = "valid" => Judge(chosen).valid /\ Judge(chosen).length = cut
  BY <1>1
<1>6. JudgedReport(f)
  BY <1>1, <1>3, <1>5 DEF JudgedReport
<1>7. ASSUME NEW why PROVE JudgedReport([f EXCEPT !.why = why])
  <2> DEFINE g == [f EXCEPT !.why = why]
  <2>1. g.pieces = Pieces(chosen, cut) /\ g.length = cut /\ g.status = status
    BY <1>3, <1>4
  <2> HIDE DEF g
  <2>2. JudgedReport(g)
    BY <1>1, <1>5, <2>1 DEF JudgedReport
  <2>3. QED
    BY <2>2 DEF g
<1>8. QED
  BY <1>6, <1>7 DEF f

-----------------------------------------------------------------------------
(* The path.                                                               *)

Entry == [at : 1 .. DiskClusters, verified : Nat, stale : Nat,
          low : {"high", "lower"}, by : Outcomes]

IsPath(p) == p \in Seq(Entry) /\ \A i, j \in 1 .. Len(p) : i < j => p[i].at < p[j].at

AtsOf(p) == [i \in DOMAIN p |-> p[i].at]

\* Clusters that may follow a path.
Follows(places, p) ==
  /\ places \in Clustered /\ Ascends(places)
  /\ p # <<>> => \A i \in 1 .. Len(places) : p[Len(p)].at < places[i]

LEMMA EntryIs ==
  ASSUME NEW p, IsPath(p)
  PROVE  /\ Len(p) \in Nat /\ DOMAIN p = 1 .. Len(p)
         /\ \A i \in 1 .. Len(p) : /\ p[i] \in Entry
                                   /\ p[i].at \in 1 .. DiskClusters /\ p[i].verified \in Nat
                                   /\ p[i].stale \in Nat
         /\ AtsOf(p) \in Clustered /\ Len(AtsOf(p)) = Len(p) /\ Ascends(AtsOf(p))
         /\ \A i \in 1 .. Len(p) : AtsOf(p)[i] = p[i].at
<1>1. p \in Seq(Entry) /\ \A i, j \in 1 .. Len(p) : i < j => p[i].at < p[j].at
  BY DEF IsPath
<1>2. Len(p) \in Nat /\ DOMAIN p = 1 .. Len(p)
  BY <1>1, LenProperties
<1>3. \A i \in 1 .. Len(p) : p[i] \in Entry
  BY <1>1, ElementOfSeq
<1>4. \A e \in Entry : e.at \in 1 .. DiskClusters /\ e.verified \in Nat /\ e.stale \in Nat
  BY DEF Entry
<1> DEFINE q == AtsOf(p)
           n == Len(p)
<1>5. q = [i \in 1 .. n |-> p[i].at]
  BY <1>2 DEF AtsOf
<1> HIDE DEF q
<1>6. q \in [1 .. n -> 1 .. DiskClusters] /\ \A i \in 1 .. n : q[i] = p[i].at
  BY <1>3, <1>4, <1>5
<1>7. q \in Clustered /\ Len(q) = n
  <2> HIDE DEF n
  <2>1. n \in Nat
    BY <1>2 DEF n
  <2>2. QED
    <3> DEFINE T == 1 .. DiskClusters
    <3>1. q \in [1 .. n -> T]
      BY <1>6
    <3> HIDE DEF T
    <3>2. q \in Seq(T) /\ Len(q) = n
      BY <2>1, <3>1
    <3>3. QED
      BY <3>2 DEF Clustered, T
<1>8. Ascends(q)
  BY <1>1, <1>6, <1>7 DEF Ascends
<1>9. QED
  BY <1>2, <1>3, <1>4, <1>6, <1>7, <1>8 DEF q

\* One cluster after another makes a longer path.
LEMMA PushAllIs ==
  ASSUME NEW p, IsPath(p), NEW places, Follows(places, p), NEW o \in Outcomes
  PROVE  LET q == PushAll(p, places, o) IN
         /\ IsPath(q) /\ Len(q) = Len(p) + Len(places)
         /\ AtsOf(q) = AtsOf(p) \o places
<1> DEFINE before == IF p = <<>> THEN 0 ELSE Last(p).verified
           stale  == IF p = <<>> THEN 0 ELSE Last(p).stale
           High(i) == /\ p = <<>> \/ AllHigh(p)
                      /\ \A j \in 1 .. i : disk[places[j]].heat = "high"
           E(i) == [at       |-> places[i],
                    verified |-> Most(before, o.length),
                    stale    |-> IF o.length > before THEN i - 1 ELSE stale + i,
                    low      |-> IF High(i) THEN "high" ELSE "lower",
                    by       |-> o]
           tail == [i \in DOMAIN places |-> E(i)]
           n == Len(p)
           m == Len(places)
           q == PushAll(p, places, o)
<1>1. q = p \o tail
  BY DEF PushAll
<1>2. /\ n \in Nat /\ DOMAIN p = 1 .. n
      /\ \A i \in 1 .. n : /\ p[i] \in Entry /\ p[i].at \in 1 .. DiskClusters
                           /\ p[i].verified \in Nat /\ p[i].stale \in Nat
      /\ AtsOf(p) \in Clustered /\ Len(AtsOf(p)) = n /\ \A i \in 1 .. n : AtsOf(p)[i] = p[i].at
  BY EntryIs
<1>3. /\ m \in Nat /\ DOMAIN places = 1 .. m /\ places \in Clustered
      /\ \A i \in 1 .. m : places[i] \in 1 .. DiskClusters
      /\ \A i, j \in 1 .. m : i < j => places[i] < places[j]
      /\ p # <<>> => \A i \in 1 .. m : p[n].at < places[i]
  BY ClusteredIs DEF Follows, Ascends
<1>4. p \in Seq(Entry) /\ \A i, j \in 1 .. n : i < j => p[i].at < p[j].at
  BY DEF IsPath
<1>5. before \in Nat /\ stale \in Nat
  <2>1. CASE p = <<>>
    BY <2>1
  <2>2. CASE p # <<>>
    <3>1. n \in 1 .. n
      <4>1. n # 0
        BY <1>4, <2>2
      <4>2. QED
        BY <1>2, <4>1
    <3>2. QED
      BY <1>2, <2>2, <3>1 DEF Last
  <2>3. QED
    BY <2>1, <2>2
<1>6. o.length \in Nat
  BY DEF Outcomes
<1> HIDE DEF before, stale, High, n, m, q
<1>7. ASSUME NEW i \in 1 .. m PROVE E(i) \in Entry
  <2> DEFINE low == IF High(i) THEN "high" ELSE "lower"
             verified == Most(before, o.length)
             late == IF o.length > before THEN i - 1 ELSE stale + i
  <2>1. low \in {"high", "lower"}
    OBVIOUS
  <2>2. verified \in Nat
    BY <1>5, <1>6 DEF Most
  <2>3. late \in Nat
    BY <1>3, <1>5
  <2>4. places[i] \in 1 .. DiskClusters
    BY <1>3
  <2> HIDE DEF low, verified, late
  <2>5. [at |-> places[i], verified |-> verified, stale |-> late, low |-> low, by |-> o] \in Entry
    BY <2>1, <2>2, <2>3, <2>4 DEF Entry
  <2>6. QED
    BY <2>5 DEF low, verified, late
<1>8. \A i \in 1 .. m : E(i).at = places[i]
  OBVIOUS
<1> HIDE DEF E
<1>9. tail \in [1 .. m -> Entry] /\ \A i \in 1 .. m : tail[i].at = places[i]
  BY <1>3, <1>7, <1>8
<1> HIDE DEF tail
<1>10. tail \in Seq(Entry) /\ Len(tail) = m
  BY <1>3, <1>9
<1>11. /\ q \in Seq(Entry) /\ Len(q) = n + m
       /\ \A i \in 1 .. n + m : q[i] = IF i <= n THEN p[i] ELSE tail[i - n]
  BY <1>1, <1>4, <1>10, ConcatProperties DEF n
<1>12. \A i \in 1 .. n + m : q[i].at = IF i <= n THEN p[i].at ELSE places[i - n]
  <2> SUFFICES ASSUME NEW i \in 1 .. n + m
               PROVE  q[i].at = IF i <= n THEN p[i].at ELSE places[i - n]
    OBVIOUS
  <2>1. i <= n \/ i - n \in 1 .. m
    BY <1>2, <1>3
  <2>2. QED
    BY <1>9, <1>11, <2>1
<1>13. \A i \in 1 .. n : p # <<>> /\ p[i].at <= p[n].at
  <2> SUFFICES ASSUME NEW i \in 1 .. n PROVE p # <<>> /\ p[i].at <= p[n].at
    OBVIOUS
  <2>1. n # 0 /\ n \in 1 .. n
    BY <1>2
  <2>2. p # <<>>
    BY <2>1 DEF n
  <2>3. p[i].at \in Int /\ p[n].at \in Int
    BY <1>2, <2>1
  <2>4. CASE i = n
    BY <2>2, <2>3, <2>4
  <2>5. CASE i < n
    BY <1>4, <2>1, <2>2, <2>3, <2>5
  <2>6. QED
    BY <1>2, <2>4, <2>5
<1>14. ASSUME NEW i \in 1 .. n + m, NEW j \in 1 .. n + m, i < j
       PROVE  q[i].at < q[j].at
  <2>1. CASE j <= n
    <3>1. i \in 1 .. n /\ j \in 1 .. n
      BY <1>2, <1>14, <2>1
    <3>2. QED
      BY <1>4, <1>12, <1>14, <2>1, <3>1
  <2>2. CASE i <= n /\ j > n
    <3>1. i \in 1 .. n /\ j - n \in 1 .. m
      BY <1>2, <1>3, <2>2
    <3>2. p[i].at <= p[n].at /\ p[n].at < places[j - n]
      BY <1>3, <1>13, <3>1
    <3>3. n \in 1 .. n
      BY <1>2, <3>1
    <3>4. p[i].at \in Int /\ p[n].at \in Int /\ places[j - n] \in Int
      BY <1>2, <1>3, <3>1, <3>3
    <3>5. p[i].at < places[j - n]
      BY <3>2, <3>4
    <3>6. q[i].at = p[i].at /\ q[j].at = places[j - n]
      BY <1>2, <1>12, <2>2
    <3>7. QED
      BY <3>5, <3>6
  <2>3. CASE i > n
    <3>1. i - n \in 1 .. m /\ j - n \in 1 .. m /\ i - n < j - n /\ ~(i <= n) /\ ~(j <= n)
      BY <1>2, <1>3, <1>14, <2>3
    <3>2. places[i - n] < places[j - n]
      BY <1>3, <3>1
    <3>3. q[i].at = places[i - n] /\ q[j].at = places[j - n]
      BY <1>12, <3>1
    <3>4. QED
      BY <3>2, <3>3
  <2>4. QED
    BY <1>2, <2>1, <2>2, <2>3
<1>15. IsPath(q)
  BY <1>11, <1>14 DEF IsPath
<1>16. AtsOf(q) = AtsOf(p) \o places
  <2> DEFINE a == AtsOf(q)
             b == AtsOf(p)
             c == b \o places
  <2>1. a \in Clustered /\ Len(a) = n + m /\ \A i \in 1 .. n + m : a[i] = q[i].at
    BY <1>11, <1>15, EntryIs
  <2>2. b \in Clustered /\ Len(b) = n /\ \A i \in 1 .. n : b[i] = p[i].at
    BY <1>2
  <2> HIDE DEF a, b
  <2>3. /\ c \in Clustered /\ Len(c) = n + m
        /\ \A i \in 1 .. n + m : c[i] = IF i <= n THEN b[i] ELSE places[i - n]
    BY <1>3, <2>2, ConcatProperties DEF Clustered, m
  <2> HIDE DEF c
  <2>4. \A i \in 1 .. n + m : a[i] = c[i]
    <3> SUFFICES ASSUME NEW i \in 1 .. n + m PROVE a[i] = c[i]
      OBVIOUS
    <3>1. CASE i <= n
      <4>1. i \in 1 .. n
        BY <1>2, <3>1
      <4>2. QED
        BY <1>12, <2>1, <2>2, <2>3, <3>1, <4>1
    <3>2. CASE ~(i <= n)
      BY <1>12, <2>1, <2>3, <3>2
    <3>3. QED
      BY <3>1, <3>2
  <2>5. a = c
    BY <2>1, <2>3, <2>4, SeqEqual DEF Clustered
  <2>6. QED
    BY <2>5 DEF a, b, c
<1>17. QED
  BY <1>11, <1>15, <1>16 DEF q, n, m

IsPart(q, run) == \E m \in 0 .. Len(run) : q = SubSeq(run, 1, m)

LEMMA PartIs ==
  ASSUME NEW T, NEW run \in Seq(T), NEW m \in 0 .. Len(run)
  PROVE  LET q == SubSeq(run, 1, m) IN
         q \in Seq(T) /\ Len(q) = m /\ \A i \in 1 .. m : q[i] = run[i]
<1> DEFINE q == SubSeq(run, 1, m)
<1>1. Len(run) \in Nat /\ m \in Nat
  BY LenProperties
<1>2. \A i \in 1 .. m : run[i] \in T
  BY <1>1, ElementOfSeq
<1>3. /\ q \in Seq(T) /\ Len(q) = IF 1 <= m THEN m - 1 + 1 ELSE 0
      /\ \A i \in 1 .. m - 1 + 1 : q[i] = run[1 + i - 1]
  BY <1>1, <1>2, SubSeqProperties
<1> HIDE DEF q
<1>4. m - 1 + 1 = m /\ \A i \in 1 .. m : 1 + i - 1 = i
  BY <1>1
<1>5. Len(q) = m
  BY <1>1, <1>3, <1>4
<1>6. QED
  BY <1>3, <1>4, <1>5 DEF q

\* A part of a part is a part, and so is all of it.
LEMMA PartOfPart ==
  ASSUME NEW T, NEW run \in Seq(T)
  PROVE  /\ IsPart(run, run) /\ IsPart(<<>>, run)
         /\ \A m \in 0 .. Len(run) : \A k \in 0 .. m :
              IsPart(SubSeq(SubSeq(run, 1, m), 1, k), run)
<1>1. Len(run) \in Nat
  BY LenProperties
<1>2. run = SubSeq(run, 1, Len(run))
  <2>1. Len(run) \in 0 .. Len(run)
    BY <1>1
  <2> DEFINE q == SubSeq(run, 1, Len(run))
  <2>2. q \in Seq(T) /\ Len(q) = Len(run) /\ \A i \in 1 .. Len(run) : q[i] = run[i]
    BY <2>1, PartIs
  <2> HIDE DEF q
  <2>3. run = q
    BY <2>2, SeqEqual
  <2>4. QED
    BY <2>3 DEF q
<1>3. <<>> = SubSeq(run, 1, 0)
  BY SubSeqEmpty
<1>4. ASSUME NEW m \in 0 .. Len(run), NEW k \in 0 .. m
      PROVE  SubSeq(SubSeq(run, 1, m), 1, k) = SubSeq(run, 1, k) /\ k \in 0 .. Len(run)
  <2> DEFINE a == SubSeq(run, 1, m)
             b == SubSeq(a, 1, k)
             c == SubSeq(run, 1, k)
  <2>1. a \in Seq(T) /\ Len(a) = m /\ \A i \in 1 .. m : a[i] = run[i]
    BY PartIs
  <2>2. k \in 0 .. Len(run)
    BY <1>1
  <2>3. c \in Seq(T) /\ Len(c) = k /\ \A i \in 1 .. k : c[i] = run[i]
    BY <2>2, PartIs
  <2> HIDE DEF a, c
  <2>4. b \in Seq(T) /\ Len(b) = k /\ \A i \in 1 .. k : b[i] = a[i]
    BY <2>1, PartIs
  <2> HIDE DEF b
  <2>5. \A i \in 1 .. k : b[i] = c[i]
    BY <2>1, <2>2, <2>3, <2>4
  <2>6. b = c
    BY <2>3, <2>4, <2>5, SeqEqual
  <2>7. QED
    BY <2>2, <2>6 DEF a, b, c
<1>5. Len(run) \in 0 .. Len(run) /\ 0 \in 0 .. Len(run)
  BY <1>1
<1>6. QED
  BY <1>2, <1>3, <1>4, <1>5 DEF IsPart

\* What a verified length takes in of a run is the first part of it.
LEMMA TakenIsPart ==
  ASSUME NEW T, NEW run \in Seq(T), NEW had, NEW o
  PROVE  IsPart(Taken(run, had, o), run)
<1> DEFINE stop == Covered(run, had, o)
<1>1. Len(run) \in Nat /\ DOMAIN run = 1 .. Len(run)
  BY LenProperties
<1>2. stop \in 0 .. Len(run)
  <2> DEFINE Reached(i) == IF o.valid THEN had + ClusterBytes * (i - 1) < o.length
                                      ELSE had + ClusterBytes * i <= o.length
             list == [i \in DOMAIN run |-> ~Reached(i)]
             S == {i \in 1 .. Len(list) : list[i]}
  <2>1. stop = IF S # {} THEN Min(S) ELSE 0
    BY DEF Covered, SelectInSeq
  <2>2. Len(list) = Len(run)
    <3> HIDE DEF Reached
    <3>1. QED
      BY <1>1
  <2> HIDE DEF list
  <2>3. S \subseteq 1 .. Len(run)
    BY <2>2
  <2> HIDE DEF S
  <2>4. CASE S = {}
    BY <1>1, <2>1, <2>4
  <2>5. CASE S # {}
    <3>1. IsFiniteSet(S) /\ S \in SUBSET Int
      <4>1. IsFiniteSet(1 .. Len(run))
        BY <1>1, FS_Interval
      <4>2. IsFiniteSet(S)
        BY <2>3, <4>1, FS_Subset
      <4>3. QED
        BY <2>3, <4>2
    <3>2. \E i \in S : \A j \in S : i <= j
      BY <2>5, <3>1, LeastExists
    <3>3. Min(S) \in S
      BY <3>2 DEF Min
    <3>4. stop = Min(S)
      BY <2>1, <2>5
    <3> HIDE DEF stop
    <3>5. stop \in 1 .. Len(run)
      BY <2>3, <3>3, <3>4
    <3>6. QED
      BY <1>1, <3>5
  <2>6. QED
    BY <2>4, <2>5
<1>3. Taken(run, had, o) = IF stop = 0 THEN run ELSE SubSeq(run, 1, stop - 1)
  BY DEF Taken
<1> HIDE DEF stop
<1>4. CASE stop = 0
  BY <1>3, <1>4, PartOfPart
<1>5. CASE stop # 0
  <2>1. stop - 1 \in 0 .. Len(run)
    BY <1>1, <1>2, <1>5
  <2>2. QED
    BY <1>3, <1>5, <2>1 DEF IsPart
<1>6. QED
  BY <1>4, <1>5

\* So are the clusters of a gallop.
LEMMA GallopsIsPart ==
  ASSUME NEW T, NEW run \in Seq(T), NEW o
  PROVE  IsPart(Gallops(run, o), run)
<1> DEFINE wanted == IF o.valid \/ o.ran_out THEN Taken(run, Held(path), o) ELSE <<>>
           Bad(i) == Refused(PushAll(path, SubSeq(wanted, 1, i - 1), o), wanted[i])
           filler == {i \in DOMAIN wanted : Bad(i)}
<1>1. Gallops(run, o) = IF filler = {} THEN wanted ELSE SubSeq(wanted, 1, Min(filler) - 1)
  BY DEF Gallops
<1>2. IsPart(wanted, run)
  BY TakenIsPart, PartOfPart
<1> HIDE DEF wanted, Bad
<1>3. PICK m \in 0 .. Len(run) : wanted = SubSeq(run, 1, m)
  BY <1>2 DEF IsPart
<1>4. wanted \in Seq(T) /\ Len(wanted) = m
  BY <1>3, PartIs
<1>5. m \in Nat /\ filler \subseteq 1 .. m
  <2>1. DOMAIN wanted = 1 .. Len(wanted)
    BY <1>4, LenProperties
  <2>2. Len(run) \in Nat
    BY LenProperties
  <2>3. QED
    BY <1>4, <2>1, <2>2
<1> HIDE DEF filler
<1>6. CASE filler = {}
  BY <1>1, <1>2, <1>6
<1>7. CASE filler # {}
  <2>1. IsFiniteSet(filler) /\ filler \in SUBSET Int
    <3>1. IsFiniteSet(1 .. m)
      BY <1>5, FS_Interval
    <3>2. IsFiniteSet(filler)
      BY <1>5, <3>1, FS_Subset
    <3>3. QED
      BY <1>5, <3>2
  <2>2. \E i \in filler : \A j \in filler : i <= j
    BY <1>7, <2>1, LeastExists
  <2>3. Min(filler) \in filler
    BY <2>2 DEF Min
  <2> DEFINE k == Min(filler) - 1
  <2>4. k \in 0 .. m
    <3>1. PICK l \in 1 .. m : l = Min(filler)
      BY <1>5, <2>3
    <3>2. l - 1 \in 0 .. m
      BY <1>5
    <3>3. QED
      BY <3>1, <3>2
  <2> HIDE DEF k
  <2>5. IsPart(SubSeq(SubSeq(run, 1, m), 1, k), run)
    BY <2>4, PartOfPart
  <2>6. QED
    BY <1>1, <1>3, <1>7, <2>5 DEF k
<1>8. QED
  BY <1>6, <1>7

\* A path is extended by a part of what may follow it, and what is judged
\* whole with all of it is whole with the part that holds it.
LEMMA GrownIs ==
  ASSUME disk \in Disk, NEW p, IsPath(p), NEW run, Follows(run, p),
         NEW taken, IsPart(taken, run), NEW o \in Outcomes
  PROVE  LET q == PushAll(p, taken, o) IN
         /\ IsPath(q) /\ Len(q) = Len(p) + Len(taken) /\ Len(taken) \in 0 .. Len(run)
         /\ o = Judge(AtsOf(p) \o run) /\ o.valid /\ o.length <= Held(q)
              => JudgedReport(Done(q, o.length))
<1>1. PICK m \in 0 .. Len(run) : taken = SubSeq(run, 1, m)
  BY DEF IsPart
<1>2. /\ Len(run) \in Nat /\ run \in Clustered /\ Ascends(run)
      /\ p # <<>> => \A i \in 1 .. Len(run) : p[Len(p)].at < run[i]
  BY ClusteredIs DEF Follows
<1>3. taken \in Clustered /\ Len(taken) = m /\ \A i \in 1 .. m : taken[i] = run[i]
  BY <1>1, <1>2, PartIs DEF Clustered
<1>4. m \in Nat /\ \A i \in 1 .. m : i \in 1 .. Len(run)
  BY <1>2
<1>5. Follows(taken, p)
  <2>1. Ascends(taken)
    BY <1>2, <1>3, <1>4 DEF Ascends
  <2>2. p # <<>> => \A i \in 1 .. Len(taken) : p[Len(p)].at < taken[i]
    BY <1>2, <1>3, <1>4
  <2>3. QED
    BY <1>3, <2>1, <2>2 DEF Follows
<1> DEFINE q == PushAll(p, taken, o)
<1>6. IsPath(q) /\ Len(q) = Len(p) + Len(taken) /\ AtsOf(q) = AtsOf(p) \o taken
  BY <1>5, PushAllIs
<1> HIDE DEF q
<1>7. ASSUME o = Judge(AtsOf(p) \o run), o.valid, o.length <= Held(q)
      PROVE  JudgedReport(Done(q, o.length))
  <2> DEFINE a == AtsOf(p)
             n == Len(p)
             all == a \o run
             b == AtsOf(q)
  <2>1. a \in Clustered /\ Len(a) = n /\ n \in Nat
    BY EntryIs
  <2>2. b \in Clustered /\ Len(b) = Len(q) /\ Ascends(b) /\ Len(q) = n + m
    BY <1>3, <1>6, EntryIs
  <2>3. b = a \o taken
    BY <1>6
  <2> HIDE DEF a, b
  <2>4. /\ all \in Clustered /\ Len(all) = n + Len(run)
        /\ \A i \in 1 .. n + Len(run) : all[i] = IF i <= n THEN a[i] ELSE run[i - n]
    <3> DEFINE T == 1 .. DiskClusters
    <3>1. a \in Seq(T) /\ run \in Seq(T) /\ Len(a) = n
      BY <1>2, <2>1 DEF Clustered
    <3> HIDE DEF T, n
    <3>2. /\ all \in Seq(T) /\ Len(all) = Len(a) + Len(run)
          /\ \A i \in 1 .. Len(a) + Len(run) : all[i] = IF i <= Len(a) THEN a[i] ELSE run[i - Len(a)]
      BY <3>1, ConcatProperties
    <3> HIDE DEF all
    <3>3. QED
      BY <3>1, <3>2 DEF Clustered, T
  <2>5. \A i \in 1 .. n + m : b[i] = IF i <= n THEN a[i] ELSE taken[i - n]
    BY <1>3, <2>1, <2>3, ConcatProperties DEF Clustered
  <2> HIDE DEF all, n
  <2>6. Len(b) <= Len(all) /\ Len(b) = n + m
    BY <1>2, <1>4, <2>1, <2>2, <2>4
  <2>7. \A i \in 1 .. Len(b) : b[i] = all[i]
    <3> SUFFICES ASSUME NEW i \in 1 .. n + m PROVE b[i] = all[i]
      BY <2>6
    <3>1. i \in 1 .. n + Len(run)
      BY <1>2, <1>4, <2>1
    <3>2. CASE i <= n
      BY <2>4, <2>5, <3>1, <3>2
    <3>3. CASE ~(i <= n)
      <4>1. i - n \in 1 .. m
        BY <1>4, <2>1, <3>3
      <4>2. taken[i - n] = run[i - n]
        BY <1>3, <4>1
      <4>3. QED
        BY <2>4, <2>5, <3>1, <3>3, <4>2
    <3>4. QED
      BY <3>2, <3>3
  <2>8. Judge(all).valid /\ Judge(all).length <= ClusterBytes * Len(b)
    BY <1>7, <2>2 DEF all, a, Held
  <2>9. Judge(b).valid /\ Judge(b).length = Judge(all).length
    BY <2>2, <2>4, <2>6, <2>7, <2>8, JudgeCut
  <2>10. Judge(all) = o
    BY <1>7 DEF all, a
  <2>11. o.length \in Nat
    BY DEF Outcomes
  <2>12. JudgedReport(Finish(b, o.length, "valid"))
    BY <2>2, <2>8, <2>9, <2>10, <2>11, FinishIsJudged
  <2>13. Done(q, o.length) = Finish(b, o.length, "valid")
    BY DEF Done, b, AtsOf
  <2>14. QED
    BY <2>12, <2>13
<1>8. QED
  BY <1>3, <1>6, <1>7 DEF q

LEMMA RunIs ==
  ASSUME NEW from \in 1 .. DiskClusters, NEW n \in Nat, NEW p, IsPath(p),
         p # <<>> => p[Len(p)].at < from
  PROVE  Follows(Run(from, n), p)
<1> DEFINE m == Least(n, DiskClusters + 1 - from)
           run == Run(from, n)
<1>1. m \in Nat /\ from + m - 1 <= DiskClusters /\ DiskClusters \in Nat
  <2>1. DiskClusters \in Nat
    BY SearchAssumption
  <2>2. from \in Nat /\ from <= DiskClusters
    BY <2>1
  <2>3. m = IF n < DiskClusters + 1 - from THEN n ELSE DiskClusters + 1 - from
    BY DEF Least
  <2> HIDE DEF m
  <2>4. QED
    BY <2>1, <2>2, <2>3
<1>2. run = [i \in 1 .. m |-> from + i - 1]
  BY DEF Run
<1> HIDE DEF m, run
<1> DEFINE T == 1 .. DiskClusters
<1>3. \A i \in 1 .. m : from + i - 1 \in T
  BY <1>1
<1> HIDE DEF T
<1>4. run \in [1 .. m -> T] /\ \A i \in 1 .. m : run[i] = from + i - 1
  BY <1>2, <1>3
<1>5. run \in Seq(T) /\ Len(run) = m
  BY <1>1, <1>4
<1>6. Ascends(run)
  <2>1. \A i, j \in 1 .. m : i < j => from + i - 1 < from + j - 1
    BY <1>1
  <2>2. QED
    BY <1>4, <1>5, <2>1 DEF Ascends
<1>7. p # <<>> => \A i \in 1 .. Len(run) : p[Len(p)].at < run[i]
  <2> SUFFICES ASSUME p # <<>>, NEW i \in 1 .. m PROVE p[Len(p)].at < from + i - 1
    BY <1>4, <1>5
  <2>1. Len(p) \in 1 .. Len(p)
    <3>1. p \in Seq(Entry)
      BY DEF IsPath
    <3>2. Len(p) # 0
      BY <3>1
    <3>3. QED
      BY <3>2, EntryIs
  <2>2. p[Len(p)].at \in Int
    BY <2>1, EntryIs
  <2>3. p[Len(p)].at < from
    OBVIOUS
  <2> DEFINE at == p[Len(p)].at
  <2> HIDE DEF at
  <2>4. at \in Int /\ at < from
    BY <2>2, <2>3 DEF at
  <2>5. at < from + i - 1
    BY <1>1, <2>4
  <2>6. QED
    BY <2>5 DEF at
<1>8. QED
  BY <1>5, <1>6, <1>7 DEF Follows, Clustered, T, run

LEMMA OneFollows ==
  ASSUME NEW at \in 1 .. DiskClusters, NEW p, p # <<>> => p[Len(p)].at < at
  PROVE  Follows(<<at>>, p) /\ IsPart(<<at>>, <<at>>)
<1>1. <<at>> \in Seq(1 .. DiskClusters) /\ Len(<<at>>) = 1
  OBVIOUS
<1>2. \A i \in 1 .. 1 : <<at>>[i] = at
  OBVIOUS
<1>3. Ascends(<<at>>)
  BY <1>1 DEF Ascends
<1>4. p # <<>> => \A i \in 1 .. Len(<<at>>) : p[Len(p)].at < <<at>>[i]
  BY <1>1, <1>2
<1>5. QED
  BY <1>1, <1>3, <1>4, PartOfPart DEF Follows, Clustered

\* A path cut after some of its clusters.
LEMMA CutIs ==
  ASSUME NEW p, IsPath(p), NEW n \in 1 .. Len(p)
  PROVE  LET q == SubSeq(p, 1, n) IN IsPath(q) /\ Len(q) = n /\ q # <<>>
<1> DEFINE q == SubSeq(p, 1, n)
<1>1. p \in Seq(Entry) /\ \A i, j \in 1 .. Len(p) : i < j => p[i].at < p[j].at
  BY DEF IsPath
<1>2. Len(p) \in Nat
  BY EntryIs
<1>3. n \in 0 .. Len(p) /\ n # 0 /\ \A i \in 1 .. n : i \in 1 .. Len(p)
  BY <1>2
<1>4. q \in Seq(Entry) /\ Len(q) = n /\ \A i \in 1 .. n : q[i] = p[i]
  BY <1>1, <1>3, PartIs
<1> HIDE DEF q
<1>5. \A i, j \in 1 .. n : i < j => q[i].at < q[j].at
  BY <1>1, <1>3, <1>4
<1>6. q # <<>>
  BY <1>3, <1>4
<1>7. QED
  BY <1>4, <1>5, <1>6 DEF IsPath, q

LEMMA LastIs ==
  ASSUME NEW p, IsPath(p), p # <<>>
  PROVE  Len(p) \in 1 .. Len(p) /\ Last(p).at \in 1 .. DiskClusters /\ Last(p) = p[Len(p)]
<1>1. p \in Seq(Entry) /\ Len(p) \in Nat
  BY EntryIs DEF IsPath
<1>2. Len(p) # 0
  BY <1>1
<1>3. Len(p) \in 1 .. Len(p)
  BY <1>1, <1>2
<1>4. QED
  BY <1>3, EntryIs DEF Last

\* What is judged of a path and what may follow it.
LEMMA JudgedAlong ==
  ASSUME disk \in Disk, NEW p, IsPath(p), NEW run, Follows(run, p)
  PROVE  Judge(AtsOf(p) \o run) \in Outcomes
<1>1. AtsOf(p) \in Clustered /\ run \in Clustered
  BY EntryIs DEF Follows
<1>2. AtsOf(p) \o run \in Clustered
  BY <1>1, ConcatProperties DEF Clustered
<1>3. QED
  BY <1>2, JudgeBounds

-----------------------------------------------------------------------------
(* The decisions to return to, and the best path.                          *)

Decision == [base : Nat \ {0}, next_k : Nat, window : Nat]

\* The decisions follow the path, the last one at its end or before.
IsStack(s, n) ==
  /\ s \in Seq(Decision)
  /\ \A i \in 1 .. Len(s) : s[i].base <= n
  /\ \A i, j \in 1 .. Len(s) : i < j => s[i].base <= s[j].base

LEMMA StackEmpty ==
  ASSUME NEW n PROVE IsStack(<<>>, n)
<1>1. <<>> \in Seq(Decision) /\ Len(<<>>) = 0
  BY EmptySeq
<1>2. QED
  BY <1>1 DEF IsStack

LEMMA StackTop ==
  ASSUME NEW n \in Nat, NEW s, IsStack(s, n), s # <<>>
  PROVE  /\ Last(s) \in Decision /\ Last(s).base \in 1 .. n /\ Last(s).next_k \in Nat
         /\ Last(s).window \in Nat
         /\ IsStack(Front(s), Last(s).base)
<1> DEFINE l == Len(s)
           f == Front(s)
<1>1. /\ s \in Seq(Decision) /\ l \in Nat
      /\ \A i \in 1 .. l : s[i] \in Decision /\ s[i].base <= n
      /\ \A i, j \in 1 .. l : i < j => s[i].base <= s[j].base
  BY ElementOfSeq, LenProperties DEF IsStack
<1>2. l # 0 /\ l \in 1 .. l /\ l - 1 \in 0 .. l
  BY <1>1
<1>3. \A d \in Decision : d.base \in Nat \ {0} /\ d.next_k \in Nat /\ d.window \in Nat
  BY DEF Decision
<1>4. Last(s) = s[l] /\ s[l] \in Decision /\ s[l].base <= n
  BY <1>1, <1>2 DEF Last
<1>5. f = SubSeq(s, 1, l - 1)
  BY DEF Front
<1>6. f \in Seq(Decision) /\ Len(f) = l - 1 /\ \A i \in 1 .. l - 1 : f[i] = s[i]
  <2>1. s \in Seq(Decision) /\ l - 1 \in 0 .. Len(s)
    BY <1>1, <1>2
  <2> HIDE DEF f, l
  <2>2. QED
    BY <1>5, <2>1, PartIs
<1> HIDE DEF f, l
<1>7. \A i \in 1 .. l - 1 : i \in 1 .. l /\ i < l
  BY <1>1
<1>8. \A i \in 1 .. l - 1 : f[i].base <= s[l].base
  BY <1>1, <1>2, <1>6, <1>7
<1>9. \A i, j \in 1 .. l - 1 : i < j => f[i].base <= f[j].base
  BY <1>1, <1>6, <1>7
<1>10. IsStack(f, s[l].base)
  BY <1>6, <1>8, <1>9 DEF IsStack
<1>11. s[l].base \in 1 .. n
  BY <1>3, <1>4
<1>12. QED
  BY <1>3, <1>4, <1>10, <1>11 DEF f

LEMMA StackHigher ==
  ASSUME NEW n \in Nat, NEW s, IsStack(s, n), NEW m \in Nat, n <= m
  PROVE  IsStack(s, m)
<1>1. /\ s \in Seq(Decision)
      /\ \A i \in 1 .. Len(s) : s[i] \in Decision /\ s[i].base <= n
      /\ \A i, j \in 1 .. Len(s) : i < j => s[i].base <= s[j].base
  BY ElementOfSeq DEF IsStack
<1>2. ASSUME NEW i \in 1 .. Len(s) PROVE s[i].base <= m
  <2> DEFINE b == s[i].base
  <2>1. b \in Nat /\ b <= n
    BY <1>1 DEF Decision
  <2> HIDE DEF b
  <2>2. b <= m
    BY <2>1
  <2>3. QED
    BY <2>2 DEF b
<1>3. QED
  BY <1>1, <1>2 DEF IsStack

\* Decisions are stacked on those before them.
LEMMA StackGrows ==
  ASSUME NEW n \in Nat, NEW s, IsStack(s, n), NEW m \in Nat, n <= m,
         NEW t \in Seq(Decision),
         \A i \in 1 .. Len(t) : n <= t[i].base /\ t[i].base <= m,
         \A i, j \in 1 .. Len(t) : i < j => t[i].base <= t[j].base
  PROVE  IsStack(s \o t, m)
<1> DEFINE k == Len(s)
           l == Len(t)
           q == s \o t
<1>1. /\ s \in Seq(Decision) /\ k \in Nat
      /\ \A i \in 1 .. k : s[i] \in Decision /\ s[i].base <= n
      /\ \A i, j \in 1 .. k : i < j => s[i].base <= s[j].base
  BY ElementOfSeq, LenProperties DEF IsStack
<1>2. l \in Nat /\ \A i \in 1 .. l : t[i] \in Decision
  BY ElementOfSeq, LenProperties
<1>3. \A d \in Decision : d.base \in Nat
  BY DEF Decision
<1>4. /\ q \in Seq(Decision) /\ Len(q) = k + l
      /\ \A i \in 1 .. k + l : q[i] = IF i <= k THEN s[i] ELSE t[i - k]
  BY <1>1, ConcatProperties
<1>5. /\ \A i \in 1 .. l : n <= t[i].base /\ t[i].base <= m /\ t[i].base \in Nat
      /\ \A i, j \in 1 .. l : i < j => t[i].base <= t[j].base
      /\ \A i \in 1 .. k : s[i].base \in Nat /\ s[i].base <= n /\ s[i].base <= m
  BY <1>1, <1>2, <1>3
<1> HIDE DEF k, l, q
<1>6. ASSUME NEW i \in 1 .. k + l PROVE q[i].base <= m
  <2>1. CASE i <= k
    BY <1>1, <1>4, <1>5, <2>1
  <2>2. CASE ~(i <= k)
    <3>1. i - k \in 1 .. l
      BY <1>1, <1>2, <2>2
    <3>2. QED
      BY <1>4, <1>5, <2>2, <3>1
  <2>3. QED
    BY <2>1, <2>2
<1>7. ASSUME NEW i \in 1 .. k + l, NEW j \in 1 .. k + l, i < j
      PROVE  q[i].base <= q[j].base
  <2>1. CASE j <= k
    <3>1. i \in 1 .. k /\ j \in 1 .. k /\ i <= k
      BY <1>1, <1>7, <2>1
    <3>2. QED
      BY <1>1, <1>4, <1>7, <2>1, <3>1
  <2>2. CASE i <= k /\ ~(j <= k)
    <3>1. i \in 1 .. k /\ j - k \in 1 .. l
      BY <1>1, <1>2, <2>2
    <3>2. s[i].base \in Nat /\ s[i].base <= n /\ n <= t[j - k].base /\ t[j - k].base \in Nat
      BY <1>5, <3>1
    <3>3. q[i] = s[i] /\ q[j] = t[j - k]
      BY <1>4, <2>2
    <3>4. s[i].base <= t[j - k].base
      BY <3>2
    <3>5. QED
      BY <3>3, <3>4
  <2>3. CASE ~(i <= k)
    <3>1. i - k \in 1 .. l /\ j - k \in 1 .. l /\ i - k < j - k /\ ~(j <= k)
      BY <1>1, <1>2, <1>7, <2>3
    <3>2. t[i - k].base <= t[j - k].base
      BY <1>5, <3>1
    <3>3. q[i] = t[i - k] /\ q[j] = t[j - k]
      BY <1>4, <2>3, <3>1
    <3>4. QED
      BY <3>2, <3>3
  <2>4. QED
    BY <2>1, <2>2, <2>3
<1>8. QED
  BY <1>4, <1>6, <1>7 DEF IsStack, q

LEMMA StackOne ==
  ASSUME NEW n \in Nat, NEW s, IsStack(s, n), NEW m \in Nat, NEW f \in Decision,
         n <= f.base, f.base <= m
  PROVE  IsStack(Append(s, f), m)
<1>1. s \in Seq(Decision) /\ f.base \in Nat
  BY DEF IsStack, Decision
<1>2. <<f>> \in Seq(Decision) /\ Len(<<f>>) = 1 /\ \A i \in 1 .. 1 : <<f>>[i] = f
  OBVIOUS
<1>3. n <= m
  <2> DEFINE b == f.base
  <2>1. b \in Nat /\ n <= b /\ b <= m
    BY <1>1
  <2> HIDE DEF b
  <2>2. QED
    BY <2>1
<1>4. Append(s, f) = s \o <<f>>
  BY <1>1
<1>5. \A i \in 1 .. Len(<<f>>) : n <= <<f>>[i].base /\ <<f>>[i].base <= m
  BY <1>2
<1>6. \A i, j \in 1 .. Len(<<f>>) : i < j => <<f>>[i].base <= <<f>>[j].base
  BY <1>2
<1>7. IsStack(s \o <<f>>, m)
  BY <1>2, <1>3, <1>5, <1>6, StackGrows
<1>8. QED
  BY <1>4, <1>7

LEMMA StackFrames ==
  ASSUME NEW n \in Nat, NEW s, IsStack(s, n), NEW m \in Nat, n <= m,
         NEW from \in Nat \ {0}, n <= from, NEW to \in Int, to <= m, NEW w \in Nat
  PROVE  IsStack(s \o Frames(from, to, w), m)
<1> DEFINE t == Frames(from, to, w)
           l == IF to < from THEN 0 ELSE (to - from) + 1
<1>1. l \in Nat /\ 1 .. ((to - from) + 1) = 1 .. l
  OBVIOUS
<1>2. t = [i \in 1 .. l |-> Frame(from + i - 1, 1, w)]
  <2>1. to - from + 1 = (to - from) + 1
    OBVIOUS
  <2>2. t = [i \in 1 .. ((to - from) + 1) |-> Frame(from + i - 1, 1, w)]
    BY <2>1 DEF Frames
  <2>3. QED
    BY <1>1, <2>2
<1>3. \A i \in 1 .. l : /\ from + i - 1 \in Nat \ {0} /\ n <= from + i - 1
                        /\ from + i - 1 <= m
  OBVIOUS
<1> HIDE DEF l, t
<1>4. \A i \in 1 .. l : /\ Frame(from + i - 1, 1, w) \in Decision
                        /\ Frame(from + i - 1, 1, w).base = from + i - 1
  <2> SUFFICES ASSUME NEW i \in 1 .. l
               PROVE  /\ Frame(from + i - 1, 1, w) \in Decision
                      /\ Frame(from + i - 1, 1, w).base = from + i - 1
    OBVIOUS
  <2> DEFINE b == from + i - 1
  <2>1. b \in Nat \ {0}
    BY <1>3
  <2> HIDE DEF b
  <2>2. Frame(b, 1, w) \in Decision /\ Frame(b, 1, w).base = b
    BY <2>1 DEF Frame, Decision
  <2>3. QED
    BY <2>2 DEF b
<1>5. t \in [1 .. l -> Decision] /\ \A i \in 1 .. l : t[i].base = from + i - 1
  BY <1>2, <1>4
<1>6. t \in Seq(Decision) /\ Len(t) = l
  BY <1>1, <1>5
<1>7. \A i \in 1 .. Len(t) : n <= t[i].base /\ t[i].base <= m
  BY <1>3, <1>5, <1>6
<1>8. \A i, j \in 1 .. Len(t) : i < j => t[i].base <= t[j].base
  <2>1. \A i, j \in 1 .. l : i < j => from + i - 1 <= from + j - 1
    BY <1>1
  <2>2. QED
    BY <1>5, <1>6, <2>1
<1>9. QED
  BY <1>6, <1>7, <1>8, StackGrows DEF t

IsBest(b) == b # None => b.chosen \in Clustered /\ Ascends(b.chosen) /\ b.length \in Nat

LEMMA RememberIs ==
  ASSUME IsBest(best), NEW p, IsPath(p), NEW o \in Outcomes
  PROVE  IsBest(Remember(p, o))
<1> DEFINE r == [chosen |-> [i \in DOMAIN p |-> p[i].at], length |-> o.length]
<1>1. Remember(p, o) = r \/ Remember(p, o) = best
  BY DEF Remember
<1>2. r.chosen = AtsOf(p) /\ r.length = o.length
  BY DEF AtsOf
<1>3. o.length \in Nat
  BY DEF Outcomes
<1> HIDE DEF r
<1>4. IsBest(r)
  BY <1>2, <1>3, EntryIs DEF IsBest
<1>5. QED
  BY <1>1, <1>4

LEMMA StoppedIsJudged ==
  ASSUME IsBest(best), NEW why
  PROVE  JudgedReport(BestOrNothing(best, why))
<1>1. CASE best = None
  <2>1. 1 \in 1 .. DiskClusters
    BY SearchAssumption
  <2>2. <<1>> \in Clustered /\ Len(<<1>>) = 1
    BY <2>1 DEF Clustered
  <2>3. Ascends(<<1>>)
    BY <2>2 DEF Ascends
  <2>4. JudgedReport([Finish(<<1>>, 0, "rejected") EXCEPT !.why = why])
    BY <2>2, <2>3, FinishIsJudged
  <2>5. QED
    BY <1>1, <2>4 DEF BestOrNothing
<1>2. CASE best # None
  <2>1. best.chosen \in Clustered /\ Ascends(best.chosen) /\ best.length \in Nat
    BY <1>2 DEF IsBest
  <2>2. JudgedReport([Finish(best.chosen, best.length, "partial") EXCEPT !.why = why])
    BY <2>1, FinishIsJudged
  <2>3. QED
    BY <1>2, <2>2 DEF BestOrNothing
<1>3. QED
  BY <1>1, <1>2

\* Whatever is made of a candidate, the path goes on from the clusters kept,
\* and a file that is complete is what was judged.
LEMMA ConsiderIs ==
  ASSUME disk \in Disk, NEW p, IsPath(p), p # <<>>, NEW cand \in 1 .. DiskClusters,
         Last(p).at < cand, NEW k, NEW n \in Nat, NEW run, run = Run(cand, n),
         NEW one, one = Judge(AtsOf(p) \o <<cand>>),
         NEW ahead, ahead = Judge(AtsOf(p) \o run)
  PROVE  LET c == Consider(p, cand, k, one, run, ahead) IN
         /\ IsPath(c.path) /\ Len(p) <= Len(c.path)
         /\ c.by \in Outcomes /\ c.calls \in Nat
         /\ c.verdict = "complete" => JudgedReport(Done(c.path, c.by.length))
<1> DEFINE had == Held(p)
           V(v, q, o, m) == [verdict |-> v, path |-> q, by |-> o, calls |-> m]
           more == PushAll(p, Taken(run, had, ahead), ahead)
           longer == Push(p, cand, one)
           c == Consider(p, cand, k, one, run, ahead)
           Fine(d) == /\ IsPath(d.path) /\ Len(p) <= Len(d.path)
                      /\ d.by \in Outcomes /\ d.calls \in Nat
                      /\ d.verdict = "complete" => JudgedReport(Done(d.path, d.by.length))
<1>1. /\ \/ c = V("rejected", p, one, 0)
         \/ one.valid /\ c = V("complete", longer, one, 1)
         \/ c = V("rejected", p, one, 1)
         \/ c = V("accepted", longer, one, 1)
         \/ c = V("rejected", p, ahead, 2)
         \/ c = V("rejected", more, ahead, 2)
         \/ ~ahead.valid /\ c = V("accepted", more, ahead, 2)
         \/ ahead.valid /\ ~(Held(more) < ahead.length) /\ c = V("complete", more, ahead, 2)
  BY DEF Consider
<1>2. Len(p) \in Nat /\ (p # <<>> => p[Len(p)].at < cand)
  BY EntryIs, LastIs
<1>3. Follows(<<cand>>, p) /\ IsPart(<<cand>>, <<cand>>)
  BY <1>2, OneFollows
<1>4. Follows(run, p)
  BY <1>2, RunIs
<1>5. one \in Outcomes /\ ahead \in Outcomes
  BY <1>3, <1>4, JudgedAlong
<1>6. IsPart(Taken(run, had, ahead), run)
  <2>1. run \in Seq(1 .. DiskClusters)
    BY <1>4 DEF Follows, Clustered
  <2>2. QED
    BY <2>1, TakenIsPart
<1> HIDE DEF c, had
<1>7. /\ IsPath(longer) /\ Len(p) <= Len(longer) /\ Len(longer) = Len(p) + 1
      /\ one.valid /\ one.length <= Held(longer) => JudgedReport(Done(longer, one.length))
  <2>1. longer = PushAll(p, <<cand>>, one)
    BY DEF Push
  <2>2. Len(<<cand>>) = 1
    OBVIOUS
  <2> HIDE DEF longer
  <2>3. IsPath(longer) /\ Len(longer) = Len(p) + 1
    <3> DEFINE all == <<cand>>
    <3>1. Follows(all, p) /\ IsPart(all, all) /\ longer = PushAll(p, all, one) /\ Len(all) = 1
      BY <1>3, <2>1, <2>2
    <3> HIDE DEF all
    <3>2. IsPath(longer) /\ Len(longer) = Len(p) + Len(all)
      BY <1>5, <3>1, GrownIs
    <3>3. QED
      BY <3>1, <3>2
  <2>4. one.valid /\ one.length <= Held(longer) => JudgedReport(Done(longer, one.length))
    BY <1>3, <1>5, <2>1, GrownIs
  <2>5. QED
    BY <1>2, <2>3, <2>4
<1>8. /\ IsPath(more) /\ Len(p) <= Len(more)
      /\ ahead.valid /\ ahead.length <= Held(more) => JudgedReport(Done(more, ahead.length))
  <2> DEFINE taken == Taken(run, had, ahead)
  <2>1. /\ IsPath(more) /\ Len(more) = Len(p) + Len(taken) /\ Len(taken) \in 0 .. Len(run)
        /\ ahead.valid /\ ahead.length <= Held(more) => JudgedReport(Done(more, ahead.length))
    BY <1>4, <1>5, <1>6, GrownIs
  <2> HIDE DEF more, taken
  <2>2. Len(run) \in Nat
    BY <1>4, ClusteredIs DEF Follows
  <2>3. QED
    BY <1>2, <2>1, <2>2
<1>9. one.length <= Held(longer)
  <2>1. AtsOf(p) \o <<cand>> \in Clustered /\ Len(AtsOf(p) \o <<cand>>) = Len(p) + 1
    <3>1. AtsOf(p) \in Clustered /\ Len(AtsOf(p)) = Len(p) /\ <<cand>> \in Clustered
      BY <1>3, EntryIs DEF Follows
    <3>2. QED
      BY <3>1, ConcatProperties DEF Clustered
  <2>2. QED
    BY <1>7, <2>1, JudgeBounds DEF Held
<1>10. ahead.length \in Nat /\ Held(more) \in Nat
  <2>1. Len(more) \in Nat
    BY <1>8, EntryIs
  <2>2. QED
    BY <1>5, <2>1, SearchAssumption DEF Held, Outcomes
<1> HIDE DEF longer, more
<1>11. \A v, q, o, m : /\ V(v, q, o, m).verdict = v /\ V(v, q, o, m).path = q
                       /\ V(v, q, o, m).by = o /\ V(v, q, o, m).calls = m
  OBVIOUS
<1> HIDE DEF V
<1>a. Len(p) <= Len(p)
  BY <1>2
<1>12. Fine(V("rejected", p, one, 0))
  BY <1>5, <1>11, <1>a
<1>13. one.valid => Fine(V("complete", longer, one, 1))
  BY <1>5, <1>7, <1>9, <1>11
<1>14. Fine(V("rejected", p, one, 1))
  BY <1>5, <1>11, <1>a
<1>15. Fine(V("accepted", longer, one, 1))
  BY <1>5, <1>7, <1>11
<1>16. Fine(V("rejected", p, ahead, 2))
  BY <1>5, <1>11, <1>a
<1>17. Fine(V("rejected", more, ahead, 2))
  BY <1>5, <1>8, <1>11
<1>18. Fine(V("accepted", more, ahead, 2))
  BY <1>5, <1>8, <1>11
<1>19. ahead.valid /\ ~(Held(more) < ahead.length) => Fine(V("complete", more, ahead, 2))
  <2>1. ~(Held(more) < ahead.length) => ahead.length <= Held(more)
    BY <1>10
  <2>2. QED
    BY <1>5, <1>8, <1>11, <2>1
<1> HIDE DEF Fine
<1>20. Fine(c)
  BY <1>1, <1>12, <1>13, <1>14, <1>15, <1>16, <1>17, <1>18, <1>19
<1>21. QED
  BY <1>20 DEF Fine, c

-----------------------------------------------------------------------------
(* The search.                                                             *)

Steps == {"attempt", "gallop", "extend", "candidates", "ended"}

\* Between any two steps: the path is of rising clusters, the decisions are
\* inside it, and what is reported is what was judged.
SearchInv ==
  /\ disk \in Disk /\ window \in Nat /\ step \in Steps /\ calls \in 0 .. Budget
  /\ IsPath(path) /\ IsStack(stack, Len(path)) /\ IsBest(best)
  /\ step \in {"gallop", "extend"} => path # <<>>
  /\ result # None => JudgedReport(result)

\* What was judged of a disk is judged of it when nothing changes it.
LEMMA ReportKept ==
  ASSUME disk' = disk, JudgedReport(result') PROVE JudgedReport(result)'
<1>1. \A places : Judge(places)' = Judge(places)
  BY DEF Judge
<1>2. QED
  BY <1>1 DEF JudgedReport

LEMMA InvKept ==
  ASSUME SearchInv, disk' = disk, window' \in Nat, step' \in Steps, calls' \in 0 .. Budget,
         IsPath(path'), IsStack(stack', Len(path')), IsBest(best'),
         step' \in {"gallop", "extend"} => path' # <<>>,
         result' = result \/ JudgedReport(result')
  PROVE  SearchInv'
<1>1. disk' \in Disk
  BY DEF SearchInv
<1>2. result' # None => JudgedReport(result')
  BY DEF SearchInv
<1>3. result' # None => JudgedReport(result)'
  BY <1>2, ReportKept
<1>4. IsPath(path)' /\ IsStack(stack, Len(path))' /\ IsBest(best)'
  BY DEF IsPath, IsStack, IsBest
<1>5. (disk \in Disk)' /\ (window \in Nat)' /\ (step \in Steps)' /\ (calls \in 0 .. Budget)'
  BY <1>1 DEF Disk, Steps
<1>6. QED
  BY <1>3, <1>4, <1>5 DEF SearchInv

LEMMA InitInv ==
  ASSUME Init PROVE SearchInv
<1>1. IsPath(<<>>) /\ Len(<<>>) = 0
  BY EmptySeq DEF IsPath
<1>2. IsStack(<<>>, 0)
  BY StackEmpty
<1>3. window \in Nat
  BY SearchAssumption DEF Init, Least, Most
<1>4. calls \in 0 .. Budget
  BY SearchAssumption DEF Init
<1>5. QED
  BY <1>1, <1>2, <1>3, <1>4 DEF Init, SearchInv, Disk, Steps, IsBest

LEMMA AttemptInv ==
  ASSUME SearchInv, Attempt PROVE SearchInv'
<1> DEFINE o == Judge(<<1>>)
<1>1. /\ disk' = disk /\ window' = window /\ calls' = 1 /\ stack' = <<>>
      /\ IF ~(o.ran_out \/ o.valid)
         THEN Stopped("header") /\ UNCHANGED <<path, best>>
         ELSE /\ path' = Push(<<>>, 1, o)
              /\ IF o.valid
                 THEN End(Done(path', o.length)) /\ UNCHANGED best
                 ELSE /\ best' = Remember(path', o)
                      /\ step' = "gallop" /\ UNCHANGED result
  BY DEF Attempt
<1>2. disk \in Disk /\ window \in Nat /\ IsPath(path) /\ IsBest(best)
  BY DEF SearchInv
<1>3. 1 \in 0 .. Budget /\ 1 \in 1 .. DiskClusters
  BY SearchAssumption
<1>4. IsPath(<<>>) /\ Len(<<>>) = 0 /\ AtsOf(<<>>) \o <<1>> = <<1>>
  <2>1. IsPath(<<>>) /\ Len(<<>>) = 0
    BY EmptySeq DEF IsPath
  <2>2. AtsOf(<<>>) = <<>>
    BY DEF AtsOf
  <2>3. <<>> \o <<1>> = <<1>>
    BY ConcatEmptySeq
  <2>4. QED
    BY <2>1, <2>2, <2>3
<1>5. Follows(<<1>>, <<>>) /\ IsPart(<<1>>, <<1>>)
  BY <1>3, OneFollows
<1>6. o \in Outcomes /\ o.length <= ClusterBytes * Len(<<1>>)
  <2>1. <<1>> \in Clustered
    BY <1>5 DEF Follows
  <2>2. QED
    BY <1>2, <2>1, JudgeBounds
<1>7. IsStack(<<>>, Len(path'))
  BY StackEmpty
<1>8. CASE ~(o.ran_out \/ o.valid)
  <2>1. step' = "ended" /\ result' = BestOrNothing(best, "header") /\ path' = path /\ best' = best
    BY <1>1, <1>8 DEF Stopped, End
  <2>2. JudgedReport(result')
    BY <1>2, <2>1, StoppedIsJudged
  <2> HIDE DEF o
  <2>3. QED
    BY <1>1, <1>2, <1>3, <1>7, <2>1, <2>2, InvKept DEF Steps
<1>9. CASE o.ran_out \/ o.valid
  <2> DEFINE p == PushAll(<<>>, <<1>>, o)
  <2>1. path' = p
    BY <1>1, <1>9 DEF Push
  <2>2. Len(<<1>>) = 1
    OBVIOUS
  <2>3. /\ IsPath(p) /\ Len(p) = 1
        /\ o.valid /\ o.length <= Held(p) => JudgedReport(Done(p, o.length))
    <3> DEFINE all == <<1>>
               none == <<>>
    <3>1. /\ Follows(all, none) /\ IsPart(all, all) /\ IsPath(none)
          /\ o = Judge(AtsOf(none) \o all) /\ Len(all) = 1 /\ Len(none) = 0
      BY <1>4, <1>5, <2>2
    <3>2. p = PushAll(none, all, o)
      OBVIOUS
    <3> HIDE DEF p, o, all, none
    <3>3. IsPath(p) /\ Len(p) = Len(none) + Len(all)
      BY <1>2, <1>6, <3>1, <3>2, GrownIs
    <3>4. o.valid /\ o.length <= Held(p) => JudgedReport(Done(p, o.length))
      BY <1>2, <1>6, <3>1, <3>2, GrownIs
    <3>5. QED
      BY <3>1, <3>3, <3>4
  <2>4. o.length <= Held(p)
    BY <1>6, <2>2, <2>3 DEF Held
  <2> HIDE DEF p
  <2>5. p # <<>>
    BY <2>3
  <2>6. CASE o.valid
    <3>1. step' = "ended" /\ result' = Done(p, o.length) /\ best' = best
      BY <1>1, <1>9, <2>1, <2>6 DEF End
    <3>2. JudgedReport(result')
      BY <2>3, <2>4, <2>6, <3>1
    <3> HIDE DEF o
    <3>3. QED
      BY <1>1, <1>2, <1>3, <1>7, <2>1, <2>3, <3>1, <3>2, InvKept DEF Steps
  <2>7. CASE ~o.valid
    <3>1. step' = "gallop" /\ result' = result /\ best' = Remember(p, o)
      BY <1>1, <1>9, <2>1, <2>7
    <3>2. IsBest(best')
      BY <1>2, <1>6, <2>3, <3>1, RememberIs
    <3> HIDE DEF o
    <3>3. QED
      BY <1>1, <1>2, <1>3, <1>7, <2>1, <2>3, <2>5, <3>1, <3>2, InvKept DEF Steps
  <2>8. QED
    BY <2>6, <2>7
<1>10. QED
  BY <1>8, <1>9

LEMMA GallopInv ==
  ASSUME SearchInv, Gallop PROVE SearchInv'
<1> DEFINE start == Last(path).at + 1
           run == Run(start, RunClusters)
           o == Judge(AtsOf(path) \o run)
           taken == Gallops(run, o)
           p == PushAll(path, taken, o)
           s == stack \o Frames(Len(path), Len(path) + Len(taken) - 1, ContinuationWindow)
<1>1. /\ disk' = disk /\ window' = window
      /\ IF start > DiskClusters
         THEN step' = "extend" /\ UNCHANGED <<path, stack, calls, best, result>>
         ELSE IF Spent(1)
         THEN Stopped("budget") /\ UNCHANGED <<path, stack, calls, best>>
         ELSE /\ calls' = calls + 1
              /\ path' = p
              /\ stack' = s
              /\ best' = IF taken # <<>> /\ ~o.valid THEN Remember(path', o) ELSE best
              /\ IF IsWhole(path', o)
                 THEN End(Done(path', o.length))
                 ELSE /\ step' \in {"gallop", "extend"}
                      /\ UNCHANGED result
  <2>1. step = "gallop" /\ Places = AtsOf(path)
    BY DEF Gallop, Places, AtsOf
  <2>2. QED
    BY <2>1 DEF Gallop
<1>2. /\ disk \in Disk /\ window \in Nat /\ calls \in 0 .. Budget
      /\ IsPath(path) /\ IsStack(stack, Len(path)) /\ IsBest(best) /\ path # <<>>
  BY DEF SearchInv, Gallop
<1>3. /\ Len(path) \in Nat /\ Len(path) \in 1 .. Len(path)
      /\ Last(path).at \in 1 .. DiskClusters /\ Last(path) = path[Len(path)]
  BY <1>2, EntryIs, LastIs
<1>s. start \in Nat \ {0}
  BY <1>3
<1> HIDE DEF taken, p, s, o, run
<1>4. CASE start > DiskClusters
  <2>1. step' = "extend" /\ UNCHANGED <<path, stack, calls, best, result>>
    BY <1>1, <1>4
  <2> HIDE DEF start
  <2>2. QED
    BY <1>1, <1>2, <2>1, InvKept DEF Steps
<1>5. CASE ~(start > DiskClusters) /\ Spent(1)
  <2>1. Stopped("budget") /\ UNCHANGED <<path, stack, calls, best>>
    BY <1>1, <1>5
  <2>2. step' = "ended" /\ JudgedReport(result')
    BY <1>2, <2>1, StoppedIsJudged DEF Stopped, End
  <2> HIDE DEF start
  <2>3. QED
    BY <1>1, <1>2, <2>1, <2>2, InvKept DEF Steps
<1>6. CASE ~(start > DiskClusters) /\ ~Spent(1)
  <2>1. /\ calls' = calls + 1 /\ path' = p /\ stack' = s
        /\ best' = IF taken # <<>> /\ ~o.valid THEN Remember(path', o) ELSE best
        /\ IF IsWhole(path', o)
           THEN End(Done(path', o.length))
           ELSE step' \in {"gallop", "extend"} /\ UNCHANGED result
    BY <1>1, <1>6
  <2>2. start \in 1 .. DiskClusters
    BY <1>6, <1>s, SearchAssumption
  <2>3. Follows(run, path)
    <3>1. path[Len(path)].at < start
      BY <1>3
    <3>2. RunClusters \in Nat
      BY SearchAssumption
    <3> HIDE DEF start
    <3>3. QED
      BY <1>2, <2>2, <3>1, <3>2, RunIs DEF run
  <2> HIDE DEF start
  <2>4. o \in Outcomes
    BY <1>2, <2>3, JudgedAlong DEF o
  <2>5. IsPart(taken, run)
    <3>1. run \in Seq(1 .. DiskClusters)
      BY <2>3 DEF Follows, Clustered
    <3>2. QED
      BY <3>1, GallopsIsPart DEF taken
  <2>6. /\ IsPath(p) /\ Len(p) = Len(path) + Len(taken) /\ Len(taken) \in 0 .. Len(run)
        /\ o.valid /\ o.length <= Held(p) => JudgedReport(Done(p, o.length))
    BY <1>2, <2>3, <2>4, <2>5, GrownIs DEF p, o
  <2>7. Len(taken) \in Nat /\ Len(p) \in Nat
    <3>1. Len(run) \in Nat
      BY <2>3, ClusteredIs DEF Follows
    <3>2. QED
      BY <2>6, <3>1, EntryIs
  <2>8. IsStack(s, Len(p))
    <3> DEFINE to == Len(path) + Len(taken) - 1
    <3>1. to \in Int /\ to <= Len(p) /\ Len(path) <= Len(p) /\ Len(path) \in Nat \ {0}
      BY <1>3, <2>6, <2>7
    <3>2. ContinuationWindow \in Nat
      BY SearchAssumption
    <3> HIDE DEF to
    <3>3. IsStack(stack \o Frames(Len(path), to, ContinuationWindow), Len(p))
      BY <1>2, <2>7, <3>1, <3>2, StackFrames
    <3>4. QED
      BY <3>3 DEF s, to
  <2>9. IsBest(best')
    BY <1>2, <2>1, <2>4, <2>6, RememberIs
  <2>10. calls' \in 0 .. Budget
    BY <1>2, <1>6, <2>1, SearchAssumption DEF Spent
  <2>11. p # <<>>
    <3>1. Len(p) # 0
      BY <1>3, <2>6, <2>7
    <3>2. QED
      BY <3>1
  <2>12. CASE IsWhole(p, o)
    <3>1. step' = "ended" /\ result' = Done(p, o.length)
      BY <2>1, <2>12 DEF End
    <3>2. o.valid /\ o.length <= Held(p)
      <4>1. o.length \in Nat /\ Held(p) \in Nat
        BY <2>4, <2>7, SearchAssumption DEF Held, Outcomes
      <4>2. QED
        BY <2>12, <4>1 DEF IsWhole
    <3>3. JudgedReport(result')
      BY <2>6, <3>1, <3>2
    <3>4. QED
      BY <1>1, <1>2, <2>1, <2>6, <2>8, <2>9, <2>10, <3>1, <3>3, InvKept DEF Steps
  <2>13. CASE ~IsWhole(p, o)
    <3>1. step' \in {"gallop", "extend"} /\ result' = result
      BY <2>1, <2>13
    <3>2. QED
      BY <1>1, <1>2, <2>1, <2>6, <2>8, <2>9, <2>10, <2>11, <3>1, InvKept DEF Steps
  <2>14. QED
    BY <2>12, <2>13
<1>7. QED
  BY <1>4, <1>5, <1>6

LEMMA ExtendInv ==
  ASSUME SearchInv, Extend PROVE SearchInv'
<1>1. /\ UNCHANGED <<disk, window, path, calls, best>>
      /\ \/ \E why : Stopped(why) /\ UNCHANGED stack
         \/ /\ stack' = stack \/ stack' = Append(stack, Frame(Len(path), 0, window))
            /\ step' = "candidates" /\ UNCHANGED result
  BY DEF Extend
<1>2. /\ disk \in Disk /\ window \in Nat /\ calls \in 0 .. Budget
      /\ IsPath(path) /\ IsStack(stack, Len(path)) /\ IsBest(best) /\ path # <<>>
  BY DEF SearchInv, Extend
<1>3. CASE \E why : Stopped(why) /\ UNCHANGED stack
  <2>1. PICK why : Stopped(why) /\ UNCHANGED stack
    BY <1>3
  <2>2. step' = "ended" /\ JudgedReport(result') /\ stack' = stack
    BY <1>2, <2>1, StoppedIsJudged DEF Stopped, End
  <2>3. QED
    BY <1>1, <1>2, <2>2, InvKept DEF Steps
<1>4. CASE /\ stack' = stack \/ stack' = Append(stack, Frame(Len(path), 0, window))
           /\ step' = "candidates" /\ UNCHANGED result
  <2> DEFINE f == Frame(Len(path), 0, window)
  <2>1. Len(path) \in Nat \ {0}
    BY <1>2, LastIs, EntryIs
  <2>2. f \in Decision /\ f.base = Len(path)
    BY <1>2, <2>1 DEF Frame, Decision
  <2>3. IsStack(Append(stack, f), Len(path))
    <3> HIDE DEF f
    <3>1. Len(path) <= f.base /\ f.base <= Len(path)
      BY <2>1, <2>2
    <3>2. QED
      BY <1>2, <2>1, <2>2, <3>1, StackOne
  <2>4. IsStack(stack', Len(path'))
    BY <1>1, <1>2, <1>4, <2>3
  <2>5. QED
    BY <1>1, <1>2, <1>4, <2>4, InvKept DEF Steps
<1>5. QED
  BY <1>1, <1>3, <1>4

LEMMA BackUpInv ==
  ASSUME SearchInv, BackUp PROVE SearchInv'
<1>1. /\ UNCHANGED <<disk, step, window, calls, best, result>>
      /\ step = "candidates" /\ stack # <<>>
      /\ path' = SubSeq(path, 1, Last(stack).base) /\ stack' = Front(stack)
  BY DEF BackUp
<1>2. /\ disk \in Disk /\ window \in Nat /\ calls \in 0 .. Budget /\ Len(path) \in Nat
      /\ IsPath(path) /\ IsStack(stack, Len(path)) /\ IsBest(best)
  BY EntryIs DEF SearchInv
<1>3. Last(stack).base \in 1 .. Len(path) /\ IsStack(Front(stack), Last(stack).base)
  BY <1>1, <1>2, StackTop
<1>4. IsPath(path') /\ Len(path') = Last(stack).base
  BY <1>1, <1>2, <1>3, CutIs
<1>5. QED
  BY <1>1, <1>2, <1>3, <1>4, InvKept DEF Steps

LEMMA DeepenInv ==
  ASSUME SearchInv, Deepen PROVE SearchInv'
<1>1. /\ UNCHANGED <<disk, stack, calls, best>> /\ stack = <<>> /\ path' = <<>>
      /\ \/ Stopped("windows") /\ UNCHANGED window
         \/ /\ window' = Least(window * WindowFactor, MaxGapClusters)
            /\ step' = "attempt" /\ UNCHANGED result
  BY DEF Deepen
<1>2. disk \in Disk /\ window \in Nat /\ calls \in 0 .. Budget /\ IsBest(best)
  BY DEF SearchInv
<1>3. IsPath(path') /\ IsStack(stack', Len(path'))
  BY <1>1, EmptySeq, StackEmpty DEF IsPath
<1>4. CASE Stopped("windows") /\ UNCHANGED window
  <2>1. step' = "ended" /\ JudgedReport(result')
    BY <1>2, <1>4, StoppedIsJudged DEF Stopped, End
  <2>2. QED
    BY <1>1, <1>2, <1>3, <1>4, <2>1, InvKept DEF Steps
<1>5. CASE /\ window' = Least(window * WindowFactor, MaxGapClusters)
           /\ step' = "attempt" /\ UNCHANGED result
  <2>1. window * WindowFactor \in Nat /\ MaxGapClusters \in Nat
    BY <1>2, SearchAssumption
  <2>2. window' \in Nat
    BY <1>5, <2>1 DEF Least
  <2>3. QED
    BY <1>1, <1>2, <1>3, <1>5, <2>2, InvKept DEF Steps
<1>6. QED
  BY <1>1, <1>4, <1>5

LEMMA TryInv ==
  ASSUME SearchInv, Try PROVE SearchInv'
<1> DEFINE top  == Last(stack)
           kept == SubSeq(path, 1, top.base)
           k    == top.next_k
           cand == Last(kept).at + k + 1
           f    == [top EXCEPT !.next_k = k + 1]
           g    == [top EXCEPT !.next_k = top.window + 1]
           next == Append(Front(stack), f)
           run  == Run(cand, LookaheadClusters)
           narrow == Least(window, ContinuationWindow)
           one   == Judge(AtsOf(kept) \o <<cand>>)
           ahead == Judge(AtsOf(kept) \o run)
           c     == Consider(kept, cand, k, one, run, ahead)
<1>1. /\ disk' = disk /\ window' = window /\ step = "candidates" /\ stack # <<>>
      /\ IF cand > DiskClusters
         THEN /\ path' = kept
              /\ stack' = Append(Front(stack), g)
              /\ UNCHANGED <<step, calls, best, result>>
         ELSE IF Spent(c.calls)
         THEN /\ path' = kept /\ stack' = next
              /\ Stopped("budget") /\ UNCHANGED <<calls, best>>
         ELSE /\ calls' = calls + c.calls
              /\ path' = c.path
              /\ stack' = IF c.verdict = "accepted"
                          THEN next \o Frames(Len(kept) + 1, Len(c.path) - 1, narrow) ELSE next
              /\ best' = IF c.verdict = "accepted" THEN Remember(c.path, c.by) ELSE best
              /\ \/ c.verdict = "complete" /\ End(Done(c.path, c.by.length))
                 \/ c.verdict = "accepted" /\ step' = "gallop" /\ UNCHANGED result
                 \/ UNCHANGED <<step, result>>
  BY DEF Try, AtsOf
<1>2. /\ disk \in Disk /\ window \in Nat /\ calls \in 0 .. Budget /\ Len(path) \in Nat
      /\ IsPath(path) /\ IsStack(stack, Len(path)) /\ IsBest(best)
  BY EntryIs DEF SearchInv
<1>3. /\ top \in Decision /\ top.base \in 1 .. Len(path) /\ k \in Nat /\ top.window \in Nat
      /\ IsStack(Front(stack), top.base)
  BY <1>1, <1>2, StackTop
<1>4. IsPath(kept) /\ Len(kept) = top.base /\ kept # <<>>
  BY <1>2, <1>3, CutIs
<1>5. /\ f \in Decision /\ f.base = top.base
      /\ g \in Decision /\ g.base = top.base
  <2>1. \A d \in Decision : \A x \in Nat :
          [d EXCEPT !.next_k = x] \in Decision /\ [d EXCEPT !.next_k = x].base = d.base
    BY DEF Decision
  <2>2. k + 1 \in Nat /\ top.window + 1 \in Nat
    BY <1>3
  <2> HIDE DEF top, k
  <2>3. QED
    BY <1>3, <2>1, <2>2
<1>6. Last(kept).at \in 1 .. DiskClusters /\ Last(kept) = kept[Len(kept)]
  BY <1>4, LastIs
<1>7. cand \in Nat \ {0} /\ Last(kept).at < cand
  <2> HIDE DEF kept, k
  <2>1. QED
    BY <1>3, <1>6
<1> HIDE DEF top, kept, k, cand, f, g, run, one, ahead, c
<1>8. IsStack(next, top.base) /\ IsStack(Append(Front(stack), g), top.base)
  <2>1. top.base \in Nat /\ top.base <= top.base
    BY <1>2, <1>3
  <2>2. QED
    BY <1>3, <1>5, <2>1, StackOne
<1> HIDE DEF next
<1>9. CASE cand > DiskClusters
  <2>1. /\ path' = kept /\ stack' = Append(Front(stack), g)
        /\ UNCHANGED <<step, calls, best, result>>
    BY <1>1, <1>9
  <2>2. QED
    BY <1>1, <1>2, <1>4, <1>8, <2>1, InvKept DEF Steps
<1>10. CASE ~(cand > DiskClusters) /\ Spent(c.calls)
  <2>1. /\ path' = kept /\ stack' = next
        /\ Stopped("budget") /\ UNCHANGED <<calls, best>>
    BY <1>1, <1>10
  <2>2. step' = "ended" /\ JudgedReport(result')
    BY <1>2, <2>1, StoppedIsJudged DEF Stopped, End
  <2>3. QED
    BY <1>1, <1>2, <1>4, <1>8, <2>1, <2>2, InvKept DEF Steps
<1>11. CASE ~(cand > DiskClusters) /\ ~Spent(c.calls)
  <2>1. /\ calls' = calls + c.calls /\ path' = c.path
        /\ stack' = IF c.verdict = "accepted"
                    THEN next \o Frames(Len(kept) + 1, Len(c.path) - 1, narrow) ELSE next
        /\ best' = IF c.verdict = "accepted" THEN Remember(c.path, c.by) ELSE best
        /\ \/ c.verdict = "complete" /\ End(Done(c.path, c.by.length))
           \/ c.verdict = "accepted" /\ step' = "gallop" /\ UNCHANGED result
           \/ UNCHANGED <<step, result>>
    BY <1>1, <1>11
  <2>2. cand \in 1 .. DiskClusters
    BY <1>7, <1>11, SearchAssumption
  <2>3. /\ IsPath(c.path) /\ Len(kept) <= Len(c.path)
        /\ c.by \in Outcomes /\ c.calls \in Nat
        /\ c.verdict = "complete" => JudgedReport(Done(c.path, c.by.length))
    <3>1. LookaheadClusters \in Nat
      BY SearchAssumption
    <3>2. QED
      BY <1>2, <1>4, <1>7, <2>2, <3>1, ConsiderIs DEF c, one, ahead, run
  <2>4. Len(c.path) \in Nat /\ Len(kept) \in Nat
    BY <1>4, <2>3, EntryIs
  <2>5. IsStack(next, Len(kept))
    BY <1>4, <1>8
  <2>6. IsStack(next, Len(c.path))
    BY <2>3, <2>4, <2>5, StackHigher
  <2>7. IsStack(next \o Frames(Len(kept) + 1, Len(c.path) - 1, narrow), Len(c.path))
    <3> DEFINE from == Len(kept) + 1
               to == Len(c.path) - 1
    <3>1. from \in Nat \ {0} /\ Len(kept) <= from /\ to \in Int /\ to <= Len(c.path)
      BY <2>4
    <3>2. narrow \in Nat
      BY <1>2, SearchAssumption DEF Least
    <3> HIDE DEF from, to, narrow
    <3>3. IsStack(next \o Frames(from, to, narrow), Len(c.path))
      BY <2>3, <2>4, <2>5, <3>1, <3>2, StackFrames
    <3>4. QED
      BY <3>3 DEF from, to
  <2>8. IsStack(stack', Len(path'))
    BY <2>1, <2>6, <2>7
  <2>9. IsBest(best')
    BY <1>2, <2>1, <2>3, RememberIs
  <2>10. calls' \in 0 .. Budget
    <3> DEFINE n == c.calls
    <3>1. n \in Nat /\ ~(calls + n > Budget) /\ calls' = calls + n
      BY <1>11, <2>1, <2>3 DEF Spent
    <3> HIDE DEF n
    <3>2. QED
      BY <1>2, <3>1, SearchAssumption
  <2>11. c.path # <<>>
    <3>1. Len(kept) \in 1 .. Len(kept)
      BY <1>4, LastIs
    <3>2. Len(c.path) # 0
      BY <2>3, <2>4, <3>1
    <3>3. QED
      BY <3>2
  <2>12. CASE c.verdict = "complete" /\ End(Done(c.path, c.by.length))
    <3>1. step' = "ended" /\ result' = Done(c.path, c.by.length)
      BY <2>12 DEF End
    <3>2. JudgedReport(result')
      BY <2>3, <2>12, <3>1
    <3>3. QED
      BY <1>1, <1>2, <2>1, <2>3, <2>8, <2>9, <2>10, <3>1, <3>2, InvKept DEF Steps
  <2>13. CASE c.verdict = "accepted" /\ step' = "gallop" /\ UNCHANGED result
    BY <1>1, <1>2, <2>1, <2>3, <2>8, <2>9, <2>10, <2>11, <2>13, InvKept DEF Steps
  <2>14. CASE UNCHANGED <<step, result>>
    BY <1>1, <1>2, <2>1, <2>3, <2>8, <2>9, <2>10, <2>14, InvKept DEF Steps
  <2>15. QED
    BY <2>1, <2>12, <2>13, <2>14
<1>12. QED
  BY <1>9, <1>10, <1>11

LEMMA StepInv ==
  ASSUME SearchInv, [Next]_vars PROVE SearchInv'
<1>1. CASE Attempt
  BY <1>1, AttemptInv
<1>2. CASE Gallop
  BY <1>2, GallopInv
<1>3. CASE Extend
  BY <1>3, ExtendInv
<1>4. CASE BackUp
  BY <1>4, BackUpInv
<1>5. CASE Try
  BY <1>5, TryInv
<1>6. CASE Deepen
  BY <1>6, DeepenInv
<1>7. CASE UNCHANGED vars
  BY <1>7, InvKept DEF vars, SearchInv
<1>8. QED
  BY <1>1, <1>2, <1>3, <1>4, <1>5, <1>6, <1>7 DEF Next, Return

\* The search keeps its invariant (reassemble and what it calls, rc-bifrag).
THEOREM SearchIsSound == Spec => []SearchInv
<1>1. Init => SearchInv
  BY InitInv
<1>2. SearchInv /\ [Next]_vars => SearchInv'
  BY StepInv
<1>3. QED
  BY <1>1, <1>2, PTL DEF Spec

\* A path that rises is no longer than the device.
LEMMA PathFits ==
  ASSUME NEW p, IsPath(p) PROVE Len(p) <= DiskClusters
<1> DEFINE n == Len(p)
           S == {k \in 0 .. n : k = 0 \/ k <= p[k].at}
<1>1. /\ n \in Nat /\ \A i \in 1 .. n : p[i].at \in 1 .. DiskClusters
      /\ \A i, j \in 1 .. n : i < j => p[i].at < p[j].at
  BY EntryIs DEF IsPath
<1>2. 0 \in S
  BY <1>1
<1> HIDE DEF n
<1>3. \A k \in 0 .. n - 1 : k \in S => k + 1 \in S
  <2> SUFFICES ASSUME NEW k \in 0 .. n - 1, k \in S PROVE k + 1 \in S
    OBVIOUS
  <2>1. k + 1 \in 1 .. n /\ k < k + 1
    BY <1>1
  <2>2. p[k + 1].at \in 1 .. DiskClusters
    BY <1>1, <2>1
  <2>3. CASE k = 0
    BY <2>1, <2>2, <2>3
  <2>4. CASE k # 0
    <3>1. k \in 1 .. n /\ k <= p[k].at
      BY <1>1, <2>4
    <3>2. p[k].at < p[k + 1].at /\ p[k].at \in 1 .. DiskClusters
      BY <1>1, <2>1, <3>1
    <3>3. k + 1 <= p[k + 1].at
      BY <2>2, <3>1, <3>2
    <3>4. QED
      BY <2>1, <3>3
  <2>5. QED
    BY <2>3, <2>4
<1>4. n \in S
  <2> HIDE DEF S
  <2>1. 0 .. n \subseteq S
    BY <1>1, <1>2, <1>3, CountingUp
  <2>2. QED
    BY <1>1, <2>1
<1>5. n <= DiskClusters
  <2>1. CASE n = 0
    BY <2>1, SearchAssumption
  <2>2. CASE n # 0
    BY <1>1, <1>4, <2>2, SearchAssumption
  <2>3. QED
    BY <2>1, <2>2
<1>6. QED
  BY <1>5 DEF n

\* The search stays within its budget, its path on the device and its
\* decisions on the path.
THEOREM SearchTypeCorrect == Spec => []TypeOK
<1>1. SearchInv => TypeOK
  <2> SUFFICES ASSUME SearchInv PROVE TypeOK
    OBVIOUS
  <2>1. /\ IsPath(path) /\ IsStack(stack, Len(path)) /\ step \in Steps /\ calls \in 0 .. Budget
    BY DEF SearchInv
  <2>2. \A i \in DOMAIN path : path[i].at \in 1 .. DiskClusters
    BY <2>1, EntryIs
  <2>3. \A i \in DOMAIN stack : stack[i].base \in 1 .. DiskClusters
    <3>1. /\ stack \in Seq(Decision) /\ DOMAIN stack = 1 .. Len(stack)
          /\ \A i \in 1 .. Len(stack) : stack[i] \in Decision /\ stack[i].base <= Len(path)
      BY <2>1, LenProperties, ElementOfSeq DEF IsStack
    <3>2. Len(path) <= DiskClusters /\ Len(path) \in Nat /\ DiskClusters \in Nat
      BY <2>1, PathFits, EntryIs, SearchAssumption
    <3> SUFFICES ASSUME NEW i \in 1 .. Len(stack) PROVE stack[i].base \in 1 .. DiskClusters
      BY <3>1
    <3> DEFINE b == stack[i].base
    <3>3. b \in Nat \ {0} /\ b <= Len(path)
      BY <3>1 DEF Decision
    <3> HIDE DEF b
    <3>4. b \in 1 .. DiskClusters
      BY <3>2, <3>3
    <3>5. QED
      BY <3>4 DEF b
  <2>4. QED
    BY <2>1, <2>2, <2>3 DEF TypeOK, Steps
<1>2. QED
  BY <1>1, SearchIsSound, PTL

\* Whatever the disk holds, the windows and the budget: what a search reports
\* is what the validator says of exactly those bytes.
THEOREM ReportHolds == Spec => []ReportIsJudged
<1>1. SearchInv => ReportIsJudged
  BY ReportTrue DEF SearchInv
<1>2. QED
  BY <1>1, SearchIsSound, PTL

-----------------------------------------------------------------------------
(* A file that can be found.                                               *)

\* What the constants are, one by one.
LEMMA SizesAre ==
  /\ DiskClusters \in Nat \ {0} /\ ClusterBytes \in Nat \ {0} /\ Landmarks \in Nat \ {0}
  /\ MaxUnverified \in Nat \ {0} /\ RunClusters \in Nat \ {0} /\ LookaheadClusters \in Nat \ {0}
  /\ MaxGapClusters \in Nat /\ ContinuationWindow \in Nat
BY SearchAssumption

Gap(c, m) == c[m + 1] - c[m] - 1

\* The clusters of a file in order: the landmarks in turn, one in each cluster,
\* and no gap beyond the windows.
Whole(c) ==
  /\ c \in Clustered /\ Landmarks <= Len(c) /\ c[1] = 1
  /\ \A i \in 1 .. Landmarks - 1 : Gap(c, i) \in 0 .. Least(MaxGapClusters, ContinuationWindow)
  /\ \A i \in 1 .. Landmarks :
       LET d == disk[c[i]] IN
       /\ d.mark # None /\ d.mark = (i - 1) % Phases /\ d.ends = (i = Landmarks)
       /\ ~d.noise /\ ~d.bad /\ d.heat # "filler"

\* The first m clusters of a path are those of the file.
Along(p, c, m) == m <= Len(p) /\ \A j \in 1 .. m : p[j].at = c[j]

LEMMA WholeAt ==
  ASSUME disk \in Disk, NEW c, Whole(c), NEW i \in 1 .. Landmarks
  PROVE  /\ c[i] \in 1 .. DiskClusters /\ i \in 1 .. Len(c) /\ disk[c[i]] \in Clusters
         /\ disk[c[i]].mark # None /\ disk[c[i]].mark = (i - 1) % Phases
         /\ disk[c[i]].ends = (i = Landmarks)
         /\ ~disk[c[i]].noise /\ ~disk[c[i]].bad /\ disk[c[i]].heat # "filler"
         /\ disk[c[i]].at \in 1 .. ClusterBytes
<1>1. Len(c) \in Nat /\ \A k \in 1 .. Len(c) : c[k] \in 1 .. DiskClusters
  BY ClusteredIs DEF Whole
<1>2. i \in 1 .. Len(c)
  BY <1>1, SizesAre DEF Whole
<1>3. c[i] \in 1 .. DiskClusters
  BY <1>1, <1>2
<1>4. disk[c[i]] \in Clusters
  BY <1>3 DEF Disk
<1>5. /\ disk[c[i]].mark # None /\ disk[c[i]].mark = (i - 1) % Phases
      /\ disk[c[i]].ends = (i = Landmarks)
      /\ ~disk[c[i]].noise /\ ~disk[c[i]].bad /\ disk[c[i]].heat # "filler"
  BY DEF Whole
<1>6. QED
  BY <1>2, <1>3, <1>4, <1>5, ClusterAssumption

\* What the validator meets in the first clusters of the file.
LEMMA MetAlong ==
  ASSUME disk \in Disk, NEW c, Whole(c), NEW places \in Clustered,
         NEW n \in 0 .. Landmarks, n <= Len(places), \A i \in 1 .. n : places[i] = c[i],
         NEW i \in 1 .. n
  PROVE  /\ disk[places[i]] = disk[c[i]] /\ ~WrongAt(places, i)
         /\ StopsAt(places, i) <=> i = Landmarks
<1>1. Landmarks \in Nat /\ i \in Nat
  BY SizesAre
<1>2. \A j \in 1 .. i : disk[places[j]].mark # None
  <2> SUFFICES ASSUME NEW j \in 1 .. i PROVE disk[places[j]].mark # None
    OBVIOUS
  <2>1. j \in 1 .. n /\ j \in 1 .. Landmarks
    BY <1>1
  <2>2. QED
    BY <2>1, WholeAt
<1>3. Met(places, i) = i
  <2>1. {j \in 1 .. i : disk[places[j]].mark # None} = 1 .. i
    BY <1>2
  <2>2. Cardinality(1 .. i) = i
    BY <1>1, FS_Interval
  <2>3. QED
    BY <2>1, <2>2 DEF Met
<1>4. places[i] = c[i] /\ i \in 1 .. Landmarks
  BY <1>1
<1>5. /\ disk[c[i]].mark # None /\ disk[c[i]].mark = (i - 1) % Phases
      /\ disk[c[i]].ends = (i = Landmarks) /\ ~disk[c[i]].noise
  BY <1>4, WholeAt
<1>6. ~WrongAt(places, i)
  BY <1>3, <1>4, <1>5 DEF WrongAt
<1>7. QED
  BY <1>4, <1>5, <1>6 DEF StopsAt

\* Where the clusters in hand are the file's, up to one that is not its last,
\* the validator wants more and vouches for some of the last one.
LEMMA PartOfFile ==
  ASSUME disk \in Disk, NEW c, Whole(c), NEW places \in Clustered,
         Len(places) \in 1 .. Landmarks - 1,
         \A i \in 1 .. Len(places) : places[i] = c[i]
  PROVE  /\ Judge(places).ran_out /\ ~Judge(places).valid
         /\ ClusterBytes * (Len(places) - 1) < Judge(places).length
<1> DEFINE n == Len(places)
<1>1. n \in 0 .. Landmarks /\ n \in Nat \ {0} /\ n < Landmarks /\ Landmarks \in Nat
  BY SizesAre
<1>2. \A i \in 1 .. n : /\ disk[places[i]] = disk[c[i]] /\ ~WrongAt(places, i)
                        /\ StopsAt(places, i) <=> i = Landmarks
  BY <1>1, MetAlong
<1>3. \A i \in 1 .. n : /\ disk[places[i]].mark # None /\ ~disk[places[i]].ends
                        /\ disk[places[i]].at \in 1 .. ClusterBytes
  <2> SUFFICES ASSUME NEW i \in 1 .. n
               PROVE  /\ disk[places[i]].mark # None /\ ~disk[places[i]].ends
                      /\ disk[places[i]].at \in 1 .. ClusterBytes
    OBVIOUS
  <2>1. i \in 1 .. Landmarks /\ i # Landmarks
    BY <1>1
  <2>2. /\ disk[c[i]].mark # None /\ disk[c[i]].ends = (i = Landmarks)
        /\ disk[c[i]].at \in 1 .. ClusterBytes
    BY <2>1, WholeAt
  <2>3. disk[places[i]] = disk[c[i]]
    BY <1>2
  <2>4. QED
    BY <2>1, <2>2, <2>3
<1>4. DOMAIN places = 1 .. n
  BY ClusteredIs
<1> HIDE DEF n
<1>5. ReadOf(places) = 1 .. n
  <2>1. \A i \in 1 .. n : \A j \in 1 .. (i - 1) : j \in 1 .. n /\ j # Landmarks
    BY <1>1
  <2>2. QED
    BY <1>2, <1>4, <2>1 DEF ReadOf
<1>6. GoodOf(places) = 1 .. n
  BY <1>2, <1>3, <1>5 DEF GoodOf
<1>7. LastOf(places) = n
  <2>1. /\ LastOf(places) \in GoodOf(places) \cup {0}
        /\ \A i \in GoodOf(places) : i <= LastOf(places)
    BY LastIsGreatest
  <2>2. n \in 1 .. n /\ n \in Nat
    BY <1>1
  <2>3. LastOf(places) \in 1 .. n \cup {0} /\ n <= LastOf(places)
    BY <1>6, <2>1, <2>2
  <2>4. QED
    BY <2>2, <2>3
<1>8. Judge(places).ran_out
  <2>1. \A i \in 1 .. n : i # Landmarks
    BY <1>1
  <2>2. \A i \in ReadOf(places) : ~StopsAt(places, i)
    BY <1>2, <1>5, <2>1
  <2>3. QED
    BY <2>2, JudgeIs
<1>9. ~Judge(places).valid
  BY <1>3, <1>6, JudgeIs
<1>10. ClusterBytes * (n - 1) < Judge(places).length
  <2> DEFINE at == disk[places[n]].at
             before == ClusterBytes * (n - 1)
  <2>1. Judge(places).length = before + at
    BY <1>1, <1>7, JudgeIs
  <2>2. at \in 1 .. ClusterBytes
    BY <1>1, <1>3
  <2>3. before \in Nat /\ ClusterBytes \in Nat
    BY <1>1, SizesAre
  <2> HIDE DEF at, before
  <2>4. before < Judge(places).length
    BY <2>1, <2>2, <2>3
  <2>5. QED
    BY <2>4 DEF before
<1>11. QED
  BY <1>8, <1>9, <1>10 DEF n

\* Where they begin with all of the file, it is judged whole.
LEMMA AllOfFile ==
  ASSUME disk \in Disk, NEW c, Whole(c), NEW places \in Clustered,
         Landmarks <= Len(places), \A i \in 1 .. Landmarks : places[i] = c[i]
  PROVE  /\ Judge(places).valid /\ Judge(places).length <= ClusterBytes * Landmarks
         /\ ClusterBytes * (Landmarks - 1) < Judge(places).length
<1> DEFINE n == Landmarks
<1>1. n \in 0 .. Landmarks /\ n \in Nat \ {0} /\ Len(places) \in Nat /\ DOMAIN places = 1 .. Len(places)
  BY SizesAre, ClusteredIs
<1>2. \A i \in 1 .. n : /\ disk[places[i]] = disk[c[i]] /\ ~WrongAt(places, i)
                        /\ StopsAt(places, i) <=> i = Landmarks
  BY <1>1, MetAlong
<1>3. \A i \in 1 .. n : /\ disk[places[i]].mark # None /\ ~disk[places[i]].bad
                        /\ disk[places[i]].ends = (i = n)
                        /\ disk[places[i]].at \in 1 .. ClusterBytes
  BY <1>2, WholeAt
<1> HIDE DEF n
<1>4. ReadOf(places) = 1 .. n
  <2>1. \A i \in 1 .. n : i \in DOMAIN places /\ \A j \in 1 .. (i - 1) : j \in 1 .. n /\ j # Landmarks
    BY <1>1 DEF n
  <2>2. 1 .. n \subseteq ReadOf(places)
    BY <1>2, <2>1 DEF ReadOf
  <2>3. ASSUME NEW i \in ReadOf(places) PROVE i \in 1 .. n
    <3>1. i \in 1 .. Len(places) /\ \A j \in 1 .. (i - 1) : ~StopsAt(places, j)
      BY <1>1 DEF ReadOf
    <3>2. n \in 1 .. n /\ StopsAt(places, n)
      BY <1>1, <1>2 DEF n
    <3>3. n \notin 1 .. (i - 1)
      BY <3>1, <3>2
    <3>4. QED
      BY <1>1, <3>1, <3>3
  <2>4. QED
    BY <2>2, <2>3
<1>5. GoodOf(places) = 1 .. n
  BY <1>2, <1>3, <1>4 DEF GoodOf
<1>6. LastOf(places) = n
  <2>1. /\ LastOf(places) \in GoodOf(places) \cup {0}
        /\ \A i \in GoodOf(places) : i <= LastOf(places)
    BY LastIsGreatest
  <2>2. n \in 1 .. n /\ n \in Nat
    BY <1>1
  <2>3. LastOf(places) \in 1 .. n \cup {0} /\ n <= LastOf(places)
    BY <1>5, <2>1, <2>2
  <2>4. QED
    BY <2>2, <2>3
<1>7. Judge(places).valid
  <2>1. n \in 1 .. n
    BY <1>1
  <2>2. QED
    BY <1>3, <1>5, <2>1, JudgeIs
<1>8. /\ Judge(places).length <= ClusterBytes * n
      /\ ClusterBytes * (n - 1) < Judge(places).length
  <2> DEFINE at == disk[places[n]].at
             before == ClusterBytes * (n - 1)
  <2>1. Judge(places).length = before + at
    BY <1>1, <1>6, JudgeIs
  <2>2. at \in 1 .. ClusterBytes
    BY <1>1, <1>3
  <2>3. before \in Nat /\ ClusterBytes \in Nat /\ before + ClusterBytes = ClusterBytes * n
    BY <1>1, SizesAre
  <2> DEFINE all == ClusterBytes * n
  <2> HIDE DEF at, before, all
  <2>4. Judge(places).length <= all /\ before < Judge(places).length
    BY <2>1, <2>2, <2>3 DEF all
  <2>5. QED
    BY <2>4 DEF all, before
<1>9. QED
  BY <1>7, <1>8 DEF n

\* A file within the windows, that the validator accepts, is such clusters.
LEMMA ReachableIsWhole ==
  ASSUME disk \in Disk, NEW c \in Clustered, Reachable(c)
  PROVE  Whole(c)
<1> DEFINE n == Len(c)
<1>1. /\ n \in Nat /\ DOMAIN c = 1 .. n
      /\ c[1] = 1 /\ Judge(c).valid
      /\ \A i \in 1 .. n - 1 : c[i + 1] - c[i] - 1 \in 0 .. Least(MaxGapClusters, ContinuationWindow)
      /\ \A i \in 1 .. n : disk[c[i]].mark # None /\ disk[c[i]].heat # "filler"
  BY ClusteredIs DEF Reachable
<1>2. /\ \E i \in GoodOf(c) : disk[c[i]].ends
      /\ \A i \in GoodOf(c) : ~disk[c[i]].bad
  BY <1>1, JudgeIs
<1>3. PICK e \in GoodOf(c) : disk[c[e]].ends
  BY <1>2
<1> HIDE DEF n
<1>4. e \in 1 .. n /\ e \in Nat \ {0} /\ \A j \in 1 .. (e - 1) : ~StopsAt(c, j)
  BY <1>1 DEF GoodOf, ReadOf
<1>5. ASSUME NEW i \in 1 .. e
      PROVE  /\ i \in 1 .. n /\ i \in GoodOf(c) /\ ~WrongAt(c, i) /\ Met(c, i) = i
  <2>1. i \in 1 .. n /\ i \in Nat /\ \A j \in 1 .. (i - 1) : j \in 1 .. (e - 1)
    BY <1>1, <1>4
  <2>2. i \in ReadOf(c)
    BY <1>1, <1>4, <2>1 DEF ReadOf
  <2>3. ~WrongAt(c, i)
    <3>1. CASE i = e
      BY <3>1 DEF GoodOf
    <3>2. CASE i # e
      <4>1. i \in 1 .. (e - 1)
        BY <1>4, <3>2
      <4>2. QED
        BY <1>4, <4>1 DEF StopsAt
    <3>3. QED
      BY <3>1, <3>2
  <2>4. i \in GoodOf(c)
    BY <1>1, <2>1, <2>2, <2>3 DEF GoodOf
  <2>5. Met(c, i) = i
    <3>1. \A j \in 1 .. i : j \in 1 .. n
      BY <1>1, <2>1
    <3>2. {j \in 1 .. i : disk[c[j]].mark # None} = 1 .. i
      BY <1>1, <3>1
    <3>3. Cardinality(1 .. i) = i
      BY <2>1, FS_Interval
    <3>4. QED
      BY <3>2, <3>3 DEF Met
  <2>6. QED
    BY <2>1, <2>3, <2>4, <2>5
<1>6. \A i \in 1 .. e : /\ disk[c[i]].mark # None /\ disk[c[i]].mark = (i - 1) % Phases
                        /\ disk[c[i]].ends = (i = Landmarks) /\ ~disk[c[i]].noise
                        /\ ~disk[c[i]].bad /\ disk[c[i]].heat # "filler"
  <2> SUFFICES ASSUME NEW i \in 1 .. e
               PROVE  /\ disk[c[i]].mark # None /\ disk[c[i]].mark = (i - 1) % Phases
                      /\ disk[c[i]].ends = (i = Landmarks) /\ ~disk[c[i]].noise
                      /\ ~disk[c[i]].bad /\ disk[c[i]].heat # "filler"
    OBVIOUS
  <2>1. i \in 1 .. n /\ i \in GoodOf(c) /\ ~WrongAt(c, i) /\ Met(c, i) = i
    BY <1>5
  <2>2. disk[c[i]].mark # None /\ disk[c[i]].heat # "filler" /\ ~disk[c[i]].bad
    BY <1>1, <1>2, <2>1
  <2>3. QED
    BY <2>1, <2>2 DEF WrongAt
<1>7. e = Landmarks
  <2>1. e \in 1 .. e
    BY <1>4
  <2>2. disk[c[e]].ends = (e = Landmarks)
    BY <1>6, <2>1
  <2>3. QED
    BY <1>3, <2>2
<1>8. Landmarks <= Len(c)
  BY <1>1, <1>4, <1>7 DEF n
<1>9. \A i \in 1 .. Landmarks - 1 : Gap(c, i) \in 0 .. Least(MaxGapClusters, ContinuationWindow)
  <2>1. \A i \in 1 .. Landmarks - 1 : i \in 1 .. n - 1
    BY <1>1, <1>4, <1>7
  <2>2. QED
    BY <1>1, <2>1 DEF Gap
<1>10. QED
  BY <1>1, <1>6, <1>7, <1>8, <1>9 DEF Whole

\* From one cluster of the file to the next.
LEMMA GapIs ==
  ASSUME disk \in Disk, NEW c, Whole(c), NEW m \in 1 .. Landmarks - 1
  PROVE  /\ Gap(c, m) \in Nat /\ Gap(c, m) <= MaxGapClusters /\ Gap(c, m) <= ContinuationWindow
         /\ c[m + 1] = c[m] + Gap(c, m) + 1
<1>1. MaxGapClusters \in Nat /\ ContinuationWindow \in Nat /\ Landmarks \in Nat
  BY SizesAre
<1>2. Gap(c, m) \in 0 .. Least(MaxGapClusters, ContinuationWindow)
  BY DEF Whole
<1>3. Gap(c, m) \in Nat /\ Gap(c, m) <= MaxGapClusters /\ Gap(c, m) <= ContinuationWindow
  <2> DEFINE g == Gap(c, m)
  <2> HIDE DEF g
  <2>1. g \in Nat /\ g <= MaxGapClusters /\ g <= ContinuationWindow
    BY <1>1, <1>2 DEF g, Least
  <2>2. QED
    BY <2>1 DEF g
<1>4. m \in 1 .. Landmarks /\ m + 1 \in 1 .. Landmarks
  BY <1>1
<1>5. c[m] \in 1 .. DiskClusters /\ c[m + 1] \in 1 .. DiskClusters
  BY <1>4, WholeAt
<1>6. c[m] \in Int /\ c[m + 1] \in Int
  BY <1>5, SizesAre
<1>7. c[m + 1] = c[m] + Gap(c, m) + 1
  BY <1>6 DEF Gap
<1>8. QED
  BY <1>3, <1>7

-----------------------------------------------------------------------------
(* A path along it.                                                        *)

\* The file has more landmarks than a path may grow without verifying any.
Long == Landmarks > MaxUnverified + 1

\* While a path goes along the file, something of each of its clusters is
\* verified, and the last time the verified length moved is no more than the
\* path is long behind, nor, of a long file, than a path may grow without.
Fresh(m, verified, stale) ==
  /\ stale < m
  /\ ClusterBytes * (m - 1) < verified
  /\ Long => verified <= ClusterBytes * (m - stale - 1 + MaxUnverified)

KeepsUp(p, c) ==
  \A m \in 1 .. Len(p) :
    m < Landmarks /\ Along(p, c, m) => Fresh(m, p[m].verified, p[m].stale)

\* The i-th cluster after n is vouched for, and of a long file no more than a
\* path may grow by.
Vouched(n, i, length) ==
  /\ ClusterBytes * (n + i - 1) < length
  /\ Long => length <= ClusterBytes * (n + MaxUnverified)

LEMMA FreshIs ==
  ASSUME NEW n \in Nat, NEW i \in Nat \ {0}, NEW before \in Nat, NEW stale \in Nat,
         NEW length \in Nat, Vouched(n, i, length),
         n = 0 => before = 0, n # 0 => Fresh(n, before, stale)
  PROVE  Fresh(n + i, Most(before, length), IF length > before THEN i - 1 ELSE stale + i)
<1> DEFINE m == n + i
           late == IF length > before THEN i - 1 ELSE stale + i
           low == ClusterBytes * (m - 1)
           high == ClusterBytes * (n + MaxUnverified)
           top == ClusterBytes * (m - late - 1 + MaxUnverified)
           far == Most(before, length)
<1>1. ClusterBytes \in Nat /\ MaxUnverified \in Nat
  BY SizesAre
<1>2. low < length /\ (Long => length <= high)
  BY DEF Vouched
<1>3. m - 1 \in Nat /\ low \in Nat
  BY <1>1
<1>4. low < far
  <2> HIDE DEF low
  <2>1. QED
    BY <1>2, <1>3 DEF Most
<1>5. ASSUME Long PROVE far <= top
  <2>1. CASE length > before
    <3>1. late = i - 1
      BY <2>1
    <3>2. m - (i - 1) - 1 + MaxUnverified = n + MaxUnverified
      BY <1>1
    <3> HIDE DEF late, m, low
    <3>3. top = high
      BY <3>1, <3>2
    <3>4. far = length
      BY <2>1 DEF Most
    <3>5. QED
      BY <1>2, <1>5, <3>3, <3>4
  <2>2. CASE ~(length > before)
    <3>1. late = stale + i
      BY <2>2
    <3>2. m - (stale + i) - 1 + MaxUnverified = n - stale - 1 + MaxUnverified
      BY <1>1
    <3>3. far = before
      BY <2>2 DEF Most
    <3>4. n # 0
      <4> HIDE DEF low, far
      <4>1. QED
        BY <1>2, <1>3, <2>2
    <3> HIDE DEF late, m, low, far
    <3>5. top = ClusterBytes * (n - stale - 1 + MaxUnverified)
      BY <3>1, <3>2
    <3>6. before <= ClusterBytes * (n - stale - 1 + MaxUnverified)
      BY <1>5, <3>4 DEF Fresh
    <3>7. QED
      BY <3>3, <3>5, <3>6
  <2>3. QED
    BY <2>1, <2>2
<1>6. late < m
  <2>1. CASE length > before
    <3>1. late = i - 1
      BY <2>1
    <3> HIDE DEF late
    <3>2. QED
      BY <3>1
  <2>2. CASE ~(length > before)
    <3>1. late = stale + i
      BY <2>2
    <3>2. n # 0
      <4> HIDE DEF low, far
      <4>1. QED
        BY <1>2, <1>3, <2>2
    <3>3. stale < n
      BY <3>2 DEF Fresh
    <3> HIDE DEF late
    <3>4. QED
      BY <3>1, <3>3
  <2>3. QED
    BY <2>1, <2>2
<1>7. QED
  BY <1>4, <1>5, <1>6 DEF Fresh

\* The clusters pushed, and those before them.
LEMMA PushedIs ==
  ASSUME NEW p, IsPath(p), NEW places, Follows(places, p), NEW o \in Outcomes
  PROVE  LET q == PushAll(p, places, o)
             before == IF p = <<>> THEN 0 ELSE Last(p).verified
             stale == IF p = <<>> THEN 0 ELSE Last(p).stale IN
         /\ \A i \in 1 .. Len(p) : q[i] = p[i]
         /\ \A i \in 1 .. Len(places) :
              /\ q[Len(p) + i].at = places[i]
              /\ q[Len(p) + i].verified = Most(before, o.length)
              /\ q[Len(p) + i].stale = IF o.length > before THEN i - 1 ELSE stale + i
<1> DEFINE before == IF p = <<>> THEN 0 ELSE Last(p).verified
           stale  == IF p = <<>> THEN 0 ELSE Last(p).stale
           High(i) == /\ p = <<>> \/ AllHigh(p)
                      /\ \A j \in 1 .. i : disk[places[j]].heat = "high"
           low(i) == IF High(i) THEN "high" ELSE "lower"
           late(i) == IF o.length > before THEN i - 1 ELSE stale + i
           far == Most(before, o.length)
           E(i) == [at |-> places[i], verified |-> far, stale |-> late(i),
                    low |-> low(i), by |-> o]
           tail == [i \in DOMAIN places |-> E(i)]
           q == PushAll(p, places, o)
<1>1. q = p \o tail
  BY DEF PushAll
<1>2. p \in Seq(Entry) /\ Len(p) \in Nat
  BY EntryIs DEF IsPath
<1>3. Len(places) \in Nat /\ DOMAIN places = 1 .. Len(places)
  BY ClusteredIs DEF Follows
<1> HIDE DEF before, stale, low, late, far, q
<1>4. \A i : E(i).at = places[i] /\ E(i).verified = far /\ E(i).stale = late(i)
  OBVIOUS
<1> HIDE DEF E
<1>5. tail \in Seq({E(i) : i \in 1 .. Len(places)}) /\ Len(tail) = Len(places)
  <2> DEFINE T == {E(i) : i \in 1 .. Len(places)}
  <2>1. tail \in [1 .. Len(places) -> T]
    BY <1>3
  <2> HIDE DEF T, tail
  <2>2. QED
    BY <1>3, <2>1 DEF T
<1>6. \A i \in 1 .. Len(places) : tail[i] = E(i)
  BY <1>3
<1> HIDE DEF tail
<1>7. \A i \in 1 .. Len(p) : q[i] = p[i]
  BY <1>1, <1>2, <1>5, ConcatProperties
<1>8. \A i \in 1 .. Len(places) : q[Len(p) + i] = tail[i]
  <2> SUFFICES ASSUME NEW i \in 1 .. Len(places) PROVE q[Len(p) + i] = tail[i]
    OBVIOUS
  <2>1. Len(p) + i \in 1 .. Len(p) + Len(tail) /\ ~(Len(p) + i <= Len(p)) /\ Len(p) + i - Len(p) = i
    BY <1>2, <1>3, <1>5
  <2>2. q[Len(p) + i] = tail[Len(p) + i - Len(p)]
    BY <1>1, <1>2, <1>5, <2>1, ConcatProperties
  <2>3. QED
    BY <2>1, <2>2
<1>9. \A i \in 1 .. Len(places) : /\ q[Len(p) + i].at = places[i]
                                  /\ q[Len(p) + i].verified = far
                                  /\ q[Len(p) + i].stale = late(i)
  BY <1>4, <1>6, <1>8
<1>10. QED
  BY <1>7, <1>9 DEF q, before, stale, far, late

\* A path is along the file as far as the path it grew from was, and no further
\* than the clusters pushed are.
LEMMA AlongGrown ==
  ASSUME NEW p, IsPath(p), NEW places, Follows(places, p), NEW o \in Outcomes, NEW c
  PROVE  LET q == PushAll(p, places, o) IN
         /\ \A m \in 0 .. Len(p) : Along(q, c, m) <=> Along(p, c, m)
         /\ \A i \in 1 .. Len(places) :
              Along(q, c, Len(p) + i) <=>
                Along(p, c, Len(p)) /\ \A j \in 1 .. i : places[j] = c[Len(p) + j]
<1> DEFINE q == PushAll(p, places, o)
           n == Len(p)
           k == Len(places)
<1>1. n \in Nat /\ k \in Nat /\ Len(q) = n + k
  <2>1. Len(q) = Len(p) + Len(places)
    BY PushAllIs
  <2>2. QED
    BY <2>1, EntryIs, ClusteredIs DEF Follows
<1>2. /\ \A i \in 1 .. n : q[i] = p[i]
      /\ \A i \in 1 .. k : q[n + i].at = places[i]
  BY PushedIs
<1> HIDE DEF q, n, k
<1>3. \A m \in 0 .. n : Along(q, c, m) <=> Along(p, c, m)
  <2> SUFFICES ASSUME NEW m \in 0 .. n PROVE Along(q, c, m) <=> Along(p, c, m)
    OBVIOUS
  <2>1. m <= Len(q) /\ m <= Len(p) /\ \A j \in 1 .. m : q[j] = p[j]
    BY <1>1, <1>2 DEF n
  <2>2. QED
    BY <2>1 DEF Along
<1>4. ASSUME NEW i \in 1 .. k
      PROVE  Along(q, c, n + i) <=> Along(p, c, n) /\ \A j \in 1 .. i : places[j] = c[n + j]
  <2>1. n + i <= Len(q) /\ n <= Len(p)
    BY <1>1 DEF n
  <2>2. ASSUME Along(q, c, n + i)
        PROVE  Along(p, c, n) /\ \A j \in 1 .. i : places[j] = c[n + j]
    <3>1. \A j \in 1 .. n + i : q[j].at = c[j]
      BY <2>2 DEF Along
    <3>2. \A j \in 1 .. n : p[j].at = c[j]
      BY <1>1, <1>2, <3>1
    <3>3. \A j \in 1 .. i : n + j \in 1 .. n + i /\ j \in 1 .. k
      BY <1>1
    <3>4. \A j \in 1 .. i : places[j] = c[n + j]
      BY <1>2, <3>1, <3>3
    <3>5. QED
      BY <2>1, <3>2, <3>4 DEF Along
  <2>3. ASSUME Along(p, c, n), \A j \in 1 .. i : places[j] = c[n + j]
        PROVE  Along(q, c, n + i)
    <3> SUFFICES ASSUME NEW j \in 1 .. n + i PROVE q[j].at = c[j]
      BY <2>1 DEF Along
    <3>1. CASE j <= n
      BY <1>1, <1>2, <2>3, <3>1 DEF Along
    <3>2. CASE ~(j <= n)
      <4> DEFINE d == j - n
      <4>1. d \in 1 .. i /\ d \in 1 .. k /\ n + d = j
        BY <1>1, <3>2
      <4> HIDE DEF d
      <4>2. q[n + d].at = places[d] /\ places[d] = c[n + d]
        BY <1>2, <2>3, <4>1
      <4>3. QED
        BY <4>1, <4>2
    <3>3. QED
      BY <3>1, <3>2
  <2>4. QED
    BY <2>2, <2>3
<1>5. QED
  BY <1>3, <1>4 DEF q, n, k

\* It still keeps up when what is pushed was vouched for.
LEMMA GrownKeepsUp ==
  ASSUME NEW p, IsPath(p), NEW places, Follows(places, p), NEW o \in Outcomes, NEW c,
         KeepsUp(p, c),
         \A i \in 1 .. Len(places) :
           Len(p) + i < Landmarks /\ Along(PushAll(p, places, o), c, Len(p) + i)
             => Vouched(Len(p), i, o.length)
  PROVE  KeepsUp(PushAll(p, places, o), c)
<1> DEFINE q == PushAll(p, places, o)
           n == Len(p)
           k == Len(places)
           before == IF p = <<>> THEN 0 ELSE Last(p).verified
           stale  == IF p = <<>> THEN 0 ELSE Last(p).stale
<1>1. n \in Nat /\ k \in Nat /\ Len(q) = n + k
  <2>1. Len(q) = Len(p) + Len(places)
    BY PushAllIs
  <2>2. QED
    BY <2>1, EntryIs, ClusteredIs DEF Follows
<1>2. /\ \A i \in 1 .. n : q[i] = p[i]
      /\ \A i \in 1 .. k :
           /\ q[n + i].verified = Most(before, o.length)
           /\ q[n + i].stale = IF o.length > before THEN i - 1 ELSE stale + i
  BY PushedIs
<1>3. /\ \A m \in 0 .. n : Along(q, c, m) <=> Along(p, c, m)
      /\ \A i \in 1 .. k : Along(q, c, n + i) => Along(p, c, n)
  BY AlongGrown
<1>4. o.length \in Nat /\ Landmarks \in Nat
  BY SizesAre DEF Outcomes
<1>5. before \in Nat /\ stale \in Nat
  <2>1. CASE p = <<>>
    BY <2>1
  <2>2. CASE p # <<>>
    BY <2>2, LastIs, EntryIs
  <2>3. QED
    BY <2>1, <2>2
<1>6. ASSUME n # 0, n < Landmarks, Along(p, c, n)
      PROVE  Fresh(n, before, stale)
  <2>1. p # <<>>
    BY <1>6
  <2>2. Last(p) = p[n] /\ n \in 1 .. n
    BY <2>1, LastIs
  <2>3. Fresh(n, p[n].verified, p[n].stale)
    BY <1>6, <2>2 DEF KeepsUp
  <2>4. QED
    BY <2>1, <2>2, <2>3
<1>7. n = 0 => before = 0
  <2>1. n = 0 => p = <<>>
    BY EmptySeq DEF IsPath
  <2>2. QED
    BY <2>1
<1>8. \A i \in 1 .. k : n + i < Landmarks /\ Along(q, c, n + i) => Vouched(n, i, o.length)
  OBVIOUS
<1>9. \A m \in 1 .. n : m < Landmarks /\ Along(p, c, m) => Fresh(m, p[m].verified, p[m].stale)
  BY DEF KeepsUp
<1> HIDE DEF q, n, k, before, stale
<1>10. ASSUME NEW i \in 1 .. k, n + i < Landmarks, Along(q, c, n + i)
       PROVE  Fresh(n + i, q[n + i].verified, q[n + i].stale)
  <2>1. Vouched(n, i, o.length)
    BY <1>8, <1>10
  <2>2. n < Landmarks /\ i \in Nat \ {0}
    <3>1. i \in Nat \ {0}
      BY <1>1
    <3>2. n + i < Landmarks
      BY <1>10
    <3>3. QED
      BY <1>1, <1>4, <3>1, <3>2
  <2>3. Along(p, c, n)
    BY <1>3, <1>10
  <2>4. n # 0 => Fresh(n, before, stale)
    BY <1>6, <2>2, <2>3
  <2>5. Fresh(n + i, Most(before, o.length), IF o.length > before THEN i - 1 ELSE stale + i)
    BY <1>1, <1>4, <1>5, <1>7, <2>1, <2>2, <2>4, FreshIs
  <2>6. QED
    BY <1>2, <2>5
<1>11. ASSUME NEW m \in 1 .. Len(q), m < Landmarks, Along(q, c, m)
       PROVE  Fresh(m, q[m].verified, q[m].stale)
  <2>1. CASE m <= n
    <3>1. m \in 1 .. n /\ m \in 0 .. n
      BY <1>1, <2>1
    <3>2. q[m] = p[m] /\ Along(p, c, m)
      BY <1>2, <1>3, <1>11, <3>1
    <3>3. QED
      BY <1>9, <1>11, <3>1, <3>2
  <2>2. CASE ~(m <= n)
    <3> DEFINE i == m - n
    <3>1. i \in 1 .. k /\ n + i = m
      BY <1>1, <2>2
    <3> HIDE DEF i
    <3>2. n + i < Landmarks /\ Along(q, c, n + i)
      BY <1>11, <3>1
    <3>3. Fresh(n + i, q[n + i].verified, q[n + i].stale)
      BY <1>10, <3>1, <3>2
    <3>4. QED
      BY <3>1, <3>3
  <2>3. QED
    BY <2>1, <2>2
<1>12. KeepsUp(q, c)
  BY <1>11 DEF KeepsUp
<1>13. QED
  BY <1>12 DEF q

\* So does a path cut short.
LEMMA CutKeepsUp ==
  ASSUME NEW p, IsPath(p), NEW n \in 1 .. Len(p), NEW c
  PROVE  LET q == SubSeq(p, 1, n) IN
         /\ \A m \in 0 .. n : Along(q, c, m) <=> Along(p, c, m)
         /\ KeepsUp(p, c) => KeepsUp(q, c)
         /\ q[1] = p[1]
<1> DEFINE q == SubSeq(p, 1, n)
<1>1. Len(p) \in Nat /\ p \in Seq(Entry)
  BY EntryIs DEF IsPath
<1>2. Len(q) = n /\ \A i \in 1 .. n : q[i] = p[i]
  <2>1. n \in 0 .. Len(p)
    BY <1>1
  <2>2. QED
    BY <1>1, <2>1, PartIs
<1> HIDE DEF q
<1>3. \A m \in 0 .. n : Along(q, c, m) <=> Along(p, c, m)
  <2> SUFFICES ASSUME NEW m \in 0 .. n PROVE Along(q, c, m) <=> Along(p, c, m)
    OBVIOUS
  <2>1. m <= Len(q) /\ m <= Len(p) /\ \A j \in 1 .. m : q[j] = p[j]
    BY <1>1, <1>2
  <2>2. QED
    BY <2>1 DEF Along
<1>4. \A m \in 1 .. n : m \in 0 .. n /\ m \in 1 .. Len(p)
  BY <1>1
<1>5. KeepsUp(p, c) => KeepsUp(q, c)
  BY <1>2, <1>3, <1>4 DEF KeepsUp
<1>6. 1 \in 1 .. n
  BY <1>1
<1>7. QED
  BY <1>2, <1>3, <1>5, <1>6 DEF q

-----------------------------------------------------------------------------
(* What is taken of a run.                                                 *)

\* A length that ends after the last of n clusters.
Past(had, i, length) == had + ClusterBytes * (i - 1) < length

\* No cluster is taken that the verified length does not reach into.
LEMMA TakenReached ==
  ASSUME NEW T, NEW run \in Seq(T), NEW had \in Nat, NEW o \in Outcomes,
         NEW i \in 1 .. Len(Taken(run, had, o))
  PROVE  Past(had, i, o.length)
<1> DEFINE stop == Covered(run, had, o)
           Reached(j) == IF o.valid THEN had + ClusterBytes * (j - 1) < o.length
                                    ELSE had + ClusterBytes * j <= o.length
           list == [j \in DOMAIN run |-> ~Reached(j)]
           S == {j \in 1 .. Len(list) : list[j]}
           n == Len(run)
<1>1. n \in Nat /\ DOMAIN run = 1 .. n
  BY LenProperties
<1>2. stop = IF S # {} THEN Min(S) ELSE 0
  BY DEF Covered, SelectInSeq
<1>3. Len(list) = n /\ \A j \in 1 .. n : list[j] = ~Reached(j)
  <2> HIDE DEF Reached
  <2>1. QED
    BY <1>1
<1>4. Taken(run, had, o) = IF stop = 0 THEN run ELSE SubSeq(run, 1, stop - 1)
  BY DEF Taken
<1>5. S \subseteq 1 .. n /\ \A j \in 1 .. n : j \notin S => Reached(j)
  <2> HIDE DEF list, Reached
  <2>1. QED
    BY <1>3
<1> HIDE DEF list, Reached, S, stop, n
<1>6. i \in 1 .. n /\ i \notin S
  <2>1. CASE S = {}
    BY <1>2, <1>4, <2>1 DEF n
  <2>2. CASE S # {}
    <3>1. IsFiniteSet(S) /\ S \in SUBSET Int
      <4>1. IsFiniteSet(1 .. n)
        BY <1>1, FS_Interval
      <4>2. IsFiniteSet(S)
        BY <1>5, <4>1, FS_Subset
      <4>3. QED
        BY <1>5, <4>2
    <3>2. \E j \in S : \A l \in S : j <= l
      BY <2>2, <3>1, LeastExists
    <3>3. Min(S) \in S /\ \A l \in S : Min(S) <= l
      BY <3>2 DEF Min
    <3>4. stop \in 1 .. n /\ \A l \in S : stop <= l
      BY <1>2, <1>5, <2>2, <3>3
    <3>5. stop - 1 \in 0 .. n /\ stop # 0
      BY <1>1, <3>4
    <3>6. Len(SubSeq(run, 1, stop - 1)) = stop - 1
      <4> DEFINE m == stop - 1
      <4> HIDE DEF m
      <4>1. m \in 0 .. Len(run)
        BY <3>5 DEF m, n
      <4>2. Len(SubSeq(run, 1, m)) = m
        BY <4>1, PartIs
      <4>3. QED
        BY <4>2 DEF m
    <3>7. i \in 1 .. (stop - 1)
      BY <1>4, <3>5, <3>6
    <3>8. i \in 1 .. n /\ i < stop
      BY <1>1, <3>4, <3>7
    <3>9. QED
      BY <3>4, <3>8
  <2>3. QED
    BY <2>1, <2>2
<1>7. Reached(i)
  BY <1>5, <1>6
<1>8. ClusterBytes \in Nat \ {0} /\ o.length \in Nat /\ i \in Nat \ {0}
  BY <1>1, <1>6, SizesAre DEF Outcomes
<1>9. CASE o.valid
  BY <1>7, <1>9 DEF Reached, Past
<1>10. CASE ~o.valid
  <2>1. had + ClusterBytes * i <= o.length
    BY <1>7, <1>10 DEF Reached
  <2> DEFINE b == ClusterBytes * (i - 1)
             e == ClusterBytes * i
  <2>2. b \in Nat /\ b + ClusterBytes = e
    BY <1>8
  <2>3. had + e <= o.length
    BY <2>1
  <2> HIDE DEF b, e
  <2>4. had + b < o.length
    BY <1>8, <2>2, <2>3
  <2>5. QED
    BY <2>4 DEF b, Past
<1>11. QED
  BY <1>9, <1>10

LEMMA GallopsReached ==
  ASSUME NEW T, NEW run \in Seq(T), Held(path) \in Nat, NEW o \in Outcomes,
         NEW i \in 1 .. Len(Gallops(run, o))
  PROVE  Past(Held(path), i, o.length)
<1> DEFINE taken == Taken(run, Held(path), o)
           wanted == IF o.valid \/ o.ran_out THEN taken ELSE <<>>
           Bad(j) == Refused(PushAll(path, SubSeq(wanted, 1, j - 1), o), wanted[j])
           filler == {j \in DOMAIN wanted : Bad(j)}
<1>1. Gallops(run, o) = IF filler = {} THEN wanted ELSE SubSeq(wanted, 1, Min(filler) - 1)
  BY DEF Gallops
<1>2. wanted \in Seq(T)
  <2>1. IsPart(taken, run) /\ Len(run) \in Nat
    BY TakenIsPart, LenProperties
  <2>2. taken \in Seq(T)
    BY <2>1, PartIs DEF IsPart
  <2> HIDE DEF taken
  <2>3. QED
    BY <2>2, EmptySeq
<1>3. wanted = taken \/ wanted = <<>>
  OBVIOUS
<1> HIDE DEF wanted, Bad, taken
<1>4. Len(wanted) \in Nat /\ DOMAIN wanted = 1 .. Len(wanted)
  BY <1>2, LenProperties
<1>5. i \in 1 .. Len(wanted)
  <2>1. CASE filler = {}
    BY <1>1, <2>1
  <2>2. CASE filler # {}
    <3>1. filler \subseteq 1 .. Len(wanted)
      BY <1>4
    <3> HIDE DEF filler
    <3>2. IsFiniteSet(filler) /\ filler \in SUBSET Int
      <4>1. IsFiniteSet(1 .. Len(wanted))
        BY <1>4, FS_Interval
      <4>2. IsFiniteSet(filler)
        BY <3>1, <4>1, FS_Subset
      <4>3. QED
        BY <3>1, <4>2
    <3>3. \E j \in filler : \A l \in filler : j <= l
      BY <2>2, <3>2, LeastExists
    <3>4. Min(filler) \in 1 .. Len(wanted)
      BY <3>1, <3>3 DEF Min
    <3> DEFINE m == Min(filler) - 1
    <3>5. m \in 0 .. Len(wanted)
      BY <1>4, <3>4
    <3>6. Gallops(run, o) = SubSeq(wanted, 1, m)
      BY <1>1, <2>2
    <3> HIDE DEF m
    <3>7. Len(Gallops(run, o)) = m
      BY <1>2, <3>5, <3>6, PartIs
    <3>8. QED
      BY <1>4, <3>5, <3>7
  <2>3. QED
    BY <2>1, <2>2
<1>6. wanted = taken
  <2>1. Len(<<>>) = 0
    OBVIOUS
  <2>2. wanted # <<>>
    BY <1>5, <2>1
  <2>3. QED
    BY <1>3, <2>2
<1>7. i \in 1 .. Len(Taken(run, Held(path), o))
  BY <1>5, <1>6 DEF taken
<1>8. QED
  BY <1>7, TakenReached

\* Of a whole file every cluster is taken up to the one it ends in.
LEMMA TakenAll ==
  ASSUME NEW T, NEW run \in Seq(T), NEW had \in Nat, NEW o \in Outcomes, o.valid,
         NEW k \in 1 .. Len(run), Past(had, k, o.length)
  PROVE  k <= Len(Taken(run, had, o))
<1> DEFINE stop == Covered(run, had, o)
           Reached(j) == IF o.valid THEN had + ClusterBytes * (j - 1) < o.length
                                    ELSE had + ClusterBytes * j <= o.length
           list == [j \in DOMAIN run |-> ~Reached(j)]
           S == {j \in 1 .. Len(list) : list[j]}
           n == Len(run)
<1>1. n \in Nat /\ DOMAIN run = 1 .. n /\ k \in Nat /\ k <= n
  BY LenProperties
<1>2. stop = IF S # {} THEN Min(S) ELSE 0
  BY DEF Covered, SelectInSeq
<1>3. Len(list) = n /\ \A j \in 1 .. n : list[j] = ~Reached(j)
  <2> HIDE DEF Reached
  <2>1. QED
    BY <1>1
<1>4. Taken(run, had, o) = IF stop = 0 THEN run ELSE SubSeq(run, 1, stop - 1)
  BY DEF Taken
<1>5. S \subseteq 1 .. n /\ \A j \in S : ~Reached(j)
  <2> HIDE DEF list, Reached
  <2>1. QED
    BY <1>3
<1>6. ASSUME NEW j \in 1 .. k PROVE Reached(j)
  <2> DEFINE a == ClusterBytes * (j - 1)
             b == ClusterBytes * (k - 1)
  <2>1. ClusterBytes \in Nat /\ j - 1 \in Nat /\ k - 1 \in Nat /\ j - 1 <= k - 1
    BY <1>1, SizesAre
  <2>2. a <= b /\ a \in Nat /\ b \in Nat
    BY <2>1, Times
  <2>3. had + b < o.length /\ o.length \in Nat
    BY DEF Past, Outcomes
  <2>4. had + a < o.length
    <3> HIDE DEF a, b
    <3>1. QED
      BY <2>2, <2>3
  <2>5. QED
    BY <2>4
<1> HIDE DEF list, Reached, S, stop, n
<1>7. \A j \in S : k < j
  BY <1>1, <1>5, <1>6
<1>8. CASE S = {}
  BY <1>1, <1>2, <1>4, <1>8 DEF n
<1>9. CASE S # {}
  <2>1. IsFiniteSet(S) /\ S \in SUBSET Int
    <3>1. IsFiniteSet(1 .. n)
      BY <1>1, FS_Interval
    <3>2. IsFiniteSet(S)
      BY <1>5, <3>1, FS_Subset
    <3>3. QED
      BY <1>5, <3>2
  <2>2. \E j \in S : \A l \in S : j <= l
    BY <1>9, <2>1, LeastExists
  <2>3. Min(S) \in S
    BY <2>2 DEF Min
  <2>4. stop \in 1 .. n /\ k < stop
    BY <1>2, <1>5, <1>7, <1>9, <2>3
  <2> DEFINE m == stop - 1
  <2>5. m \in 0 .. Len(run) /\ k <= m /\ stop # 0
    BY <1>1, <2>4 DEF n
  <2>6. Taken(run, had, o) = SubSeq(run, 1, m)
    BY <1>4, <2>5
  <2> HIDE DEF m
  <2>7. Len(Taken(run, had, o)) = m
    BY <2>5, <2>6, PartIs
  <2>8. QED
    BY <2>5, <2>7
<1>10. QED
  BY <1>8, <1>9

\* And none of it is refused that is no filler.
LEMMA GallopsAll ==
  ASSUME NEW T, NEW run \in Seq(T), Held(path) \in Nat, NEW o \in Outcomes, o.valid,
         NEW k \in 1 .. Len(run), Past(Held(path), k, o.length),
         \A i \in 1 .. k : disk[run[i]].heat # "filler"
  PROVE  k <= Len(Gallops(run, o))
<1> DEFINE wanted == Taken(run, Held(path), o)
           Bad(j) == Refused(PushAll(path, SubSeq(wanted, 1, j - 1), o), wanted[j])
           filler == {j \in DOMAIN wanted : Bad(j)}
<1>1. Gallops(run, o) = IF filler = {} THEN wanted ELSE SubSeq(wanted, 1, Min(filler) - 1)
  BY DEF Gallops
<1>2. wanted \in Seq(T) /\ \A i \in 1 .. Len(wanted) : wanted[i] = run[i]
  <2>1. IsPart(wanted, run) /\ Len(run) \in Nat
    BY TakenIsPart, LenProperties
  <2>2. PICK m \in 0 .. Len(run) : wanted = SubSeq(run, 1, m)
    BY <2>1 DEF IsPart
  <2> HIDE DEF wanted
  <2>3. QED
    BY <2>2, PartIs
<1>3. k <= Len(wanted)
  BY TakenAll
<1> HIDE DEF wanted
<1>4. Len(wanted) \in Nat /\ DOMAIN wanted = 1 .. Len(wanted) /\ k \in Nat \ {0}
  BY <1>2, LenProperties
<1>5. ASSUME NEW j \in filler PROVE k < j
  <2>1. j \in 1 .. Len(wanted) /\ Bad(j)
    BY <1>4
  <2>2. disk[run[j]].heat = "filler"
    BY <1>2, <2>1 DEF Refused
  <2> HIDE DEF filler, Bad
  <2>3. j \notin 1 .. k
    BY <2>2
  <2>4. QED
    BY <1>4, <2>1, <2>3
<1>6. filler \subseteq 1 .. Len(wanted)
  BY <1>4
<1> HIDE DEF filler, Bad
<1>7. CASE filler = {}
  BY <1>1, <1>3, <1>7
<1>8. CASE filler # {}
  <2>1. IsFiniteSet(filler) /\ filler \in SUBSET Int
    <3>1. IsFiniteSet(1 .. Len(wanted))
      BY <1>4, FS_Interval
    <3>2. IsFiniteSet(filler)
      BY <1>6, <3>1, FS_Subset
    <3>3. QED
      BY <1>6, <3>2
  <2>2. \E j \in filler : \A l \in filler : j <= l
    BY <1>8, <2>1, LeastExists
  <2>3. Min(filler) \in filler
    BY <2>2 DEF Min
  <2> DEFINE first == Min(filler)
             m == first - 1
  <2>a. first \in 1 .. Len(wanted) /\ k < first
    BY <1>5, <1>6, <2>3
  <2> HIDE DEF first
  <2>4. m \in 0 .. Len(wanted) /\ k <= m
    BY <1>4, <2>a
  <2>5. Gallops(run, o) = SubSeq(wanted, 1, m)
    BY <1>1, <1>8 DEF first
  <2> HIDE DEF m
  <2>6. Len(Gallops(run, o)) = m
    BY <1>2, <2>4, <2>5, PartIs
  <2>7. QED
    BY <2>4, <2>6
<1>9. QED
  BY <1>7, <1>8

\* Nothing is taken on a contradiction.
LEMMA GallopsOnWord ==
  ASSUME NEW run, NEW o, ~o.valid, ~o.ran_out
  PROVE  Gallops(run, o) = <<>>
<1> DEFINE none == <<>>
           filler == {i \in DOMAIN none : Refused(PushAll(path, SubSeq(none, 1, i - 1), o), none[i])}
<1>1. Gallops(run, o) = IF filler = {} THEN none ELSE SubSeq(none, 1, Min(filler) - 1)
  BY DEF Gallops
<1>2. DOMAIN none = {}
  OBVIOUS
<1>3. filler = {}
  <2> HIDE DEF none
  <2>1. QED
    BY <1>2
<1>4. QED
  BY <1>1, <1>3

-----------------------------------------------------------------------------
(* A path along the file, and what may follow it.                          *)

LEMMA JoinedIs ==
  ASSUME NEW p, IsPath(p), NEW run \in Clustered
  PROVE  LET all == AtsOf(p) \o run IN
         /\ all \in Clustered /\ Len(all) = Len(p) + Len(run)
         /\ \A i \in 1 .. Len(p) : all[i] = p[i].at
         /\ \A i \in 1 .. Len(run) : all[Len(p) + i] = run[i]
<1> DEFINE T == 1 .. DiskClusters
           a == AtsOf(p)
           all == a \o run
           n == Len(p)
<1>1. /\ a \in Seq(T) /\ run \in Seq(T) /\ Len(a) = n /\ n \in Nat
      /\ Len(run) \in Nat /\ \A i \in 1 .. n : a[i] = p[i].at
  BY EntryIs, ClusteredIs DEF Clustered
<1> HIDE DEF T, n, a
<1>2. /\ all \in Seq(T) /\ Len(all) = Len(a) + Len(run)
      /\ \A i \in 1 .. Len(a) + Len(run) : all[i] = IF i <= Len(a) THEN a[i] ELSE run[i - Len(a)]
  BY <1>1, ConcatProperties
<1> HIDE DEF all
<1>3. \A i \in 1 .. n : i \in 1 .. Len(a) + Len(run) /\ i <= Len(a)
  BY <1>1
<1>4. \A i \in 1 .. n : all[i] = p[i].at
  BY <1>1, <1>2, <1>3
<1>5. ASSUME NEW i \in 1 .. Len(run) PROVE all[n + i] = run[i]
  <2> DEFINE k == n + i
  <2>1. k \in 1 .. Len(a) + Len(run) /\ ~(k <= Len(a)) /\ k - Len(a) = i
    BY <1>1
  <2> HIDE DEF k
  <2>2. all[k] = run[i]
    BY <1>2, <2>1
  <2>3. QED
    BY <2>2 DEF k
<1>6. QED
  BY <1>1, <1>2, <1>4, <1>5 DEF Clustered, T, n, all, a

LEMMA RunEnds ==
  ASSUME NEW from \in 1 .. DiskClusters, NEW n \in Nat
  PROVE  /\ Len(Run(from, n)) \in Nat /\ Len(Run(from, n)) <= n
         /\ \A i \in 1 .. Len(Run(from, n)) : Run(from, n)[i] = from + i - 1
<1> DEFINE m == Least(n, DiskClusters + 1 - from)
<1>1. m \in Nat /\ m <= n
  <2>1. DiskClusters \in Nat /\ from \in Nat /\ from <= DiskClusters
    <3>1. DiskClusters \in Nat
      BY SizesAre
    <3>2. QED
      BY <3>1
  <2>2. m = IF n < DiskClusters + 1 - from THEN n ELSE DiskClusters + 1 - from
    BY DEF Least
  <2> HIDE DEF m
  <2>3. QED
    BY <2>1, <2>2
<1>2. Run(from, n) = [i \in 1 .. m |-> from + i - 1]
  BY DEF Run
<1> HIDE DEF m
<1>3. QED
  BY <1>1, <1>2

\* What is judged ends with the clusters given.
LEMMA JudgedNoFurther ==
  ASSUME disk \in Disk, NEW p, IsPath(p), NEW run \in Clustered, NEW m \in Nat, Len(run) <= m
  PROVE  /\ Judge(AtsOf(p) \o run) \in Outcomes
         /\ Judge(AtsOf(p) \o run).length <= ClusterBytes * (Len(p) + m)
<1> DEFINE all == AtsOf(p) \o run
           o == Judge(all)
           a == ClusterBytes * Len(all)
           b == ClusterBytes * (Len(p) + m)
<1>1. all \in Clustered /\ Len(all) = Len(p) + Len(run)
  BY JoinedIs
<1> HIDE DEF all
<1>2. o \in Outcomes /\ o.length <= a
  BY <1>1, JudgeBounds
<1>3. Len(p) \in Nat /\ Len(run) \in Nat /\ ClusterBytes \in Nat
  BY EntryIs, ClusteredIs, SizesAre
<1>4. a <= b /\ a \in Nat /\ b \in Nat
  BY <1>1, <1>3, Times
<1>5. o.length \in Nat
  BY <1>2 DEF Outcomes
<1> HIDE DEF a, b, o
<1>6. o.length <= b
  BY <1>2, <1>4, <1>5
<1>7. QED
  BY <1>2, <1>6 DEF o, b, all

\* The next cluster of the file: it is vouched for, or it completes the file.
LEMMA NextOfFile ==
  ASSUME disk \in Disk, NEW c, Whole(c), NEW p, IsPath(p),
         Along(p, c, Len(p)), Len(p) < Landmarks,
         NEW one, one = Judge(AtsOf(p) \o <<c[Len(p) + 1]>>)
  PROVE  /\ Len(p) + 1 < Landmarks
              => /\ one.ran_out /\ ~one.valid /\ Held(p) < one.length
                 /\ Vouched(Len(p), 1, one.length)
         /\ ~(Len(p) + 1 < Landmarks) => one.valid
<1> DEFINE n == Len(p)
           at == c[n + 1]
           run == <<at>>
           all == AtsOf(p) \o run
<1>1. n \in Nat /\ Landmarks \in Nat /\ ClusterBytes \in Nat /\ MaxUnverified \in Nat \ {0}
  BY EntryIs, SizesAre
<1>2. n + 1 \in 1 .. Landmarks
  BY <1>1
<1>3. at \in 1 .. DiskClusters
  BY <1>2, WholeAt
<1>4. run \in Clustered /\ Len(run) = 1 /\ run[1] = at
  BY <1>3 DEF Clustered
<1> HIDE DEF n, at, run
<1>5. /\ all \in Clustered /\ Len(all) = n + 1
      /\ \A i \in 1 .. n : all[i] = p[i].at
      /\ \A i \in 1 .. 1 : all[n + i] = run[i]
  <2>1. /\ all \in Clustered /\ Len(all) = Len(p) + Len(run)
        /\ \A i \in 1 .. Len(p) : all[i] = p[i].at
        /\ \A i \in 1 .. Len(run) : all[Len(p) + i] = run[i]
    BY <1>4, JoinedIs
  <2> HIDE DEF all
  <2>2. QED
    BY <1>4, <2>1 DEF n
<1>6. \A i \in 1 .. n : p[i].at = c[i]
  BY DEF Along, n
<1> HIDE DEF all
<1>7. all[n + 1] = c[n + 1]
  BY <1>4, <1>5 DEF at
<1>8. \A i \in 1 .. n + 1 : all[i] = c[i]
  <2>1. \A i \in 1 .. n + 1 : i \in 1 .. n \/ i = n + 1
    BY <1>1
  <2>2. QED
    BY <1>5, <1>6, <1>7, <2>1
<1>9. one = Judge(all)
  BY DEF all, run, at, n
<1>10. ASSUME n + 1 < Landmarks
       PROVE  /\ one.ran_out /\ ~one.valid /\ Held(p) < one.length /\ Vouched(n, 1, one.length)
  <2>1. Len(all) \in 1 .. Landmarks - 1
    BY <1>1, <1>5, <1>10
  <2>2. one.ran_out /\ ~one.valid /\ ClusterBytes * (Len(all) - 1) < one.length
    BY <1>5, <1>8, <1>9, <2>1, PartOfFile
  <2>3. Len(all) - 1 = n /\ n + 1 - 1 = n
    BY <1>1, <1>5
  <2>4. ClusterBytes * n < one.length
    BY <2>2, <2>3
  <2>5. one.length <= ClusterBytes * (n + MaxUnverified)
    <3>1. Len(run) <= MaxUnverified
      BY <1>1, <1>4
    <3>2. QED
      BY <1>1, <1>4, <1>9, <3>1, JudgedNoFurther DEF all, n
  <2>6. Vouched(n, 1, one.length)
    BY <2>3, <2>4, <2>5 DEF Vouched
  <2>7. QED
    BY <2>2, <2>4, <2>6 DEF Held, n
<1>11. ASSUME ~(n + 1 < Landmarks) PROVE one.valid
  <2>1. n + 1 = Landmarks
    BY <1>1, <1>2, <1>11
  <2>2. Landmarks <= Len(all) /\ \A i \in 1 .. Landmarks : all[i] = c[i]
    BY <1>1, <1>5, <1>8, <2>1
  <2>3. QED
    BY <1>5, <1>9, <2>2, AllOfFile
<1>12. QED
  BY <1>10, <1>11 DEF n

\* A path that has all of the file, of what was judged at once, is whole.
LEMMA GallopedWhole ==
  ASSUME disk \in Disk, NEW c, Whole(c), NEW p, IsPath(p), NEW run, Follows(run, p),
         NEW taken, IsPart(taken, run), NEW o, o = Judge(AtsOf(p) \o run),
         Along(PushAll(p, taken, o), c, Landmarks)
  PROVE  IsWhole(PushAll(p, taken, o), o)
<1> DEFINE q == PushAll(p, taken, o)
           n == Len(p)
           all == AtsOf(p) \o run
<1>1. /\ n \in Nat /\ run \in Clustered /\ Len(run) \in Nat
      /\ Landmarks \in Nat /\ ClusterBytes \in Nat
  BY EntryIs, ClusteredIs, SizesAre DEF Follows
<1>2. o \in Outcomes
  BY JudgedAlong
<1>3. PICK m \in 0 .. Len(run) : taken = SubSeq(run, 1, m)
  BY DEF IsPart
<1>4. taken \in Clustered /\ Len(taken) = m /\ \A i \in 1 .. m : taken[i] = run[i]
  BY <1>1, <1>3, PartIs DEF Clustered
<1>5. m \in Nat /\ \A i \in 1 .. m : i \in 1 .. Len(run)
  BY <1>1
<1>6. Follows(taken, p)
  <2>1. Ascends(taken)
    BY <1>4, <1>5 DEF Ascends, Follows
  <2>2. p # <<>> => \A i \in 1 .. Len(taken) : p[Len(p)].at < taken[i]
    BY <1>4, <1>5 DEF Follows
  <2>3. QED
    BY <1>4, <2>1, <2>2 DEF Follows
<1>7. /\ \A i \in 1 .. n : q[i] = p[i]
      /\ \A i \in 1 .. m : q[n + i].at = taken[i]
  <2>1. /\ \A i \in 1 .. n : q[i] = p[i]
        /\ \A i \in 1 .. Len(taken) : q[n + i].at = taken[i]
    BY <1>2, <1>6, PushedIs
  <2> HIDE DEF q, n
  <2>2. QED
    BY <1>4, <2>1
<1>8. Len(q) = n + m
  BY <1>2, <1>4, <1>6, PushAllIs
<1> HIDE DEF q, n
<1>9. /\ all \in Clustered /\ Len(all) = n + Len(run)
      /\ \A i \in 1 .. n : all[i] = p[i].at
      /\ \A i \in 1 .. Len(run) : all[n + i] = run[i]
  BY <1>1, JoinedIs DEF n
<1> HIDE DEF all
<1>10. Landmarks <= n + m /\ \A i \in 1 .. Landmarks : q[i].at = c[i]
  BY <1>8 DEF Along, q
<1>11. Landmarks <= Len(all)
  BY <1>1, <1>5, <1>9, <1>10
<1>12. ASSUME NEW i \in 1 .. Landmarks PROVE all[i] = c[i]
  <2>1. CASE i <= n
    <3>1. i \in 1 .. n
      BY <1>1, <2>1
    <3>2. QED
      BY <1>7, <1>9, <1>10, <3>1
  <2>2. CASE ~(i <= n)
    <3> DEFINE d == i - n
    <3>1. d \in 1 .. m /\ n + d = i
      BY <1>1, <1>5, <1>10, <2>2
    <3> HIDE DEF d
    <3>2. all[n + d] = run[d] /\ taken[d] = run[d] /\ q[n + d].at = taken[d]
      BY <1>4, <1>5, <1>7, <1>9, <3>1
    <3>3. q[i].at = c[i]
      BY <1>10
    <3>4. QED
      BY <3>1, <3>2, <3>3
  <2>3. QED
    BY <2>1, <2>2
<1>13. o.valid /\ o.length <= ClusterBytes * Landmarks
  BY <1>9, <1>11, <1>12, AllOfFile DEF all
<1>14. ClusterBytes * Landmarks <= Held(q)
  BY <1>1, <1>5, <1>8, <1>10, Times DEF Held
<1>15. Held(q) >= o.length
  <2> DEFINE a == ClusterBytes * Landmarks
             b == Held(q)
  <2>1. a \in Nat /\ b \in Nat
    BY <1>1, <1>5, <1>8 DEF Held
  <2>2. o.length \in Nat /\ o.length <= a /\ a <= b
    BY <1>2, <1>13, <1>14 DEF Outcomes
  <2> HIDE DEF a, b
  <2>3. b >= o.length
    BY <2>1, <2>2
  <2>4. QED
    BY <2>3 DEF b
<1>16. QED
  BY <1>13, <1>15 DEF IsWhole, q

\* The path has come along the file, and a cluster is the file's next.
Next1(p, c, at) == Along(p, c, Len(p)) /\ Len(p) < Landmarks /\ at = c[Len(p) + 1]

\* A path that leaves the file with its first new cluster keeps up as it did.
LEMMA LeavingKeepsUp ==
  ASSUME NEW p, IsPath(p), NEW places, Follows(places, p), NEW o \in Outcomes, NEW c,
         KeepsUp(p, c), NEW at, ~Next1(p, c, at), Len(places) # 0 => places[1] = at
  PROVE  KeepsUp(PushAll(p, places, o), c)
<1> DEFINE n == Len(p)
           q == PushAll(p, places, o)
<1>1. n \in Nat /\ Len(places) \in Nat /\ Landmarks \in Nat
  BY EntryIs, ClusteredIs, SizesAre DEF Follows
<1>2. \A i \in 1 .. Len(places) :
        Along(q, c, n + i) => Along(p, c, n) /\ \A j \in 1 .. i : places[j] = c[n + j]
  BY AlongGrown
<1> HIDE DEF q, n
<1>3. ASSUME NEW i \in 1 .. Len(places), n + i < Landmarks, Along(q, c, n + i)
      PROVE  FALSE
  <2>1. 1 \in 1 .. i /\ Len(places) # 0
    BY <1>1
  <2>2. Along(p, c, n) /\ places[1] = c[n + 1]
    BY <1>2, <1>3, <2>1
  <2>3. n < Landmarks
    BY <1>1, <1>3
  <2>4. QED
    BY <2>1, <2>2, <2>3 DEF Next1, n
<1>4. QED
  BY <1>3, GrownKeepsUp DEF n, q

\* A path that grows begins as it did.
LEMMA GrownBegins ==
  ASSUME NEW p, IsPath(p), p # <<>>, NEW places, Follows(places, p), NEW o \in Outcomes, NEW c
  PROVE  /\ PushAll(p, places, o)[1] = p[1]
         /\ \A m \in 0 .. Len(p) : Along(PushAll(p, places, o), c, m) <=> Along(p, c, m)
<1>1. 1 \in 1 .. Len(p)
  BY LastIs, EntryIs
<1>2. \A i \in 1 .. Len(p) : PushAll(p, places, o)[i] = p[i]
  BY PushedIs
<1>3. QED
  BY <1>1, <1>2, AlongGrown

\* Pushing the file's next cluster.
LEMMA NextKeepsUp ==
  ASSUME disk \in Disk, NEW c, Whole(c), NEW p, IsPath(p), KeepsUp(p, c),
         NEW at \in 1 .. DiskClusters, p # <<>> => Last(p).at < at, Next1(p, c, at),
         NEW one, one = Judge(AtsOf(p) \o <<at>>)
  PROVE  LET q == Push(p, at, one) IN
         /\ KeepsUp(q, c) /\ Len(q) = Len(p) + 1 /\ Along(q, c, Len(p) + 1)
<1> DEFINE n == Len(p)
           run == <<at>>
           q == PushAll(p, run, one)
<1>1. n \in Nat /\ (p # <<>> => p[Len(p)].at < at)
  BY EntryIs, LastIs
<1>2. Follows(run, p)
  BY <1>1, OneFollows
<1>3. Len(run) = 1 /\ run[1] = at /\ at = c[n + 1]
  BY DEF Next1
<1> HIDE DEF run
<1>4. one \in Outcomes
  BY <1>2, JudgedAlong DEF run
<1>5. n + 1 < Landmarks => Vouched(n, 1, one.length)
  BY NextOfFile DEF Next1
<1>6. KeepsUp(q, c)
  <2>1. \A i \in 1 .. Len(run) : n + i < Landmarks /\ Along(q, c, n + i) => Vouched(n, i, one.length)
    <3>1. \A i \in 1 .. Len(run) : i = 1
      BY <1>3
    <3> HIDE DEF q, n
    <3>2. QED
      BY <1>5, <3>1
  <2>2. QED
    BY <1>2, <1>4, <2>1, GrownKeepsUp
<1>7. Len(q) = n + Len(run)
  BY <1>2, <1>4, PushAllIs
<1>8. Along(q, c, n + 1)
  <2>1. 1 \in 1 .. Len(run) /\ \A j \in 1 .. 1 : run[j] = c[n + j]
    <3>1. \A j \in 1 .. 1 : j = 1
      OBVIOUS
    <3> HIDE DEF n
    <3>2. QED
      BY <1>3, <3>1
  <2>2. Along(p, c, n)
    BY DEF Next1
  <2>3. \A i \in 1 .. Len(run) :
          Along(q, c, n + i) <=> Along(p, c, n) /\ \A j \in 1 .. i : run[j] = c[n + j]
    BY <1>2, <1>4, AlongGrown
  <2> HIDE DEF q, n
  <2>4. QED
    BY <2>1, <2>2, <2>3
<1>9. QED
  BY <1>3, <1>6, <1>7, <1>8 DEF Push, run

\* What is made of a candidate: the path goes on as it was, and when it went
\* along the file and the candidate is its next cluster, it goes on along it.
LEMMA ConsiderFollows ==
  ASSUME disk \in Disk, NEW c, Whole(c), NEW p, IsPath(p), p # <<>>, KeepsUp(p, c),
         NEW cand \in 1 .. DiskClusters, Last(p).at < cand, NEW k, NEW n \in Nat,
         NEW run, run = Run(cand, n),
         NEW one, one = Judge(AtsOf(p) \o <<cand>>),
         NEW ahead, ahead = Judge(AtsOf(p) \o run)
  PROVE  LET v == Consider(p, cand, k, one, run, ahead) IN
         /\ KeepsUp(v.path, c) /\ v.path[1] = p[1]
         /\ \A m \in 0 .. Len(p) : Along(v.path, c, m) <=> Along(p, c, m)
         /\ Next1(p, c, cand) =>
              \/ v.verdict = "complete"
              \/ v.verdict = "accepted" /\ Along(v.path, c, Len(v.path)) /\ Len(v.path) < Landmarks
<1> DEFINE had == Held(p)
           V(v, q, o, m) == [verdict |-> v, path |-> q, by |-> o, calls |-> m]
           taken == Taken(run, had, ahead)
           more == PushAll(p, taken, ahead)
           longer == Push(p, cand, one)
           v == Consider(p, cand, k, one, run, ahead)
           Fine(q) == /\ KeepsUp(q, c) /\ q[1] = p[1]
                      /\ \A m \in 0 .. Len(p) : Along(q, c, m) <=> Along(p, c, m)
<1>1. /\ v.path \in {p, longer, more}
      /\ ~Refused(p, cand) /\ one.valid => v.verdict = "complete" /\ v.path = longer
      /\ ~Refused(p, cand) /\ ~one.valid /\ one.ran_out /\ one.length > had
           => v.verdict = "accepted" /\ v.path = longer
  BY DEF Consider
<1>2. Len(p) \in Nat /\ (p # <<>> => p[Len(p)].at < cand) /\ (p # <<>> => Last(p).at < cand)
  BY EntryIs, LastIs
<1>3. Follows(<<cand>>, p)
  BY <1>2, OneFollows
<1>4. Follows(run, p)
  BY <1>2, RunIs
<1>5. one \in Outcomes /\ ahead \in Outcomes
  BY <1>3, <1>4, JudgedAlong
<1>6. Follows(taken, p) /\ (Len(taken) # 0 => taken[1] = cand)
  <2>1. run \in Seq(1 .. DiskClusters) /\ Len(run) \in Nat
    BY <1>4, ClusteredIs DEF Follows, Clustered
  <2>2. IsPart(taken, run)
    BY <2>1, TakenIsPart
  <2> HIDE DEF taken
  <2>3. PICK m \in 0 .. Len(run) : taken = SubSeq(run, 1, m)
    BY <2>2 DEF IsPart
  <2>4. taken \in Clustered /\ Len(taken) = m /\ \A i \in 1 .. m : taken[i] = run[i]
    BY <2>1, <2>3, PartIs DEF Clustered
  <2>5. m \in Nat /\ \A i \in 1 .. m : i \in 1 .. Len(run)
    BY <2>1
  <2>6. Follows(taken, p)
    <3>1. Ascends(taken)
      BY <1>4, <2>4, <2>5 DEF Ascends, Follows
    <3>2. p # <<>> => \A i \in 1 .. Len(taken) : p[Len(p)].at < taken[i]
      BY <1>4, <2>4, <2>5 DEF Follows
    <3>3. QED
      BY <2>4, <3>1, <3>2 DEF Follows
  <2>7. ASSUME m # 0 PROVE taken[1] = cand
    <3>1. 1 \in 1 .. m /\ 1 \in 1 .. Len(run)
      BY <2>5, <2>7
    <3>2. Run(cand, n)[1] = cand + 1 - 1
      BY <3>1, RunEnds
    <3>3. QED
      BY <2>4, <3>1, <3>2
  <2>8. QED
    BY <2>4, <2>6, <2>7
<1>7. longer = PushAll(p, <<cand>>, one)
  BY DEF Push
<1>a. KeepsUp(p, c) /\ p[1] = p[1]
  OBVIOUS
<1> HIDE DEF v, had, taken, V
<1>8. /\ longer[1] = p[1] /\ more[1] = p[1]
      /\ \A m \in 0 .. Len(p) : Along(longer, c, m) <=> Along(p, c, m)
      /\ \A m \in 0 .. Len(p) : Along(more, c, m) <=> Along(p, c, m)
  BY <1>3, <1>5, <1>6, <1>7, GrownBegins
<1>9. ASSUME Next1(p, c, cand)
      PROVE  /\ KeepsUp(longer, c) /\ v.path = longer
             /\ \/ v.verdict = "complete"
                \/ v.verdict = "accepted" /\ Along(longer, c, Len(longer)) /\ Len(longer) < Landmarks
  <2>1. KeepsUp(longer, c) /\ Len(longer) = Len(p) + 1 /\ Along(longer, c, Len(p) + 1)
    BY <1>2, <1>9, NextKeepsUp
  <2>2. /\ Len(p) + 1 < Landmarks => one.ran_out /\ ~one.valid /\ had < one.length
        /\ ~(Len(p) + 1 < Landmarks) => one.valid
    BY <1>9, NextOfFile DEF Next1, had
  <2>3. ~Refused(p, cand)
    <3>1. Len(p) + 1 \in 1 .. Landmarks
      BY <1>2, <1>9, SizesAre DEF Next1
    <3>2. disk[c[Len(p) + 1]].heat # "filler"
      BY <3>1, WholeAt
    <3>3. QED
      BY <1>9, <3>2 DEF Refused, Next1
  <2> HIDE DEF longer
  <2>4. had \in Nat /\ one.length \in Nat
    BY <1>2, <1>5, SizesAre DEF had, Held, Outcomes
  <2>5. CASE Len(p) + 1 < Landmarks
    <3>1. one.length > had
      BY <2>2, <2>4, <2>5
    <3>2. v.verdict = "accepted" /\ v.path = longer
      BY <1>1, <2>2, <2>3, <2>5, <3>1
    <3>3. QED
      BY <2>1, <2>5, <3>2
  <2>6. CASE ~(Len(p) + 1 < Landmarks)
    BY <1>1, <2>1, <2>2, <2>3, <2>6
  <2>7. QED
    BY <2>5, <2>6
<1>10. ASSUME ~Next1(p, c, cand)
       PROVE  KeepsUp(longer, c) /\ KeepsUp(more, c)
  <2>1. KeepsUp(more, c)
    BY <1>5, <1>6, <1>10, LeavingKeepsUp
  <2>2. Len(<<cand>>) # 0 /\ <<cand>>[1] = cand
    OBVIOUS
  <2> DEFINE r == <<cand>>
  <2>3. Follows(r, p) /\ r[1] = cand
    BY <1>3, <2>2
  <2> HIDE DEF r, longer, more
  <2>4. KeepsUp(PushAll(p, r, one), c)
    BY <1>5, <1>10, <2>3, LeavingKeepsUp
  <2>5. QED
    BY <1>7, <2>1, <2>4 DEF r
<1> HIDE DEF longer, more
<1>11. Fine(v.path)
  <2>1. CASE Next1(p, c, cand)
    BY <1>8, <1>9, <2>1
  <2>2. CASE ~Next1(p, c, cand)
    <3>1. Fine(p) /\ Fine(longer) /\ Fine(more)
      BY <1>8, <1>10, <1>a, <2>2
    <3> HIDE DEF Fine
    <3>2. QED
      BY <1>1, <3>1
  <2>3. QED
    BY <2>1, <2>2
<1>12. QED
  BY <1>9, <1>11 DEF v

\* A call that takes in the rest of the file takes all of it.
LEMMA ReachedIsWhole ==
  ASSUME disk \in Disk, NEW c, Whole(c), IsPath(path), path # <<>>,
         Along(path, c, Len(path)), Len(path) < Landmarks, InReach(c, Len(path)),
         NEW start \in 1 .. DiskClusters, start = Last(path).at + 1,
         NEW run, run = Run(start, RunClusters),
         NEW o, o = Judge(AtsOf(path) \o run)
  PROVE  IsWhole(PushAll(path, Gallops(run, o), o), o)
<1> DEFINE n == Len(path)
           k == Landmarks - n
           l == Len(c) - n
           at == path[n].at
           taken == Gallops(run, o)
           all == AtsOf(path) \o run
<1>1. /\ n \in Nat \ {0} /\ Landmarks \in Nat /\ RunClusters \in Nat /\ Len(c) \in Nat
      /\ at \in Nat /\ at = c[n] /\ start = at + 1 /\ Landmarks <= Len(c)
      /\ DiskClusters \in Nat /\ ClusterBytes \in Nat
  <2>1. Len(path) \in 1 .. Len(path) /\ Last(path) = path[n] /\ Last(path).at \in 1 .. DiskClusters
    BY LastIs
  <2>2. n \in Nat /\ Len(c) \in Nat /\ Landmarks <= Len(c)
    BY EntryIs, ClusteredIs DEF Whole
  <2>3. path[n].at = c[n]
    BY <2>1 DEF Along
  <2> HIDE DEF n, at
  <2>4. n # 0
    BY <2>1 DEF n
  <2>5. at \in Nat /\ start = at + 1 /\ at = c[n]
    BY <2>1, <2>3 DEF at
  <2>6. QED
    BY <2>2, <2>4, <2>5, SizesAre
<1>2. n < Landmarks /\ Along(path, c, n) /\ l <= RunClusters /\ \A i \in 1 .. l : c[n + i] = c[n] + i
  BY DEF InReach
<1>3. Follows(run, path)
  <2>1. path[Len(path)].at < start
    BY <1>1
  <2>2. QED
    BY <1>1, <2>1, RunIs
<1> HIDE DEF n, at
<1>4. k \in 1 .. l /\ l \in Nat \ {0} /\ n + k = Landmarks /\ k \in Nat \ {0}
  BY <1>1, <1>2
<1>5. at + l <= DiskClusters
  <2>1. l \in 1 .. l /\ n + l = Len(c)
    BY <1>1, <1>4
  <2>2. c[n + l] = at + l
    BY <1>1, <1>2, <2>1
  <2>3. Len(c) \in 1 .. Len(c)
    BY <1>1, <1>4
  <2>4. c[Len(c)] \in 1 .. DiskClusters
    BY <2>3, ClusteredIs DEF Whole
  <2> HIDE DEF l
  <2>5. QED
    BY <1>1, <1>4, <2>1, <2>2, <2>4
<1> HIDE DEF l, k
<1>6. /\ run \in Clustered /\ Len(run) \in Nat /\ l <= Len(run)
      /\ \A i \in 1 .. Len(run) : run[i] = start + i - 1
  <2>1. run \in Clustered /\ Len(run) \in Nat
    BY <1>3, ClusteredIs DEF Follows
  <2>2. \A i \in 1 .. Len(run) : run[i] = start + i - 1
    BY <1>1, RunEnds
  <2> DEFINE m == Least(RunClusters, DiskClusters + 1 - start)
  <2> DEFINE left == DiskClusters + 1 - start
  <2>a. left \in Int /\ l <= left
    BY <1>1, <1>4, <1>5
  <2> HIDE DEF left
  <2>b. m = IF RunClusters < left THEN RunClusters ELSE left
    BY DEF Least, left
  <2>4. run = [i \in 1 .. m |-> start + i - 1]
    BY DEF Run
  <2> HIDE DEF m
  <2>3. m \in Nat /\ l <= m
    BY <1>1, <1>2, <1>4, <2>a, <2>b
  <2>5. Len(run) = m
    BY <2>3, <2>4
  <2>6. QED
    BY <2>1, <2>2, <2>3, <2>5
<1>7. \A i \in 1 .. k : i \in 1 .. Len(run) /\ run[i] = c[n + i] /\ n + i \in 1 .. Landmarks
  <2> SUFFICES ASSUME NEW i \in 1 .. k
               PROVE  i \in 1 .. Len(run) /\ run[i] = c[n + i] /\ n + i \in 1 .. Landmarks
    OBVIOUS
  <2>1. i \in 1 .. l /\ i \in 1 .. Len(run)
    BY <1>4, <1>6
  <2>2. run[i] = start + i - 1 /\ c[n + i] = at + i
    BY <1>1, <1>2, <1>6, <2>1
  <2>3. start + i - 1 = at + i
    BY <1>1
  <2>4. n + i \in 1 .. Landmarks
    BY <1>1, <1>4
  <2>5. QED
    BY <2>1, <2>2, <2>3, <2>4
<1>8. /\ all \in Clustered /\ Len(all) = n + Len(run)
      /\ \A i \in 1 .. n : all[i] = path[i].at
      /\ \A i \in 1 .. Len(run) : all[n + i] = run[i]
  BY <1>6, JoinedIs DEF n
<1> HIDE DEF all
<1>9. ASSUME NEW i \in 1 .. Landmarks PROVE all[i] = c[i]
  <2>1. CASE i <= n
    <3>1. i \in 1 .. n
      BY <1>1, <2>1
    <3>2. QED
      BY <1>2, <1>8, <3>1 DEF Along
  <2>2. CASE ~(i <= n)
    <3> DEFINE d == i - n
    <3>1. d \in 1 .. k /\ n + d = i
      BY <1>1, <1>4, <2>2
    <3> HIDE DEF d
    <3>2. all[n + d] = run[d] /\ run[d] = c[n + d]
      BY <1>7, <1>8, <3>1
    <3>3. QED
      BY <3>1, <3>2
  <2>3. QED
    BY <2>1, <2>2
<1>10. o.valid /\ ClusterBytes * (Landmarks - 1) < o.length
  <2>1. Landmarks <= Len(all)
    BY <1>1, <1>4, <1>6, <1>8
  <2>2. o = Judge(all)
    BY DEF all
  <2>3. Judge(all).valid /\ ClusterBytes * (Landmarks - 1) < Judge(all).length
    BY <1>8, <1>9, <2>1, AllOfFile
  <2>4. QED
    BY <2>2, <2>3
<1>11. o \in Outcomes
  BY <1>3, JudgedAlong
<1>12. Held(path) \in Nat /\ Past(Held(path), k, o.length)
  <2>1. Held(path) = ClusterBytes * n
    BY DEF Held, n
  <2>2. ClusterBytes * n + ClusterBytes * (k - 1) = ClusterBytes * (Landmarks - 1) /\ ClusterBytes * n \in Nat
    <3>1. n + (k - 1) = Landmarks - 1
      BY <1>1, <1>4
    <3>2. ClusterBytes * n + ClusterBytes * (k - 1) = ClusterBytes * (n + (k - 1))
      BY <1>1, <1>4
    <3>3. QED
      BY <1>1, <3>1, <3>2
  <2>3. QED
    BY <1>10, <2>1, <2>2 DEF Past
<1>13. k <= Len(taken)
  <2>1. \A i \in 1 .. k : disk[run[i]].heat # "filler"
    <3> SUFFICES ASSUME NEW i \in 1 .. k PROVE disk[run[i]].heat # "filler"
      OBVIOUS
    <3>1. run[i] = c[n + i] /\ n + i \in 1 .. Landmarks
      BY <1>7
    <3>2. QED
      BY <3>1, WholeAt
  <2>2. k \in 1 .. Len(run)
    BY <1>4, <1>6
  <2>3. QED
    BY <1>6, <1>10, <1>11, <1>12, <2>1, <2>2, GallopsAll DEF Clustered
<1>14. IsPart(taken, run)
  BY <1>6, GallopsIsPart DEF Clustered
<1>15. PICK m \in 0 .. Len(run) : taken = SubSeq(run, 1, m)
  BY <1>14 DEF IsPart
<1>16. taken \in Clustered /\ Len(taken) = m /\ \A i \in 1 .. m : taken[i] = run[i]
  <2> DEFINE T == 1 .. DiskClusters
  <2>1. run \in Seq(T)
    BY <1>6 DEF Clustered
  <2> HIDE DEF T, taken
  <2>2. taken \in Seq(T) /\ Len(taken) = m /\ \A i \in 1 .. m : taken[i] = run[i]
    BY <1>15, <2>1, PartIs
  <2>3. QED
    BY <2>2 DEF Clustered, T
<1> HIDE DEF taken
<1>17. Follows(taken, path)
  <2>1. \A i \in 1 .. m : i \in 1 .. Len(run) /\ m \in Nat
    BY <1>6
  <2>2. Ascends(taken)
    BY <1>3, <1>16, <2>1 DEF Ascends, Follows
  <2>3. path # <<>> => \A i \in 1 .. Len(taken) : path[Len(path)].at < taken[i]
    BY <1>3, <1>16, <2>1 DEF Follows
  <2>4. QED
    BY <1>16, <2>2, <2>3 DEF Follows
<1>18. Along(PushAll(path, taken, o), c, n + k)
  <2>1. k \in 1 .. Len(taken) /\ \A j \in 1 .. k : taken[j] = c[n + j]
    <3>1. m \in Nat
      BY <1>6
    <3>2. \A j \in 1 .. k : j \in 1 .. m
      BY <1>4, <1>13, <1>16, <3>1
    <3>3. QED
      BY <1>4, <1>7, <1>16, <3>2
  <2>2. \A i \in 1 .. Len(taken) : Along(PushAll(path, taken, o), c, n + i) <=>
                    Along(path, c, n) /\ \A j \in 1 .. i : taken[j] = c[n + j]
    BY <1>11, <1>17, AlongGrown DEF n
  <2>3. QED
    BY <1>2, <2>1, <2>2
<1>19. IsWhole(PushAll(path, taken, o), o)
  BY <1>3, <1>4, <1>14, <1>18, GallopedWhole
<1>20. QED
  BY <1>19 DEF taken

\* What a call on the way reports, of a long file that is not left.
LEMMA NotOutrun ==
  ASSUME disk \in Disk, NEW c, Whole(c), NeverLeft(c), Long, IsPath(path), path # <<>>,
         Along(path, c, Len(path)), Len(path) < Landmarks,
         NEW start \in 1 .. DiskClusters, start = Last(path).at + 1,
         NEW run, run = Run(start, RunClusters),
         NEW o, o = Judge(AtsOf(path) \o run), o.valid \/ o.ran_out,
         ~IsWhole(PushAll(path, Gallops(run, o), o), o)
  PROVE  o.length <= ClusterBytes * (Len(path) + MaxUnverified)
<1> DEFINE n == Len(path)
<1>1. n \in 1 .. n /\ n \in Nat /\ Last(path) = path[n] /\ Last(path).at = c[n]
  <2>1. Len(path) \in 1 .. Len(path) /\ Last(path) = path[n]
    BY LastIs
  <2>2. QED
    BY <2>1, EntryIs DEF Along
<1>2. Len(c) \in Nat /\ Landmarks <= Len(c) /\ Landmarks \in Nat /\ c \in Clustered
  BY ClusteredIs, SizesAre DEF Whole
<1>3. AtsOf(path) = SubSeq(c, 1, n)
  <2> DEFINE T == 1 .. DiskClusters
  <2>1. n \in 0 .. Len(c) /\ c \in Seq(T)
    BY <1>1, <1>2 DEF Clustered
  <2>2. \A i \in 1 .. n : AtsOf(path)[i] = c[i]
    BY EntryIs DEF Along
  <2>3. AtsOf(path) \in Seq(T) /\ Len(AtsOf(path)) = n
    BY EntryIs DEF Clustered
  <2> HIDE DEF T, n
  <2>4. SubSeq(c, 1, n) \in Seq(T) /\ Len(SubSeq(c, 1, n)) = n /\ \A i \in 1 .. n : SubSeq(c, 1, n)[i] = c[i]
    BY <2>1, PartIs
  <2> DEFINE a == AtsOf(path)
             b == SubSeq(c, 1, n)
  <2>5. a \in Seq(T) /\ b \in Seq(T) /\ Len(a) = Len(b) /\ \A i \in 1 .. Len(a) : a[i] = b[i]
    BY <2>2, <2>3, <2>4
  <2> HIDE DEF a, b
  <2>6. a = b
    BY <2>5, SeqEqual
  <2>7. QED
    BY <2>6 DEF a, b
<1>4. o = Judge(SubSeq(c, 1, n) \o Run(c[n] + 1, RunClusters))
  BY <1>1, <1>3
<1>5. ~InReach(c, n)
  BY ReachedIsWhole
<1>6. n \in 1 .. Len(c) - 1
  BY <1>1, <1>2
<1>7. ~Outrun(c, n)
  <2>1. MaxUnverified \in Nat
    BY SizesAre
  <2>2. ~(Landmarks <= MaxUnverified + 1)
    BY <1>2, <2>1 DEF Long
  <2> HIDE DEF n
  <2>3. QED
    BY <1>5, <1>6, <2>2 DEF NeverLeft
<1>8. ~(o.length > ClusterBytes * (n + MaxUnverified))
  BY <1>4, <1>7 DEF Outrun
<1>9. o \in Outcomes
  <2>1. path[Len(path)].at < start
    BY <1>1, LastIs
  <2>2. Follows(run, path)
    BY <2>1, RunIs, SizesAre
  <2>3. QED
    BY <2>2, JudgedAlong
<1>10. QED
  <2> DEFINE b == ClusterBytes * (n + MaxUnverified)
  <2>1. b \in Nat /\ o.length \in Nat
    BY <1>1, <1>9, SizesAre DEF Outcomes
  <2> HIDE DEF b
  <2>2. ~(o.length > b) => o.length <= b
    BY <2>1
  <2>3. QED
    BY <1>8, <2>2 DEF b

\* What a gallop takes: the path goes on as it was, and when it went along the
\* file it goes on along it, has all of it, or left it where a decision stays.
LEMMA GallopFollows ==
  ASSUME disk \in Disk, NEW c, Whole(c), NeverLeft(c), IsPath(path), path # <<>>,
         KeepsUp(path, c),
         NEW start \in 1 .. DiskClusters, start = Last(path).at + 1,
         NEW run, run = Run(start, RunClusters),
         NEW o, o = Judge(AtsOf(path) \o run), NEW taken, taken = Gallops(run, o)
  PROVE  LET q == PushAll(path, taken, o)
             n == Len(path) IN
         /\ KeepsUp(q, c) \/ IsWhole(q, o)
         /\ q[1] = path[1]
         /\ \A m \in 0 .. n : Along(q, c, m) <=> Along(path, c, m)
         /\ Along(path, c, n) /\ n < Landmarks =>
              \/ Along(q, c, Len(q)) /\ Len(q) < Landmarks
              \/ IsWhole(q, o)
              \/ \E j \in 1 .. Len(taken) :
                   /\ n + j - 1 \in 1 .. Landmarks - 1 /\ Along(q, c, n + j - 1)
                   /\ 1 <= Gap(c, n + j - 1)
<1> DEFINE q == PushAll(path, taken, o)
           n == Len(path)
           t == Len(taken)
           at == path[n].at
<1>1. n \in Nat \ {0} /\ Landmarks \in Nat /\ RunClusters \in Nat /\ at \in Nat /\ start = at + 1
  <2>1. Len(path) \in 1 .. Len(path) /\ Last(path) = path[n] /\ Last(path).at \in 1 .. DiskClusters
    BY LastIs
  <2>2. n \in Nat
    BY EntryIs
  <2> HIDE DEF n, at
  <2>3. n # 0
    BY <2>1 DEF n
  <2>4. at \in Nat /\ start = at + 1
    BY <2>1 DEF at
  <2>5. QED
    BY <2>2, <2>3, <2>4, SizesAre
<1>2. Follows(run, path)
  <2>1. path[Len(path)].at < start
    BY <1>1
  <2>2. QED
    BY <1>1, <2>1, RunIs
<1>3. run \in Clustered /\ Len(run) \in Nat /\ Len(run) <= RunClusters
      /\ \A i \in 1 .. Len(run) : run[i] = start + i - 1
  BY <1>1, <1>2, RunEnds DEF Follows, Clustered
<1>4. o \in Outcomes
  BY <1>1, <1>3, JudgedNoFurther
<1>5. IsPart(taken, run)
  BY <1>3, GallopsIsPart DEF Clustered
<1>6. PICK m \in 0 .. Len(run) : taken = SubSeq(run, 1, m)
  BY <1>5 DEF IsPart
<1>7. taken \in Clustered /\ t = m /\ \A i \in 1 .. m : taken[i] = run[i]
  <2>1. run \in Seq(1 .. DiskClusters)
    BY <1>3 DEF Clustered
  <2> DEFINE T == 1 .. DiskClusters
  <2>2. run \in Seq(T) /\ taken = SubSeq(run, 1, m) /\ m \in 0 .. Len(run)
    BY <1>6, <2>1
  <2> HIDE DEF T
  <2>3. SubSeq(run, 1, m) \in Seq(T) /\ Len(SubSeq(run, 1, m)) = m
        /\ \A i \in 1 .. m : SubSeq(run, 1, m)[i] = run[i]
    BY <2>2, PartIs
  <2>4. QED
    BY <2>2, <2>3 DEF Clustered, T
<1>8. m \in Nat /\ \A i \in 1 .. m : i \in 1 .. Len(run)
  BY <1>3
<1>9. Follows(taken, path)
  <2>1. Ascends(taken)
    BY <1>2, <1>7, <1>8 DEF Ascends, Follows
  <2>2. path # <<>> => \A i \in 1 .. Len(taken) : path[Len(path)].at < taken[i]
    BY <1>2, <1>7, <1>8 DEF Follows
  <2>3. QED
    BY <1>7, <2>1, <2>2 DEF Follows
<1>10. \A i \in 1 .. t : taken[i] = at + i
  <2>1. \A i \in 1 .. t : taken[i] = start + i - 1
    BY <1>3, <1>7, <1>8
  <2> HIDE DEF t, at
  <2>2. \A i \in 1 .. t : start + i - 1 = at + i
    BY <1>1, <1>7, <1>8
  <2>3. QED
    BY <2>1, <2>2
<1>11. /\ q[1] = path[1]
       /\ \A i \in 0 .. n : Along(q, c, i) <=> Along(path, c, i)
  BY <1>4, <1>9, GrownBegins
<1>12. /\ \A i \in 1 .. t : Along(q, c, n + i) <=> Along(path, c, n) /\ \A j \in 1 .. i : taken[j] = c[n + j]
       /\ Len(q) = n + t
  <2>1. Len(q) = n + t
    BY <1>4, <1>9, PushAllIs
  <2>2. \A i \in 1 .. t : Along(q, c, n + i) <=> Along(path, c, n) /\ \A j \in 1 .. i : taken[j] = c[n + j]
    BY <1>4, <1>9, AlongGrown
  <2>3. QED
    BY <2>1, <2>2
<1>13. ASSUME ~IsWhole(q, o), NEW i \in 1 .. t, n + i < Landmarks, Along(q, c, n + i)
       PROVE  Vouched(n, i, o.length)
  <2>1. Held(path) \in Nat
    BY <1>1, SizesAre DEF Held
  <2>2. Past(Held(path), i, o.length)
    BY <1>3, <1>4, <2>1, GallopsReached DEF Clustered
  <2>3. ClusterBytes * n + ClusterBytes * (i - 1) < o.length
    BY <2>2 DEF Past, Held
  <2>4. ClusterBytes * n + ClusterBytes * (i - 1) = ClusterBytes * (n + i - 1)
    <3>1. i \in Int /\ ClusterBytes \in Int
      BY SizesAre
    <3> HIDE DEF n
    <3>2. QED
      BY <1>1, <3>1
  <2>5. Along(path, c, n) /\ n < Landmarks
    <3>1. Along(path, c, n)
      BY <1>12, <1>13
    <3> HIDE DEF n, t
    <3>2. i \in Nat
      BY <1>7, <1>8
    <3>3. QED
      BY <1>1, <1>13, <3>1, <3>2
  <2>6. o.valid \/ o.ran_out
    <3>1. taken # <<>>
      <4>1. Len(<<>>) = 0
        OBVIOUS
      <4>2. t # 0
        BY <1>7, <1>8
      <4>3. QED
        BY <4>1, <4>2
    <3>2. QED
      BY <3>1, GallopsOnWord
  <2>7. Long => o.length <= ClusterBytes * (n + MaxUnverified)
    BY <1>13, <2>5, <2>6, NotOutrun
  <2>8. QED
    BY <2>3, <2>4, <2>7 DEF Vouched
<1>14. KeepsUp(q, c) \/ IsWhole(q, o)
  <2>1. ASSUME ~IsWhole(q, o) PROVE KeepsUp(q, c)
    <3>1. \A i \in 1 .. t : n + i < Landmarks /\ Along(q, c, n + i) => Vouched(n, i, o.length)
      BY <1>13, <2>1
    <3>2. QED
      BY <1>4, <1>9, <3>1, GrownKeepsUp
  <2>2. QED
    BY <2>1
<1>15. Along(q, c, Landmarks) => IsWhole(q, o)
  BY <1>2, <1>5, GallopedWhole
<1> HIDE DEF q, n, t, at
<1>16. ASSUME Along(path, c, n), n < Landmarks
       PROVE  \/ Along(q, c, n + t) /\ n + t < Landmarks
              \/ IsWhole(q, o)
              \/ \E j \in 1 .. t : /\ n + j - 1 \in 1 .. Landmarks - 1 /\ Along(q, c, n + j - 1)
                                   /\ 1 <= Gap(c, n + j - 1)
  <2> DEFINE S == {j \in 1 .. t : n + j <= Landmarks /\ taken[j] # c[n + j]}
  <2>1. CASE S = {}
    <3>1. \A j \in 1 .. t : n + j <= Landmarks => taken[j] = c[n + j]
      BY <2>1
    <3>2. CASE t = 0
      <4>1. Along(q, c, n)
        BY <1>1, <1>11, <1>16
      <4>2. QED
        BY <1>1, <1>16, <3>2, <4>1
    <3>3. CASE t # 0 /\ n + t < Landmarks
      <4>1. t \in 1 .. t /\ \A j \in 1 .. t : n + j <= Landmarks
        BY <1>1, <1>7, <1>8, <3>3
      <4>2. QED
        BY <1>12, <1>16, <3>1, <3>3, <4>1
    <3>4. CASE ~(n + t < Landmarks)
      <4> DEFINE i == Landmarks - n
      <4>1. i \in 1 .. t /\ n + i = Landmarks /\ \A j \in 1 .. i : j \in 1 .. t /\ n + j <= Landmarks
        BY <1>1, <1>7, <1>8, <1>16, <3>4
      <4> HIDE DEF i
      <4>2. Along(q, c, n + i)
        BY <1>12, <1>16, <3>1, <4>1
      <4>3. QED
        BY <1>15, <4>1, <4>2
    <3>5. QED
      BY <3>2, <3>3, <3>4
  <2>2. CASE S # {}
    <3>1. S \subseteq 1 .. t
      OBVIOUS
    <3> HIDE DEF S
    <3>2. IsFiniteSet(S) /\ S \in SUBSET Int
      <4>1. IsFiniteSet(1 .. t)
        <5>1. t \in Int /\ 1 \in Int
          BY <1>7, <1>8
        <5>2. QED
          BY <5>1, FS_Interval
      <4>2. IsFiniteSet(S)
        BY <3>1, <4>1, FS_Subset
      <4>3. QED
        BY <3>1, <4>2
    <3>3. PICK j \in S : \A i \in S : j <= i
      BY <2>2, <3>2, LeastExists
    <3>4. j \in 1 .. t /\ n + j <= Landmarks /\ taken[j] # c[n + j]
      BY <3>3 DEF S
    <3>5. j \in Nat \ {0}
      BY <3>4
    <3>6. ASSUME NEW i \in 1 .. (j - 1) PROVE taken[i] = c[n + i]
      <4>1. i \in 1 .. t /\ n + i <= Landmarks /\ ~(j <= i)
        BY <1>1, <1>7, <1>8, <3>4, <3>5
      <4>2. QED
        BY <3>3, <4>1 DEF S
    <3> DEFINE b == n + j - 1
    <3>7. b \in 1 .. Landmarks - 1 /\ b + 1 = n + j
      BY <1>1, <3>4, <3>5
    <3>8. Along(q, c, b) /\ c[b] = at + j - 1
      <4>1. CASE j = 1
        <5>1. b = n
          BY <1>1, <4>1
        <5>2. Along(q, c, n)
          BY <1>1, <1>11, <1>16
        <5>3. at = c[n]
          BY <1>1, <1>16 DEF Along, at
        <5>4. at + j - 1 = at
          BY <1>1, <4>1
        <5>5. QED
          BY <5>1, <5>2, <5>3, <5>4
      <4>2. CASE j # 1
        <5> DEFINE i == j - 1
        <5>1. i \in 1 .. t /\ i \in 1 .. (j - 1) /\ n + i = b /\ at + i = at + j - 1
          BY <1>1, <1>7, <1>8, <3>4, <3>5, <4>2
        <5>2. \A l \in 1 .. i : taken[l] = c[n + l]
          BY <3>6
        <5> HIDE DEF i, b
        <5>3. Along(q, c, n + i)
          BY <1>12, <1>16, <5>1, <5>2
        <5>4. taken[i] = c[n + i] /\ taken[i] = at + i
          BY <1>10, <3>6, <5>1
        <5>5. QED
          BY <5>1, <5>3, <5>4
      <4>3. QED
        BY <4>1, <4>2
    <3>9. taken[j] = at + j
      BY <1>10, <3>4
    <3> HIDE DEF b
    <3>10. Gap(c, b) \in Nat /\ c[b + 1] = c[b] + Gap(c, b) + 1
      BY <3>7, GapIs
    <3>11. Gap(c, b) # 0
      <4>1. c[b + 1] # at + j
        BY <3>4, <3>7, <3>9
      <4>2. c[b] + 0 + 1 = at + j
        BY <1>1, <3>5, <3>8
      <4>3. QED
        BY <3>10, <4>1, <4>2
    <3>12. 1 <= Gap(c, b)
      <4> DEFINE g == Gap(c, b)
      <4> HIDE DEF g
      <4>1. g \in Nat /\ g # 0
        BY <3>10, <3>11 DEF g
      <4>2. 1 <= g
        BY <4>1
      <4>3. QED
        BY <4>2 DEF g
    <3>13. QED
      BY <3>4, <3>7, <3>8, <3>12 DEF b
  <2>3. QED
    BY <2>1, <2>2
<1>17. QED
  BY <1>11, <1>12, <1>14, <1>16 DEF q, n, t

-----------------------------------------------------------------------------
(* The decision that leads to the file.                                    *)

\* A decision taken along the file, whose next candidates hold the file's next
\* cluster.
Waits(f, p, c) ==
  /\ f.base < Landmarks /\ Along(p, c, f.base)
  /\ f.next_k <= Gap(c, f.base) /\ Gap(c, f.base) <= f.window

Waiting(s, p, c) == \E i \in 1 .. Len(s) : Waits(s[i], p, c)

\* It waits whatever the path does after it.
LEMMA WaitsOn ==
  ASSUME NEW n \in Nat, NEW s, IsStack(s, n), NEW p, NEW q, NEW c, Waiting(s, p, c),
         \A m \in 0 .. n : Along(q, c, m) <=> Along(p, c, m)
  PROVE  Waiting(s, q, c)
<1>1. PICK i \in 1 .. Len(s) : Waits(s[i], p, c)
  BY DEF Waiting
<1>2. s[i] \in Decision /\ s[i].base <= n
  BY ElementOfSeq DEF IsStack
<1> DEFINE b == s[i].base
<1>3. b \in Nat /\ b <= n
  BY <1>2 DEF Decision
<1> HIDE DEF b
<1>4. b \in 0 .. n
  BY <1>3
<1>5. Along(q, c, b)
  BY <1>1, <1>4 DEF Waits, b
<1>6. QED
  BY <1>1, <1>5 DEF Waits, Waiting, b

\* And whatever is stacked on it.
LEMMA WaitsUnder ==
  ASSUME NEW s \in Seq(Decision), NEW t \in Seq(Decision), NEW p, NEW c
  PROVE  /\ Waiting(s, p, c) => Waiting(s \o t, p, c)
         /\ Waiting(t, p, c) => Waiting(s \o t, p, c)
<1> DEFINE q == s \o t
           k == Len(s)
           l == Len(t)
<1>1. /\ k \in Nat /\ l \in Nat /\ Len(q) = k + l
      /\ \A i \in 1 .. k + l : q[i] = IF i <= k THEN s[i] ELSE t[i - k]
  BY ConcatProperties, LenProperties
<1> HIDE DEF q, k, l
<1>2. \A i \in 1 .. k : i \in 1 .. k + l /\ q[i] = s[i]
  BY <1>1
<1>3. \A i \in 1 .. l : k + i \in 1 .. k + l /\ q[k + i] = t[i]
  <2> SUFFICES ASSUME NEW i \in 1 .. l PROVE k + i \in 1 .. k + l /\ q[k + i] = t[i]
    OBVIOUS
  <2> DEFINE j == k + i
  <2>1. j \in 1 .. k + l /\ ~(j <= k) /\ j - k = i
    BY <1>1
  <2> HIDE DEF j
  <2>2. q[j] = t[i]
    BY <1>1, <2>1
  <2>3. QED
    BY <2>1, <2>2 DEF j
<1>4. Waiting(s, p, c) => Waiting(q, p, c)
  BY <1>1, <1>2 DEF Waiting, k
<1>5. Waiting(t, p, c) => Waiting(q, p, c)
  BY <1>1, <1>3 DEF Waiting, l
<1>6. QED
  BY <1>4, <1>5 DEF q

LEMMA WaitsOnTop ==
  ASSUME NEW s \in Seq(Decision), NEW f \in Decision, NEW p, NEW c
  PROVE  /\ Waiting(s, p, c) => Waiting(Append(s, f), p, c)
         /\ Waits(f, p, c) => Waiting(Append(s, f), p, c)
<1>1. <<f>> \in Seq(Decision) /\ Append(s, f) = s \o <<f>>
  OBVIOUS
<1>2. Waits(f, p, c) => Waiting(<<f>>, p, c)
  <2>1. Len(<<f>>) = 1 /\ <<f>>[1] = f /\ 1 \in 1 .. 1
    OBVIOUS
  <2>2. QED
    BY <2>1 DEF Waiting
<1>3. QED
  BY <1>1, <1>2, WaitsUnder

\* The one that waits is the top one, or it is below.
LEMMA WaitsBelow ==
  ASSUME NEW s \in Seq(Decision), s # <<>>, NEW p, NEW c, Waiting(s, p, c)
  PROVE  Waits(Last(s), p, c) \/ Waiting(Front(s), p, c)
<1> DEFINE l == Len(s)
           f == Front(s)
<1>1. l \in Nat /\ l # 0 /\ Last(s) = s[l]
  BY LenProperties DEF Last
<1>2. f = SubSeq(s, 1, l - 1)
  BY DEF Front
<1>3. l - 1 \in 0 .. Len(s)
  BY <1>1
<1>4. Len(f) = l - 1 /\ \A i \in 1 .. l - 1 : f[i] = s[i]
  <2> HIDE DEF f, l
  <2>1. QED
    BY <1>2, <1>3, PartIs
<1>5. PICK i \in 1 .. l : Waits(s[i], p, c)
  BY DEF Waiting
<1> HIDE DEF f, l
<1>6. CASE i = l
  BY <1>1, <1>5, <1>6
<1>7. CASE i # l
  <2>1. i \in 1 .. l - 1
    BY <1>1, <1>7
  <2>2. Waits(f[i], p, c)
    BY <1>4, <1>5, <2>1
  <2>3. QED
    BY <1>4, <2>1, <2>2 DEF Waiting, f
<1>8. QED
  BY <1>6, <1>7

\* One decision is left at each place from one to another.
LEMMA FrameIsLeft ==
  ASSUME NEW from \in Nat \ {0}, NEW to \in Int, NEW w \in Nat, NEW j \in 1 .. (to - from + 1),
         NEW p, NEW c, Waits(Frame(from + j - 1, 1, w), p, c)
  PROVE  Frames(from, to, w) \in Seq(Decision) /\ Waiting(Frames(from, to, w), p, c)
<1> DEFINE t == Frames(from, to, w)
           l == to - from + 1
<1>1. l \in Nat /\ \A i \in 1 .. l : from + i - 1 \in Nat \ {0}
  OBVIOUS
<1>2. t = [i \in 1 .. l |-> Frame(from + i - 1, 1, w)]
  BY DEF Frames
<1> HIDE DEF l, t
<1>3. \A b \in Nat \ {0} : Frame(b, 1, w) \in Decision
  BY DEF Frame, Decision
<1>4. t \in [1 .. l -> Decision]
  BY <1>1, <1>2, <1>3
<1>5. t \in Seq(Decision) /\ Len(t) = l
  BY <1>1, <1>4
<1>6. j \in 1 .. l /\ Waits(t[j], p, c)
  <2>1. j \in 1 .. l
    BY DEF l
  <2>2. QED
    BY <1>2, <2>1
<1>7. QED
  BY <1>5, <1>6 DEF Waiting, t

-----------------------------------------------------------------------------
(* The search finds it.                                                    *)

Near(st, p, s, c) ==
  \/ st \in {"gallop", "extend"} /\ Along(p, c, Len(p)) /\ Len(p) < Landmarks
  \/ Waiting(s, p, c)

\* Between any two steps, for a file c of the disk: in an attempt whose window
\* is the widest the path is along the file, or a decision waits at which the
\* search will come back to it.
FoundIn(st, w, p, s, r, c) ==
  /\ st \in {"gallop", "extend", "candidates"} =>
       /\ KeepsUp(p, c) /\ 1 < Landmarks /\ (p # <<>> => p[1].at = 1)
       /\ MaxGapClusters <= w => Near(st, p, s, c)
  /\ st \in {"gallop", "extend"} /\ s = <<>> => Len(p) = 1
  /\ st = "ended" => r.status = "valid" \/ r.why \in {"budget", "size"}

LEMMA StoppedSays ==
  ASSUME NEW why, Stopped(why) PROVE step' = "ended" /\ result'.why = why
BY DEF Stopped, End, BestOrNothing, Finish

LEMMA DoneSays ==
  ASSUME NEW p, NEW length PROVE Done(p, length).status = "valid"
BY DEF Done, Finish

LEMMA AttemptFinds ==
  ASSUME SearchInv, Attempt, NEW c, Whole(c)
  PROVE  FoundIn(step', window', path', stack', result', c)
<1> DEFINE o == Judge(<<1>>)
           none == <<>>
           q == Push(none, 1, o)
<1>1. /\ IF ~(o.ran_out \/ o.valid)
         THEN TRUE
         ELSE /\ path' = q
              /\ IF o.valid
                 THEN End(Done(path', o.length))
                 ELSE step' = "gallop"
  BY DEF Attempt
<1>2. disk \in Disk
  BY DEF SearchInv
<1>3. IsPath(none) /\ Len(none) = 0 /\ AtsOf(none) \o <<1>> = <<1>> /\ none = <<>>
  <2>1. IsPath(<<>>) /\ Len(<<>>) = 0
    BY EmptySeq DEF IsPath
  <2>2. AtsOf(<<>>) = <<>>
    BY DEF AtsOf
  <2>3. <<>> \o <<1>> = <<1>>
    BY ConcatEmptySeq
  <2>4. QED
    BY <2>1, <2>2, <2>3
<1>4. 1 \in 1 .. DiskClusters /\ Landmarks \in Nat \ {0}
  BY SizesAre
<1> HIDE DEF none
<1>5. Along(none, c, 0) /\ KeepsUp(none, c)
  BY <1>3 DEF Along, KeepsUp
<1>6. Next1(none, c, 1)
  <2>1. c[0 + 1] = 1
    BY DEF Whole
  <2>2. QED
    BY <1>3, <1>4, <1>5, <2>1 DEF Next1
<1>7. o = Judge(AtsOf(none) \o <<1>>)
  BY <1>3
<1> HIDE DEF o
<1> HIDE DEF q
<1>8. KeepsUp(q, c) /\ Len(q) = 0 + 1 /\ Along(q, c, 0 + 1)
  <2> DEFINE at == 1
  <2>1. none # <<>> => Last(none).at < at
    BY <1>3
  <2>2. at \in 1 .. DiskClusters /\ Next1(none, c, at) /\ o = Judge(AtsOf(none) \o <<at>>)
    BY <1>4, <1>6, <1>7
  <2>3. IsPath(none) /\ KeepsUp(none, c)
    BY <1>3, <1>5
  <2>4. q = Push(none, at, o)
    BY DEF q
  <2> HIDE DEF at
  <2>5. KeepsUp(q, c) /\ Len(q) = Len(none) + 1 /\ Along(q, c, Len(none) + 1)
    BY <1>2, <2>1, <2>2, <2>3, <2>4, NextKeepsUp
  <2>6. QED
    BY <1>3, <2>5
<1>9. /\ 1 < Landmarks => o.ran_out /\ ~o.valid
      /\ ~(1 < Landmarks) => o.valid
  <2>1. c[Len(none) + 1] = 1 /\ Len(none) + 1 = 1
    BY <1>3, <1>6 DEF Next1
  <2>2. QED
    BY <1>2, <1>3, <1>6, <1>7, <2>1, NextOfFile DEF Next1
<1>10. CASE 1 < Landmarks
  <2>1. path' = q /\ step' = "gallop"
    BY <1>1, <1>9, <1>10
  <2>2. Along(q, c, Len(q)) /\ Len(q) < Landmarks /\ Len(q) = 1
    BY <1>8, <1>10
  <2>3. q[1].at = 1
    <3>1. 1 \in 1 .. 1 /\ c[1] = 1
      BY DEF Whole
    <3>2. QED
      BY <1>8, <3>1 DEF Along
  <2>4. QED
    BY <1>8, <1>10, <2>1, <2>2, <2>3 DEF FoundIn, Near
<1>11. CASE ~(1 < Landmarks)
  <2>1. step' = "ended" /\ result' = Done(path', o.length)
    BY <1>1, <1>9, <1>11 DEF End
  <2>2. QED
    BY <2>1, DoneSays DEF FoundIn
<1>12. QED
  BY <1>10, <1>11

\* A branch along the file is never left as one that verifies nothing.
LEMMA FreshIsNotQuiet ==
  ASSUME NEW n \in Nat, NEW verified \in Nat, NEW stale \in Nat, Fresh(n, verified, stale),
         n < Landmarks
  PROVE  stale < MaxUnverified
<1> DEFINE a == n - 1
           b == n - stale - 1 + MaxUnverified
           low == ClusterBytes * a
           high == ClusterBytes * b
<1>1. ClusterBytes \in Nat /\ MaxUnverified \in Nat /\ Landmarks \in Nat
  BY SizesAre
<1>2. CASE Long
  <2>1. a \in Int /\ b \in Int /\ low \in Int /\ high \in Int
    BY <1>1
  <2>2. low < verified /\ verified <= high
    BY <1>2 DEF Fresh
  <2>3. low < high
    <3> HIDE DEF low, high
    <3>1. QED
      BY <2>1, <2>2
  <2>4. a < b
    <3> HIDE DEF a, b
    <3>1. QED
      BY <1>1, <2>1, <2>3, TimesLess
  <2>5. QED
    BY <1>1, <2>4
<1>3. CASE ~Long
  BY <1>1, <1>3 DEF Fresh, Long
<1>4. QED
  BY <1>2, <1>3

LEMMA ExtendFinds ==
  ASSUME SearchInv, Extend, NEW c, Whole(c),
         FoundIn(step, window, path, stack, result, c)
  PROVE  FoundIn(step', window', path', stack', result', c)
<1> DEFINE n == Len(path)
           quiet == Last(path).stale >= MaxUnverified
           f == Frame(n, 0, window)
<1>1. /\ step = "extend" /\ window' = window /\ path' = path
      /\ \/ Stopped("size")
         \/ quiet /\ stack = <<>> /\ Stopped("quiet")
         \/ /\ stack' = IF quiet THEN stack ELSE Append(stack, f)
            /\ step' = "candidates"
  BY DEF Extend
<1>2. /\ disk \in Disk /\ window \in Nat /\ IsPath(path) /\ path # <<>>
      /\ stack \in Seq(Decision)
  BY <1>1 DEF SearchInv, IsStack
<1>3. /\ n \in Nat \ {0} /\ Last(path) = path[n] /\ n \in 1 .. n
      /\ path[n].verified \in Nat /\ path[n].stale \in Nat
      /\ MaxUnverified \in Nat /\ RunClusters \in Nat /\ Landmarks \in Nat /\ MaxGapClusters \in Nat
  <2>1. Len(path) \in 1 .. Len(path) /\ Last(path) = path[n]
    BY <1>2, LastIs
  <2>2. n \in Nat /\ path[n].verified \in Nat /\ path[n].stale \in Nat
    BY <1>2, <2>1, EntryIs
  <2> HIDE DEF n
  <2>3. n # 0
    BY <2>1 DEF n
  <2>4. n \in 1 .. n
    BY <2>2, <2>3
  <2>5. QED
    BY <2>1, <2>2, <2>3, <2>4, SizesAre
<1>4. /\ KeepsUp(path, c) /\ 1 < Landmarks /\ path[1].at = 1
      /\ MaxGapClusters <= window => Near(step, path, stack, c)
      /\ stack = <<>> => n = 1
  BY <1>1, <1>2 DEF FoundIn
<1>5. ASSUME Along(path, c, n), n < Landmarks PROVE ~quiet
  <2>1. Fresh(n, path[n].verified, path[n].stale)
    BY <1>3, <1>4, <1>5 DEF KeepsUp
  <2> DEFINE s == path[n].stale
             v == path[n].verified
  <2>2. s < MaxUnverified /\ s \in Nat
    <3> HIDE DEF n, s, v
    <3>1. Fresh(n, v, s) /\ n \in Nat /\ v \in Nat /\ s \in Nat
      BY <1>3, <2>1 DEF v, s
    <3>2. QED
      BY <1>5, <3>1, FreshIsNotQuiet
  <2> HIDE DEF s, n
  <2>3. ~(s >= MaxUnverified)
    BY <1>3, <2>2
  <2>4. QED
    BY <1>3, <2>3 DEF s
<1>6. ASSUME stack = <<>> PROVE ~quiet
  <2>1. n = 1 /\ c[1] = 1
    BY <1>4, <1>6 DEF Whole
  <2>2. Along(path, c, 1)
    <3>1. \A j \in 1 .. 1 : j = 1
      OBVIOUS
    <3>2. path[1].at = c[1] /\ 1 <= Len(path)
      BY <1>4, <2>1
    <3>3. QED
      BY <3>1, <3>2 DEF Along
  <2> HIDE DEF quiet
  <2>3. Along(path, c, n) /\ n < Landmarks
    BY <1>4, <2>1, <2>2
  <2>4. QED
    BY <1>5, <2>3
<1> HIDE DEF quiet
<1>7. CASE Stopped("size")
  BY <1>7, StoppedSays DEF FoundIn
<1>8. CASE stack' = (IF quiet THEN stack ELSE Append(stack, f)) /\ step' = "candidates"
  <2>1. f \in Decision /\ f.base = n /\ f.next_k = 0 /\ f.window = window
    <3> HIDE DEF n
    <3>1. QED
      BY <1>2, <1>3 DEF Frame, Decision
  <2> HIDE DEF f
  <2>2. ASSUME MaxGapClusters <= window PROVE Waiting(stack', path, c)
    <3>1. CASE Along(path, c, n) /\ n < Landmarks
      <4>1. stack' = Append(stack, f)
        BY <1>5, <1>8, <3>1
      <4>2. Waits(f, path, c)
        <5>1. n \in 1 .. Landmarks - 1
          BY <1>3, <3>1
        <5> DEFINE g == Gap(c, n)
        <5>2. g \in Nat /\ g <= MaxGapClusters
          BY <1>2, <5>1, GapIs
        <5> HIDE DEF g
        <5>3. 0 <= g /\ g <= window
          BY <1>2, <1>3, <2>2, <5>2
        <5>4. QED
          BY <2>1, <3>1, <5>3 DEF Waits, g
      <4>3. QED
        BY <1>2, <2>1, <4>1, <4>2, WaitsOnTop
    <3>2. CASE ~(Along(path, c, n) /\ n < Landmarks)
      <4>1. Waiting(stack, path, c)
        BY <1>4, <2>2, <3>2 DEF Near
      <4>2. QED
        BY <1>2, <1>8, <2>1, <4>1, WaitsOnTop
    <3>3. QED
      BY <3>1, <3>2
  <2>3. QED
    BY <1>1, <1>4, <1>8, <2>2 DEF FoundIn, Near
<1>9. QED
  BY <1>1, <1>6, <1>7, <1>8

LEMMA BackUpFinds ==
  ASSUME SearchInv, BackUp, NEW c, Whole(c),
         FoundIn(step, window, path, stack, result, c)
  PROVE  FoundIn(step', window', path', stack', result', c)
<1> DEFINE top == Last(stack)
           kept == SubSeq(path, 1, top.base)
<1>1. /\ step = "candidates" /\ step' = step /\ window' = window /\ stack # <<>>
      /\ top.next_k > top.window /\ path' = kept /\ stack' = Front(stack)
  BY DEF BackUp
<1>2. /\ disk \in Disk /\ IsPath(path) /\ IsStack(stack, Len(path)) /\ Len(path) \in Nat
      /\ stack \in Seq(Decision)
  BY EntryIs DEF SearchInv, IsStack
<1>3. /\ top.base \in 1 .. Len(path) /\ top.next_k \in Nat /\ top.window \in Nat
      /\ IsStack(Front(stack), top.base)
  BY <1>1, <1>2, StackTop
<1>4. /\ KeepsUp(path, c) /\ 1 < Landmarks /\ (path # <<>> => path[1].at = 1)
      /\ MaxGapClusters <= window => Waiting(stack, path, c)
  BY <1>1 DEF FoundIn, Near
<1>5. /\ \A m \in 0 .. top.base : Along(kept, c, m) <=> Along(path, c, m)
      /\ KeepsUp(kept, c) /\ kept[1] = path[1]
  BY <1>2, <1>3, <1>4, CutKeepsUp
<1>6. path # <<>>
  <2>1. Len(<<>>) = 0
    OBVIOUS
  <2> HIDE DEF top
  <2>2. Len(path) # 0
    BY <1>2, <1>3
  <2>3. QED
    BY <2>1, <2>2
<1>7. ~Waits(top, path, c)
  <2> SUFFICES ASSUME Waits(top, path, c) PROVE FALSE
    OBVIOUS
  <2> DEFINE b == top.base
             k == top.next_k
             w == top.window
             g == Gap(c, b)
  <2>1. b \in 1 .. Landmarks - 1
    <3>1. b < Landmarks /\ b \in Nat \ {0}
      <4>1. b < Landmarks
        BY DEF Waits
      <4> HIDE DEF b
      <4>2. QED
        BY <1>2, <1>3, <4>1 DEF b
    <3> HIDE DEF b
    <3>2. QED
      BY <3>1, SizesAre
  <2>2. g \in Nat
    <3> HIDE DEF b
    <3>1. QED
      BY <1>2, <2>1, GapIs
  <2>3. k <= g /\ g <= w /\ k > w
    BY <1>1 DEF Waits
  <2> HIDE DEF k, g, w
  <2>4. k \in Nat /\ w \in Nat
    BY <1>3 DEF k, w
  <2>5. QED
    BY <2>2, <2>3, <2>4
<1> HIDE DEF top, kept
<1>8. ASSUME MaxGapClusters <= window PROVE Waiting(stack', kept, c)
  <2>1. Waiting(Front(stack), path, c)
    BY <1>1, <1>2, <1>4, <1>7, <1>8, WaitsBelow DEF top
  <2>2. top.base \in Nat
    BY <1>2, <1>3
  <2>3. Waiting(Front(stack), kept, c)
    BY <1>3, <1>5, <2>1, <2>2, WaitsOn
  <2>4. QED
    BY <1>1, <2>3
<1>9. QED
  BY <1>1, <1>4, <1>5, <1>6, <1>8 DEF FoundIn, Near

LEMMA DeepenFinds ==
  ASSUME SearchInv, Deepen, NEW c, Whole(c),
         FoundIn(step, window, path, stack, result, c)
  PROVE  FoundIn(step', window', path', stack', result', c)
<1>1. /\ step = "candidates" /\ stack = <<>>
      /\ (window >= MaxGapClusters) \/ step' = "attempt"
  BY DEF Deepen
<1>2. window \in Nat /\ MaxGapClusters \in Nat
  BY SizesAre DEF SearchInv
<1>3. MaxGapClusters <= window => Waiting(<<>>, path, c)
  BY <1>1 DEF FoundIn, Near
<1>4. ~Waiting(<<>>, path, c)
  <2>1. Len(<<>>) = 0
    OBVIOUS
  <2>2. QED
    BY <2>1 DEF Waiting
<1>5. step' = "attempt"
  BY <1>1, <1>2, <1>3, <1>4
<1>6. QED
  BY <1>5 DEF FoundIn

LEMMA FramesAre ==
  ASSUME NEW n \in Nat \ {0}, NEW t \in Nat, NEW w \in Nat
  PROVE  /\ Frames(n, n + t - 1, w) \in Seq(Decision)
         /\ Len(Frames(n, n + t - 1, w)) = t
<1> DEFINE fs == Frames(n, n + t - 1, w)
           l == (n + t - 1) - n + 1
<1>1. l = t /\ \A i \in 1 .. t : n + i - 1 \in Nat \ {0}
  OBVIOUS
<1>2. fs = [i \in 1 .. l |-> Frame(n + i - 1, 1, w)]
  BY DEF Frames
<1> HIDE DEF l, fs
<1>3. \A b \in Nat \ {0} : Frame(b, 1, w) \in Decision
  BY DEF Frame, Decision
<1>4. fs \in [1 .. t -> Decision]
  BY <1>1, <1>2, <1>3
<1>5. QED
  BY <1>4 DEF fs

LEMMA GallopFinds ==
  ASSUME SearchInv, Gallop, NEW c, Whole(c), NeverLeft(c),
         FoundIn(step, window, path, stack, result, c)
  PROVE  FoundIn(step', window', path', stack', result', c)
<1> DEFINE start == Last(path).at + 1
           run == Run(start, RunClusters)
           o == Judge(AtsOf(path) \o run)
           taken == Gallops(run, o)
           q == PushAll(path, taken, o)
           n == Len(path)
           t == Len(taken)
           fs == Frames(n, n + t - 1, ContinuationWindow)
<1>1. /\ step = "gallop" /\ window' = window
      /\ IF start > DiskClusters
         THEN step' = "extend" /\ UNCHANGED <<path, stack>>
         ELSE \/ Stopped("budget")
              \/ /\ path' = q /\ stack' = stack \o fs
                 /\ IF IsWhole(path', o)
                    THEN End(Done(path', o.length))
                    ELSE step' \in {"gallop", "extend"}
  <2>1. Places = AtsOf(path)
    BY DEF Places, AtsOf
  <2>2. QED
    BY <2>1 DEF Gallop
<1>2. /\ disk \in Disk /\ window \in Nat /\ IsPath(path) /\ path # <<>>
      /\ IsStack(stack, n) /\ stack \in Seq(Decision)
  BY <1>1 DEF SearchInv, IsStack
<1>3. /\ n \in Nat \ {0} /\ start \in Nat \ {0} /\ Last(path).at \in Nat
      /\ ContinuationWindow \in Nat /\ Landmarks \in Nat /\ RunClusters \in Nat
  <2>1. Len(path) \in 1 .. Len(path) /\ Last(path).at \in 1 .. DiskClusters
    BY <1>2, LastIs
  <2>2. n \in Nat
    BY <1>2, EntryIs
  <2> HIDE DEF n
  <2>3. n # 0
    BY <2>1 DEF n
  <2>4. QED
    BY <2>1, <2>2, <2>3, SizesAre
<1>4. /\ KeepsUp(path, c) /\ 1 < Landmarks /\ path[1].at = 1
      /\ MaxGapClusters <= window => Near(step, path, stack, c)
      /\ stack = <<>> => n = 1
  BY <1>1, <1>2 DEF FoundIn
<1>5. CASE start > DiskClusters
  <2>1. step' = "extend" /\ path' = path /\ stack' = stack
    BY <1>1, <1>5
  <2> HIDE DEF start
  <2>2. QED
    BY <1>1, <1>2, <1>4, <2>1 DEF FoundIn, Near
<1>6. CASE Stopped("budget")
  BY <1>6, StoppedSays DEF FoundIn
<1>7. CASE /\ ~(start > DiskClusters) /\ path' = q /\ stack' = stack \o fs
           /\ IF IsWhole(path', o)
              THEN End(Done(path', o.length))
              ELSE step' \in {"gallop", "extend"}
  <2>1. start \in 1 .. DiskClusters
    BY <1>3, <1>7, SizesAre
  <2>2. /\ KeepsUp(q, c) \/ IsWhole(q, o)
        /\ q[1] = path[1]
        /\ \A m \in 0 .. n : Along(q, c, m) <=> Along(path, c, m)
        /\ Along(path, c, n) /\ n < Landmarks =>
             \/ Along(q, c, Len(q)) /\ Len(q) < Landmarks
             \/ IsWhole(q, o)
             \/ \E j \in 1 .. Len(taken) :
                  /\ n + j - 1 \in 1 .. Landmarks - 1 /\ Along(q, c, n + j - 1)
                  /\ 1 <= Gap(c, n + j - 1)
    BY <1>2, <1>4, <2>1, GallopFollows
  <2>3. t \in Nat /\ Len(q) = n + t
    <3>1. Follows(run, path)
      <4>1. path[Len(path)].at < start
        BY <1>2, <1>3, LastIs
      <4> HIDE DEF start
      <4>2. QED
        BY <1>2, <1>3, <2>1, <4>1, RunIs
    <3>2. IsPart(taken, run) /\ o \in Outcomes
      BY <1>2, <3>1, GallopsIsPart, JudgedAlong DEF Follows, Clustered
    <3>3. Len(q) = Len(path) + Len(taken) /\ Len(taken) \in 0 .. Len(run)
      BY <1>2, <3>1, <3>2, GrownIs
    <3>4. Len(run) \in Nat
      BY <3>1, ClusteredIs DEF Follows
    <3> HIDE DEF q, taken
    <3>5. QED
      BY <3>3, <3>4
  <2> HIDE DEF start, run, o, taken, q, n, t, fs
  <2>4. fs \in Seq(Decision) /\ Len(fs) = t
    BY <1>3, <2>3, FramesAre DEF fs
  <2>5. CASE IsWhole(q, o)
    <3>1. step' = "ended" /\ result' = Done(path', o.length)
      BY <1>7, <2>5 DEF End
    <3>2. QED
      BY <3>1, DoneSays DEF FoundIn
  <2>6. CASE ~IsWhole(q, o)
    <3>1. step' \in {"gallop", "extend"} /\ path' = q /\ stack' = stack \o fs
      BY <1>7, <2>6
    <3>2. ASSUME stack' = <<>> PROVE Len(q) = 1
      <4>1. Len(stack') = Len(stack) + Len(fs) /\ Len(stack) \in Nat
        BY <1>2, <2>4, <3>1, ConcatProperties, LenProperties
      <4>2. Len(<<>>) = 0
        OBVIOUS
      <4>3. Len(stack) = 0 /\ t = 0
        BY <2>3, <2>4, <3>2, <4>1, <4>2
      <4>4. stack = <<>>
        BY <1>2, <4>3, EmptySeq
      <4>5. QED
        BY <1>3, <1>4, <2>3, <4>3, <4>4
    <3>3. ASSUME MaxGapClusters <= window PROVE Near(step', q, stack', c)
      <4>1. CASE Waiting(stack, path, c)
        <5>1. Waiting(stack, q, c)
          BY <1>2, <1>3, <2>2, <4>1, WaitsOn
        <5>2. QED
          BY <1>2, <2>4, <3>1, <5>1, WaitsUnder DEF Near
      <4>2. CASE Along(path, c, n) /\ n < Landmarks
        <5>1. CASE Along(q, c, Len(q)) /\ Len(q) < Landmarks
          BY <3>1, <5>1 DEF Near
        <5>2. CASE \E j \in 1 .. Len(taken) :
                     /\ n + j - 1 \in 1 .. Landmarks - 1 /\ Along(q, c, n + j - 1)
                     /\ 1 <= Gap(c, n + j - 1)
          <6>1. PICK j \in 1 .. t :
                  /\ n + j - 1 \in 1 .. Landmarks - 1 /\ Along(q, c, n + j - 1)
                  /\ 1 <= Gap(c, n + j - 1)
            BY <5>2 DEF t
          <6> DEFINE b == n + j - 1
          <6>2. b \in 1 .. Landmarks - 1 /\ Along(q, c, b) /\ 1 <= Gap(c, b)
            BY <6>1
          <6> HIDE DEF b
          <6>3. Gap(c, b) <= ContinuationWindow
            BY <1>2, <6>2, GapIs
          <6>4. b < Landmarks
            BY <1>3, <6>2
          <6>5. Waits(Frame(b, 1, ContinuationWindow), q, c)
            BY <6>2, <6>3, <6>4 DEF Waits, Frame
          <6> DEFINE to == n + t - 1
          <6>6. j \in 1 .. (to - n + 1) /\ to \in Int
            BY <1>3, <2>3, <6>1
          <6> HIDE DEF to
          <6>7. Waiting(Frames(n, to, ContinuationWindow), q, c)
            BY <1>3, <6>5, <6>6, FrameIsLeft DEF b
          <6>8. Waiting(fs, q, c)
            BY <6>7 DEF fs, to
          <6>9. QED
            BY <1>2, <2>4, <3>1, <6>8, WaitsUnder DEF Near
        <5>3. QED
          BY <2>2, <2>6, <4>2, <5>1, <5>2
      <4>3. QED
        BY <1>4, <3>3, <4>1, <4>2 DEF Near, n
    <3>4. q[1].at = 1
      BY <1>4, <2>2
    <3>5. QED
      BY <1>1, <1>4, <2>2, <2>6, <3>1, <3>2, <3>3, <3>4 DEF FoundIn
  <2>7. QED
    BY <2>5, <2>6
<1>8. QED
  BY <1>1, <1>5, <1>6, <1>7

LEMMA FramesIn ==
  ASSUME NEW from \in Nat \ {0}, NEW to \in Int, NEW w \in Nat
  PROVE  Frames(from, to, w) \in Seq(Decision)
<1> DEFINE l == IF to < from THEN 0 ELSE (to - from) + 1
           fs == Frames(from, to, w)
<1>1. l \in Nat /\ 1 .. (to - from + 1) = 1 .. l /\ \A i \in 1 .. l : from + i - 1 \in Nat \ {0}
  OBVIOUS
<1>2. fs = [i \in 1 .. (to - from + 1) |-> Frame(from + i - 1, 1, w)]
  BY DEF Frames
<1> HIDE DEF l, fs
<1>3. \A b \in Nat \ {0} : Frame(b, 1, w) \in Decision
  BY DEF Frame, Decision
<1>4. fs \in [1 .. l -> Decision]
  BY <1>1, <1>2, <1>3
<1>5. QED
  BY <1>1, <1>4 DEF fs

LEMMA TryFinds ==
  ASSUME SearchInv, Try, NEW c, Whole(c),
         FoundIn(step, window, path, stack, result, c)
  PROVE  FoundIn(step', window', path', stack', result', c)
<1> DEFINE top  == Last(stack)
           b    == top.base
           k    == top.next_k
           kept == SubSeq(path, 1, b)
           cand == Last(kept).at + k + 1
           f    == [top EXCEPT !.next_k = k + 1]
           g    == [top EXCEPT !.next_k = top.window + 1]
           below == Front(stack)
           next == Append(below, f)
           run  == Run(cand, LookaheadClusters)
           narrow == Least(window, ContinuationWindow)
           one   == Judge(AtsOf(kept) \o <<cand>>)
           ahead == Judge(AtsOf(kept) \o run)
           v     == Consider(kept, cand, k, one, run, ahead)
           fs    == Frames(Len(kept) + 1, Len(v.path) - 1, narrow)
<1>1. /\ window' = window /\ step = "candidates" /\ stack # <<>> /\ k <= top.window
      /\ IF cand > DiskClusters
         THEN path' = kept /\ stack' = Append(below, g) /\ step' = step
         ELSE \/ Stopped("budget")
              \/ /\ path' = v.path
                 /\ stack' = IF v.verdict = "accepted" THEN next \o fs ELSE next
                 /\ \/ v.verdict = "complete" /\ End(Done(v.path, v.by.length))
                    \/ v.verdict = "accepted" /\ step' = "gallop"
                    \/ v.verdict \notin {"complete", "accepted"} /\ step' = step
  BY DEF Try, AtsOf
<1>2. /\ disk \in Disk /\ window \in Nat /\ IsPath(path) /\ IsStack(stack, Len(path))
      /\ Len(path) \in Nat /\ stack \in Seq(Decision)
  BY EntryIs DEF SearchInv, IsStack
<1>3. /\ top \in Decision /\ b \in 1 .. Len(path) /\ k \in Nat /\ top.window \in Nat
      /\ IsStack(below, b)
  BY <1>1, <1>2, StackTop
<1>4. /\ KeepsUp(path, c) /\ 1 < Landmarks /\ (path # <<>> => path[1].at = 1)
      /\ MaxGapClusters <= window => Waiting(stack, path, c)
  BY <1>1 DEF FoundIn, Near
<1>5. /\ \A m \in 0 .. b : Along(kept, c, m) <=> Along(path, c, m)
      /\ KeepsUp(kept, c) /\ kept[1] = path[1]
  BY <1>2, <1>3, <1>4, CutKeepsUp
<1>6. IsPath(kept) /\ Len(kept) = b /\ kept # <<>>
  BY <1>2, <1>3, CutIs
<1>7. Last(kept).at \in 1 .. DiskClusters /\ Last(kept) = kept[b] /\ b \in Nat \ {0}
  <2>1. b \in Nat \ {0}
    <3> HIDE DEF b
    <3>1. QED
      BY <1>2, <1>3
  <2>2. QED
    BY <1>6, <2>1, LastIs
<1>8. path # <<>>
  <2>1. Len(<<>>) = 0
    OBVIOUS
  <2> HIDE DEF b
  <2>2. Len(path) # 0
    BY <1>2, <1>3
  <2>3. QED
    BY <2>1, <2>2
<1>9. /\ f \in Decision /\ f.base = b /\ f.next_k = k + 1 /\ f.window = top.window
      /\ g \in Decision
  <2>1. \A d \in Decision : \A x \in Nat :
          LET e == [d EXCEPT !.next_k = x] IN
          e \in Decision /\ e.base = d.base /\ e.next_k = x /\ e.window = d.window
    BY DEF Decision
  <2>2. k + 1 \in Nat /\ top.window + 1 \in Nat
    BY <1>3
  <2> DEFINE w == top.window + 1
             l == k + 1
  <2>3. w \in Nat /\ l \in Nat /\ f = [top EXCEPT !.next_k = l] /\ g = [top EXCEPT !.next_k = w]
    BY <2>2
  <2> HIDE DEF top, w, l, f, g
  <2>4. /\ f \in Decision /\ f.base = top.base /\ f.next_k = l /\ f.window = top.window
        /\ g \in Decision
    BY <1>3, <2>1, <2>3
  <2>5. QED
    BY <2>4 DEF l
<1>10. cand \in Nat \ {0} /\ Last(kept).at < cand
  <2> HIDE DEF kept, k
  <2>1. QED
    BY <1>3, <1>7
<1>11. below \in Seq(Decision) /\ next \in Seq(Decision)
  <2>1. below \in Seq(Decision)
    BY <1>3 DEF IsStack
  <2> HIDE DEF below, f
  <2>2. QED
    BY <1>9, <2>1
<1> HIDE DEF f, g
<1>12. ASSUME Waits(top, path, c)
       PROVE  /\ b \in 1 .. Landmarks - 1 /\ Along(kept, c, b) /\ c[b] = Last(kept).at
              /\ Gap(c, b) \in Nat /\ k <= Gap(c, b) /\ Gap(c, b) <= top.window
              /\ c[b + 1] = Last(kept).at + Gap(c, b) + 1 /\ c[b + 1] \in 1 .. DiskClusters
  <2> HIDE DEF kept
  <2>1. b < Landmarks /\ Along(path, c, b) /\ k <= Gap(c, b) /\ Gap(c, b) <= top.window
    BY <1>12 DEF Waits
  <2> HIDE DEF b, k, top
  <2>2. b \in 1 .. Landmarks - 1 /\ b + 1 \in 1 .. Landmarks /\ b \in 0 .. b
    BY <1>7, <2>1, SizesAre
  <2>3. Along(kept, c, b)
    BY <1>5, <2>1, <2>2
  <2>4. c[b] = Last(kept).at
    <3>1. b \in 1 .. b
      BY <1>7
    <3>2. QED
      BY <1>7, <2>3, <3>1 DEF Along
  <2>5. Gap(c, b) \in Nat /\ c[b + 1] = c[b] + Gap(c, b) + 1
    BY <1>2, <2>2, GapIs
  <2>6. c[b + 1] \in 1 .. DiskClusters
    BY <1>2, <2>2, WholeAt
  <2>7. QED
    BY <2>1, <2>2, <2>3, <2>4, <2>5, <2>6
<1> HIDE DEF top, b, kept, k, cand, run, one, ahead, v, below, next, fs
<1>13. ASSUME MaxGapClusters <= window, NEW q,
              \A m \in 0 .. b : Along(q, c, m) <=> Along(path, c, m)
       PROVE  Waits(top, path, c) \/ Waiting(below, q, c)
  <2>1. Waits(top, path, c) \/ Waiting(below, path, c)
    BY <1>1, <1>2, <1>4, <1>13, WaitsBelow DEF top, below
  <2>2. b \in Nat
    BY <1>7
  <2>3. Waiting(below, path, c) => Waiting(below, q, c)
    BY <1>3, <1>13, <2>2, WaitsOn
  <2>4. QED
    BY <2>1, <2>3
<1>14. CASE cand > DiskClusters
  <2>1. path' = kept /\ stack' = Append(below, g) /\ step' = "candidates"
    BY <1>1, <1>14
  <2>2. ASSUME MaxGapClusters <= window PROVE Waiting(stack', kept, c)
    <3>1. ~Waits(top, path, c)
      <4> SUFFICES ASSUME Waits(top, path, c) PROVE FALSE
        OBVIOUS
      <4> DEFINE d == Gap(c, b)
                 e == c[b + 1]
                 a == Last(kept).at
      <4>1. /\ d \in Nat /\ k <= d /\ e = a + d + 1 /\ e \in 1 .. DiskClusters
            /\ a \in 1 .. DiskClusters /\ cand = a + k + 1
        BY <1>7, <1>12 DEF cand
      <4> HIDE DEF d, e, a
      <4>2. DiskClusters \in Nat /\ k \in Nat
        BY <1>3, SizesAre
      <4>3. QED
        BY <1>14, <4>1, <4>2
    <3>2. Waiting(below, kept, c)
      BY <1>5, <1>13, <2>2, <3>1
    <3>3. QED
      BY <1>9, <1>11, <2>1, <3>2, WaitsOnTop
  <2>3. QED
    BY <1>1, <1>4, <1>5, <1>8, <2>1, <2>2 DEF FoundIn, Near
<1>15. CASE Stopped("budget")
  BY <1>15, StoppedSays DEF FoundIn
<1>16. CASE /\ ~(cand > DiskClusters) /\ path' = v.path
            /\ stack' = IF v.verdict = "accepted" THEN next \o fs ELSE next
            /\ \/ v.verdict = "complete" /\ End(Done(v.path, v.by.length))
               \/ v.verdict = "accepted" /\ step' = "gallop"
               \/ v.verdict \notin {"complete", "accepted"} /\ step' = step
  <2>1. cand \in 1 .. DiskClusters
    BY <1>10, <1>16, SizesAre
  <2>2. LookaheadClusters \in Nat /\ ContinuationWindow \in Nat
    BY SizesAre
  <2>3. /\ KeepsUp(v.path, c) /\ v.path[1] = kept[1]
        /\ \A m \in 0 .. Len(kept) : Along(v.path, c, m) <=> Along(kept, c, m)
        /\ Next1(kept, c, cand) =>
             \/ v.verdict = "complete"
             \/ v.verdict = "accepted" /\ Along(v.path, c, Len(v.path)) /\ Len(v.path) < Landmarks
    BY <1>2, <1>5, <1>6, <1>10, <2>1, <2>2, ConsiderFollows DEF v, one, ahead, run
  <2>4. \A m \in 0 .. b : Along(v.path, c, m) <=> Along(path, c, m)
    BY <1>5, <1>6, <2>3
  <2>5. fs \in Seq(Decision)
    <3>1. IsPath(v.path)
      BY <1>2, <1>6, <1>10, <2>1, <2>2, ConsiderIs DEF v, one, ahead, run
    <3>2. Len(v.path) \in Nat
      BY <3>1, EntryIs
    <3>3. narrow \in Nat
      BY <1>2, <2>2 DEF Least
    <3> DEFINE from == Len(kept) + 1
               to == Len(v.path) - 1
    <3>4. from \in Nat \ {0} /\ to \in Int
      BY <1>6, <1>7, <3>2
    <3> HIDE DEF from, to, narrow
    <3>5. Frames(from, to, narrow) \in Seq(Decision)
      BY <3>3, <3>4, FramesIn
    <3>6. QED
      BY <3>5 DEF fs, from, to
  <2>6. CASE v.verdict = "complete" /\ End(Done(v.path, v.by.length))
    <3>1. step' = "ended" /\ result' = Done(v.path, v.by.length)
      BY <2>6 DEF End
    <3>2. QED
      BY <3>1, DoneSays DEF FoundIn
  <2>7. CASE v.verdict # "complete" /\ step' \in {"gallop", "candidates"}
             /\ (v.verdict = "accepted" => step' = "gallop")
    <3>1. stack' # <<>>
      <4>1. next \in Seq(Decision) /\ Len(next) # 0 /\ Len(next) \in Nat
        <5>1. Len(below) \in Nat
          BY <1>11, LenProperties
        <5>2. Len(next) = Len(below) + 1
          BY <1>11 DEF next
        <5>3. QED
          BY <1>11, <5>1, <5>2
      <4>2. Len(next \o fs) = Len(next) + Len(fs) /\ Len(fs) \in Nat
        BY <1>11, <2>5, ConcatProperties, LenProperties
      <4>3. Len(<<>>) = 0
        OBVIOUS
      <4>4. Len(stack') # 0
        BY <1>16, <4>1, <4>2
      <4>5. QED
        BY <4>3, <4>4
    <3>2. ASSUME Waiting(next, v.path, c) PROVE Waiting(stack', v.path, c)
      BY <1>11, <1>16, <2>5, <3>2, WaitsUnder
    <3>3. ASSUME MaxGapClusters <= window PROVE Near(step', v.path, stack', c)
      <4>1. CASE Waiting(below, v.path, c)
        <5>1. Waiting(next, v.path, c)
          BY <1>9, <1>11, <4>1, WaitsOnTop DEF next
        <5>2. QED
          BY <3>2, <5>1 DEF Near
      <4>2. CASE Waits(top, path, c) /\ k # Gap(c, b)
        <5>1. k + 1 <= Gap(c, b)
          <6> DEFINE d == Gap(c, b)
          <6>1. d \in Nat /\ k <= d /\ k # d /\ k \in Nat
            BY <1>3, <1>12, <4>2
          <6> HIDE DEF d
          <6>2. k + 1 <= d
            BY <6>1
          <6>3. QED
            BY <6>2 DEF d
        <5>2. b < Landmarks /\ Along(v.path, c, b) /\ Gap(c, b) <= top.window
          <6>1. Along(path, c, b) /\ b < Landmarks
            BY <4>2 DEF Waits, b
          <6>2. b \in 0 .. b
            BY <1>7
          <6>3. QED
            BY <1>12, <2>4, <4>2, <6>1, <6>2
        <5>3. Waits(f, v.path, c)
          BY <1>9, <5>1, <5>2 DEF Waits
        <5>4. Waiting(next, v.path, c)
          BY <1>9, <1>11, <5>3, WaitsOnTop DEF next
        <5>5. QED
          BY <3>2, <5>4 DEF Near
      <4>3. CASE Waits(top, path, c) /\ k = Gap(c, b)
        <5>1. cand = c[b + 1]
          BY <1>12, <4>3 DEF cand
        <5>2. Next1(kept, c, cand)
          <6>1. Along(kept, c, b) /\ b < Landmarks
            BY <1>12, <4>3 DEF Waits, b
          <6>2. QED
            BY <1>6, <5>1, <6>1 DEF Next1
        <5>3. v.verdict = "accepted" /\ Along(v.path, c, Len(v.path)) /\ Len(v.path) < Landmarks
          BY <2>3, <2>7, <5>2
        <5>4. QED
          BY <2>7, <5>3 DEF Near
      <4>4. QED
        BY <1>13, <2>4, <3>3, <4>1, <4>2, <4>3
    <3>4. v.path[1].at = 1
      BY <1>4, <1>5, <1>8, <2>3
    <3>5. QED
      BY <1>1, <1>4, <1>16, <2>3, <2>7, <3>1, <3>3, <3>4 DEF FoundIn
  <2>8. QED
    BY <1>1, <1>16, <2>6, <2>7
<1>17. QED
  BY <1>1, <1>14, <1>15, <1>16

\* For every file of the disk that is not left, at once.
FoundInv ==
  \A c \in Clustered : Whole(c) /\ NeverLeft(c) => FoundIn(step, window, path, stack, result, c)

LEMMA StepFinds ==
  ASSUME SearchInv, FoundInv, [Next]_vars
  PROVE  FoundInv'
<1>1. disk' = disk
  BY DEF Next, vars, Attempt, Gallop, Extend, BackUp, Try, Deepen, Return
<1>2. SUFFICES ASSUME NEW c \in Clustered, Whole(c), NeverLeft(c)
               PROVE  FoundIn(step', window', path', stack', result', c)
  <2>a. \A places : Judge(places)' = Judge(places)
    BY <1>1 DEF Judge
  <2>b. \A c : \A n : Outrun(c, n)' = Outrun(c, n) /\ InReach(c, n)' = InReach(c, n)
    BY <2>a DEF Outrun, InReach, Run
  <2>c. \A c : NeverLeft(c)' => NeverLeft(c)
    BY <2>b DEF NeverLeft
  <2>d. \A c : Whole(c)' => Whole(c)
    BY <1>1 DEF Whole, Clustered, Gap
  <2>1. \A c : Whole(c)' /\ NeverLeft(c)' => Whole(c) /\ NeverLeft(c)
    BY <2>c, <2>d
  <2>2. Clustered' = Clustered
    BY DEF Clustered
  <2>3. QED
    BY <1>2, <2>1, <2>2 DEF FoundInv, FoundIn, Near, KeepsUp, Fresh, Along, Waiting, Waits, Gap
<1>3. FoundIn(step, window, path, stack, result, c)
  BY <1>2 DEF FoundInv
<1>4. CASE Attempt
  BY <1>2, <1>4, AttemptFinds
<1>5. CASE Gallop
  BY <1>2, <1>3, <1>5, GallopFinds
<1>6. CASE Extend
  BY <1>2, <1>3, <1>6, ExtendFinds
<1>7. CASE BackUp
  BY <1>2, <1>3, <1>7, BackUpFinds
<1>8. CASE Try
  BY <1>2, <1>3, <1>8, TryFinds
<1>9. CASE Deepen
  BY <1>2, <1>3, <1>9, DeepenFinds
<1>10. CASE UNCHANGED vars
  BY <1>3, <1>10 DEF vars
<1>11. QED
  BY <1>4, <1>5, <1>6, <1>7, <1>8, <1>9, <1>10 DEF Next, Return

\* A rising list is of clusters.
LEMMA RisingIs ==
  ASSUME NEW c \in Rising PROVE c \in Clustered
<1>1. PICK s \in SUBSET (2 .. DiskClusters) : c = InOrder({1} \cup s, Ascending({1} \cup s))
  BY DEF Rising
<1> DEFINE S == {1} \cup s
           T == 1 .. DiskClusters
<1>2. S \subseteq T
  BY SizesAre
<1>3. IsFiniteSet(T) /\ S \in SUBSET Int
  BY <1>2, FS_Interval, SizesAre
<1>4. IsFiniteSet(S)
  BY <1>2, <1>3, FS_Subset
<1>5. c = InOrder(S, Ascending(S))
  BY <1>1
<1> HIDE DEF S, T
<1>6. c \in Seq(S)
  BY <1>3, <1>4, <1>5, AscendingIsStrict, ListInOrder
<1>7. c \in Seq(T)
  BY <1>2, <1>6
<1>8. QED
  BY <1>7 DEF Clustered, T

\* A file whose fragments are in order and within the windows is found, on any
\* disk, unless the search runs out of calls or its path of room (reassemble
\* and backtrack, rc-bifrag), or leaves a path along it for growing quiet (what
\* NeverLeft excludes): no decision that leads to it is skipped, spent on
\* another path or lost in a wider attempt.
THEOREM FilesAreFound == Spec => []FileIsFound
<1>1. Init => FoundInv
  BY DEF Init, FoundInv, FoundIn
<1>2. SearchInv /\ FoundInv /\ [Next]_vars => FoundInv'
  BY StepFinds
<1>3. SearchInv /\ FoundInv => FileIsFound
  <2> SUFFICES ASSUME SearchInv, FoundInv, step = "ended", result.status # "valid",
                      result.why \notin {"budget", "size"},
                      NEW c \in Rising, Reachable(c), NeverLeft(c)
               PROVE  FALSE
    BY DEF FileIsFound, Findable
  <2>1. c \in Clustered
    BY RisingIs
  <2>2. Whole(c)
    BY <2>1, ReachableIsWhole DEF SearchInv
  <2>3. FoundIn(step, window, path, stack, result, c)
    BY <2>1, <2>2 DEF FoundInv
  <2>4. QED
    BY <2>3 DEF FoundIn
<1>4. QED
  BY <1>1, <1>2, <1>3, SearchIsSound, PTL DEF Spec
=============================================================================
