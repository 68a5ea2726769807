---------------------------- MODULE GuiAppProofs ----------------------------
(***************************************************************************)
(* Proofs about GuiApp and the store it works on: its types, that the view *)
(* stays dense, that what a scan finds is listed once, that a stop is not  *)
(* taken back and that busy is right, for any number of scans, rows,       *)
(* clears, panics and restarts.                                            *)
(* And about what has no state: the rating each entry of a scan is given   *)
(* (Score), and how a device's partitions are found and opened             *)
(* (Partitions), for any device.                                           *)
(***************************************************************************)
EXTENDS GuiApp, Score, Partitions, ListProofs

-----------------------------------------------------------------------------
(* Types.                                                                  *)

Pcs == {"none", "clear", "start", "refused", "emit", "done", "panicked", "dead"}
        \cup Working

Row  == [scan : Nat, kind : Kinds, n : Nat]
View == [all : BOOLEAN, n : Nat, ids : Seq(Nat)]

\* Ids are given out from 1 upwards and all taken back at once.
StoreTyped ==
  /\ \E n \in Nat : Ids = 1 .. n
  /\ \A id \in Ids : rows[id] \in Row
  /\ view \in View

AppTyped ==
  /\ busy \in BOOLEAN /\ stop \in BOOLEAN /\ scanning \in BOOLEAN /\ poisoned \in BOOLEAN
  /\ pc \in [Scans -> Pcs]
  /\ mode \in [Scans -> Modes \cup {"none"}]
  /\ ok \in [Scans -> BOOLEAN]
  /\ synthetics \in Nat

FoundTyped ==
  /\ found \in [Scans -> Seq(Row)]
  /\ \A s \in Scans : \A i \in 1 .. Len(found[s]) : found[s][i].scan = s

Types == StoreTyped /\ AppTyped /\ FoundTyped

\* With ids from 1 the largest is how many there are.
LEMMA MaxOfIds ==
  ASSUME NEW n \in Nat, Ids = 1 .. n
  PROVE  MaxId = n /\ Total = n
<1>1. n \in Ids \cup {0} /\ \A y \in Ids \cup {0} : y \in Nat /\ n >= y
  OBVIOUS
<1>2. MaxId = n
  <2>1. PICK x \in Ids \cup {0} : (\A y \in Ids \cup {0} : x >= y) /\ x = MaxId
    BY <1>1 DEF MaxId, Max
  <2>2. x >= n /\ n >= x /\ x \in Nat
    BY <1>1, <2>1
  <2>3. QED
    BY <2>1, <2>2
<1>3. Total = n
  BY FS_Interval DEF Total
<1>4. QED
  BY <1>2, <1>3

\* What an add leaves: the old rows where they were, the new ones behind them.
LEMMA AddAppends ==
  ASSUME NEW n \in Nat, Ids = 1 .. n, NEW new \in Seq(Row), Add(new)
  PROVE  /\ n + Len(new) \in Nat /\ Ids' = 1 .. n + Len(new)
         /\ \A id \in 1 .. n : rows'[id] = rows[id]
         /\ \A id \in 1 .. n + Len(new) : id > n => rows'[id] = new[id - n]
         /\ view' = All(n + Len(new))
<1>1. MaxId = n /\ Len(new) \in Nat
  BY MaxOfIds
<1> DEFINE m == n + Len(new)
<1>2. rows' = [id \in Ids \cup n + 1 .. m |-> IF id \in Ids THEN rows[id] ELSE new[id - n]]
  BY <1>1 DEF Add
<1>3. rows' = [id \in (1 .. n) \cup (n + 1 .. m) |->
                 IF id \in 1 .. n THEN rows[id] ELSE new[id - n]]
  BY <1>2
<1>4. (1 .. n) \cup (n + 1 .. m) = 1 .. m
  BY <1>1
<1>5. Ids' = 1 .. m
  BY <1>3, <1>4 DEF Ids
<1>6. \A id \in 1 .. n : rows'[id] = rows[id]
  BY <1>3
<1>7. \A id \in 1 .. m : id > n => rows'[id] = new[id - n]
  <2> TAKE id \in 1 .. m
  <2> HAVE id > n
  <2>1. id \in n + 1 .. m /\ id \notin 1 .. n
    BY <1>1
  <2>2. QED
    BY <1>3, <2>1
<1>8. view' = All(m)
  <2>1. view' = All(Cardinality(DOMAIN rows'))
    BY DEF Add
  <2>2. Cardinality(1 .. m) = m
    BY <1>1, FS_Interval
  <2>3. QED
    BY <1>5, <2>1, <2>2 DEF Ids
<1>9. QED
  BY <1>1, <1>5, <1>6, <1>7, <1>8

-----------------------------------------------------------------------------
(* The view.                                                               *)

\* What a grid may ask for is a strict order of the rows that match.
LEMMA OrderIsStrict ==
  ASSUME StoreTyped, NEW f
  PROVE  /\ IsFiniteSet(Matching(f)) /\ Matching(f) \subseteq Ids
         /\ StrictOrder(OrderOf(f), Matching(f))
<1>1. PICK n \in Nat : Ids = 1 .. n
  BY DEF StoreTyped
<1>2. Matching(f) \subseteq Ids
  BY DEF Matching
<1>3. IsFiniteSet(Matching(f))
  <2>1. IsFiniteSet(1 .. n)
    BY FS_Interval
  <2>2. QED
    BY <1>1, <1>2, <2>1, FS_Subset
<1>4. \A i \in Ids : i \in Nat /\ rows[i].n \in Nat
  BY <1>1 DEF StoreTyped, Row
<1>5. /\ \A i \in Ids : ~Before(f, i, i)
      /\ \A i, j \in Ids : i # j => Before(f, i, j) \/ Before(f, j, i)
      /\ \A i, j, k \in Ids : Before(f, i, j) /\ Before(f, j, k) => Before(f, i, k)
  BY <1>4 DEF Before
<1>6. StrictOrder(OrderOf(f), Matching(f))
  BY <1>2, <1>5 DEF StrictOrder, OrderOf
<1>7. QED
  BY <1>2, <1>3, <1>6

\* A view that is a list has ids of rows, each once.
LEMMA SetViewLists ==
  ASSUME StoreTyped, NEW f, SetView(f)
  PROVE  \/ f = Identity /\ view' = All(MaxId)
         \/ \E q \in Seq(Ids) :
              /\ view' = OfIds(q)
              /\ \A k, l \in 1 .. Len(q) : q[k] = q[l] => k = l
<1> DEFINE q == InOrder(Matching(f), OrderOf(f))
<1>1. /\ q \in Seq(Matching(f)) /\ Len(q) = Cardinality(Matching(f))
      /\ \A k, l \in 1 .. Cardinality(Matching(f)) : q[k] = q[l] => k = l
  BY OrderIsStrict, ListInOrder
<1>2. q \in Seq(Ids)
  <2>1. Matching(f) \subseteq Ids
    BY OrderIsStrict
  <2> HIDE DEF q
  <2>2. QED
    BY <1>1, <2>1
<1>3. (view' = All(MaxId) /\ f = Identity) \/ view' = OfIds(q)
  BY DEF SetView
<1>4. \A k, l \in 1 .. Len(q) : q[k] = q[l] => k = l
  BY <1>1
<1>5. QED
  BY <1>2, <1>3, <1>4

-----------------------------------------------------------------------------
(* Every step keeps the types, and the view true to the rows.              *)

\* The view of every row is every row; a list names rows that are there, once.
ViewInv ==
  \/ view.all /\ view.n = Total
  \/ /\ ~view.all /\ view.ids \in Seq(Ids) /\ view.n = Len(view.ids)
     /\ \A k, l \in 1 .. view.n : view.ids[k] = view.ids[l] => k = l

\* What a step may do to the store.
LEMMA StoreSteps ==
  ASSUME FoundTyped, AppTyped, [Next]_vars
  PROVE  \/ UNCHANGED store
         \/ Clear \/ Open
         \/ \E f \in Filters : SetView(f)
         \/ \E new \in Seq(Row) : Add(new)
<1>1. ASSUME NEW s \in Scans, Partial(s) \/ AddFound(s) PROVE \E new \in Seq(Row) : Add(new)
  BY <1>1 DEF FoundTyped, Partial, AddFound
<1>2. ASSUME Synthetic PROVE \E new \in Seq(Row) : Add(new)
  <2>1. synthetics' \in Nat
    BY <1>2 DEF AppTyped, Synthetic
  <2>2. RowOf(0, "synthetic", synthetics') \in Row
    BY <2>1 DEF RowOf, Row, Kinds
  <2>3. <<RowOf(0, "synthetic", synthetics')>> \in Seq(Row)
    BY <2>2
  <2>4. QED
    BY <1>2, <2>3 DEF Synthetic
<1>3. QED
  BY <1>1, <1>2, Zenon
  DEF Next, Thread, Press, Refused, ClearFirst, Start, Find, FsEnd, PartialFails, CarveEnd,
      Fails, Unbusy, Emit, Panic, LockPanics, CommandPanics, PressStop, PressBack,
      ScanDone, Filtered, PressClear, Restart, vars, store

\* Every operation on the store keeps it, and its view, in order.
LEMMA StoreKept ==
  ASSUME StoreTyped, ViewInv,
         \/ UNCHANGED store
         \/ Clear \/ Open
         \/ \E f \in Filters : SetView(f)
         \/ \E new \in Seq(Row) : Add(new)
  PROVE  StoreTyped' /\ ViewInv'
<1>1. PICK n \in Nat : Ids = 1 .. n
  BY DEF StoreTyped
<1>2. MaxId = n /\ Total = n
  BY <1>1, MaxOfIds
<1>3. CASE UNCHANGED store
  BY <1>3 DEF store, StoreTyped, ViewInv, Ids, Total
<1>4. CASE Clear
  <2>1. Ids' = {} /\ Ids' = 1 .. 0
    BY <1>4 DEF Clear, Ids
  <2>2. Total' = 0
    BY <2>1, FS_EmptySet DEF Total
  <2>3. QED
    BY <1>4, <2>1, <2>2 DEF Clear, All, StoreTyped, ViewInv, View
<1>5. CASE Open
  <2>1. rows' = rows /\ view' = All(n)
    BY <1>2, <1>5 DEF Open
  <2>2. Ids' = Ids /\ Total' = n
    BY <1>2, <2>1 DEF Ids, Total
  <2>3. QED
    BY <2>1, <2>2 DEF All, StoreTyped, ViewInv, View
<1>6. ASSUME NEW f \in Filters, SetView(f) PROVE StoreTyped' /\ ViewInv'
  <2>1. rows' = rows /\ Ids' = Ids /\ Total' = n
    BY <1>2, <1>6 DEF SetView, Ids, Total
  <2>2. CASE view' = All(MaxId)
    BY <1>2, <2>1, <2>2 DEF All, StoreTyped, ViewInv, View
  <2>3. ASSUME NEW q \in Seq(Ids), view' = OfIds(q),
               \A k, l \in 1 .. Len(q) : q[k] = q[l] => k = l
        PROVE  StoreTyped' /\ ViewInv'
    <3>1. q \in Seq(Nat) /\ Len(q) \in Nat
      BY <1>1
    <3>2. ~view'.all /\ view'.ids = q /\ view'.n = Len(q) /\ view' \in View
      BY <2>3, <3>1 DEF OfIds, View
    <3>3. ViewInv'
      BY <2>1, <2>3, <3>2 DEF ViewInv
    <3>4. StoreTyped'
      BY <2>1, <3>2 DEF StoreTyped
    <3>5. QED
      BY <3>3, <3>4
  <2>4. QED
    BY <1>6, <2>2, <2>3, SetViewLists
<1>7. ASSUME NEW new \in Seq(Row), Add(new) PROVE StoreTyped' /\ ViewInv'
  <2> DEFINE m == n + Len(new)
  <2>1. /\ m \in Nat /\ Ids' = 1 .. m
        /\ \A id \in 1 .. n : rows'[id] = rows[id]
        /\ \A id \in 1 .. m : id > n => rows'[id] = new[id - n]
        /\ view' = All(m)
    BY <1>1, <1>7, AddAppends
  <2>2. \A id \in 1 .. m : rows'[id] \in Row
    <3> TAKE id \in 1 .. m
    <3>1. CASE id \in 1 .. n
      BY <1>1, <2>1, <3>1 DEF StoreTyped
    <3>2. CASE id > n
      <4>1. id - n \in 1 .. Len(new) /\ rows'[id] = new[id - n]
        BY <2>1, <3>2
      <4>2. QED
        BY <4>1
    <3>3. QED
      BY <2>1, <3>1, <3>2
  <2>3. Total' = m
    <3> HIDE DEF m
    <3>1. m \in Nat
      BY <2>1
    <3>2. Cardinality(1 .. m) = m
      BY <3>1, FS_Interval
    <3>3. QED
      BY <2>1, <3>2 DEF Total
  <2> HIDE DEF m
  <2>4. view'.all /\ view'.n = m /\ view' \in View
    <3>1. <<>> \in Seq(Nat)
      OBVIOUS
    <3>2. QED
      BY <2>1, <3>1 DEF All, View
  <2>5. ViewInv'
    BY <2>3, <2>4 DEF ViewInv
  <2>6. QED
    BY <2>1, <2>2, <2>4, <2>5 DEF StoreTyped
<1>8. QED
  BY <1>3, <1>4, <1>5, <1>6, <1>7

\* Every step keeps the types of the flags, the threads' places and modes.
LEMMA AppStep ==
  ASSUME AppTyped, [Next]_vars PROVE AppTyped'
<1> USE DEF AppTyped, Pcs, Working
<1>1. CASE UNCHANGED vars
  BY <1>1 DEF vars, scan_vars, rest
<1>2. ASSUME NEW s \in Scans, NEW m \in Modes, Press(s, m) PROVE AppTyped'
  BY <1>2 DEF Press, rest
<1>3. ASSUME NEW s \in Scans, Refused(s) \/ ClearFirst(s) PROVE AppTyped'
  BY <1>3 DEF Refused, ClearFirst, rest
<1>4. ASSUME NEW s \in Scans, Start(s) PROVE AppTyped'
  BY <1>4 DEF Start, FirstPhase, rest
<1>5. ASSUME NEW s \in Scans, Find(s) PROVE AppTyped'
  BY <1>5 DEF Find, rest
<1>6. ASSUME NEW s \in Scans, FsEnd(s) \/ Partial(s) \/ PartialFails(s) \/ CarveEnd(s)
      PROVE  AppTyped'
  BY <1>6 DEF FsEnd, Partial, PartialFails, CarveEnd, rest
<1>7. ASSUME NEW s \in Scans, \/ Fails(s) \/ AddFound(s) \/ Unbusy(s) \/ Emit(s)
             \/ Panic(s) \/ LockPanics(s)
      PROVE  AppTyped'
  BY <1>7 DEF Fails, AddFound, Unbusy, Emit, Panic, LockPanics, rest
<1>8. CASE PressStop \/ PressBack \/ ScanDone \/ PressClear \/ CommandPanics
  BY <1>8 DEF CommandPanics, PressStop, PressBack, ScanDone, PressClear, scan_vars, rest
<1>9. ASSUME NEW f \in Filters, Filtered(f) PROVE AppTyped'
  BY <1>9 DEF Filtered, scan_vars, rest
<1>10. CASE Synthetic
  BY <1>10 DEF Synthetic, scan_vars
<1>11. CASE Restart
  BY <1>11 DEF Restart
<1>12. QED
  BY <1>1, <1>2, <1>3, <1>4, <1>5, <1>6, <1>7, <1>8, <1>9, <1>10, <1>11 DEF Next, Thread

\* What a step may do to what a thread holds.
LEMMA FoundSteps ==
  ASSUME [Next]_vars
  PROVE  \/ UNCHANGED found
         \/ \E s \in Scans : found' = [found EXCEPT ![s] = <<>>]
         \/ found' = [s \in Scans |-> <<>>]
         \/ \E s \in Scans, k \in {"deleted", "carved"}, n \in 1 .. MaxFound :
              found' = [found EXCEPT ![s] = Append(found[s], RowOf(s, k, n))]
<1>1. ASSUME NEW s \in Scans, Find(s)
      PROVE  \E k \in {"deleted", "carved"}, n \in 1 .. MaxFound :
               found' = [found EXCEPT ![s] = Append(found[s], RowOf(s, k, n))]
  BY <1>1 DEF Find
<1>2. QED
  BY <1>1, Zenon
  DEF Next, Thread, Press, Refused, ClearFirst, Start, FsEnd, Partial, PartialFails, CarveEnd,
      Fails, AddFound, Unbusy, Emit, Panic, LockPanics, CommandPanics, PressStop, PressBack,
      ScanDone, Filtered, PressClear, Synthetic, Restart, vars, scan_vars

\* A thread holds rows of its own scan.
LEMMA FoundStep ==
  ASSUME FoundTyped, [Next]_vars PROVE FoundTyped'
<1>1. CASE UNCHANGED found
  BY <1>1 DEF FoundTyped
<1>2. ASSUME NEW s \in Scans, found' = [found EXCEPT ![s] = <<>>] PROVE FoundTyped'
  BY <1>2 DEF FoundTyped
<1>3. CASE found' = [s \in Scans |-> <<>>]
  BY <1>3 DEF FoundTyped
<1>4. ASSUME NEW s \in Scans, NEW k \in {"deleted", "carved"}, NEW n \in 1 .. MaxFound,
             found' = [found EXCEPT ![s] = Append(found[s], RowOf(s, k, n))]
      PROVE  FoundTyped'
  <2>1. RowOf(s, k, n) \in Row /\ RowOf(s, k, n).scan = s
    BY GuiAssumption DEF RowOf, Row, Kinds
  <2>2. found[s] \in Seq(Row)
    BY DEF FoundTyped
  <2>3. Append(found[s], RowOf(s, k, n)) \in Seq(Row)
    BY <2>1, <2>2
  <2>4. \A i \in 1 .. Len(Append(found[s], RowOf(s, k, n))) :
          Append(found[s], RowOf(s, k, n))[i].scan = s
    BY <2>1, <2>2 DEF FoundTyped
  <2>5. QED
    BY <1>4, <2>3, <2>4 DEF FoundTyped
<1>5. QED
  BY <1>1, <1>2, <1>3, <1>4, FoundSteps

\* Types and view together are kept.
LEMMA TypesStep ==
  ASSUME Types, ViewInv, [Next]_vars PROVE Types' /\ ViewInv'
<1>1. AppTyped' /\ FoundTyped'
  BY AppStep, FoundStep DEF Types
<1>2. \/ UNCHANGED store
      \/ Clear \/ Open
      \/ \E f \in Filters : SetView(f)
      \/ \E new \in Seq(Row) : Add(new)
  BY StoreSteps DEF Types
<1>3. StoreTyped' /\ ViewInv'
  BY <1>2, StoreKept DEF Types
<1>4. QED
  BY <1>1, <1>3 DEF Types

\* Types and view are right from the start and stay so.
LEMMA TypesKept == Spec => [](Types /\ ViewInv)
<1>1. Init => Types /\ ViewInv
  <2> SUFFICES ASSUME Init PROVE Types /\ ViewInv
    OBVIOUS
  <2>1. rows = <<>> /\ view = All(0)
    BY DEF Init, StoreInit
  <2>2. Ids = {} /\ Ids = 1 .. 0
    BY <2>1 DEF Ids
  <2>3. Total = 0
    BY <2>2, FS_EmptySet DEF Total
  <2>4. StoreTyped /\ ViewInv
    BY <2>1, <2>2, <2>3 DEF StoreTyped, ViewInv, All, View
  <2>5. AppTyped
    BY DEF Init, AppTyped, Pcs
  <2>6. <<>> \in Seq(Row)
    OBVIOUS
  <2>7. FoundTyped
    BY <2>6 DEF Init, FoundTyped
  <2>8. QED
    BY <2>4, <2>5, <2>7 DEF Types
<1>2. Types /\ ViewInv /\ [Next]_vars => (Types /\ ViewInv)'
  BY TypesStep
<1>3. QED
  BY <1>1, <1>2, PTL DEF Spec


-----------------------------------------------------------------------------
(* Pages.                                                                  *)

\* A page inside the view is full, and has no row twice.
LEMMA PagesAreFull ==
  ASSUME StoreTyped, ViewInv,
         NEW start \in 0 .. view.n - 1, NEW count \in 1 .. view.n - start
  PROVE  Len(Page(start, count)) = count /\ IsInjective(Page(start, count))
<1> DEFINE end == IF start + count < view.n THEN start + count ELSE view.n
           ids == IF view.all
                    THEN [i \in 1 .. (IF start < end THEN end - start ELSE 0) |-> start + i]
                    ELSE SubSeq(view.ids, start + 1, end)
           there == {i \in DOMAIN ids : ids[i] \in Ids}
           order == InOrder(there, Ascending(there))
<1>1. PICK n \in Nat : Ids = 1 .. n
  BY DEF StoreTyped
<1>2. Total = n /\ view.n \in Nat
  BY <1>1, MaxOfIds DEF StoreTyped, View
<1>3. end = start + count /\ end \in Nat /\ end <= view.n /\ start \in Nat /\ count \in Nat
  BY <1>2
<1>4. /\ DOMAIN ids = 1 .. count
      /\ \A i \in 1 .. count : ids[i] \in Ids
      /\ \A i, j \in 1 .. count : ids[i] = ids[j] => i = j
  <2>1. CASE view.all
    <3>1. view.n = n
      BY <1>2, <2>1 DEF ViewInv
    <3>2. ids = [i \in 1 .. count |-> start + i]
      BY <1>3, <2>1
    <3>3. \A i \in 1 .. count : start + i \in 1 .. n
      BY <1>1, <1>3, <3>1
    <3> HIDE DEF ids
    <3>4. QED
      BY <1>1, <1>3, <3>2, <3>3
  <2>2. CASE ~view.all
    <3>1. /\ view.ids \in Seq(Ids) /\ view.n = Len(view.ids)
          /\ \A k, l \in 1 .. view.n : view.ids[k] = view.ids[l] => k = l
      BY <2>2 DEF ViewInv
    <3>2. ids = SubSeq(view.ids, start + 1, start + count)
      BY <1>3, <2>2
    <3>3. /\ Len(ids) = count /\ DOMAIN ids = 1 .. count
          /\ \A i \in 1 .. count : ids[i] = view.ids[start + i] /\ start + i \in 1 .. view.n
      <4> HIDE DEF ids
      <4>1. \A i \in 1 .. count : start + i \in 1 .. view.n
        BY <1>2, <1>3, <3>1
      <4>2. /\ Len(ids) = count /\ DOMAIN ids = 1 .. count
            /\ \A i \in 1 .. count : ids[i] = view.ids[start + i]
        BY <1>2, <1>3, <3>1, <3>2
      <4>3. QED
        BY <4>1, <4>2
    <3> HIDE DEF ids
    <3>4. \A i \in 1 .. count : ids[i] \in Ids
      <4>1. \A k \in 1 .. view.n : view.ids[k] \in Ids
        BY <3>1
      <4>2. QED
        BY <3>3, <4>1
    <3>5. \A i, j \in 1 .. count : ids[i] = ids[j] => i = j
      <4> TAKE i, j \in 1 .. count
      <4> HAVE ids[i] = ids[j]
      <4>1. view.ids[start + i] = view.ids[start + j]
        BY <3>3
      <4>2. start + i \in 1 .. view.n /\ start + j \in 1 .. view.n
        BY <3>3
      <4>3. start + i = start + j
        BY <3>1, <4>1, <4>2
      <4>4. QED
        BY <1>3, <4>3
    <3>6. QED
      BY <3>3, <3>4, <3>5
  <2>3. QED
    BY <2>1, <2>2
<1> HIDE DEF ids
<1>5. there = 1 .. count
  BY <1>4
<1>6. Cardinality(there) = count
  <2>1. Cardinality(1 .. count) = count
    BY <1>3, FS_Interval
  <2>2. QED
    BY <1>5, <2>1
<1>7. \A k \in 1 .. count : order[k] = k
  BY <1>3, <1>5, AscendingPlaces
<1>8. Page(start, count) = [k \in 1 .. Cardinality(there) |-> ids[order[k]]]
  BY DEF Page, PartOf, ids
<1> HIDE DEF order, there
<1>9. Page(start, count) = [k \in 1 .. count |-> ids[k]]
  BY <1>6, <1>7, <1>8
<1>10. Len(Page(start, count)) = count
  BY <1>3, <1>9
<1>11. IsInjective(Page(start, count))
  BY <1>4, <1>9 DEF IsInjective
<1>12. QED
  BY <1>10, <1>11

\* However scans, synthetic rows, clears, filters and restarts are mixed, every
\* page of the view is full and has no row twice (rc-results' dense ids).
THEOREM ViewStaysDense == Spec => []ViewIsDense
<1>1. Types /\ ViewInv => ViewIsDense
  <2> SUFFICES ASSUME Types, ViewInv PROVE ViewIsDense
    OBVIOUS
  <2>1. view.all => view.n = Total
    BY DEF ViewInv
  <2>2. QED
    BY <2>1, PagesAreFull DEF Types, ViewIsDense
<1>2. QED
  BY <1>1, TypesKept, PTL

-----------------------------------------------------------------------------
(* Stop.                                                                   *)

\* While a scan has the application busy, no step takes back a press of Stop:
\* run_scan clears the flag only when it finds busy unset.
THEOREM StopIsKept == Spec => StopSticks
<1>1. [Next]_vars => (busy /\ stop /\ busy' => stop')
  <2> SUFFICES ASSUME [Next]_vars, busy, stop, busy' PROVE stop'
    OBVIOUS
  <2>1. ASSUME NEW s \in Scans, Start(s) PROVE stop'
    BY <2>1 DEF Start
  <2>2. ASSUME Restart PROVE FALSE
    BY <2>2 DEF Restart
  <2>3. ASSUME PressStop \/ PressBack PROVE stop'
    BY <2>3 DEF PressStop, PressBack
  <2>4. \/ stop' = stop
        \/ \E s \in Scans : Start(s)
        \/ Restart \/ PressStop \/ PressBack
    BY Zenon
    DEF Next, Thread, Press, Refused, ClearFirst, Find, FsEnd, Partial, PartialFails, CarveEnd,
        Fails, AddFound, Unbusy, Emit, Panic, LockPanics, CommandPanics, ScanDone, Filtered,
        PressClear, Synthetic, vars, scan_vars
  <2>5. CASE stop' = stop
    BY <2>5, Zenon
  <2>6. QED
    BY <2>1, <2>2, <2>3, <2>4, <2>5, Zenon
<1>2. [Next]_vars => [busy /\ stop /\ busy' => stop']_vars
  BY <1>1
<1>3. QED
  BY <1>1, PTL DEF Spec, StopSticks


-----------------------------------------------------------------------------
(* Busy.                                                                   *)

\* Every step keeps busy right: most leave it, and who owns it, alone.
LEMMA BusyStep ==
  ASSUME AppTyped, BusyIsItsScans, [Next]_vars PROVE BusyIsItsScans'
<1> USE DEF AppTyped, Pcs, Working, Owns, Running, BusyIsItsScans
<1>1. CASE busy' = busy /\ \A s \in Scans : Owns(s)' <=> Owns(s)
  BY <1>1
<1>2. CASE UNCHANGED <<busy, pc>>
  BY <1>1, <1>2
<1>3. ASSUME NEW s \in Scans,
             (\E m \in Modes : Press(s, m)) \/ Refused(s) \/ ClearFirst(s) \/ Emit(s)
      PROVE  BusyIsItsScans'
  BY <1>1, <1>3 DEF Press, Refused, ClearFirst, Emit
<1>4. ASSUME NEW s \in Scans, Start(s) PROVE BusyIsItsScans'
  <2>1. CASE busy
    BY <1>1, <1>4, <2>1 DEF Start
  <2>2. CASE ~busy
    <3>1. \A r \in Scans : ~Owns(r)
      BY <2>2
    <3>2. busy' /\ \A r \in Scans : Owns(r)' <=> r = s
      BY <1>4, <2>2, <3>1 DEF Start, FirstPhase
    <3>3. QED
      BY <3>2
  <2>3. QED
    BY <2>1, <2>2
<1>5. ASSUME NEW s \in Scans,
             \/ Find(s) \/ FsEnd(s) \/ Partial(s) \/ PartialFails(s) \/ CarveEnd(s)
             \/ Fails(s) \/ AddFound(s) \/ Panic(s) \/ LockPanics(s)
      PROVE  BusyIsItsScans'
  BY <1>1, <1>5 DEF Find, FsEnd, Partial, PartialFails, CarveEnd, Fails, AddFound, Panic,
                    LockPanics
<1>6. ASSUME NEW s \in Scans, Unbusy(s) PROVE BusyIsItsScans'
  <2>1. \A r \in Scans : Owns(r) => r = s
    BY <1>6 DEF Unbusy
  <2>2. ~busy' /\ \A r \in Scans : ~Owns(r)'
    BY <1>6, <2>1 DEF Unbusy
  <2>3. QED
    BY <2>2
<1>7. CASE Restart
  <2>1. ~busy' /\ \A r \in Scans : ~Owns(r)'
    BY <1>7 DEF Restart
  <2>2. QED
    BY <2>1
<1>8. CASE \/ PressStop \/ PressBack \/ ScanDone \/ (\E f \in Filters : Filtered(f))
           \/ PressClear \/ Synthetic \/ CommandPanics \/ UNCHANGED vars
  BY <1>2, <1>8
  DEF PressStop, PressBack, ScanDone, Filtered, PressClear, Synthetic, CommandPanics, vars,
      scan_vars
<1>9. QED
  BY <1>3, <1>4, <1>5, <1>6, <1>7, <1>8 DEF Next, Thread

\* However scans are pressed, fail, panic and are killed, run_scan's busy is set
\* exactly while the one scan it was set for runs, or has panicked.
THEOREM BusyIsTrue == Spec => []BusyIsItsScans
<1>1. Init => BusyIsItsScans
  BY DEF Init, BusyIsItsScans, Owns, Running, Working
<1>2. Types /\ BusyIsItsScans /\ [Next]_vars => BusyIsItsScans'
  BY BusyStep DEF Types
<1>3. QED
  BY <1>1, <1>2, TypesKept, PTL DEF Spec

-----------------------------------------------------------------------------
(* What a scan finds is listed once.                                       *)

\* Where a thread may hold rows; where a scan has yet to list what it found;
\* where it no longer finds any.
Holding == {"fs", "partial", "carve", "add"}
Begun   == {"none", "clear", "start"} \cup Holding
Over    == {"unbusy", "emit", "done", "panicked", "dead"}

Held(s)    == {found[s][i] : i \in DOMAIN found[s]}
FoundBy(s) == {row \in all_found : row.scan = s}

RowsOnce == \A i, j \in Ids : rows[i] = rows[j] => i = j

\* A row is a scan's, or one of the synthetic ones so far.
Made(row) == row \in all_found \/ (row.kind = "synthetic" /\ row.n <= synthetics)

RowsAreMade == \A row \in Listed : Made(row)

ScansFindNoSynthetic == \A row \in all_found : row.kind # "synthetic"

\* What a thread holds was found, each row once, and is not listed yet.
HeldIsNew ==
  \A s \in Scans :
    /\ Held(s) \subseteq all_found /\ Held(s) \cap Listed = {}
    /\ \A i, j \in 1 .. Len(found[s]) : found[s][i] = found[s][j] => i = j

HeldWhileRunning == \A s \in Scans : pc[s] \notin Holding => found[s] = <<>>

\* Before it is over a scan has every row it found listed, gone or in hand.
NothingIsMislaid ==
  \A s \in Scans : pc[s] \in Begun => FoundBy(s) \subseteq Listed \cup gone \cup Held(s)

\* Success is reported by a scan that is over and has handed over everything.
SuccessIsWhole ==
  \A s \in Scans : ok[s] => pc[s] \in Over /\ FoundBy(s) \subseteq Listed \cup gone

FoundInv ==
  /\ RowsOnce /\ RowsAreMade /\ ScansFindNoSynthetic
  /\ HeldIsNew /\ HeldWhileRunning /\ NothingIsMislaid /\ SuccessIsWhole

\* A scan goes on: it never comes back to where it was before.
MovesOn ==
  \A s \in Scans :
    /\ pc'[s] \in Begun => pc[s] \in Begun
    /\ pc[s] \in Over => pc'[s] \in Over
    /\ pc'[s] \notin Holding => pc[s] \notin Holding \/ found'[s] = <<>>

\* Steps that only move scans on.
LEMMA MovingKeepsFound ==
  ASSUME FoundInv, MovesOn, UNCHANGED <<rows, found, ok, synthetics, history>>
  PROVE  FoundInv'
<1>1. RowsOnce' /\ RowsAreMade' /\ ScansFindNoSynthetic' /\ HeldIsNew'
  BY DEF FoundInv, RowsOnce, RowsAreMade, Made, ScansFindNoSynthetic, HeldIsNew, Held, Listed, Ids,
         history
<1>2. UNCHANGED Listed /\ \A s \in Scans : FoundBy(s)' = FoundBy(s) /\ Held(s)' = Held(s)
  BY DEF Listed, Ids, FoundBy, Held, history
<1>3. HeldWhileRunning'
  BY DEF FoundInv, HeldWhileRunning, MovesOn
<1>4. NothingIsMislaid'
  BY <1>2 DEF FoundInv, NothingIsMislaid, MovesOn, history
<1>5. SuccessIsWhole'
  BY <1>2 DEF FoundInv, SuccessIsWhole, MovesOn, history
<1>6. QED
  BY <1>1, <1>3, <1>4, <1>5 DEF FoundInv

\* A clear: what was listed is gone.
LEMMA ClearingKeepsFound ==
  ASSUME FoundInv, MovesOn, Clear, gone' = gone \cup Listed,
         UNCHANGED <<found, ok, synthetics, all_found>>
  PROVE  FoundInv'
<1>1. Ids' = {} /\ Listed' = {}
  BY DEF Clear, Ids, Listed
<1>2. \A s \in Scans : FoundBy(s)' = FoundBy(s) /\ Held(s)' = Held(s)
  BY DEF FoundBy, Held
<1>3. RowsOnce' /\ RowsAreMade' /\ ScansFindNoSynthetic' /\ HeldIsNew'
  BY <1>1, <1>2 DEF FoundInv, RowsOnce, RowsAreMade, ScansFindNoSynthetic, HeldIsNew
<1>4. HeldWhileRunning'
  BY DEF FoundInv, HeldWhileRunning, MovesOn
<1>5. NothingIsMislaid'
  BY <1>1, <1>2 DEF FoundInv, NothingIsMislaid, MovesOn
<1>6. SuccessIsWhole'
  BY <1>1, <1>2 DEF FoundInv, SuccessIsWhole, MovesOn
<1>7. QED
  BY <1>3, <1>4, <1>5, <1>6 DEF FoundInv

\* Some threads drop what they hold: an early add that failed, an error, a panic,
\* a restart.
LEMMA DroppingKeepsFound ==
  ASSUME Types, FoundInv, MovesOn, UNCHANGED <<rows, ok, synthetics, all_found>>,
         gone \subseteq gone',
         \A s \in Scans : \/ found'[s] = found[s]
                          \/ /\ found'[s] = <<>>
                             /\ pc'[s] \in Begun => Held(s) \subseteq gone'
  PROVE  FoundInv'
<1>1. UNCHANGED Listed /\ Ids' = Ids /\ \A s \in Scans : FoundBy(s)' = FoundBy(s)
  BY DEF Listed, Ids, FoundBy
<1>2. ASSUME NEW s \in Scans PROVE Held(s)' = Held(s) \/ Held(s)' = {}
  BY DEF Held
<1>3. RowsOnce' /\ RowsAreMade' /\ ScansFindNoSynthetic'
  BY <1>1 DEF FoundInv, RowsOnce, RowsAreMade, Made, ScansFindNoSynthetic
<1>4. HeldIsNew'
  <2> SUFFICES ASSUME NEW s \in Scans
               PROVE  /\ Held(s)' \subseteq all_found' /\ Held(s)' \cap Listed' = {}
                      /\ \A i, j \in 1 .. Len(found'[s]) : found'[s][i] = found'[s][j] => i = j
    BY DEF HeldIsNew
  <2>1. Held(s)' \subseteq all_found' /\ Held(s)' \cap Listed' = {}
    BY <1>1, <1>2 DEF FoundInv, HeldIsNew
  <2>2. CASE found'[s] = found[s]
    BY <2>1, <2>2 DEF FoundInv, HeldIsNew
  <2>3. CASE found'[s] = <<>>
    BY <2>1, <2>3
  <2>4. QED
    BY <2>2, <2>3
<1>5. HeldWhileRunning'
  BY DEF FoundInv, HeldWhileRunning, MovesOn
<1>6. NothingIsMislaid'
  <2> SUFFICES ASSUME NEW s \in Scans, pc'[s] \in Begun
               PROVE  FoundBy(s)' \subseteq Listed' \cup gone' \cup Held(s)'
    BY DEF NothingIsMislaid
  <2>1. FoundBy(s) \subseteq Listed \cup gone \cup Held(s)
    BY DEF FoundInv, NothingIsMislaid, MovesOn
  <2>2. Held(s)' = Held(s) \/ Held(s) \subseteq gone'
    BY DEF Held
  <2>3. QED
    BY <1>1, <2>1, <2>2
<1>7. SuccessIsWhole'
  BY <1>1 DEF FoundInv, SuccessIsWhole, MovesOn
<1>8. QED
  BY <1>3, <1>4, <1>5, <1>6, <1>7 DEF FoundInv


\* An add of new rows, each once, keeps the rows apart and lists the new ones.
LEMMA AddLists ==
  ASSUME StoreTyped, RowsOnce, NEW new \in Seq(Row), Add(new),
         \A i \in 1 .. Len(new) : new[i] \notin Listed,
         \A i, j \in 1 .. Len(new) : new[i] = new[j] => i = j
  PROVE  RowsOnce' /\ Listed' = Listed \cup {new[i] : i \in DOMAIN new}
<1>1. PICK n \in Nat : Ids = 1 .. n
  BY DEF StoreTyped
<1> DEFINE m == n + Len(new)
<1>2. /\ Len(new) \in Nat /\ DOMAIN new = 1 .. Len(new)
      /\ m \in Nat /\ Ids' = 1 .. m
      /\ \A id \in 1 .. n : rows'[id] = rows[id]
      /\ \A id \in 1 .. m : id > n => rows'[id] = new[id - n]
  <2>1. Len(new) \in Nat /\ DOMAIN new = 1 .. Len(new)
    OBVIOUS
  <2>2. /\ m \in Nat /\ Ids' = 1 .. m
        /\ \A id \in 1 .. n : rows'[id] = rows[id]
        /\ \A id \in 1 .. m : id > n => rows'[id] = new[id - n]
    BY <1>1, AddAppends, Zenon
  <2> HIDE DEF m
  <2>3. QED
    BY <2>1, <2>2
<1>3. \A id \in 1 .. m : id > n => id - n \in 1 .. Len(new)
  BY <1>2
<1>4. \A i \in 1 .. Len(new) : n + i \in 1 .. m /\ n + i > n /\ rows'[n + i] = new[i]
  <2> TAKE i \in 1 .. Len(new)
  <2>1. n + i \in 1 .. m /\ n + i > n /\ n + i - n = i
    BY <1>2
  <2>2. QED
    BY <1>2, <2>1
<1>5. \A id \in 1 .. n : id \in 1 .. m /\ rows[id] \in Listed
  BY <1>1, <1>2 DEF Listed
<1>6. Listed' = {rows'[id] : id \in 1 .. m}
  BY <1>2 DEF Listed
<1>7. Listed = {rows[id] : id \in 1 .. n}
  BY <1>1 DEF Listed
<1> HIDE DEF m
<1>8. Listed' = Listed \cup {new[i] : i \in DOMAIN new}
  <2>1. ASSUME NEW id \in 1 .. m
        PROVE  rows'[id] \in Listed \cup {new[i] : i \in DOMAIN new}
    <3>1. CASE id \in 1 .. n
      BY <1>2, <1>5, <3>1
    <3>2. CASE id \notin 1 .. n
      <4>1. id > n
        BY <1>1, <3>2
      <4>2. QED
        BY <1>2, <1>3, <4>1
    <3>3. QED
      BY <3>1, <3>2
  <2>2. ASSUME NEW id \in 1 .. n PROVE rows[id] \in Listed'
    BY <1>2, <1>5, <1>6
  <2>3. ASSUME NEW i \in 1 .. Len(new) PROVE new[i] \in Listed'
    BY <1>4, <1>6
  <2>4. {new[i] : i \in DOMAIN new} \subseteq Listed'
    BY <1>2, <2>3
  <2>5. Listed \subseteq Listed'
    BY <1>7, <2>2
  <2>6. Listed' \subseteq Listed \cup {new[i] : i \in DOMAIN new}
    BY <1>6, <2>1
  <2>7. QED
    BY <2>4, <2>5, <2>6
<1>9. RowsOnce'
  <2> SUFFICES ASSUME NEW i \in 1 .. m, NEW j \in 1 .. m, rows'[i] = rows'[j] PROVE i = j
    BY <1>2 DEF RowsOnce
  <2>1. CASE i \in 1 .. n /\ j \in 1 .. n
    BY <1>1, <1>2, <2>1 DEF RowsOnce
  <2>2. CASE i \notin 1 .. n /\ j \notin 1 .. n
    <3>1. i > n /\ j > n
      BY <1>1, <2>2
    <3>2. i - n = j - n
      BY <1>2, <1>3, <3>1
    <3>3. QED
      BY <1>1, <3>2
  <2>3. ASSUME NEW k \in 1 .. n, NEW l \in 1 .. m, l \notin 1 .. n PROVE rows'[k] # rows'[l]
    <3>1. l > n
      BY <1>1, <2>3
    <3>2. rows'[l] \notin Listed
      BY <1>2, <1>3, <3>1
    <3>3. QED
      BY <1>2, <1>5, <3>2
  <2>4. QED
    BY <2>1, <2>2, <2>3
<1>10. QED
  BY <1>8, <1>9

\* A scan's thread lists what it holds.
LEMMA ListingKeepsFound ==
  ASSUME Types, FoundInv, NEW s \in Scans, Add(found[s]), MovesOn,
         pc[s] \in Begun, pc'[s] \in Begun \/ pc'[s] \in Over,
         found' = [found EXCEPT ![s] = <<>>],
         \A r \in Scans : ok'[r] => ok[r] \/ (r = s /\ pc'[s] \in Over),
         UNCHANGED <<synthetics, history>>
  PROVE  FoundInv'
<1>1. found[s] \in Seq(Row) /\ DOMAIN found[s] = 1 .. Len(found[s])
  BY DEF Types, FoundTyped
<1>2. RowsOnce' /\ Listed' = Listed \cup Held(s)
  <2>1. \A i \in 1 .. Len(found[s]) : found[s][i] \notin Listed
    BY <1>1 DEF FoundInv, HeldIsNew, Held
  <2>2. \A i, j \in 1 .. Len(found[s]) : found[s][i] = found[s][j] => i = j
    BY DEF FoundInv, HeldIsNew
  <2>3. StoreTyped /\ RowsOnce
    BY DEF Types, FoundInv
  <2>4. QED
    BY <1>1, <2>1, <2>2, <2>3, AddLists DEF Held
<1>3. /\ all_found' = all_found /\ gone' = gone
      /\ \A r \in Scans : FoundBy(r)' = FoundBy(r)
  BY DEF FoundBy, history
<1>4. /\ found'[s] = <<>> /\ Held(s)' = {}
      /\ \A r \in Scans : r # s => found'[r] = found[r] /\ Held(r)' = Held(r)
  BY DEF Types, FoundTyped, Held
<1>5. \A r \in Scans : r # s => Held(r) \cap Held(s) = {}
  <2> SUFFICES ASSUME NEW r \in Scans, r # s, NEW row \in Held(r), row \in Held(s) PROVE FALSE
    OBVIOUS
  <2>1. \A t \in Scans : \A x \in Held(t) : x.scan = t
    BY DEF Types, FoundTyped, Held
  <2>2. QED
    BY <2>1
<1>6. RowsAreMade'
  BY <1>2, <1>3 DEF FoundInv, RowsAreMade, Made, HeldIsNew
<1>7. ScansFindNoSynthetic'
  BY <1>3 DEF FoundInv, ScansFindNoSynthetic
<1>8. HeldIsNew'
  <2> SUFFICES ASSUME NEW r \in Scans
               PROVE  /\ Held(r)' \subseteq all_found' /\ Held(r)' \cap Listed' = {}
                      /\ \A i, j \in 1 .. Len(found'[r]) : found'[r][i] = found'[r][j] => i = j
    BY DEF HeldIsNew
  <2>1. CASE r = s
    BY <1>4, <2>1
  <2>2. CASE r # s
    BY <1>2, <1>3, <1>4, <1>5, <2>2 DEF FoundInv, HeldIsNew
  <2>3. QED
    BY <2>1, <2>2
<1>9. HeldWhileRunning'
  BY <1>4 DEF FoundInv, HeldWhileRunning, MovesOn
<1>10. NothingIsMislaid'
  <2> SUFFICES ASSUME NEW r \in Scans, pc'[r] \in Begun
               PROVE  FoundBy(r)' \subseteq Listed' \cup gone' \cup Held(r)'
    BY DEF NothingIsMislaid
  <2>1. FoundBy(r) \subseteq Listed \cup gone \cup Held(r)
    BY DEF FoundInv, NothingIsMislaid, MovesOn
  <2>2. QED
    BY <1>2, <1>3, <1>4, <2>1
<1>11. SuccessIsWhole'
  <2> SUFFICES ASSUME NEW r \in Scans, ok'[r]
               PROVE  pc'[r] \in Over /\ FoundBy(r)' \subseteq Listed' \cup gone'
    BY DEF SuccessIsWhole
  <2>1. CASE ok[r]
    BY <1>2, <1>3, <2>1 DEF FoundInv, SuccessIsWhole, MovesOn
  <2>2. CASE r = s /\ pc'[s] \in Over
    <3>1. FoundBy(s) \subseteq Listed \cup gone \cup Held(s)
      BY DEF FoundInv, NothingIsMislaid
    <3>2. QED
      BY <1>2, <1>3, <2>2, <3>1
  <2>3. QED
    BY <2>1, <2>2
<1>12. QED
  BY <1>2, <1>6, <1>7, <1>8, <1>9, <1>10, <1>11 DEF FoundInv


\* A row that was not found before is in hand.
LEMMA FindingKeepsFound ==
  ASSUME Types, FoundInv, NEW s \in Scans, Find(s) PROVE FoundInv'
<1>1. PICK n \in 1 .. MaxFound, k \in {"deleted", "carved"} :
        LET row == RowOf(s, k, n) IN
        /\ row \notin all_found
        /\ found' = [found EXCEPT ![s] = Append(found[s], row)]
        /\ all_found' = all_found \cup {row}
  BY DEF Find
<1> DEFINE row == RowOf(s, k, n)
<1>2. /\ row \notin all_found /\ all_found' = all_found \cup {row}
      /\ row.scan = s /\ row.kind # "synthetic"
  BY <1>1 DEF RowOf
<1>3. pc[s] \in Holding /\ UNCHANGED <<rows, pc, ok, synthetics, gone>>
  BY DEF Find, Holding, store, rest
<1>4. UNCHANGED Listed /\ Ids' = Ids
  BY <1>3 DEF Listed, Ids
<1>5. row \notin Listed
  BY <1>2 DEF FoundInv, RowsAreMade, Made
<1>6. /\ found[s] \in Seq(Row) /\ row \in Row
      /\ found'[s] = Append(found[s], row)
      /\ \A r \in Scans : r # s => found'[r] = found[r] /\ Held(r)' = Held(r)
  BY <1>1, GuiAssumption DEF Types, FoundTyped, Held, RowOf, Row, Kinds
<1> HIDE DEF row
<1>7. /\ Len(found[s]) \in Nat /\ Len(found'[s]) = Len(found[s]) + 1
      /\ DOMAIN found[s] = 1 .. Len(found[s]) /\ DOMAIN found'[s] = 1 .. Len(found[s]) + 1
      /\ \A i \in 1 .. Len(found[s]) : found'[s][i] = found[s][i]
      /\ found'[s][Len(found[s]) + 1] = row
  BY <1>6
<1>8. Held(s)' = Held(s) \cup {row}
  <2>1. row \in Held(s)'
    <3>1. Len(found[s]) + 1 \in DOMAIN found'[s]
      BY <1>7
    <3>2. QED
      BY <1>7, <3>1 DEF Held
  <2>2. Held(s) \subseteq Held(s)'
    BY <1>7 DEF Held
  <2>3. ASSUME NEW i \in 1 .. Len(found[s]) + 1 PROVE found'[s][i] \in Held(s) \cup {row}
    <3>1. i \in 1 .. Len(found[s]) \/ i = Len(found[s]) + 1
      BY <1>7
    <3>2. QED
      BY <1>7, <3>1 DEF Held
  <2>4. Held(s)' \subseteq Held(s) \cup {row}
    BY <1>7, <2>3 DEF Held
  <2>5. QED
    BY <2>1, <2>2, <2>4
<1>9. row \notin Held(s)
  BY <1>2 DEF FoundInv, HeldIsNew
<1>10. RowsOnce' /\ RowsAreMade' /\ ScansFindNoSynthetic'
  <2>1. RowsOnce'
    BY <1>3, <1>4 DEF FoundInv, RowsOnce
  <2>2. RowsAreMade'
    BY <1>2, <1>3, <1>4 DEF FoundInv, RowsAreMade, Made
  <2>3. ScansFindNoSynthetic'
    BY <1>2 DEF FoundInv, ScansFindNoSynthetic
  <2>4. QED
    BY <2>1, <2>2, <2>3
<1>11. HeldIsNew'
  <2> SUFFICES ASSUME NEW r \in Scans
               PROVE  /\ Held(r)' \subseteq all_found' /\ Held(r)' \cap Listed' = {}
                      /\ \A i, j \in 1 .. Len(found'[r]) : found'[r][i] = found'[r][j] => i = j
    BY DEF HeldIsNew
  <2>1. CASE r # s
    BY <1>2, <1>4, <1>6, <2>1 DEF FoundInv, HeldIsNew
  <2>2. CASE r = s
    <3>1. Held(s)' \subseteq all_found' /\ Held(s)' \cap Listed' = {}
      BY <1>2, <1>4, <1>5, <1>8 DEF FoundInv, HeldIsNew
    <3>2. ASSUME NEW i \in 1 .. Len(found[s]) + 1, NEW j \in 1 .. Len(found[s]) + 1,
                 found'[s][i] = found'[s][j]
          PROVE  i = j
      <4>1. \A l \in 1 .. Len(found[s]) : found'[s][l] # row
        BY <1>7, <1>9 DEF Held
      <4>2. CASE i \in 1 .. Len(found[s]) /\ j \in 1 .. Len(found[s])
        BY <1>7, <3>2, <4>2 DEF FoundInv, HeldIsNew
      <4>3. CASE i = Len(found[s]) + 1 \/ j = Len(found[s]) + 1
        BY <1>7, <3>2, <4>1, <4>3
      <4>4. QED
        BY <1>7, <4>2, <4>3
    <3>3. QED
      BY <1>7, <2>2, <3>1, <3>2
  <2>3. QED
    BY <2>1, <2>2
<1>12. HeldWhileRunning'
  BY <1>3, <1>6 DEF FoundInv, HeldWhileRunning
<1>13. \A r \in Scans : r # s => FoundBy(r)' = FoundBy(r)
  BY <1>2 DEF FoundBy
<1>14. FoundBy(s)' = FoundBy(s) \cup {row}
  BY <1>2 DEF FoundBy
<1>15. NothingIsMislaid'
  BY <1>3, <1>4, <1>6, <1>8, <1>13, <1>14 DEF FoundInv, NothingIsMislaid
<1>16. SuccessIsWhole'
  BY <1>3, <1>4, <1>13 DEF FoundInv, SuccessIsWhole, Over, Holding
<1>17. QED
  BY <1>10, <1>11, <1>12, <1>15, <1>16 DEF FoundInv

\* A synthetic row is a new one.
LEMMA SyntheticKeepsFound ==
  ASSUME Types, FoundInv, Synthetic PROVE FoundInv'
<1> DEFINE row == RowOf(0, "synthetic", synthetics')
<1>1. /\ synthetics \in Nat /\ synthetics' = synthetics + 1 /\ Add(<<row>>)
      /\ UNCHANGED <<pc, found, ok, all_found, gone>>
  BY DEF Types, AppTyped, Synthetic, scan_vars, history
<1>2. row \in Row /\ row.kind = "synthetic" /\ row.n = synthetics + 1
  BY <1>1 DEF RowOf, Row, Kinds
<1>3. row \notin all_found
  BY <1>2 DEF FoundInv, ScansFindNoSynthetic
<1>4. row \notin Listed
  BY <1>1, <1>2, <1>3 DEF FoundInv, RowsAreMade, Made
<1> HIDE DEF row
<1>5. RowsOnce' /\ Listed' = Listed \cup {row}
  <2>1. <<row>> \in Seq(Row) /\ Len(<<row>>) = 1 /\ <<row>>[1] = row /\ DOMAIN <<row>> = {1}
    BY <1>2
  <2>2. \A i \in 1 .. Len(<<row>>) : <<row>>[i] \notin Listed
    BY <1>4, <2>1
  <2>3. \A i, j \in 1 .. Len(<<row>>) : <<row>>[i] = <<row>>[j] => i = j
    BY <2>1
  <2>4. RowsOnce' /\ Listed' = Listed \cup {<<row>>[i] : i \in DOMAIN <<row>>}
    BY <1>1, <2>1, <2>2, <2>3, AddLists DEF Types, FoundInv
  <2>5. QED
    BY <2>1, <2>4
<1>6. RowsAreMade'
  <2> SUFFICES ASSUME NEW x \in Listed' PROVE Made(x)'
    BY DEF RowsAreMade
  <2>1. CASE x = row
    BY <1>1, <1>2, <2>1 DEF Made
  <2>2. CASE x \in Listed
    <3>1. PICK n \in Nat : Ids = 1 .. n
      BY DEF Types, StoreTyped
    <3>2. x \in Row
      BY <2>2 DEF Types, StoreTyped, Listed
    <3>3. Made(x) /\ x.n \in Nat
      BY <2>2, <3>2 DEF FoundInv, RowsAreMade, Row
    <3>4. QED
      BY <1>1, <3>3 DEF Made
  <2>3. QED
    BY <1>5, <2>1, <2>2
<1>7. \A s \in Scans : FoundBy(s)' = FoundBy(s) /\ Held(s)' = Held(s)
  BY <1>1 DEF FoundBy, Held
<1>8. ScansFindNoSynthetic' /\ HeldWhileRunning'
  BY <1>1 DEF FoundInv, ScansFindNoSynthetic, HeldWhileRunning
<1>9. HeldIsNew'
  BY <1>1, <1>3, <1>5, <1>7 DEF FoundInv, HeldIsNew
<1>10. NothingIsMislaid' /\ SuccessIsWhole'
  BY <1>1, <1>5, <1>7 DEF FoundInv, NothingIsMislaid, SuccessIsWhole
<1>11. QED
  BY <1>5, <1>6, <1>8, <1>9, <1>10 DEF FoundInv

\* Every step keeps it.
LEMMA FoundInvStep ==
  ASSUME Types, FoundInv, [Next]_vars PROVE FoundInv'
<1> USE DEF Begun, Holding, Over
<1>1. CASE UNCHANGED vars
  <2>1. MovesOn
    BY <1>1 DEF vars, scan_vars, MovesOn
  <2>2. QED
    BY <1>1, <2>1, MovingKeepsFound DEF vars, store, scan_vars, rest
<1>2. ASSUME NEW s \in Scans,
             \/ \E m \in Modes : Press(s, m)
             \/ Refused(s) \/ Start(s) \/ FsEnd(s) \/ CarveEnd(s) \/ Unbusy(s) \/ Emit(s)
      PROVE  FoundInv'
  <2>1. /\ UNCHANGED <<rows, found, ok, synthetics, history>>
        /\ \A r \in Scans : r # s => pc'[r] = pc[r]
    BY <1>2 DEF Press, Refused, Start, FsEnd, CarveEnd, Unbusy, Emit, store, rest, Types,
                AppTyped
  <2>2. /\ pc'[s] \in Begun => pc[s] \in Begun
        /\ pc[s] \in Over => pc'[s] \in Over
        /\ pc'[s] \notin Holding => pc[s] \notin Holding
    BY <1>2 DEF Press, Refused, Start, FirstPhase, FsEnd, CarveEnd, Unbusy, Emit, Types, AppTyped
  <2>3. MovesOn
    BY <2>1, <2>2 DEF MovesOn
  <2>4. QED
    BY <2>1, <2>3, MovingKeepsFound
<1>3. CASE PressStop \/ PressBack \/ ScanDone \/ CommandPanics \/ (\E f \in Filters : Filtered(f))
  <2>1. UNCHANGED <<rows, pc, found, ok, synthetics, history>>
    BY <1>3 DEF PressStop, PressBack, ScanDone, CommandPanics, Filtered, SetView, store,
                scan_vars, rest
  <2>2. MovesOn
    BY <2>1 DEF MovesOn
  <2>3. QED
    BY <2>1, <2>2, MovingKeepsFound
<1>4. CASE PressClear \/ (\E s \in Scans : ClearFirst(s))
  <2>1. /\ Clear /\ gone' = gone \cup Listed
        /\ UNCHANGED <<found, ok, synthetics, all_found>>
    BY <1>4 DEF PressClear, ClearFirst, scan_vars, rest
  <2>2. \A s \in Scans : pc'[s] = pc[s] \/ (pc[s] = "clear" /\ pc'[s] = "start")
    BY <1>4 DEF PressClear, ClearFirst, scan_vars, Types, AppTyped
  <2>3. MovesOn
    BY <2>2 DEF MovesOn
  <2>4. QED
    BY <2>1, <2>3, ClearingKeepsFound
<1>5. ASSUME NEW s \in Scans, Find(s) PROVE FoundInv'
  BY <1>5, FindingKeepsFound
<1>6. ASSUME NEW s \in Scans, Partial(s) \/ AddFound(s) PROVE FoundInv'
  <2>1. /\ Add(found[s]) /\ found' = [found EXCEPT ![s] = <<>>]
        /\ pc[s] \in {"partial", "add"} /\ \A r \in Scans : r # s => pc'[r] = pc[r]
        /\ UNCHANGED <<synthetics, history>>
    BY <1>6 DEF Partial, AddFound, rest, Types, AppTyped
  <2>2. pc'[s] \in {"carve", "unbusy"} /\ found'[s] = <<>>
    BY <1>6, <2>1 DEF Partial, AddFound, Types, AppTyped, FoundTyped
  <2>3. \A r \in Scans : ok'[r] => ok[r] \/ (r = s /\ pc'[s] \in Over)
    BY <1>6 DEF Partial, AddFound, Types, AppTyped
  <2>4. MovesOn
    BY <2>1, <2>2 DEF MovesOn
  <2>5. QED
    BY <2>1, <2>2, <2>3, <2>4, ListingKeepsFound
<1>7. ASSUME NEW s \in Scans, PartialFails(s) \/ Fails(s) \/ Panic(s) \/ LockPanics(s)
      PROVE  FoundInv'
  <2>1. /\ UNCHANGED <<rows, ok, synthetics, all_found>>
        /\ gone \subseteq gone'
        /\ \A r \in Scans : r # s => pc'[r] = pc[r] /\ found'[r] = found[r]
        /\ found'[s] = <<>> /\ pc[s] \in Holding
    BY <1>7 DEF PartialFails, Fails, Panic, LockPanics, store, rest, history, Types, AppTyped,
                FoundTyped
  <2>2. \/ pc'[s] = "carve" /\ gone' = gone \cup Held(s)
        \/ pc'[s] \in {"unbusy", "panicked"}
    BY <1>7 DEF PartialFails, Fails, Panic, LockPanics, Held, Types, AppTyped
  <2>3. MovesOn
    BY <2>1, <2>2 DEF MovesOn
  <2>4. \A r \in Scans : \/ found'[r] = found[r]
                         \/ found'[r] = <<>> /\ (pc'[r] \in Begun => Held(r) \subseteq gone')
    BY <2>1, <2>2
  <2>5. QED
    BY <2>1, <2>3, <2>4, DroppingKeepsFound
<1>8. CASE Synthetic
  BY <1>8, SyntheticKeepsFound
<1>9. CASE Restart
  <2>1. /\ UNCHANGED <<rows, ok, synthetics, all_found, gone>>
        /\ \A s \in Scans : found'[s] = <<>>
    BY <1>9 DEF Restart, Open, history
  <2>2. \A s \in Scans :
          (pc'[s] = pc[s] /\ pc[s] \in {"none", "refused", "done"}) \/ pc'[s] = "dead"
    BY <1>9 DEF Restart
  <2>3. MovesOn
    BY <2>1, <2>2 DEF MovesOn
  <2>4. \A s \in Scans : \/ found'[s] = found[s]
                         \/ found'[s] = <<>> /\ (pc'[s] \in Begun => Held(s) \subseteq gone')
    <3> TAKE s \in Scans
    <3>1. CASE pc'[s] = "dead"
      BY <2>1, <3>1
    <3>2. CASE pc[s] \in {"none", "refused", "done"}
      BY <2>1, <3>2 DEF FoundInv, HeldWhileRunning
    <3>3. QED
      BY <2>2, <3>1, <3>2
  <2>5. QED
    BY <2>1, <2>3, <2>4, DroppingKeepsFound
<1>10. QED
  BY <1>1, <1>2, <1>3, <1>4, <1>5, <1>6, <1>7, <1>8, <1>9 DEF Next, Thread

\* However scans, clears, synthetic rows, failures, panics and restarts are
\* mixed, the list has no row twice, and a scan that reports success has listed
\* all that it found, save what was cleared since or an early add lost.
THEOREM FoundIsListed == Spec => []FoundIsListedOnce
<1>1. Init => FoundInv
  <2> SUFFICES ASSUME Init PROVE FoundInv
    OBVIOUS
  <2>1. Ids = {} /\ Listed = {} /\ all_found = {}
    BY DEF Init, StoreInit, Ids, Listed
  <2>2. \A s \in Scans : found[s] = <<>> /\ Held(s) = {} /\ ~ok[s] /\ FoundBy(s) = {}
    BY <2>1 DEF Init, Held, FoundBy
  <2>3. QED
    BY <2>1, <2>2 DEF FoundInv, RowsOnce, RowsAreMade, ScansFindNoSynthetic, HeldIsNew,
                      HeldWhileRunning, NothingIsMislaid, SuccessIsWhole
<1>2. Types /\ FoundInv /\ [Next]_vars => FoundInv'
  BY FoundInvStep
<1>3. FoundInv => FoundIsListedOnce
  BY DEF FoundInv, RowsOnce, SuccessIsWhole, FoundBy, FoundIsListedOnce
<1>4. QED
  BY <1>1, <1>2, <1>3, TypesKept, PTL DEF Spec

-----------------------------------------------------------------------------
(* The rating.  What live files hold, first.                               *)

\* The clusters of live files, as the volume lists them.
AreRuns(runs) == IsFiniteSet(runs) /\ \A r \in runs : r.start \in Nat /\ r.count \in Nat

LEMMA SmallestIs ==
  ASSUME NEW S \in SUBSET Int, IsFiniteSet(S), S # {}
  PROVE  Min(S) \in S /\ \A x \in S : Min(S) <= x
BY LeastExists DEF Min

LEMMA LargestIs ==
  ASSUME NEW S \in SUBSET Int, IsFiniteSet(S), S # {}
  PROVE  Max(S) \in S /\ \A x \in S : Max(S) >= x
BY GreatestExists DEF Max

\* The search by halves in the merged ranges answers for the runs: whatever
\* order they came in and however they overlap (from_scan, contains).
LEMMA OccupiedIs ==
  ASSUME NEW runs, AreRuns(runs), NEW c \in Nat
  PROVE  Occupied(Merged(runs), c) <=> \E r \in runs : c \in r.start .. r.start + r.count - 1
<1> DEFINE cellsOf == [r \in runs |-> r.start .. r.start + r.count - 1]
           cells == UNION {r.start .. r.start + r.count - 1 : r \in runs}
           starts == {x \in cells : x - 1 \notin cells}
           Ends(s) == {x \in s + 1 .. Max(cells) + 1 : x \notin cells}
           End(s) == Min(Ends(s))
           before == {r \in Merged(runs) : r[1] <= c}
<1>1. cells \in SUBSET Nat /\ IsFiniteSet(cells)
  <2>1. \A r \in runs : cellsOf[r] \in SUBSET Nat /\ IsFiniteSet(cellsOf[r])
    <3> SUFFICES ASSUME NEW r \in runs PROVE cellsOf[r] \in SUBSET Nat /\ IsFiniteSet(cellsOf[r])
      OBVIOUS
    <3>1. r.start \in Nat /\ r.start + r.count - 1 \in Int
      BY DEF AreRuns
    <3>2. QED
      BY <3>1, FS_Interval
  <2>2. cells = UNION {cellsOf[r] : r \in runs}
    OBVIOUS
  <2>3. IsFiniteSet(runs) /\ DOMAIN cellsOf = runs
    BY DEF AreRuns
  <2> HIDE DEF cells, cellsOf
  <2>4. IsFiniteSet({cellsOf[r] : r \in runs})
    BY <2>3, ImageIsFinite
  <2>5. IsFiniteSet(UNION {cellsOf[r] : r \in runs})
    BY <2>1, <2>4, FS_UNION
  <2>6. QED
    BY <2>1, <2>2, <2>5
<1>2. c \in cells <=> \E r \in runs : c \in r.start .. r.start + r.count - 1
  OBVIOUS
<1>3. Merged(runs) = {<<s, End(s)>> : s \in starts}
  BY DEF Merged
<1> HIDE DEF cells
<1>4. ASSUME NEW s \in starts
      PROVE  /\ s \in Nat /\ End(s) \in Int /\ s < End(s) /\ End(s) \notin cells
             /\ \A x \in s .. End(s) - 1 : x \in cells
  <2> DEFINE top == Max(cells)
  <2>1. s \in cells /\ s \in Nat /\ cells # {} /\ cells \in SUBSET Int
    BY <1>1
  <2>2. top \in cells /\ \A x \in cells : top >= x
    BY <1>1, <2>1, LargestIs
  <2> HIDE DEF top
  <2>3. s \in Nat /\ top \in Nat /\ s <= top
    BY <1>1, <2>1, <2>2
  <2>4. Ends(s) = {x \in s + 1 .. top + 1 : x \notin cells}
    BY DEF top
  <2>5. top + 1 \notin cells
    BY <1>1, <2>2, <2>3
  <2> HIDE DEF Ends, starts
  <2>6. Ends(s) \in SUBSET Int /\ top + 1 \in Ends(s)
    <3>1. top + 1 \in s + 1 .. top + 1
      BY <2>3
    <3>2. QED
      BY <2>4, <2>5, <3>1
  <2>7. IsFiniteSet(s + 1 .. top + 1)
    <3>1. s + 1 \in Int /\ top + 1 \in Int
      BY <2>3
    <3>2. QED
      BY <3>1, FS_Interval
  <2>8. IsFiniteSet(Ends(s))
    BY <2>4, <2>7, FS_Subset
  <2>9. End(s) \in Ends(s) /\ \A x \in Ends(s) : End(s) <= x
    BY <2>6, <2>8, SmallestIs
  <2> HIDE DEF End
  <2>10. End(s) \in s + 1 .. top + 1 /\ End(s) \notin cells
    BY <2>4, <2>9
  <2>11. ASSUME NEW x \in s .. End(s) - 1 PROVE x \in cells
    <3>1. CASE x = s
      BY <2>1, <3>1
    <3>2. CASE x # s
      <4>1. x \in s + 1 .. top + 1 /\ x < End(s)
        BY <2>1, <2>3, <2>10, <3>2
      <4>2. x \notin Ends(s)
        BY <2>9, <2>10, <4>1
      <4>3. QED
        BY <2>4, <4>1, <4>2
    <3>3. QED
      BY <3>1, <3>2
  <2>12. QED
    BY <2>1, <2>10, <2>11
<1> HIDE DEF End
<1>5. ASSUME c \in cells PROVE Occupied(Merged(runs), c)
  <2> DEFINE G == {x \in 0 .. c : \A y \in x .. c : y \in cells}
             A == {q[1] : q \in before}
  <2>1. G \in SUBSET Int /\ c \in G
    BY <1>5
  <2>2. IsFiniteSet(G)
    <3>1. IsFiniteSet(0 .. c)
      BY FS_Interval
    <3>2. QED
      BY <3>1, FS_Subset
  <2> HIDE DEF G
  <2>3. PICK s \in G : \A x \in G : s <= x
    BY <2>1, <2>2, LeastExists
  <2>4. s \in 0 .. c /\ \A y \in s .. c : y \in cells
    BY <2>3 DEF G
  <2>5. s \in starts
    <3>1. s \in cells
      BY <2>4
    <3>2. ASSUME s - 1 \in cells PROVE FALSE
      <4>1. s - 1 \in 0 .. c
        BY <1>1, <2>4, <3>2
      <4>2. \A y \in s - 1 .. c : y \in cells
        BY <2>4, <3>2
      <4>3. s - 1 \in G
        BY <4>1, <4>2 DEF G
      <4>4. QED
        BY <2>3, <2>4, <4>3
    <3>3. QED
      BY <3>1, <3>2
  <2>6. /\ End(s) \in Int /\ End(s) \notin cells /\ s < End(s)
    BY <1>4, <2>5
  <2>7. c < End(s)
    <3>1. ~(End(s) \in s .. c)
      BY <2>4, <2>6
    <3>2. QED
      BY <2>4, <2>6, <3>1
  <2>8. <<s, End(s)>> \in before
    BY <1>3, <2>4, <2>5
  <2>9. A \subseteq starts /\ s \in A /\ \A x \in A : x <= c
    <3>1. s \in A
      <4>1. <<s, End(s)>>[1] = s
        OBVIOUS
      <4> HIDE DEF before
      <4>2. QED
        BY <2>8, <4>1
    <3>2. ASSUME NEW q \in before PROVE q[1] \in starts /\ q[1] <= c
      <4>1. PICK x \in starts : q = <<x, End(x)>>
        BY <1>3, <3>2
      <4>2. q[1] <= c
        BY <3>2
      <4>3. QED
        BY <4>1, <4>2
    <3> HIDE DEF before
    <3>3. QED
      BY <3>1, <3>2
  <2> HIDE DEF A, before
  <2>10. ASSUME NEW x \in A PROVE x <= s
    <3>1. x \in Nat /\ x - 1 \notin cells /\ x <= c
      BY <1>1, <2>9
    <3>2. ~(x - 1 \in s .. c)
      BY <2>4, <3>1
    <3>3. QED
      BY <2>4, <3>1, <3>2
  <2>11. Max(A) = s
    <3>1. A \in SUBSET Int /\ A # {} /\ A \in SUBSET cells
      BY <1>1, <2>9
    <3>2. IsFiniteSet(A)
      BY <1>1, <3>1, FS_Subset
    <3>3. Max(A) \in A /\ \A x \in A : Max(A) >= x
      BY <3>1, <3>2, LargestIs
    <3>4. Max(A) >= s /\ Max(A) <= s /\ Max(A) \in Int /\ s \in Int
      BY <2>4, <2>9, <2>10, <3>1, <3>3
    <3>5. QED
      BY <3>4
  <2>12. \E r \in before : r[1] = Max(A) /\ c < r[2]
    <3>1. <<s, End(s)>>[1] = s /\ <<s, End(s)>>[2] = End(s)
      OBVIOUS
    <3>2. QED
      BY <2>7, <2>8, <2>11, <3>1
  <2>13. before # {}
    BY <2>8
  <2>14. QED
    BY <2>12, <2>13 DEF Occupied, A, before
<1>6. ASSUME Occupied(Merged(runs), c) PROVE c \in cells
  <2>1. PICK r \in Merged(runs) : r[1] <= c /\ c < r[2]
    BY <1>6 DEF Occupied
  <2>2. PICK s \in starts : r = <<s, End(s)>>
    BY <1>3
  <2>3. s <= c /\ c < End(s)
    BY <2>1, <2>2
  <2>4. s \in Nat /\ End(s) \in Int /\ \A x \in s .. End(s) - 1 : x \in cells
    BY <1>4
  <2>5. c \in s .. End(s) - 1
    BY <2>3, <2>4
  <2>6. QED
    BY <2>4, <2>5
<1>7. QED
  BY <1>2, <1>5, <1>6

\* One more run takes clusters and gives none back.
LEMMA OccupiedGrows ==
  ASSUME NEW runs, NEW more, AreRuns(runs \cup {more}), NEW c \in Nat, Occupied(Merged(runs), c)
  PROVE  Occupied(Merged(runs \cup {more}), c)
<1>1. AreRuns(runs)
  BY FS_Subset DEF AreRuns
<1>2. QED
  BY <1>1, OccupiedIs

LEMMA SmallestOfTwo ==
  ASSUME NEW a \in Int, NEW b \in Int
  PROVE  Min({a, b}) \in {a, b} /\ Min({a, b}) <= a /\ Min({a, b}) <= b
<1> DEFINE S == {a, b}
<1>1. IsFiniteSet({a}) /\ IsFiniteSet({b})
  BY FS_Singleton
<1>2. IsFiniteSet({a} \cup {b})
  BY <1>1, FS_Union
<1>3. S = {a} \cup {b} /\ S \in SUBSET Int /\ a \in S /\ b \in S
  OBVIOUS
<1> HIDE DEF S
<1>4. Min(S) \in S /\ \A x \in S : Min(S) <= x
  BY <1>2, <1>3, SmallestIs
<1>5. QED
  BY <1>3, <1>4 DEF S

LEMMA LargestOfTwo ==
  ASSUME NEW a \in Int, NEW b \in Int
  PROVE  Max({a, b}) \in {a, b} /\ Max({a, b}) >= a /\ Max({a, b}) >= b
<1> DEFINE S == {a, b}
<1>1. IsFiniteSet({a}) /\ IsFiniteSet({b})
  BY FS_Singleton
<1>2. IsFiniteSet({a} \cup {b})
  BY <1>1, FS_Union
<1>3. S = {a} \cup {b} /\ S \in SUBSET Int /\ a \in S /\ b \in S
  OBVIOUS
<1> HIDE DEF S
<1>4. Max(S) \in S /\ \A x \in S : Max(S) >= x
  BY <1>2, <1>3, LargestIs
<1>5. QED
  BY <1>3, <1>4 DEF S

\* The penalties that fire add up to a number.
LEMMA PenaltyIs ==
  ASSUME NEW S \in SUBSET DOMAIN Penalties
  PROVE  FoldSet(LAMBDA r, sum : Penalties[r] + sum, 0, S) \in Nat
<1> DEFINE pick == [T \in SUBSET S |-> CHOOSE x \in T : TRUE]
           next == [p \in S \X Nat |-> Penalties[p[1]] + p[2]]
<1>1. IsPick(pick, S)
  BY DEF IsPick
<1>2. \A r \in S : Penalties[r] \in Nat
  BY DEF Penalties
<1>3. IsFiniteSet(S)
  <2> DEFINE a == {"path_untrusted"}
             b == {"validated_prefix"}
             c == {"no_structural_check"}
  <2>1. IsFiniteSet(a) /\ IsFiniteSet(b) /\ IsFiniteSet(c)
    BY FS_Singleton
  <2>2. S \subseteq a \cup (b \cup c)
    BY DEF Penalties
  <2> HIDE DEF a, b, c
  <2>3. IsFiniteSet(b \cup c)
    BY <2>1, FS_Union
  <2>4. IsFiniteSet(a \cup (b \cup c))
    BY <2>1, <2>3, FS_Union
  <2>5. QED
    BY <2>2, <2>4, FS_Subset
<1>4. PICK f \in [SUBSET S -> Nat] : IsFold(f, S, 0, next, pick)
  <2>1. next \in [S \X Nat -> Nat] /\ 0 \in Nat
    BY <1>2
  <2> HIDE DEF next, pick
  <2>2. QED
    BY <1>1, <1>3, <2>1, FoldExists
<1> DEFINE Equation(g) ==
             g = [T \in SUBSET S |->
                    IF T = {} THEN 0
                    ELSE Penalties[CHOOSE x \in T : TRUE] + g[T \ {CHOOSE x \in T : TRUE}]]
           fold == CHOOSE g : Equation(g)
<1>5. FoldSet(LAMBDA r, sum : Penalties[r] + sum, 0, S) = fold[S]
  BY DEF FoldSet, MapThenFoldSet
<1>6. Equation(f)
  <2>1. ASSUME NEW T \in SUBSET S, T # {}
        PROVE  f[T] = Penalties[CHOOSE x \in T : TRUE] + f[T \ {CHOOSE x \in T : TRUE}]
    <3>1. pick[T] = (CHOOSE x \in T : TRUE) /\ pick[T] \in T /\ T \ {pick[T]} \in SUBSET S
      BY <1>1, <2>1 DEF IsPick
    <3> HIDE DEF pick
    <3>2. f[T \ {pick[T]}] \in Nat
      BY <3>1
    <3>3. f[T] = next[<<pick[T], f[T \ {pick[T]}]>>]
      BY <1>4, <2>1 DEF IsFold
    <3>4. f[T] = Penalties[pick[T]] + f[T \ {pick[T]}]
      BY <3>1, <3>2, <3>3
    <3>5. QED
      BY <3>1, <3>4
  <2>2. \A T \in SUBSET S :
          f[T] = IF T = {} THEN 0
                 ELSE Penalties[CHOOSE x \in T : TRUE] + f[T \ {CHOOSE x \in T : TRUE}]
    BY <1>4, <2>1 DEF IsFold
  <2>3. f = [T \in SUBSET S |-> f[T]]
    OBVIOUS
  <2> DEFINE Of(T) == IF T = {} THEN 0
                      ELSE Penalties[CHOOSE x \in T : TRUE] + f[T \ {CHOOSE x \in T : TRUE}]
  <2>4. \A T \in SUBSET S : f[T] = Of(T)
    BY <2>2
  <2> HIDE DEF Of
  <2>5. f = [T \in SUBSET S |-> Of(T)]
    BY <2>3, <2>4, Zenon
  <2>6. QED
    BY <2>5 DEF Of
<1>7. Equation(fold)
  <2> HIDE DEF Equation
  <2>1. QED
    BY <1>6
<1> DEFINE P == {T \in SUBSET S : fold[T] \in Nat}
<1>8. S \in P
  <2> HIDE DEF fold, pick
  <2>1. {} \in P
    <3>1. fold[{}] = 0
      BY <1>7
    <3>2. QED
      BY <3>1
  <2>2. ASSUME NEW T \in SUBSET S, T # {}, T \ {pick[T]} \in P PROVE T \in P
    <3>1. pick[T] = (CHOOSE x \in T : TRUE) /\ pick[T] \in S
      BY <1>1, <2>2 DEF IsPick, pick
    <3>2. fold[T] = Penalties[CHOOSE x \in T : TRUE] + fold[T \ {CHOOSE x \in T : TRUE}]
      BY <1>7, <2>2
    <3>3. fold[T] = Penalties[pick[T]] + fold[T \ {pick[T]}]
      BY <3>1, <3>2
    <3>4. fold[T \ {pick[T]}] \in Nat
      BY <2>2
    <3>5. fold[T] \in Nat
      BY <1>2, <3>1, <3>3, <3>4
    <3>6. QED
      BY <3>5
  <2> HIDE DEF P
  <2>3. QED
    BY <1>1, <1>3, <2>1, <2>2, PickedApart
<1>9. QED
  BY <1>5, <1>8

\* What a value is the least of.
Limits(i) ==
  {100 - FoldSet(LAMBDA r, sum : Penalties[r] + sum, 0, Fired(i) \cap DOMAIN Penalties)}
    \cup {Caps[r] : r \in Fired(i) \cap DOMAIN Caps}

LEMMA ValueIs ==
  ASSUME NEW i
  PROVE  Limits(i) \in SUBSET Int /\ Value(i) \in Limits(i) /\ \A x \in Limits(i) : Value(i) <= x
<1> DEFINE p == FoldSet(LAMBDA r, sum : Penalties[r] + sum, 0, Fired(i) \cap DOMAIN Penalties)
           caps == {Caps[r] : r \in Fired(i) \cap DOMAIN Caps}
<1>1. p \in Nat
  BY PenaltyIs
<1>2. Value(i) = Min({100 - p} \cup caps) /\ Limits(i) = {100 - p} \cup caps
  BY DEF Value, Limits
<1>3. caps \subseteq 0 .. 80
  BY DEF Caps
<1> HIDE DEF p, caps
<1>4. IsFiniteSet(caps)
  <2>1. IsFiniteSet(0 .. 80)
    <3>1. 0 \in Int /\ 80 \in Int
      OBVIOUS
    <3>2. QED
      BY <3>1, FS_Interval
  <2>2. QED
    BY <1>3, <2>1, FS_Subset
<1>5. IsFiniteSet({100 - p})
  BY FS_Singleton
<1>6. IsFiniteSet({100 - p} \cup caps)
  BY <1>4, <1>5, FS_Union
<1>7. {100 - p} \cup caps \in SUBSET Int /\ {100 - p} \cup caps # {}
  BY <1>1, <1>3
<1>8. QED
  BY <1>2, <1>6, <1>7, SmallestIs

\* No file that a cap holds down is green.
LEMMA GreenIsUncapped ==
  ASSUME NEW i, Band(Value(i)) = "green"
  PROVE  Fired(i) \cap DOMAIN Caps = {}
<1>1. Value(i) >= 90 /\ Value(i) \in Int
  BY ValueIs DEF Band, GreenMin, YellowMin
<1>2. ASSUME NEW r \in Fired(i) \cap DOMAIN Caps PROVE FALSE
  <2>1. Caps[r] <= 80 /\ Caps[r] \in Int
    BY <1>2 DEF Caps
  <2>2. Caps[r] \in Limits(i)
    BY <1>2 DEF Limits
  <2>3. Value(i) <= Caps[r]
    BY <2>2, ValueIs
  <2>4. QED
    BY <1>1, <2>1, <2>3
<1>3. QED
  BY <1>2

-----------------------------------------------------------------------------
\* An entry of a file system, and a validator's answer about its content.
IsEntry(e) ==
  /\ e.size \in Nat /\ e.location \in {"runs", "resident", "first_cluster", "unknown"}
  /\ e.runs \in Seq(Nat \cup {NoCluster})
  /\ e.location = "first_cluster" => e.runs # <<>> /\ e.runs[1] \in Nat
  /\ e.allocated \in BOOLEAN /\ e.validated \in BOOLEAN

IsOutcome(o) ==
  /\ o.length \in Nat /\ o.ran_out \in BOOLEAN
  /\ o.damage_at \in SUBSET Nat /\ \A a, b \in o.damage_at : a = b

LEMMA NeededIs ==
  ASSUME ClusterBytes \in Nat \ {0}, NEW e, IsEntry(e)
  PROVE  Needed(e) \in Nat /\ (e.size > 0 => Needed(e) > 0)
<1> DEFINE x == e.size + ClusterBytes - 1
<1>1. e.size \in Nat /\ x \in Nat
  BY DEF IsEntry
<1> HIDE DEF x
<1>2. /\ x \div ClusterBytes \in Nat /\ x % ClusterBytes \in 0 .. ClusterBytes - 1
      /\ x = ClusterBytes * (x \div ClusterBytes) + (x % ClusterBytes)
  BY <1>1, DivSplits
<1>3. Needed(e) = x \div ClusterBytes
  BY DEF Needed, x
<1>4. ASSUME e.size > 0, x \div ClusterBytes = 0 PROVE FALSE
  <2>1. x = x % ClusterBytes
    BY <1>2, <1>4
  <2>2. x < ClusterBytes
    BY <1>2, <2>1
  <2>3. QED
    BY <1>1, <1>4, <2>2 DEF x
<1>5. QED
  BY <1>2, <1>3, <1>4

LEMMA ClustersAre ==
  ASSUME ClusterBytes \in Nat \ {0}, NEW e, IsEntry(e)
  PROVE  /\ ClustersOf(e) \in Seq(Nat \cup {NoCluster}) /\ Len(ClustersOf(e)) <= Needed(e)
         /\ e.location \notin {"runs", "first_cluster"} => ClustersOf(e) = <<>>
<1>1. Needed(e) \in Nat
  BY NeededIs
<1>2. e.runs \in Seq(Nat \cup {NoCluster}) /\ Len(e.runs) \in Nat
  BY DEF IsEntry
<1>3. CASE e.location = "runs"
  <2> DEFINE n == Min({Needed(e), Len(e.runs)})
  <2>1. n \in Nat /\ n <= Needed(e) /\ n <= Len(e.runs)
    <3> DEFINE a == Needed(e)
               b == Len(e.runs)
    <3>1. a \in Nat /\ b \in Nat /\ a \in Int /\ b \in Int
      BY <1>1, <1>2
    <3> HIDE DEF a, b
    <3>2. Min({a, b}) \in {a, b} /\ Min({a, b}) <= a /\ Min({a, b}) <= b
      BY <3>1, SmallestOfTwo
    <3>3. QED
      BY <3>1, <3>2 DEF a, b
  <2>2. ClustersOf(e) = SubSeq(e.runs, 1, n)
    BY <1>3 DEF ClustersOf
  <2> HIDE DEF n
  <2>3. SubSeq(e.runs, 1, n) \in Seq(Nat \cup {NoCluster}) /\ Len(SubSeq(e.runs, 1, n)) = n
    BY <1>2, <2>1
  <2>4. QED
    BY <1>3, <2>1, <2>2, <2>3
<1>4. CASE e.location = "first_cluster"
  <2> DEFINE q == [k \in 1 .. Needed(e) |-> e.runs[1] + k - 1]
  <2>1. ClustersOf(e) = q
    BY <1>4 DEF ClustersOf
  <2>2. e.runs[1] \in Nat
    BY <1>4 DEF IsEntry
  <2>3. q \in Seq(Nat \cup {NoCluster}) /\ Len(q) = Needed(e)
    BY <1>1, <2>2
  <2>4. QED
    BY <1>1, <1>4, <2>1, <2>3
<1>5. CASE e.location \notin {"runs", "first_cluster"}
  <2>1. ClustersOf(e) = <<>>
    BY <1>5 DEF ClustersOf
  <2>2. QED
    BY <1>1, <2>1
<1>6. QED
  BY <1>3, <1>4, <1>5

\* The places of the clusters that are lost to what is on the disk.
Content(e, disk, runs) ==
  LET clusters == ClustersOf(e)
      real == {k \in DOMAIN clusters : clusters[k] # NoCluster} IN
  {k - 1 : k \in {j \in real : LostTo(e, disk, Merged(runs), clusters[j])}}

LEMMA ContentIs ==
  ASSUME ClusterBytes \in Nat \ {0}, NEW e, IsEntry(e), NEW disk, NEW runs
  PROVE  /\ Content(e, disk, runs) \in SUBSET Nat /\ IsFiniteSet(Content(e, disk, runs))
         /\ \A i \in Content(e, disk, runs) : i < Len(ClustersOf(e))
         /\ \A k \in DOMAIN ClustersOf(e) :
              ClustersOf(e)[k] # NoCluster =>
                (k - 1 \in Content(e, disk, runs) <=> LostTo(e, disk, Merged(runs), ClustersOf(e)[k]))
<1> DEFINE clusters == ClustersOf(e)
           real == {k \in DOMAIN clusters : clusters[k] # NoCluster}
           lost == {j \in real : LostTo(e, disk, Merged(runs), clusters[j])}
           n == Len(clusters)
<1>1. DOMAIN clusters = 1 .. n /\ n \in Nat
  <2>1. clusters \in Seq(Nat \cup {NoCluster})
    BY ClustersAre
  <2>2. QED
    BY <2>1
<1>2. Content(e, disk, runs) = {k - 1 : k \in lost}
  BY DEF Content
<1>3. lost \subseteq 1 .. n
  BY <1>1
<1>4. \A k \in DOMAIN clusters : clusters[k] # NoCluster =>
        (k \in lost <=> LostTo(e, disk, Merged(runs), clusters[k]))
  OBVIOUS
<1> HIDE DEF lost, n, clusters
<1>5. {k - 1 : k \in lost} \subseteq 0 .. n - 1
  <2>1. \A k \in lost : k - 1 \in 0 .. n - 1
    BY <1>1, <1>3
  <2>2. QED
    BY <2>1
<1>6. IsFiniteSet(0 .. n - 1)
  <2>1. 0 \in Int /\ n - 1 \in Int
    BY <1>1
  <2>2. QED
    BY <2>1, FS_Interval
<1>7. IsFiniteSet({k - 1 : k \in lost})
  BY <1>5, <1>6, FS_Subset
<1>8. \A k \in DOMAIN clusters : k - 1 \in {j - 1 : j \in lost} <=> k \in lost
  <2> SUFFICES ASSUME NEW k \in 1 .. n PROVE k - 1 \in {j - 1 : j \in lost} <=> k \in lost
    BY <1>1
  <2>1. \A j \in lost : j \in 1 .. n /\ (k - 1 = j - 1 => k = j)
    BY <1>3
  <2>2. QED
    BY <2>1
<1>9. QED
  BY <1>1, <1>2, <1>4, <1>5, <1>7, <1>8 DEF clusters, n

\* What one more run of a live file takes is lost besides.
LEMMA ContentGrows ==
  ASSUME ClusterBytes \in Nat \ {0}, NEW e, IsEntry(e), NEW disk,
         NEW runs, NEW more, AreRuns(runs \cup {more})
  PROVE  Content(e, disk, runs) \subseteq Content(e, disk, runs \cup {more})
<1> SUFFICES ASSUME NEW i, i \in Content(e, disk, runs)
             PROVE  i \in Content(e, disk, runs \cup {more})
  OBVIOUS
<1> DEFINE clusters == ClustersOf(e)
<1>1. PICK k \in DOMAIN clusters :
        /\ clusters[k] # NoCluster /\ i = k - 1
        /\ LostTo(e, disk, Merged(runs), clusters[k])
  BY DEF Content
<1>2. clusters[k] \in Nat
  <2>1. clusters \in Seq(Nat \cup {NoCluster})
    BY ClustersAre
  <2> HIDE DEF clusters
  <2>2. clusters[k] \in Nat \cup {NoCluster}
    BY <2>1
  <2>3. QED
    BY <1>1, <2>2
<1>3. Occupied(Merged(runs), clusters[k]) => Occupied(Merged(runs \cup {more}), clusters[k])
  BY <1>2, OccupiedGrows
<1>4. LostTo(e, disk, Merged(runs \cup {more}), clusters[k])
  <2> HIDE DEF clusters
  <2>1. QED
    BY <1>1, <1>3 DEF LostTo
<1>5. QED
  BY <1>1, <1>4, ContentIs

-----------------------------------------------------------------------------
\* Where a validator's break is put: the cluster, and the one counted as lost.
BreakAt(e, o) == Broken(e, o, {}).at

Counted(e, k) == Min({Max({k, Min({1, Needed(e) - 1})}), Needed(e) - 1})

LEMMA BreakIs ==
  ASSUME ClusterBytes \in Nat \ {0}, NEW e, IsEntry(e), NEW o, IsOutcome(o), NEW lost
  PROVE  /\ Broken(e, o, lost).at = BreakAt(e, o)
         /\ BreakAt(e, o) \in SUBSET Nat /\ \A a, b \in BreakAt(e, o) : a = b
         /\ BreakAt(e, o) # {} => Needed(e) > 0
         /\ Broken(e, o, lost).lost =
              lost \cup {Counted(e, k) : k \in {j \in BreakAt(e, o) : \A i \in lost : i < j}}
<1> DEFINE at == IF o.damage_at # {} /\ (\A b \in o.damage_at : b < e.size)
                 THEN {b \div ClusterBytes : b \in o.damage_at}
                 ELSE IF o.length < e.size THEN {o.length \div ClusterBytes} ELSE {}
<1>1. BreakAt(e, o) = at /\ Broken(e, o, lost).at = at
  BY DEF BreakAt, Broken
<1>2. Broken(e, o, lost).lost =
        lost \cup {Counted(e, k) : k \in {j \in at : Needed(e) > 0 /\ \A i \in lost : i < j}}
  BY DEF Broken, Counted
<1>3. e.size \in Nat /\ o.length \in Nat /\ o.damage_at \in SUBSET Nat
  BY DEF IsEntry, IsOutcome
<1>4. \A b \in Nat : b \div ClusterBytes \in Nat
  BY DivSplits
<1>5. at \in SUBSET Nat
  BY <1>3, <1>4
<1>6. \A a, b \in at : a = b
  BY DEF IsOutcome
<1>7. at # {} => Needed(e) > 0
  <2>1. at # {} => e.size > 0
    BY <1>3
  <2>2. QED
    BY <2>1, NeededIs
<1>8. {j \in at : Needed(e) > 0 /\ \A i \in lost : i < j} = {j \in at : \A i \in lost : i < j}
  BY <1>7
<1> HIDE DEF at
<1>9. QED
  BY <1>1, <1>2, <1>5, <1>6, <1>7, <1>8

\* The first cluster is counted only where it is the only one.
LEMMA CountedIs ==
  ASSUME ClusterBytes \in Nat \ {0}, NEW e, IsEntry(e), NEW k \in Nat, Needed(e) > 0
  PROVE  Counted(e, k) \in Nat /\ (Counted(e, k) = 0 => Needed(e) = 1)
<1> DEFINE last == Needed(e) - 1
           low == Min({1, last})
           mid == Max({k, low})
<1>1. last \in Nat /\ (last = 0 => Needed(e) = 1)
  BY NeededIs
<1>2. Counted(e, k) = Min({mid, last})
  BY DEF Counted
<1> HIDE DEF last
<1>3. low \in Nat /\ low <= 1 /\ low <= last /\ (last > 0 => low = 1)
  <2>1. low \in {1, last} /\ low <= 1 /\ low <= last
    BY <1>1, SmallestOfTwo
  <2> HIDE DEF low
  <2>2. QED
    BY <1>1, <2>1
<1> HIDE DEF low
<1>4. mid \in Nat /\ mid >= low
  <2>1. mid \in {k, low} /\ mid >= k /\ mid >= low
    BY <1>3, LargestOfTwo
  <2> HIDE DEF mid
  <2>2. QED
    BY <1>3, <2>1
<1> HIDE DEF mid
<1>5. Min({mid, last}) \in {mid, last}
  BY <1>1, <1>4, SmallestOfTwo
<1>6. QED
  BY <1>1, <1>2, <1>3, <1>4, <1>5

\* What is counted as lost, with a break or without one.
LostOf(e, o, content, validation) ==
  IF validation = "broken"
  THEN content \cup {Counted(e, k) : k \in {j \in BreakAt(e, o) : \A i \in content : i < j}}
  ELSE content

LEMMA InputsAre ==
  ASSUME ClusterBytes \in Nat \ {0}, NEW e, IsEntry(e), NEW o, IsOutcome(o),
         NEW disk, NEW runs, NEW prefix, NEW trim
  PROVE  LET i == InputsForEntry(e, disk, Merged(runs), o, prefix, trim) IN
         /\ i.validation = Validation(e, o, prefix)
         /\ i.clusters = Len(ClustersOf(e))
         /\ i.location = e.location
         /\ i.lost = LostOf(e, o, Content(e, disk, runs), Validation(e, o, prefix))
         /\ i.at = IF Validation(e, o, prefix) = "broken" THEN BreakAt(e, o) ELSE {}
<1> DEFINE i == InputsForEntry(e, disk, Merged(runs), o, prefix, trim)
           content == Content(e, disk, runs)
           v == Validation(e, o, prefix)
<1>1. i.validation = v /\ i.clusters = Len(ClustersOf(e)) /\ i.location = e.location
  BY DEF InputsForEntry
<1>2. i.lost = IF v = "broken" THEN Broken(e, o, content).lost ELSE content
  BY DEF InputsForEntry, Content
<1>3. i.at = IF v = "broken" THEN Broken(e, o, content).at ELSE {}
  BY DEF InputsForEntry, Content
<1> HIDE DEF i, content, v
<1>4. /\ Broken(e, o, content).at = BreakAt(e, o)
      /\ Broken(e, o, content).lost =
           content \cup {Counted(e, k) : k \in {j \in BreakAt(e, o) : \A h \in content : h < j}}
  BY BreakIs
<1>5. i.lost = LostOf(e, o, content, v)
  BY <1>2, <1>4 DEF LostOf
<1>6. i.at = IF v = "broken" THEN BreakAt(e, o) ELSE {}
  BY <1>3, <1>4
<1>7. QED
  BY <1>1, <1>5, <1>6 DEF i, content, v

\* The loss does not shrink when a live file takes more.
LEMMA LossGrows ==
  ASSUME ClusterBytes \in Nat \ {0}, NEW e, IsEntry(e), NEW o, IsOutcome(o), NEW v,
         NEW A \in SUBSET Nat, NEW B \in SUBSET Nat, A \subseteq B, IsFiniteSet(B),
         \A i \in B : i < Len(ClustersOf(e))
  PROVE  /\ 0 \in LostOf(e, o, A, v) => 0 \in LostOf(e, o, B, v)
         /\ LostOf(e, o, A, v) # {} => LostOf(e, o, B, v) # {}
         /\ IsFiniteSet(LostOf(e, o, A, v)) /\ IsFiniteSet(LostOf(e, o, B, v))
         /\ Cardinality(LostOf(e, o, A, v)) <= Cardinality(LostOf(e, o, B, v))
<1> DEFINE at == BreakAt(e, o)
           Late(S) == {j \in at : \A i \in S : i < j}
           With(S) == S \cup {Counted(e, k) : k \in Late(S)}
<1>1. /\ at \in SUBSET Nat /\ \A a, b \in at : a = b
      /\ at # {} => Needed(e) > 0
  BY BreakIs
<1>2. IsFiniteSet(A)
  BY FS_Subset
<1>3. CASE v # "broken"
  <2>1. LostOf(e, o, A, v) = A /\ LostOf(e, o, B, v) = B
    BY <1>3 DEF LostOf
  <2>2. QED
    BY <1>2, <2>1, FS_Subset
<1>4. CASE v = "broken"
  <2>1. LostOf(e, o, A, v) = With(A) /\ LostOf(e, o, B, v) = With(B)
    BY <1>4 DEF LostOf
  <2> HIDE DEF at
  <2>2. CASE Late(A) = {}
    <3>1. Late(B) = {}
      BY <2>2
    <3>2. With(A) = A /\ With(B) = B
      BY <2>2, <3>1
    <3>3. QED
      BY <1>2, <2>1, <3>2, FS_Subset
  <2>3. ASSUME NEW k \in Late(A) PROVE /\ 0 \in With(A) => 0 \in With(B)
                                       /\ With(B) # {}
                                       /\ IsFiniteSet(With(A)) /\ IsFiniteSet(With(B))
                                       /\ Cardinality(With(A)) <= Cardinality(With(B))
    <3> DEFINE c == Counted(e, k)
    <3>1. k \in at /\ at = {k} /\ k \in Nat /\ \A i \in A : i < k
      BY <1>1
    <3>2. With(A) = A \cup {c}
      BY <3>1
    <3>3. Needed(e) > 0 /\ c \in Nat /\ (c = 0 => Needed(e) = 1)
      BY <1>1, <3>1, CountedIs
    <3> HIDE DEF c
    <3>4. /\ IsFiniteSet(A \cup {c})
          /\ Cardinality(A \cup {c}) <= Cardinality(A) + 1
          /\ Cardinality(A) \in Nat /\ Cardinality(B) \in Nat /\ Cardinality(A \cup {c}) \in Nat
      <4>1. Cardinality(A) \in Nat /\ Cardinality(B) \in Nat
        BY <1>2, FS_CardinalityType
      <4>2. /\ IsFiniteSet(A \cup {c})
            /\ Cardinality(A \cup {c}) = IF c \in A THEN Cardinality(A) ELSE Cardinality(A) + 1
        BY <1>2, FS_AddElement
      <4>3. QED
        BY <4>1, <4>2
    <3>5. CASE \A i \in B : i < k
      <4>1. Late(B) = {k}
        BY <3>1, <3>5
      <4>2. With(B) = B \cup {c}
        BY <4>1 DEF c
      <4>3. IsFiniteSet(B \cup {c})
        BY FS_AddElement
      <4>4. A \cup {c} \subseteq B \cup {c}
        OBVIOUS
      <4>5. Cardinality(A \cup {c}) <= Cardinality(B \cup {c})
        BY <4>3, <4>4, FS_Subset
      <4> HIDE DEF With
      <4>6. QED
        BY <3>2, <3>4, <4>2, <4>3, <4>4, <4>5
    <3>6. ASSUME NEW i \in B, ~(i < k)
          PROVE  /\ 0 \in With(A) => 0 \in With(B)
                 /\ With(B) # {}
                 /\ IsFiniteSet(With(A)) /\ IsFiniteSet(With(B))
                 /\ Cardinality(With(A)) <= Cardinality(With(B))
      <4>1. Late(B) = {}
        BY <3>1, <3>6
      <4>2. With(B) = B
        BY <4>1
      <4>3. i \in B /\ i \notin A
        BY <3>1, <3>6
      <4>4. /\ IsFiniteSet(A \cup {i})
            /\ Cardinality(A \cup {i}) = Cardinality(A) + 1
        BY <1>2, <4>3, FS_AddElement
      <4>5. A \cup {i} \subseteq B
        BY <4>3
      <4>6. Cardinality(A \cup {i}) <= Cardinality(B)
        BY <4>5, FS_Subset
      <4>7. 0 \in A \cup {c} => 0 \in B
        <5>1. CASE c = 0
          <6>1. Len(ClustersOf(e)) <= 1
            BY <3>3, <5>1, ClustersAre
          <6>2. i \in Nat /\ i < Len(ClustersOf(e)) /\ Len(ClustersOf(e)) \in Nat
            <7>1. ClustersOf(e) \in Seq(Nat \cup {NoCluster})
              BY ClustersAre
            <7>2. QED
              BY <4>3, <7>1
          <6>3. i = 0
            BY <6>1, <6>2
          <6>4. QED
            BY <4>3, <6>3
        <5>2. CASE c # 0
          BY <5>2
        <5>3. QED
          BY <5>1, <5>2
      <4> HIDE DEF With
      <4>8. Cardinality(A \cup {c}) <= Cardinality(B)
        BY <3>4, <4>4, <4>6
      <4>9. QED
        BY <3>2, <3>4, <4>2, <4>3, <4>7, <4>8
    <3>7. QED
      BY <3>5, <3>6
  <2> HIDE DEF With, Late
  <2>4. QED
    BY <2>1, <2>2, <2>3
<1>5. QED
  BY <1>3, <1>4

\* The rules that fire without regard to the loss.
OtherRules(i) ==
  (IF i.trim /\ i.all_zero /\ i.size > 0 THEN {"trimmed"} ELSE {}) \cup ValidationRule(i)
    \cup (IF i.location = "first_cluster" THEN {"location_guessed"} ELSE {})
    \cup (IF i.location = "unknown" THEN {"location_unknown"} ELSE {})
    \cup (IF i.path_trusted THEN {} ELSE {"path_untrusted"})

LEMMA FiredIs ==
  ASSUME NEW i PROVE Fired(i) = LossRule(i) \cup OtherRules(i)
BY DEF Fired, OtherRules

LEMMA LossRuleIs ==
  ASSUME NEW i PROVE LossRule(i) \subseteq {"header_lost", "half_or_more_lost", "clusters_lost"}
BY DEF LossRule

\* For every disk, every set of live runs and every answer of the validator: a
\* file is rated green only if no cluster of it is another's or off the disk,
\* its place is known, and its content was not found damaged or cut short; and a
\* cluster more that a live file takes never raises its value (inputs_for_entry,
\* classify, Occupancy).
THEOREM RatingIsEarned ==
  ASSUME ClusterBytes \in Nat \ {0}, NEW e, IsEntry(e), NEW o, IsOutcome(o), NEW disk,
         NEW runs, NEW more, AreRuns(runs \cup {more}), NEW prefix \in BOOLEAN, NEW trim \in BOOLEAN
  PROVE  RatingFollowsEvidence(e, disk, runs, more, o, prefix, trim)
<1> DEFINE i == InputsForEntry(e, disk, Merged(runs), o, prefix, trim)
           j == InputsForEntry(e, disk, Merged(runs \cup {more}), o, prefix, trim)
           v == Validation(e, o, prefix)
           A == Content(e, disk, runs)
           B == Content(e, disk, runs \cup {more})
           n == Len(ClustersOf(e))
<1>1. AreRuns(runs)
  BY FS_Subset DEF AreRuns
<1>2. /\ i.validation = v /\ i.clusters = n /\ i.location = e.location
      /\ i.lost = LostOf(e, o, A, v)
      /\ i.at = IF v = "broken" THEN BreakAt(e, o) ELSE {}
  BY InputsAre
<1>3. /\ j.validation = v /\ j.clusters = n /\ j.lost = LostOf(e, o, B, v)
  BY InputsAre
<1>4. /\ j.at = i.at /\ j.location = i.location /\ j.size = i.size
      /\ j.path_trusted = i.path_trusted /\ j.trim = i.trim /\ j.all_zero = i.all_zero
  BY BreakIs DEF InputsForEntry
<1>5. n \in Nat
  <2>1. ClustersOf(e) \in Seq(Nat \cup {NoCluster})
    BY ClustersAre
  <2>2. QED
    BY <2>1
<1> HIDE DEF n
<1>6. GreenIsClean(e, disk, runs, o, prefix, trim)
  <2> SUFFICES ASSUME Rating(e, disk, Merged(runs), o, prefix, trim) = "green"
               PROVE  /\ e.location \in {"runs", "resident"}
                      /\ \A k \in DOMAIN ClustersOf(e) :
                           ClustersOf(e)[k] # NoCluster =>
                             /\ ClustersOf(e)[k] \in DOMAIN disk
                             /\ ~e.allocated =>
                                  \A r \in runs :
                                    ClustersOf(e)[k] \notin r.start .. r.start + r.count - 1
                      /\ e.validated => o.status = "valid" \/ prefix
    BY DEF GreenIsClean
  <2>1. Fired(i) \cap DOMAIN Caps = {}
    <3>1. Band(Value(i)) = "green"
      BY DEF Rating
    <3> HIDE DEF i
    <3>2. QED
      BY <3>1, GreenIsUncapped
  <2> HIDE DEF i, A, v
  <2>2. \A r \in {"header_lost", "half_or_more_lost", "clusters_lost", "damage_unlocated",
                  "truncated", "location_guessed", "location_unknown"} : r \notin Fired(i)
    BY <2>1 DEF Caps
  <2>3. LossRule(i) = {} /\ ValidationRule(i) \cap {"damage_unlocated", "truncated"} = {}
    BY <2>2, FiredIs, LossRuleIs DEF OtherRules
  <2>4. LostOf(e, o, A, v) = {} /\ v # "header_rejected"
    BY <1>2, <2>3 DEF LossRule
  <2>5. v # "truncated"
    BY <1>2, <2>3 DEF ValidationRule
  <2>6. v # "broken"
    <3> SUFFICES ASSUME v = "broken" PROVE FALSE
      OBVIOUS
    <3>1. i.at # {}
      BY <1>2, <2>3 DEF ValidationRule
    <3>2. PICK k : k \in BreakAt(e, o)
      BY <1>2, <3>1
    <3>3. A = {}
      BY <2>4 DEF LostOf
    <3>4. Counted(e, k) \in LostOf(e, o, A, v)
      BY <3>2, <3>3 DEF LostOf
    <3>5. QED
      BY <2>4, <3>4
  <2>7. A = {}
    BY <2>4, <2>6 DEF LostOf
  <2>8. e.location \in {"runs", "resident"}
    <3>1. i.location # "first_cluster" /\ i.location # "unknown"
      BY <2>2, FiredIs DEF OtherRules
    <3>2. QED
      BY <1>2, <3>1 DEF IsEntry
  <2>9. ASSUME NEW k \in DOMAIN ClustersOf(e), ClustersOf(e)[k] # NoCluster
        PROVE  /\ ClustersOf(e)[k] \in DOMAIN disk
               /\ ~e.allocated =>
                    \A r \in runs : ClustersOf(e)[k] \notin r.start .. r.start + r.count - 1
    <3> DEFINE c == ClustersOf(e)[k]
    <3>1. ~LostTo(e, disk, Merged(runs), c)
      <4>1. ~(k - 1 \in A)
        BY <2>7
      <4>2. QED
        BY <2>9, <4>1, ContentIs DEF A
    <3>2. c \in Nat
      <4>1. ClustersOf(e) \in Seq(Nat \cup {NoCluster})
        BY ClustersAre
      <4>2. c \in Nat \cup {NoCluster}
        BY <4>1
      <4>3. QED
        BY <2>9, <4>2
    <3> HIDE DEF c
    <3>3. c \in DOMAIN disk /\ (~e.allocated => ~Occupied(Merged(runs), c))
      BY <3>1 DEF LostTo
    <3>4. QED
      BY <1>1, <3>2, <3>3, OccupiedIs DEF c
  <2>10. e.validated => o.status = "valid" \/ prefix
    BY <2>4, <2>5, <2>6, <2>8 DEF Validation, IsOutcome, v
  <2>11. QED
    BY <2>8, <2>9, <2>10
<1>7. LossOnlyLowers(e, disk, runs, more, o, prefix, trim)
  <2>1. A \in SUBSET Nat /\ B \in SUBSET Nat /\ IsFiniteSet(B) /\ \A k \in B : k < n
    BY ContentIs DEF n
  <2>2. A \subseteq B
    BY ContentGrows
  <2> HIDE DEF A, B, i, j, v
  <2>3. /\ 0 \in i.lost => 0 \in j.lost
        /\ i.lost # {} => j.lost # {}
        /\ IsFiniteSet(i.lost) /\ IsFiniteSet(j.lost)
        /\ Cardinality(i.lost) <= Cardinality(j.lost)
    BY <1>2, <1>3, <2>1, <2>2, LossGrows DEF n
  <2>4. Cardinality(i.lost) \in Nat /\ Cardinality(j.lost) \in Nat
    BY <2>3, FS_CardinalityType
  <2>5. OtherRules(i) = OtherRules(j)
    <3>1. ValidationRule(i) = ValidationRule(j)
      BY <1>2, <1>3, <1>4 DEF ValidationRule
    <3>2. QED
      BY <1>4, <3>1 DEF OtherRules
  <2>6. ASSUME NEW r \in LossRule(i) PROVE \E q \in LossRule(j) : Caps[q] <= Caps[r]
    <3>1. CASE r = "header_lost"
      <4>1. i.validation = "header_rejected" \/ (i.clusters > 0 /\ 0 \in i.lost)
        BY <2>6, <3>1 DEF LossRule
      <4>2. LossRule(j) = {"header_lost"}
        BY <1>2, <1>3, <2>3, <4>1 DEF LossRule
      <4>3. QED
        BY <3>1, <4>2 DEF Caps
    <3>2. CASE r = "half_or_more_lost"
      <4>1. i.clusters > 0 /\ 2 * Cardinality(i.lost) >= i.clusters
        BY <2>6, <3>2 DEF LossRule
      <4>2. j.clusters > 0 /\ 2 * Cardinality(j.lost) >= j.clusters
        BY <1>2, <1>3, <1>5, <2>3, <2>4, <4>1
      <4>3. LossRule(j) = {"header_lost"} \/ LossRule(j) = {"half_or_more_lost"}
        BY <4>2 DEF LossRule
      <4>4. QED
        BY <3>2, <4>3 DEF Caps
    <3>3. CASE r = "clusters_lost"
      <4>1. i.lost # {}
        BY <2>6, <3>3 DEF LossRule
      <4>2. LossRule(j) \in {{"header_lost"}, {"half_or_more_lost"}, {"clusters_lost"}}
        BY <2>3, <4>1 DEF LossRule
      <4>3. QED
        BY <3>3, <4>2 DEF Caps
    <3>4. QED
      BY <2>6, <3>1, <3>2, <3>3, LossRuleIs
  <2>7. LossRule(i) \cap DOMAIN Penalties = {} /\ LossRule(j) \cap DOMAIN Penalties = {}
    BY LossRuleIs DEF Penalties
  <2>8. Fired(i) \cap DOMAIN Penalties = Fired(j) \cap DOMAIN Penalties
    BY <2>5, <2>7, FiredIs
  <2>9. LossRule(j) \subseteq DOMAIN Caps
    BY LossRuleIs DEF Caps
  <2>10. ASSUME NEW x \in Limits(i) PROVE \E y \in Limits(j) : y <= x
    <3>1. CASE x \in {Caps[r] : r \in Fired(i) \cap DOMAIN Caps}
      <4>1. PICK r \in Fired(i) \cap DOMAIN Caps : x = Caps[r]
        BY <3>1
      <4>2. CASE r \in LossRule(i)
        <5>1. PICK q \in LossRule(j) : Caps[q] <= Caps[r]
          BY <2>6, <4>2
        <5>2. q \in Fired(j) \cap DOMAIN Caps
          BY <2>9, FiredIs
        <5>3. Caps[q] \in Limits(j)
          BY <5>2 DEF Limits
        <5>4. QED
          BY <4>1, <5>1, <5>3
      <4>3. CASE r \notin LossRule(i)
        <5>1. r \in Fired(j) \cap DOMAIN Caps
          BY <2>5, <4>3, FiredIs
        <5>2. Caps[r] \in Limits(j)
          BY <5>1 DEF Limits
        <5>3. Caps[r] <= Caps[r]
          BY <4>1 DEF Caps
        <5>4. QED
          BY <4>1, <5>2, <5>3
      <4>4. QED
        BY <4>2, <4>3
    <3>2. CASE x = 100 - FoldSet(LAMBDA r, sum : Penalties[r] + sum, 0, Fired(i) \cap DOMAIN Penalties)
      <4>1. x \in Limits(j)
        BY <2>8, <3>2 DEF Limits
      <4>2. x \in Int
        BY <4>1, ValueIs
      <4>3. QED
        BY <4>1, <4>2
    <3>3. QED
      BY <3>1, <3>2 DEF Limits
  <2>11. Value(i) \in Limits(i)
    BY ValueIs
  <2>12. PICK y \in Limits(j) : y <= Value(i)
    BY <2>10, <2>11
  <2>13. Value(j) <= y /\ y \in Int /\ Value(j) \in Int /\ Value(i) \in Int
    BY <2>12, ValueIs
  <2>14. Value(j) <= Value(i)
    BY <2>12, <2>13
  <2>15. QED
    BY <2>14 DEF LossOnlyLowers, i, j
<1>8. QED
  BY <1>6, <1>7 DEF RatingFollowsEvidence

-----------------------------------------------------------------------------
(***************************************************************************)
(* Finding a device's partitions and opening them (Partitions).            *)
(***************************************************************************)

\* Part of a list has exactly what the list has at those places.
LEMMA PartHasThem ==
  ASSUME NEW T, NEW list \in Seq(T), NEW S \in SUBSET DOMAIN list
  PROVE  /\ PartOf(list, S) \in Seq(T)
         /\ Range(PartOf(list, S)) = {list[i] : i \in S}
<1>1. /\ PartOf(list, S) \in Seq(T) /\ Len(PartOf(list, S)) = Cardinality(S) /\ IsFiniteSet(S)
      /\ \A k \in 1 .. Cardinality(S) : \E i \in S : PartOf(list, S)[k] = list[i]
  BY PartIsList
<1>2. StrictOrder(Ascending(S), S)
  BY AscendingIsStrict
<1> DEFINE q == InOrder(S, Ascending(S))
<1>3. \A i \in S : \E k \in 1 .. Cardinality(S) : q[k] = i
  <2> DEFINE order == Ascending(S)
  <2> HIDE DEF order
  <2>1. IsFiniteSet(S) /\ StrictOrder(order, S)
    BY <1>1, <1>2 DEF order
  <2>2. \A i \in S : \E k \in 1 .. Cardinality(S) : InOrder(S, order)[k] = i
    BY <2>1, ListAscends
  <2>3. QED
    BY <2>2 DEF order
<1>4. \A i \in S : \E k \in 1 .. Cardinality(S) : PartOf(list, S)[k] = list[i]
  BY <1>3 DEF PartOf
<1>5. DOMAIN PartOf(list, S) = 1 .. Cardinality(S)
  BY <1>1
<1>6. Range(PartOf(list, S)) = {PartOf(list, S)[k] : k \in 1 .. Cardinality(S)}
  BY <1>5 DEF Range
<1>7. QED
  BY <1>1, <1>4, <1>6

\* What a sorted list has.
LEMMA SortKeepsThem ==
  ASSUME NEW T, NEW list \in Seq(T), NEW key \in [DOMAIN list -> Int \X Int]
  PROVE  Range(SortedBy(list, key)) = Range(list)
<1>1. /\ SortedBy(list, key) \in Seq(T) /\ Len(SortedBy(list, key)) = Len(list)
  BY SortedIsList
<1>2. PICK at \in [DOMAIN list -> DOMAIN list] : Sorts(at, list, key)
  BY SortedIsList
<1>3. DOMAIN SortedBy(list, key) = DOMAIN list
  BY <1>1
<1>4. \A i \in DOMAIN list : \E k \in DOMAIN list : SortedBy(list, key)[k] = list[i]
  BY <1>2 DEF Sorts
<1>5. /\ Range(SortedBy(list, key)) = {SortedBy(list, key)[k] : k \in DOMAIN list}
      /\ Range(list) = {list[k] : k \in DOMAIN list}
  BY <1>3 DEF Range
<1>6. \A k \in DOMAIN list : at[k] \in DOMAIN list /\ SortedBy(list, key)[k] = list[at[k]]
  BY <1>2 DEF Sorts
<1>7. \A x \in Range(list) : x \in Range(SortedBy(list, key))
  BY <1>4, <1>5
<1>8. \A x \in Range(SortedBy(list, key)) : x \in Range(list)
  BY <1>5, <1>6
<1>9. QED
  BY <1>7, <1>8

-----------------------------------------------------------------------------
(* Partitions made up from headers.                                        *)

\* What is kept, header by header.
LEMMA KeptOneByOne ==
  ASSUME NEW T, NEW parts \in Seq(T)
  PROVE  \E m \in [0 .. Len(parts) -> Seq(T)] :
           /\ m[0] = <<>> /\ m[Len(parts)] = FoldLeft(KeepApart, <<>>, parts)
           /\ \A k \in 1 .. Len(parts) : m[k] = KeepApart(m[k - 1], parts[k])
<1> DEFINE n == Len(parts)
           D == 1 .. n
           A == Seq(T)
           next == [x \in D \X A |-> KeepApart(x[2], parts[x[1]])]
<1>1. n \in Nat /\ DOMAIN parts = D /\ \A k \in D : parts[k] \in T
  OBVIOUS
<1>2. \A q \in A : \A p \in T : KeepApart(q, p) \in A
  BY DEF KeepApart
<1>3. next \in [D \X A -> A]
  BY <1>1, <1>2
<1>4. PICK f \in [SUBSET D -> A] : IsFoldAlong(f, n, <<>>, next)
  <2>1. <<>> \in A
    OBVIOUS
  <2> HIDE DEF n, A, next
  <2>2. QED
    BY <1>1, <1>3, <2>1, FoldAlongExists
<1> DEFINE Equation(g) ==
             g = [S \in SUBSET DOMAIN parts |->
                    IF S = {} THEN <<>> ELSE KeepApart(g[S \ {Max(S)}], parts[Max(S)])]
           fold == CHOOSE g : Equation(g)
<1>5. FoldLeft(KeepApart, <<>>, parts) = fold[D]
  BY <1>1 DEF FoldLeft, MapThenFoldSet
<1>6. Equation(f)
  <2>1. \A S \in SUBSET D : S # {} => Greatest(S) = Max(S) /\ Max(S) \in S
    BY <1>1, GreatestIsOne DEF Max, Greatest
  <2>2. ASSUME NEW S \in SUBSET D, S # {} PROVE f[S] = KeepApart(f[S \ {Max(S)}], parts[Max(S)])
    <3>1. Max(S) \in D /\ f[S \ {Max(S)}] \in A /\ f[S] = next[<<Max(S), f[S \ {Max(S)}]>>]
      BY <1>4, <2>1, <2>2 DEF IsFoldAlong
    <3> HIDE DEF A, D
    <3>2. QED
      BY <3>1
  <2>3. \A S \in SUBSET D : f[S] = IF S = {} THEN <<>> ELSE KeepApart(f[S \ {Max(S)}], parts[Max(S)])
    BY <1>4, <2>2 DEF IsFoldAlong
  <2>4. QED
    BY <1>1, <2>3
<1>7. Equation(fold)
  BY <1>6
<1>8. fold[{}] = <<>> /\ \A k \in D : fold[1 .. k] = KeepApart(fold[1 .. k - 1], parts[k])
  <2>1. fold[{}] = <<>>
    BY <1>7
  <2>2. ASSUME NEW k \in D PROVE fold[1 .. k] = KeepApart(fold[1 .. k - 1], parts[k])
    <3>1. Max(1 .. k) = k
      BY <1>1, LastPlace DEF Max, Greatest
    <3> HIDE DEF fold, n
    <3>2. 1 .. k \in SUBSET DOMAIN parts /\ 1 .. k # {} /\ (1 .. k) \ {k} = 1 .. k - 1
      BY <1>1
    <3>3. QED
      BY <1>7, <3>1, <3>2
  <2>3. QED
    BY <2>1, <2>2
<1> DEFINE m == [k \in 0 .. n |-> fold[1 .. k]]
<1> HIDE DEF fold, next
<1>9. m[0] = <<>> /\ \A k \in D : m[k] = KeepApart(m[k - 1], parts[k])
  <2>1. 0 \in 0 .. n /\ 1 .. 0 = {}
    BY <1>1
  <2>2. \A k \in D : k \in 0 .. n /\ k - 1 \in 0 .. n
    BY <1>1
  <2>3. QED
    BY <1>8, <2>1, <2>2
<1>10. 0 .. n \subseteq {k \in 0 .. n : m[k] \in A}
  <2> DEFINE P == {k \in 0 .. n : m[k] \in A}
  <2>1. 0 \in P
    <3>1. 0 \in 0 .. n /\ <<>> \in A
      BY <1>1
    <3> HIDE DEF A, m
    <3>2. QED
      BY <1>9, <3>1
  <2>2. ASSUME NEW k \in 0 .. n - 1, k \in P PROVE k + 1 \in P
    <3>1. k + 1 \in D /\ k + 1 - 1 = k /\ k + 1 \in 0 .. n /\ parts[k + 1] \in T
      BY <1>1
    <3> HIDE DEF m, n, A
    <3>2. m[k + 1] = KeepApart(m[k], parts[k + 1])
      BY <1>9, <3>1
    <3>3. m[k] \in A
      BY <2>2
    <3>4. m[k + 1] \in A
      BY <1>2, <3>1, <3>2, <3>3
    <3>5. QED
      BY <3>1, <3>4
  <2>3. 0 .. n \subseteq P
    <3> HIDE DEF P, n
    <3>1. QED
      BY <1>1, <2>1, <2>2, CountingUp
  <2>4. QED
    BY <2>3
<1>11. m \in [0 .. n -> A] /\ m[n] = FoldLeft(KeepApart, <<>>, parts)
  BY <1>1, <1>5, <1>10
<1>12. QED
  BY <1>9, <1>11

Apart(p, q) == p.start # q.start /\ ~Overlaps(p, q)

\* Whether p is kept, or gives way to one of list that is as credible.
Explained(p, list) ==
  \E k \in DOMAIN list :
    list[k] = p \/ ((Overlaps(list[k], p) \/ list[k].start = p.start)
                    /\ list[k].confidence >= p.confidence)

\* What is kept of headers, the most credible first, lies apart, and what is
\* not kept gives way to one that is.
LEMMA KeptLieApart ==
  ASSUME NEW T, NEW parts \in Seq(T), \A p \in T : p.confidence \in Int,
         \A i, j \in DOMAIN parts : i < j => parts[i].confidence >= parts[j].confidence
  PROVE  LET kept == FoldLeft(KeepApart, <<>>, parts) IN
         /\ kept \in Seq(T)
         /\ \A i, j \in DOMAIN kept : i # j => Apart(kept[i], kept[j])
         /\ \A i \in DOMAIN kept : \E j \in DOMAIN parts : kept[i] = parts[j]
         /\ \A j \in DOMAIN parts : Explained(parts[j], kept)
<1> DEFINE n == Len(parts)
<1>1. n \in Nat /\ DOMAIN parts = 1 .. n /\ \A j \in 1 .. n : parts[j] \in T
  OBVIOUS
<1>2. PICK m \in [0 .. n -> Seq(T)] :
        /\ m[0] = <<>> /\ m[n] = FoldLeft(KeepApart, <<>>, parts)
        /\ \A k \in 1 .. n : m[k] = KeepApart(m[k - 1], parts[k])
  BY KeptOneByOne
<1> HIDE DEF n
<1> DEFINE Right(k) == /\ \A i, j \in DOMAIN m[k] : i # j => Apart(m[k][i], m[k][j])
                       /\ \A i \in DOMAIN m[k] : \E j \in 1 .. k : m[k][i] = parts[j]
                       /\ \A j \in 1 .. k : Explained(parts[j], m[k])
           reached == {k \in 0 .. n : Right(k)}
<1>3. 0 \in reached
  <2>1. DOMAIN m[0] = {} /\ 1 .. 0 = {} /\ 0 \in 0 .. n
    BY <1>1, <1>2
  <2>2. QED
    BY <2>1
<1>4. ASSUME NEW k \in 0 .. n - 1, k \in reached PROVE k + 1 \in reached
  <2> DEFINE old == m[k]
             p == parts[k + 1]
             new == m[k + 1]
  <2>1. /\ k \in Nat /\ k + 1 \in 1 .. n /\ k + 1 \in 0 .. n /\ k + 1 - 1 = k /\ k \in 0 .. n
        /\ \A j \in 1 .. k + 1 : j \in 1 .. k \/ j = k + 1
        /\ \A j \in 1 .. k : j \in 1 .. k + 1 /\ j \in 1 .. n /\ j < k + 1
    BY <1>1
  <2>2. old \in Seq(T) /\ p \in T /\ new = KeepApart(old, p)
    BY <1>1, <1>2, <2>1
  <2>3. Right(k)
    BY <1>4
  <2>4. \A j \in 1 .. k : parts[j].confidence >= p.confidence
    BY <1>1, <2>1
  <2> HIDE DEF old, p, new
  <2>5. CASE \E i \in DOMAIN old : Overlaps(old[i], p) \/ old[i].start = p.start
    <3>1. new = old
      BY <2>2, <2>5 DEF KeepApart
    <3>2. Explained(p, old)
      <4>1. PICK i \in DOMAIN old : Overlaps(old[i], p) \/ old[i].start = p.start
        BY <2>5
      <4>2. PICK j \in 1 .. k : old[i] = parts[j]
        BY <2>3, <4>1 DEF old
      <4>3. QED
        BY <2>4, <4>1, <4>2 DEF Explained
    <3>3. Right(k + 1)
      BY <2>1, <2>3, <3>1, <3>2 DEF old, new, p
    <3>4. QED
      BY <2>1, <3>3
  <2>6. CASE ~\E i \in DOMAIN old : Overlaps(old[i], p) \/ old[i].start = p.start
    <3>1. new = Append(old, p)
      BY <2>2, <2>6 DEF KeepApart
    <3>2. /\ DOMAIN old = 1 .. Len(old) /\ Len(old) \in Nat /\ DOMAIN new = 1 .. Len(old) + 1
          /\ \A i \in DOMAIN old : new[i] = old[i] /\ i \in DOMAIN new
          /\ new[Len(old) + 1] = p /\ Len(old) + 1 \in DOMAIN new
          /\ \A i \in DOMAIN new : i \in DOMAIN old \/ i = Len(old) + 1
      BY <2>2, <3>1
    <3>3. \A i \in DOMAIN old : Apart(old[i], p) /\ Apart(p, old[i])
      BY <2>6 DEF Apart, Overlaps
    <3>4. \A i, j \in DOMAIN new : i # j => Apart(new[i], new[j])
      BY <2>3, <3>2, <3>3 DEF old
    <3>5. \A i \in DOMAIN new : \E j \in 1 .. k + 1 : new[i] = parts[j]
      BY <2>1, <2>3, <3>2 DEF old, p
    <3>6. \A q : Explained(q, old) => Explained(q, new)
      BY <3>2 DEF Explained
    <3>7. Explained(p, new)
      BY <3>2 DEF Explained
    <3>8. \A j \in 1 .. k + 1 : Explained(parts[j], new)
      BY <2>1, <2>3, <3>6, <3>7 DEF old, p
    <3>9. Right(k + 1)
      BY <3>4, <3>5, <3>8 DEF new
    <3>10. QED
      BY <2>1, <3>9
  <2>7. QED
    BY <2>5, <2>6
<1>5. n \in reached
  <2>1. 0 .. n \subseteq reached
    <3> HIDE DEF reached
    <3>1. QED
      BY <1>1, <1>3, <1>4, CountingUp
  <2>2. QED
    BY <1>1, <2>1
<1>6. Right(n) /\ m[n] \in Seq(T)
  BY <1>1, <1>2, <1>5
<1>7. QED
  BY <1>1, <1>2, <1>6

\* Sorting partitions that lie apart by where they start puts each behind the
\* end of the one before it, and leaves out none.
LEMMA SortedLieApart ==
  ASSUME NEW T, NEW list \in Seq(T), \A p \in T : p.start \in Int,
         NEW key \in [DOMAIN list -> Int \X Int], \A i \in DOMAIN list : key[i][1] = list[i].start,
         \A i, j \in DOMAIN list : i # j => Apart(list[i], list[j])
  PROVE  /\ \A k, l \in DOMAIN SortedBy(list, key) : k < l =>
              /\ SortedBy(list, key)[k].start < SortedBy(list, key)[l].start
              /\ Apart(SortedBy(list, key)[k], SortedBy(list, key)[l])
         /\ \A p : Explained(p, list) => Explained(p, SortedBy(list, key))
<1>0. SortedBy(list, key) \in Seq(T) /\ Len(SortedBy(list, key)) = Len(list)
  BY SortedIsList
<1> DEFINE s == SortedBy(list, key)
<1>1. s \in Seq(T) /\ Len(s) = Len(list)
  BY <1>0
<1>p. PICK at \in [DOMAIN list -> DOMAIN list] : Sorts(at, list, key)
  BY SortedIsList
<1>2. /\ \A k \in DOMAIN list : s[k] = list[at[k]]
      /\ \A i \in DOMAIN list : \E k \in DOMAIN list : at[k] = i
      /\ \A k, l \in DOMAIN list :
           k < l => at[k] # at[l] /\ NoLater(key[at[k]], key[at[l]])
  BY <1>p DEF Sorts
<1> HIDE DEF s
<1>3. DOMAIN s = DOMAIN list
  BY <1>1
<1>4. ASSUME NEW k \in DOMAIN list, NEW l \in DOMAIN list, k < l
      PROVE  s[k].start < s[l].start /\ Apart(s[k], s[l])
  <2>1. at[k] \in DOMAIN list /\ at[l] \in DOMAIN list /\ at[k] # at[l]
    BY <1>2, <1>4
  <2>2. Apart(s[k], s[l])
    BY <1>2, <2>1
  <2>3. NoLater(key[at[k]], key[at[l]])
    BY <1>2, <1>4
  <2>4. s[k] = list[at[k]] /\ s[l] = list[at[l]]
    BY <1>2
  <2>5. key[at[k]][1] = s[k].start /\ key[at[l]][1] = s[l].start
    BY <2>1, <2>4
  <2>6. s[k].start \in Int /\ s[l].start \in Int
    BY <1>1, <1>3
  <2>7. QED
    BY <2>2, <2>3, <2>5, <2>6 DEF NoLater, Apart
<1>5. ASSUME NEW p, Explained(p, list) PROVE Explained(p, s)
  <2>1. PICK i \in DOMAIN list :
          list[i] = p \/ ((Overlaps(list[i], p) \/ list[i].start = p.start)
                          /\ list[i].confidence >= p.confidence)
    BY <1>5 DEF Explained
  <2>2. PICK k \in DOMAIN s : s[k] = list[i]
    BY <1>2, <1>3
  <2>3. QED
    BY <2>1, <2>2 DEF Explained
<1>6. QED
  BY <1>3, <1>4, <1>5 DEF s

Reconstructed(c) == Part(c.lba, c.sectors, c.fs, "reconstructed", c.confidence)

\* A table made up from headers: its partitions lie one behind the other, and a
\* header that is not in it gave way to one that is.
LEMMA TableOfHeaders ==
  ASSUME NEW C, NEW candidates \in Seq(C), \A c \in C : c.lba \in Int /\ c.confidence \in Int
  PROVE  LET table == CandidatesToPartitions(candidates) IN
         /\ table \in Seq({Reconstructed(c) : c \in C})
         /\ \A i, j \in DOMAIN table : i # j => Apart(table[i], table[j])
         /\ \A c \in Range(candidates) : Explained(Reconstructed(c), table)
<1> DEFINE T == {Reconstructed(c) : c \in C}
           key == [i \in DOMAIN candidates |-> <<-candidates[i].confidence, candidates[i].lba>>]
           best == SortedBy(candidates, key)
           parts == [i \in DOMAIN best |-> Reconstructed(best[i])]
           kept == FoldLeft(KeepApart, <<>>, parts)
           starts == [i \in DOMAIN kept |-> <<kept[i].start, 0>>]
           table == SortedBy(kept, starts)
<1>1. CandidatesToPartitions(candidates) = table
  BY DEF CandidatesToPartitions, Reconstructed
<1>2. \A c \in C : /\ Reconstructed(c).start = c.lba /\ Reconstructed(c).confidence = c.confidence
  BY DEF Reconstructed, Part
<1>3. \A p \in T : p.start \in Int /\ p.confidence \in Int
  BY <1>2
<1>4. key \in [DOMAIN candidates -> Int \X Int]
  OBVIOUS
<1>5. best \in Seq(C) /\ Len(best) = Len(candidates) /\ DOMAIN candidates = 1 .. Len(candidates)
  <2> HIDE DEF key
  <2>1. QED
    BY <1>4, SortedIsList
<1>p. PICK at \in [DOMAIN candidates -> DOMAIN candidates] : Sorts(at, candidates, key)
  <2> HIDE DEF key
  <2>1. QED
    BY <1>4, SortedIsList
<1>6. /\ \A k \in DOMAIN candidates : best[k] = candidates[at[k]]
      /\ \A i \in DOMAIN candidates : \E k \in DOMAIN candidates : at[k] = i
      /\ \A k, l \in DOMAIN candidates :
           k < l => at[k] # at[l] /\ NoLater(key[at[k]], key[at[l]])
  <2> HIDE DEF key
  <2>1. QED
    BY <1>p DEF Sorts
<1>7. \A i, j \in DOMAIN candidates : i < j => best[i].confidence >= best[j].confidence
  <2> SUFFICES ASSUME NEW i \in DOMAIN candidates, NEW j \in DOMAIN candidates, i < j
               PROVE  best[i].confidence >= best[j].confidence
    OBVIOUS
  <2>1. /\ at[i] \in DOMAIN candidates /\ at[j] \in DOMAIN candidates
        /\ best[i] = candidates[at[i]] /\ best[j] = candidates[at[j]]
        /\ NoLater(key[at[i]], key[at[j]])
    BY <1>6
  <2>2. /\ key[at[i]][1] = -candidates[at[i]].confidence
        /\ key[at[j]][1] = -candidates[at[j]].confidence
    BY <2>1
  <2>3. candidates[at[i]].confidence \in Int /\ candidates[at[j]].confidence \in Int
    BY <2>1
  <2>4. -candidates[at[i]].confidence <= -candidates[at[j]].confidence
    BY <2>1, <2>2, <2>3 DEF NoLater
  <2>5. QED
    BY <2>1, <2>3, <2>4
<1> HIDE DEF best, key
<1>8. DOMAIN best = DOMAIN candidates /\ \A k \in DOMAIN best : best[k] \in C
  BY <1>5
<1>9. parts \in Seq(T) /\ DOMAIN parts = DOMAIN candidates
  <2>1. parts \in [1 .. Len(candidates) -> T]
    BY <1>5, <1>8
  <2> HIDE DEF T
  <2>2. QED
    BY <1>5, <2>1
<1>10. \A i, j \in DOMAIN parts : i < j => parts[i].confidence >= parts[j].confidence
  BY <1>2, <1>7, <1>8
<1>11. \A k \in DOMAIN candidates : parts[k] = Reconstructed(candidates[at[k]])
  BY <1>6, <1>8
<1> HIDE DEF parts, T
<1>12. /\ kept \in Seq(T)
       /\ \A i, j \in DOMAIN kept : i # j => Apart(kept[i], kept[j])
       /\ \A j \in DOMAIN parts : Explained(parts[j], kept)
  BY <1>3, <1>9, <1>10, KeptLieApart
<1>13. starts \in [DOMAIN kept -> Int \X Int] /\ \A i \in DOMAIN kept : starts[i][1] = kept[i].start
  BY <1>3, <1>12
<1> HIDE DEF kept, starts
<1>14. table \in Seq(T)
  BY <1>12, <1>13, SortedIsList
<1>15. /\ \A k, l \in DOMAIN table : k < l => Apart(table[k], table[l])
       /\ \A p : Explained(p, kept) => Explained(p, table)
  BY <1>3, <1>12, <1>13, SortedLieApart
<1>16. \A c \in Range(candidates) : Explained(Reconstructed(c), table)
  <2> SUFFICES ASSUME NEW i \in DOMAIN candidates
               PROVE  Explained(Reconstructed(candidates[i]), table)
    BY DEF Range
  <2>1. PICK k \in DOMAIN candidates : at[k] = i
    BY <1>6
  <2>2. parts[k] = Reconstructed(candidates[i])
    BY <1>11, <2>1
  <2>3. QED
    BY <1>9, <1>12, <1>15, <2>2
<1>17. \A k, l \in DOMAIN table : k # l => Apart(table[k], table[l])
  <2> HIDE DEF table
  <2>1. \A k, l \in DOMAIN table : k # l => k < l \/ l < k
    BY <1>14
  <2>2. \A p, q : Apart(p, q) => Apart(q, p)
    BY DEF Apart, Overlaps
  <2>3. QED
    BY <1>15, <2>1, <2>2
<1>18. QED
  BY <1>1, <1>14, <1>16, <1>17 DEF T

-----------------------------------------------------------------------------
(* What a device may hold, and what is found on it.                        *)

Systems == {"fat12", "fat16", "fat32", "ntfs", "ext4", "hfs+", "apfs", "exfat", "unknown", "other"}

Candidates == [lba : Nat, fs : Systems, sectors : Int, confidence : Nat]

Rows(origins) ==
  [start : Int, sectors : Int, fs : Systems, origin : origins, confidence : Int]

\* A header, whatever its numbers: what magic names says which of them it has.
IsHeader(b) ==
  b # None =>
    /\ b.magic \in {"ntfs", "exfat", "fat"} => b.sectors \in Nat
    /\ b.magic = "fat" => /\ b.bytes_per_sector \in Nat /\ b.sectors_per_cluster \in Nat
                          /\ b.reserved \in Nat /\ b.num_fats \in Nat /\ b.fat_size \in Nat
                          /\ b.root_entries \in Nat
    /\ b.magic = "ext" => b.log_block \in Nat /\ b.blocks \in Nat

IsDevice(d) ==
  /\ d.total \in Nat
  /\ d.mbr \in Seq([type : Nat, start : Nat, sectors : Nat])
  /\ \A s \in DOMAIN d.arrays : \E kinds : d.arrays[s] \in Seq([type : kinds, first : Nat, last : Nat])
  /\ \A s \in DOMAIN d.boot : IsHeader(d.boot[s])
  /\ \A s \in DOMAIN d.deep : IsHeader(d.deep[s])

\* A power of two in a header is not zero.
LEMMA PowersArePositive ==
  ASSUME NEW n, PowerOfTwo(n) PROVE n \in Nat /\ n > 0
<1> DEFINE Positive(x) == x \in Nat /\ x > 0
<1>1. PICK k \in 0 .. 25 : n = 2 ^ k
  BY DEF PowerOfTwo
<1>2. k \in 0 .. 6 \/ k \in 7 .. 13 \/ k \in 14 .. 19 \/ k \in 20 .. 25
  OBVIOUS
<1>3. CASE k \in 0 .. 6
  <2>1. k = 0 \/ k = 1 \/ k = 2 \/ k = 3 \/ k = 4 \/ k = 5 \/ k = 6
    BY <1>3
  <2>2. /\ Positive(2^0) /\ Positive(2^1) /\ Positive(2^2) /\ Positive(2^3)
        /\ Positive(2^4) /\ Positive(2^5) /\ Positive(2^6)
    OBVIOUS
  <2> HIDE DEF Positive
  <2>3. Positive(n)
    BY <1>1, <2>1, <2>2, Zenon
  <2>4. QED
    BY <2>3 DEF Positive
<1>4. CASE k \in 7 .. 13
  <2>1. k = 7 \/ k = 8 \/ k = 9 \/ k = 10 \/ k = 11 \/ k = 12 \/ k = 13
    BY <1>4
  <2>2. /\ Positive(2^7) /\ Positive(2^8) /\ Positive(2^9) /\ Positive(2^10)
        /\ Positive(2^11) /\ Positive(2^12) /\ Positive(2^13)
    OBVIOUS
  <2> HIDE DEF Positive
  <2>3. Positive(n)
    BY <1>1, <2>1, <2>2, Zenon
  <2>4. QED
    BY <2>3 DEF Positive
<1>5. CASE k \in 14 .. 19
  <2>1. k = 14 \/ k = 15 \/ k = 16 \/ k = 17 \/ k = 18 \/ k = 19
    BY <1>5
  <2>2. /\ Positive(2^14) /\ Positive(2^15) /\ Positive(2^16) /\ Positive(2^17)
        /\ Positive(2^18) /\ Positive(2^19)
    OBVIOUS
  <2> HIDE DEF Positive
  <2>3. Positive(n)
    BY <1>1, <2>1, <2>2, Zenon
  <2>4. QED
    BY <2>3 DEF Positive
<1>6. CASE k \in 20 .. 25
  <2>1. k = 20 \/ k = 21 \/ k = 22 \/ k = 23 \/ k = 24 \/ k = 25
    BY <1>6
  <2>2. /\ Positive(2^20) /\ Positive(2^21) /\ Positive(2^22) /\ Positive(2^23)
        /\ Positive(2^24) /\ Positive(2^25)
    OBVIOUS
  <2> HIDE DEF Positive
  <2>3. Positive(n)
    BY <1>1, <2>1, <2>2, Zenon
  <2>4. QED
    BY <2>3 DEF Positive
<1>7. QED
  BY <1>2, <1>3, <1>4, <1>5, <1>6

LEMMA RoundedUp ==
  ASSUME NEW n \in Nat, NEW unit \in Nat, unit > 0
  PROVE  RoundUp(n, unit) \in Nat /\ RoundUp(n, unit) * unit >= n
<1> DEFINE q == (n + unit - 1) \div unit
           r == (n + unit - 1) % unit
<1>1. n + unit - 1 \in Nat
  OBVIOUS
<1>2. q \in Nat /\ r \in 0 .. unit - 1 /\ n + unit - 1 = q * unit + r
  <2> DEFINE x == n + unit - 1
  <2>1. x \in Nat /\ unit \in Nat \ {0}
    BY <1>1
  <2> HIDE DEF x
  <2>2. x \div unit \in Nat /\ x % unit \in 0 .. unit - 1 /\ x = unit * (x \div unit) + (x % unit)
    BY <2>1, DivSplits
  <2>3. unit * (x \div unit) = (x \div unit) * unit
    BY <2>1, <2>2
  <2>4. QED
    BY <2>2, <2>3 DEF x
<1> HIDE DEF q, r
<1>3. q * unit \in Int
  BY <1>2
<1>4. q * unit >= n
  BY <1>2, <1>3
<1>5. QED
  BY <1>2, <1>4 DEF RoundUp, q

\* A FAT that is plausible has room for its metadata.
LEMMA FatHasClusters ==
  ASSUME NEW b, IsHeader(b), b # None, b.magic = "fat", PlausibleBpb(b)
  PROVE  /\ b.bytes_per_sector \in Nat /\ b.bytes_per_sector > 0
         /\ b.sectors_per_cluster \in Nat /\ b.sectors_per_cluster > 0
         /\ MetadataSectors(b) \in Nat /\ b.sectors \in Nat /\ MetadataSectors(b) <= b.sectors
         /\ (b.sectors - MetadataSectors(b)) \div b.sectors_per_cluster \in Nat
<1>1. /\ b.bytes_per_sector \in Nat /\ b.bytes_per_sector > 0
      /\ b.sectors_per_cluster \in Nat /\ b.sectors_per_cluster > 0
      /\ b.reserved \in Nat /\ b.num_fats \in Nat /\ b.fat_size \in Nat /\ b.root_entries \in Nat
      /\ b.sectors \in Nat /\ MetadataSectors(b) <= b.sectors
  BY PowersArePositive DEF IsHeader, PlausibleBpb, SectorBytes
<1>2. MetadataSectors(b) \in Nat
  <2>1. RoundUp(b.root_entries * 32, b.bytes_per_sector) \in Nat
    <3> DEFINE bytes == b.root_entries * 32
               unit == b.bytes_per_sector
    <3>1. bytes \in Nat /\ unit \in Nat /\ unit > 0
      BY <1>1
    <3> HIDE DEF bytes, unit
    <3>2. RoundUp(bytes, unit) \in Nat
      BY <3>1, RoundedUp
    <3>3. QED
      BY <3>2 DEF bytes, unit
  <2>2. b.num_fats * b.fat_size \in Nat
    BY <1>1
  <2>3. QED
    BY <1>1, <2>1, <2>2 DEF MetadataSectors
<1>3. \A x \in Nat, y \in Nat : y > 0 => x \div y \in Nat
  BY DivSplits
<1>4. b.sectors - MetadataSectors(b) \in Nat
  BY <1>1, <1>2
<1>5. QED
  BY <1>1, <1>2, <1>3, <1>4

\* A FAT is one of three.
LEMMA FatIsOneOfThree ==
  ASSUME NEW clusters PROVE FatKind(clusters) \in {"fat12", "fat16", "fat32"}
BY DEF FatKind

\* What a boot sector shows.
LEMMA BootSectorShows ==
  ASSUME NEW b, IsHeader(b), NEW lba \in Nat, NEW total \in Nat,
         IdentifyBootSector(b, lba, total) # None
  PROVE  IdentifyBootSector(b, lba, total) \in Candidates
         /\ IdentifyBootSector(b, lba, total).lba = lba
<1>1. b # None /\ b.magic \in {"ntfs", "exfat", "fat"}
  BY DEF IdentifyBootSector
<1>2. CASE b.magic = "ntfs"
  <2>1. IdentifyBootSector(b, lba, total) = IdentifyNtfs(b, lba, total)
    BY <1>1, <1>2 DEF IdentifyBootSector
  <2>2. IdentifyBootSector(b, lba, total) = Candidate(lba, "ntfs", b.sectors + 1, 95)
    BY <2>1 DEF IdentifyNtfs
  <2>3. b.sectors + 1 \in Int
    BY <1>1, <1>2 DEF IsHeader
  <2>4. QED
    BY <2>2, <2>3 DEF Candidate, Candidates, Systems
<1>3. CASE b.magic = "exfat"
  <2>1. IdentifyBootSector(b, lba, total) = IdentifyExfat(b, lba, total)
    BY <1>1, <1>3 DEF IdentifyBootSector
  <2>2. IdentifyBootSector(b, lba, total) = Candidate(lba, "exfat", b.sectors, 95)
    BY <2>1 DEF IdentifyExfat
  <2>3. b.sectors \in Int
    BY <1>1, <1>3 DEF IsHeader
  <2>4. QED
    BY <2>2, <2>3 DEF Candidate, Candidates, Systems
<1>4. CASE b.magic = "fat"
  <2> DEFINE clusters == (b.sectors - MetadataSectors(b)) \div b.sectors_per_cluster
  <2>1. IdentifyBootSector(b, lba, total) = IdentifyFat(b, lba, total)
    BY <1>1, <1>4 DEF IdentifyBootSector
  <2>2. /\ PlausibleBpb(b)
        /\ IdentifyBootSector(b, lba, total) =
             Candidate(lba, FatKind(clusters), b.sectors, IF b.declared THEN 90 ELSE 70)
    BY <2>1 DEF IdentifyFat
  <2>3. clusters \in Nat /\ b.sectors \in Int
    BY <1>1, <1>4, <2>2, FatHasClusters
  <2> HIDE DEF clusters
  <2>4. FatKind(clusters) \in Systems
    BY FatIsOneOfThree DEF Systems
  <2>5. (IF b.declared THEN 90 ELSE 70) \in Nat
    OBVIOUS
  <2>6. QED
    BY <2>2, <2>3, <2>4, <2>5 DEF Candidate, Candidates
<1>5. QED
  BY <1>1, <1>2, <1>3, <1>4

\* What a sector shows.
LEMMA SectorShows ==
  ASSUME NEW d, IsDevice(d), NEW lba \in Nat, Identify(d, lba) # None
  PROVE  Identify(d, lba) \in Candidates /\ Identify(d, lba).lba = lba
<1> DEFINE b == Read(d, lba, d.boot)
           deep == IF lba + 2 \in d.bad \/ lba \notin DOMAIN d.deep THEN None ELSE d.deep[lba]
           boot == IdentifyBootSector(b, lba, d.total)
           ext == IdentifyExt(deep, lba)
           hfs == IdentifyHfsplus(deep, lba)
           apfs == IdentifyApfs(b, lba)
           Shown(c) == c # None => c \in Candidates /\ c.lba = lba
<1>1. IsHeader(b) /\ IsHeader(deep) /\ d.total \in Nat
  BY DEF IsDevice, Read, IsHeader
<1>2. Identify(d, lba) = OrElse(boot, OrElse(ext, OrElse(hfs, apfs)))
  BY DEF Identify
<1> HIDE DEF b, deep
<1>3. Shown(boot)
  BY <1>1, BootSectorShows
<1>4. Shown(ext)
  <2> SUFFICES ASSUME ext # None PROVE ext \in Candidates /\ ext.lba = lba
    OBVIOUS
  <2>1. /\ deep # None /\ deep.magic = "ext" /\ deep.log_block <= 6
        /\ ext = Candidate(lba, "ext4", (deep.blocks * 1024 * 2 ^ deep.log_block) \div 512, 90)
    BY DEF IdentifyExt
  <2>2. deep.log_block \in 0 .. 6 /\ deep.blocks \in Nat
    <3>1. deep.log_block \in Nat /\ deep.blocks \in Nat
      BY <1>1, <2>1 DEF IsHeader
    <3>2. deep.log_block <= 6
      BY <2>1
    <3>3. QED
      BY <3>1, <3>2
  <2>3. 2 ^ deep.log_block \in Int
    BY <2>2, SMT
  <2>4. deep.blocks * 1024 * 2 ^ deep.log_block \in Int
    BY <2>2, <2>3
  <2>5. (deep.blocks * 1024 * 2 ^ deep.log_block) \div 512 \in Int
    BY <2>4
  <2>6. QED
    BY <2>1, <2>5 DEF Candidate, Candidates, Systems
<1>5. Shown(hfs)
  BY DEF IdentifyHfsplus, Candidate, Candidates, Systems
<1>6. Shown(apfs)
  <2> HIDE DEF boot, ext, hfs
  <2> DEFINE right == /\ b # None /\ b.magic = "apfs"
                      /\ b.block_size \in 512 .. 65536 /\ PowerOfTwo(b.block_size)
  <2>1. apfs = IF right THEN Candidate(lba, "apfs", 0, 80) ELSE None
    BY DEF IdentifyApfs
  <2> HIDE DEF right
  <2>2. apfs = None \/ apfs = Candidate(lba, "apfs", 0, 80)
    BY <2>1
  <2>3. QED
    BY <2>2 DEF Candidate, Candidates, Systems
<1> HIDE DEF boot, ext, hfs, apfs
<1>7. QED
  BY <1>2, <1>3, <1>4, <1>5, <1>6 DEF OrElse

\* The scan finds headers.
LEMMA ScanShows ==
  ASSUME NEW d, IsDevice(d), NEW step \in Nat \ {0}, NEW limit \in Nat,
         CommonStarts \in Seq(Nat), MaxCandidates \in Nat
  PROVE  ScanForFilesystems(d, step, limit) \in Seq(Candidates)
<1> DEFINE end == IF limit = 0 \/ limit > d.total THEN d.total ELSE limit
           grid == [i \in 1 .. RoundUp(end, step) |-> (i - 1) * step]
           common == PartOf(CommonStarts, {i \in DOMAIN CommonStarts : Shows(d, CommonStarts[i])})
           others == PartOf(grid, {i \in DOMAIN grid :
                                     Shows(d, grid[i]) /\ grid[i] \notin Range(CommonStarts)})
           room == LesserOf(GreaterOf(0, MaxCandidates - Len(common)), Len(others))
           shown == common \o SubSeq(others, 1, room)
           key == [i \in DOMAIN shown |-> <<shown[i], 0>>]
           at == SortedBy(shown, key)
           T == {lba \in Nat : Shows(d, lba)}
<1>1. ScanForFilesystems(d, step, limit) = [i \in DOMAIN at |-> Identify(d, at[i])]
  BY DEF ScanForFilesystems
<1>2. end \in Nat
  BY DEF IsDevice
<1>3. grid \in Seq(Nat)
  <2> HIDE DEF end
  <2>1. RoundUp(end, step) \in Nat
    <3>1. step \in Nat /\ step > 0
      OBVIOUS
    <3>2. QED
      BY <1>2, <3>1, RoundedUp
  <2> DEFINE n == RoundUp(end, step)
  <2>2. n \in Nat
    BY <2>1
  <2> HIDE DEF n
  <2>3. \A i \in 1 .. n : (i - 1) * step \in Nat
    BY <2>2
  <2>4. [i \in 1 .. n |-> (i - 1) * step] \in [1 .. n -> Nat]
    BY <2>3
  <2>5. [i \in 1 .. n |-> (i - 1) * step] \in Seq(Nat)
    BY <2>2, <2>4
  <2>6. QED
    BY <2>5 DEF n
<1> HIDE DEF end, grid
<1>4. common \in Seq(T)
  <2> DEFINE S == {i \in DOMAIN CommonStarts : Shows(d, CommonStarts[i])}
  <2>1. S \in SUBSET DOMAIN CommonStarts /\ \A i \in S : CommonStarts[i] \in T
    OBVIOUS
  <2> HIDE DEF S, T
  <2>2. PartOf(CommonStarts, S) \in Seq(T)
    BY <2>1, PartIsIn
  <2>3. QED
    BY <2>2 DEF S
<1>5. others \in Seq(T)
  <2> DEFINE S == {i \in DOMAIN grid : Shows(d, grid[i]) /\ grid[i] \notin Range(CommonStarts)}
  <2>1. S \in SUBSET DOMAIN grid /\ \A i \in S : grid[i] \in T
    BY <1>3
  <2> HIDE DEF S, T
  <2>2. PartOf(grid, S) \in Seq(T)
    BY <1>3, <2>1, PartIsIn
  <2>3. QED
    BY <2>2 DEF S
<1> HIDE DEF common, others
<1>6. room \in 0 .. Len(others)
  BY <1>4, <1>5 DEF LesserOf, GreaterOf
<1> HIDE DEF room
<1>7. shown \in Seq(T)
  <2>1. SubSeq(others, 1, room) \in Seq(T)
    BY <1>5, <1>6
  <2>2. QED
    BY <1>4, <2>1
<1> HIDE DEF shown
<1>8. key \in [DOMAIN shown -> Int \X Int]
  BY <1>7
<1>9. at \in Seq(T)
  <2> HIDE DEF key, T
  <2>1. QED
    BY <1>7, <1>8, SortedIsList
<1> HIDE DEF at
<1>10. \A i \in DOMAIN at : at[i] \in Nat /\ Identify(d, at[i]) # None
  BY <1>9 DEF Shows
<1>11. \A i \in DOMAIN at : Identify(d, at[i]) \in Candidates
  BY <1>10, SectorShows
<1>12. DOMAIN at = 1 .. Len(at) /\ Len(at) \in Nat
  BY <1>9
<1>13. [i \in DOMAIN at |-> Identify(d, at[i])] \in [1 .. Len(at) -> Candidates]
  BY <1>11, <1>12
<1>14. [i \in DOMAIN at |-> Identify(d, at[i])] \in Seq(Candidates)
  BY <1>12, <1>13
<1>15. QED
  BY <1>1, <1>14

\* The partitions of an entry array.
LEMMA EntriesAreRows ==
  ASSUME NEW kinds, NEW array \in Seq([type : kinds, first : Nat, last : Nat])
  PROVE  LET used == {i \in DOMAIN array : array[i].type # "unused" /\ array[i].last >= array[i].first}
         IN  /\ ParseEntries(array) \in Seq(Rows({"gpt"}))
             /\ {<<p.start, p.sectors>> : p \in Range(ParseEntries(array))}
                  = {<<array[i].first, array[i].last - array[i].first + 1>> : i \in used}
<1> DEFINE T == [type : kinds, first : Nat, last : Nat]
           S == {i \in DOMAIN array : array[i].type # "unused" /\ array[i].last >= array[i].first}
           used == PartOf(array, S)
           Guid(t) == CASE t = "linux" -> "ext4" [] t = "apfs" -> "apfs" [] t = "hfs" -> "hfs+"
                        [] t = "efi" -> "fat32" [] t = "basic" -> "unknown" [] OTHER -> "other"
           Entry(e) == Part(e.first, e.last - e.first + 1, Guid(e.type), "gpt", 100)
           listed == [i \in DOMAIN used |-> Entry(used[i])]
<1>1. ParseEntries(array) = listed
  BY DEF ParseEntries
<1>2. \A t : Guid(t) \in Systems
  BY DEF Systems
<1> HIDE DEF Guid
<1>3. \A e \in T : /\ Entry(e) \in Rows({"gpt"})
                   /\ <<Entry(e).start, Entry(e).sectors>> = <<e.first, e.last - e.first + 1>>
  BY <1>2 DEF Part, Rows
<1>4. used \in Seq(T) /\ Range(used) = {array[i] : i \in S}
  <2>1. S \in SUBSET DOMAIN array /\ array \in Seq(T)
    OBVIOUS
  <2> HIDE DEF S, T
  <2>2. QED
    BY <2>1, PartHasThem
<1> HIDE DEF used, Row, T
<1>5. DOMAIN used = 1 .. Len(used) /\ Len(used) \in Nat /\ \A i \in DOMAIN used : used[i] \in T
  BY <1>4
<1>6. listed \in [1 .. Len(used) -> Rows({"gpt"})]
  BY <1>3, <1>5
<1>7. listed \in Seq(Rows({"gpt"})) /\ DOMAIN listed = DOMAIN used
  BY <1>5, <1>6
<1>8. {<<p.start, p.sectors>> : p \in Range(listed)}
        = {<<e.first, e.last - e.first + 1>> : e \in Range(used)}
  <2>1. \A i \in DOMAIN used :
          <<listed[i].start, listed[i].sectors>> = <<used[i].first, used[i].last - used[i].first + 1>>
    BY <1>3, <1>5
  <2>2. /\ Range(listed) = {listed[i] : i \in DOMAIN used}
        /\ Range(used) = {used[i] : i \in DOMAIN used}
    BY <1>7 DEF Range
  <2> HIDE DEF listed
  <2>3. QED
    BY <2>1, <2>2
<1>9. {<<e.first, e.last - e.first + 1>> : e \in Range(used)}
        = {<<array[i].first, array[i].last - array[i].first + 1>> : i \in S}
  BY <1>4
<1>10. QED
  BY <1>1, <1>7, <1>8, <1>9

Tabled == Rows({"gpt", "gpt-backup", "mbr", "whole-device"})

\* The partitions a GPT gives, and that of a backup that is used.
LEMMA GptGivesRows ==
  ASSUME NEW d, IsDevice(d)
  PROVE  ReadGpt(d).parts \in Seq(Rows({"gpt", "gpt-backup"}))
<1> DEFINE Either == Rows({"gpt", "gpt-backup"})
           chosen == ChooseHeader(Read(d, 1, d.gpt), Read(d, d.total - 1, d.gpt))
           h == chosen.hdr
           parts == ParseEntries(d.arrays[h.entry_lba])
           marked == [i \in DOMAIN parts |->
                        [parts[i] EXCEPT !.origin = "gpt-backup", !.confidence = 90]]
           refused == \/ d.total < 2 \/ h = None
                      \/ ~LooksSane(h, d.total)
                      \/ h.num_entries * h.entry_size > MaxEntryBytes
                      \/ ~Readable(d, h.entry_lba, h.num_entries * h.entry_size)
                      \/ h.entry_lba \notin DOMAIN d.arrays
<1>1. ReadGpt(d).parts = IF refused THEN <<>> ELSE IF chosen.from_backup THEN marked ELSE parts
  BY DEF ReadGpt
<1>2. CASE refused
  <2>1. ReadGpt(d).parts = <<>>
    BY <1>1, <1>2
  <2>2. QED
    BY <2>1
<1>3. CASE ~refused
  <2>1. h.entry_lba \in DOMAIN d.arrays
    BY <1>3
  <2>2. PICK kinds : d.arrays[h.entry_lba] \in Seq([type : kinds, first : Nat, last : Nat])
    BY <2>1 DEF IsDevice
  <2>3. parts \in Seq(Rows({"gpt"}))
    BY <2>2, EntriesAreRows
  <2> HIDE DEF parts
  <2>4. DOMAIN parts = 1 .. Len(parts) /\ Len(parts) \in Nat /\ \A i \in DOMAIN parts : parts[i] \in Rows({"gpt"})
    BY <2>3
  <2>5. \A p \in Rows({"gpt"}) : p \in Either
    BY DEF Rows
  <2>6. ASSUME NEW p \in Rows({"gpt"})
        PROVE  [p EXCEPT !.origin = "gpt-backup", !.confidence = 90] \in Either
    <3> DEFINE Like(origin, confidence) ==
                 [start |-> p.start, sectors |-> p.sectors, fs |-> p.fs, origin |-> origin,
                  confidence |-> confidence]
    <3>1. p = Like(p.origin, p.confidence)
      BY DEF Rows
    <3>2. \A o, c : [Like(o, c) EXCEPT !.origin = "gpt-backup"] = Like("gpt-backup", c)
      OBVIOUS
    <3>3. \A o, c : [Like(o, c) EXCEPT !.confidence = 90] = Like(o, 90)
      OBVIOUS
    <3> DEFINE q == [p EXCEPT !.origin = "gpt-backup"]
    <3> HIDE DEF Like
    <3>4. q = Like("gpt-backup", p.confidence)
      BY <3>1, <3>2
    <3>5. [p EXCEPT !.origin = "gpt-backup", !.confidence = 90] = [q EXCEPT !.confidence = 90]
      OBVIOUS
    <3> HIDE DEF q
    <3>6. [q EXCEPT !.confidence = 90] = Like("gpt-backup", 90)
      BY <3>3, <3>4
    <3>7. p.start \in Int /\ p.sectors \in Int /\ p.fs \in Systems
      BY DEF Rows
    <3>8. Like("gpt-backup", 90) \in Either
      BY <3>7 DEF Rows, Like
    <3>9. QED
      BY <3>5, <3>6, <3>8
  <2> HIDE DEF Either
  <2>7. parts \in [1 .. Len(parts) -> Either]
    BY <2>3, <2>4, <2>5
  <2>8. marked \in [1 .. Len(parts) -> Either]
    BY <2>4, <2>6
  <2>9. parts \in Seq(Either) /\ marked \in Seq(Either)
    <3> DEFINE n == Len(parts)
    <3> HIDE DEF marked, n
    <3>1. n \in Nat /\ parts \in [1 .. n -> Either] /\ marked \in [1 .. n -> Either]
      BY <2>4, <2>7, <2>8 DEF n
    <3>2. QED
      BY <3>1
  <2>10. QED
    BY <1>1, <1>3, <2>9 DEF Either
<1>4. QED
  BY <1>2, <1>3

\* The partitions an MBR gives.
LEMMA MbrGivesRows ==
  ASSUME NEW mbr \in Seq([type : Nat, start : Nat, sectors : Nat])
  PROVE  MbrPartitions(mbr) \in Seq(Rows({"mbr"}))
<1> DEFINE T == [type : Nat, start : Nat, sectors : Nat]
           S == {i \in DOMAIN mbr : ~IsEmptyEntry(mbr[i]) /\ mbr[i].type # Protective}
           named == PartOf(mbr, S)
           Entry(e) == Part(e.start, e.sectors, FsFromTypeByte(e.type), "mbr", 100)
           listed == [i \in DOMAIN named |-> Entry(named[i])]
<1>1. MbrPartitions(mbr) = listed
  BY DEF MbrPartitions
<1>2. \A t \in Nat : FsFromTypeByte(t) \in Systems
  BY DEF FsFromTypeByte, Systems
<1>3. \A e \in T : Entry(e) \in Rows({"mbr"})
  BY <1>2 DEF Part, Rows
<1>4. named \in Seq(T)
  <2>1. S \in SUBSET DOMAIN mbr /\ mbr \in Seq(T)
    OBVIOUS
  <2> HIDE DEF S, T
  <2>2. QED
    BY <2>1, PartIsList
<1> HIDE DEF named, Row, T
<1>5. DOMAIN named = 1 .. Len(named) /\ Len(named) \in Nat /\ \A i \in DOMAIN named : named[i] \in T
  BY <1>4
<1>6. listed \in [1 .. Len(named) -> Rows({"mbr"})]
  BY <1>3, <1>5
<1>7. QED
  BY <1>1, <1>5, <1>6

\* What discover finds: the partitions of a table, or where there are none those
\* made up from headers.
LEMMA Discovered ==
  ASSUME NEW d, IsDevice(d), NEW always \in BOOLEAN, NEW step \in Nat \ {0}, NEW limit \in Nat,
         CommonStarts \in Seq(Nat), MaxCandidates \in Nat
  PROVE  \E all : /\ Discover(d, always, step, limit).partitions = Normalise(all)
                  /\ \/ /\ all \in Seq(Tabled)
                        /\ ReadGpt(d).parts # <<>> =>
                             {p \in Range(all) : p.origin # "whole-device"} = Range(ReadGpt(d).parts)
                        /\ ReadGpt(d).parts = <<>> =>
                             \A p \in Range(all) : p.origin \in {"mbr", "whole-device"}
                     \/ /\ all = CandidatesToPartitions(ScanForFilesystems(d, step, limit))
                        /\ ReadGpt(d).parts = <<>>
<1> DEFINE gpt == ReadGpt(d).parts
           mbr == IF 0 \in d.bad THEN <<>> ELSE d.mbr
           asked == /\ gpt = <<>> /\ mbr # <<>> /\ ~IsProtective(mbr) /\ LooksPlausible(mbr, d.total)
           table == IF asked THEN MbrPartitions(mbr) ELSE gpt
           whole == IdentifyBootSector(Read(d, 0, d.boot), 0, d.total)
           row == Part(0, whole.sectors, whole.fs, "whole-device", whole.confidence)
           added == whole # None /\ (table = <<>> \/ always)
           with == IF added THEN Append(table, row) ELSE table
           made == CandidatesToPartitions(ScanForFilesystems(d, step, limit))
           all == IF with = <<>> THEN made ELSE with
<1>1. Discover(d, always, step, limit).partitions = Normalise(all)
  BY DEF Discover
<1>2. /\ gpt \in Seq(Tabled)
      /\ \A p \in Range(gpt) : p.origin # "whole-device"
  <2> DEFINE Either == Rows({"gpt", "gpt-backup"})
  <2>1. gpt \in Seq(Either)
    BY GptGivesRows
  <2>2. \A p \in Either : p \in Tabled /\ p.origin # "whole-device"
    BY DEF Rows, Tabled
  <2> HIDE DEF gpt, Either
  <2>3. DOMAIN gpt = 1 .. Len(gpt) /\ Len(gpt) \in Nat /\ \A i \in DOMAIN gpt : gpt[i] \in Either
    BY <2>1
  <2>4. gpt \in [1 .. Len(gpt) -> Tabled]
    BY <2>1, <2>2, <2>3
  <2>5. gpt \in Seq(Tabled)
    BY <2>3, <2>4
  <2>6. QED
    BY <2>2, <2>3, <2>5 DEF Range
<1>3. asked => MbrPartitions(mbr) \in Seq(Rows({"mbr"}))
  <2>1. mbr \in Seq([type : Nat, start : Nat, sectors : Nat])
    BY DEF IsDevice
  <2> HIDE DEF mbr
  <2>2. QED
    BY <2>1, MbrGivesRows
<1>4. whole # None => row \in Tabled /\ row.origin = "whole-device"
  <2> SUFFICES ASSUME whole # None PROVE row \in Tabled /\ row.origin = "whole-device"
    OBVIOUS
  <2>1. IsHeader(Read(d, 0, d.boot)) /\ d.total \in Nat
    BY DEF IsDevice, Read, IsHeader
  <2>2. whole \in Candidates
    BY <2>1, BootSectorShows
  <2> HIDE DEF whole
  <2>3. QED
    BY <2>2 DEF Candidates, Part, Tabled, Rows
<1> HIDE DEF gpt, whole, row, made
<1>5. table \in Seq(Tabled)
  <2>1. \A p \in Rows({"mbr"}) : p \in Tabled
    BY DEF Rows, Tabled
  <2>2. asked => MbrPartitions(mbr) \in Seq(Tabled)
    <3> DEFINE m == MbrPartitions(mbr)
    <3> SUFFICES ASSUME m \in Seq(Rows({"mbr"})) PROVE m \in Seq(Tabled)
      BY <1>3
    <3> HIDE DEF m
    <3>1. m \in [1 .. Len(m) -> Tabled] /\ Len(m) \in Nat
      BY <2>1
    <3>2. QED
      BY <3>1
  <2>3. QED
    BY <1>2, <2>2
<1>6. gpt = <<>> => \A p \in Range(table) : p.origin = "mbr"
  <2> SUFFICES ASSUME gpt = <<>>, NEW i \in DOMAIN table PROVE table[i].origin = "mbr"
    BY DEF Range
  <2>1. CASE asked
    <3> DEFINE m == MbrPartitions(mbr)
    <3>1. m \in Seq(Rows({"mbr"})) /\ table = m
      BY <1>3, <2>1
    <3> HIDE DEF m, table
    <3>2. table[i] \in Rows({"mbr"})
      BY <3>1
    <3>3. QED
      BY <3>2 DEF Rows
  <2>2. CASE ~asked
    <3>1. table = <<>>
      BY <2>2
    <3> HIDE DEF table
    <3>2. QED
      BY <3>1
  <2>3. QED
    BY <2>1, <2>2
<1>7. gpt # <<>> => table = gpt
  OBVIOUS
<1> HIDE DEF table
<1>9. with \in Seq(Tabled)
  <2>1. CASE added
    BY <1>4, <1>5, <2>1
  <2>2. CASE ~added
    BY <1>5, <2>2
  <2>3. QED
    BY <2>1, <2>2
<1>10. /\ added => Range(with) = Range(table) \cup {row}
       /\ ~added => with = table
  <2>1. added => Range(Append(table, row)) = Range(table) \cup {row}
    <3>1. Range(Append(table, row)) = {Append(table, row)[i] : i \in 1 .. Len(table) + 1}
      BY <1>5 DEF Range
    <3>2. Range(table) = {table[i] : i \in 1 .. Len(table)} /\ Len(table) \in Nat
      BY <1>5 DEF Range
    <3>3. /\ \A i \in 1 .. Len(table) : Append(table, row)[i] = table[i] /\ i \in 1 .. Len(table) + 1
          /\ Append(table, row)[Len(table) + 1] = row /\ Len(table) + 1 \in 1 .. Len(table) + 1
          /\ \A i \in 1 .. Len(table) + 1 : i \in 1 .. Len(table) \/ i = Len(table) + 1
      BY <1>5, <3>2
    <3>4. QED
      BY <3>1, <3>2, <3>3
  <2>2. QED
    BY <2>1
<1>11. gpt # <<>> => {p \in Range(with) : p.origin # "whole-device"} = Range(gpt)
  BY <1>2, <1>4, <1>7, <1>10 DEF added
<1>12. gpt = <<>> => \A p \in Range(with) : p.origin \in {"mbr", "whole-device"}
  BY <1>4, <1>6, <1>10 DEF added
<1>13. gpt # <<>> => with # <<>>
  <2> SUFFICES ASSUME gpt # <<>> PROVE with # <<>>
    OBVIOUS
  <2>1. CASE added
    <3>1. with = Append(table, row) /\ table \in Seq(Tabled)
      BY <1>5, <2>1
    <3>2. Len(with) = Len(table) + 1 /\ Len(table) \in Nat
      BY <3>1
    <3>3. QED
      BY <3>2
  <2>2. CASE ~added
    BY <1>7, <1>10, <2>2
  <2>3. QED
    BY <2>1, <2>2
<1> HIDE DEF with
<1>14. CASE with = <<>>
  BY <1>1, <1>13, <1>14 DEF gpt, made
<1>15. CASE with # <<>>
  BY <1>1, <1>9, <1>11, <1>12, <1>15 DEF gpt
<1>16. QED
  BY <1>14, <1>15

\* Sorting what was found changes nothing but its order.
LEMMA NormaliseKeeps ==
  ASSUME NEW T, NEW parts \in Seq(T), \A p \in T : p.start \in Int /\ p.sectors \in Int
  PROVE  Range(Normalise(parts)) = Range(parts)
<1> DEFINE key == [i \in DOMAIN parts |-> <<parts[i].start, parts[i].sectors>>]
<1>1. key \in [DOMAIN parts -> Int \X Int]
  OBVIOUS
<1> HIDE DEF key
<1>2. Range(SortedBy(parts, key)) = Range(parts)
  BY <1>1, SortKeepsThem
<1>3. QED
  BY <1>2 DEF Normalise, key

\* A table made up from headers has no partition inside another, and leaves out
\* a header it saw only for one at least as credible that it overlaps: for every
\* device, whatever its sectors hold and whichever cannot be read.
THEOREM ReconstructionIsSound ==
  ASSUME NEW d, IsDevice(d), NEW always \in BOOLEAN, NEW step \in Nat \ {0}, NEW limit \in Nat,
         CommonStarts \in Seq(Nat), MaxCandidates \in Nat
  PROVE  ReconstructionIsDisjoint(d, Discover(d, always, step, limit), step, limit)
<1> DEFINE parts == Discover(d, always, step, limit).partitions
           scan == ScanForFilesystems(d, step, limit)
<1>1. PICK all : /\ parts = Normalise(all)
                 /\ all \in Seq(Tabled) \/ all = CandidatesToPartitions(scan)
  BY Discovered
<1> HIDE DEF parts
<1>2. scan \in Seq(Candidates)
  BY ScanShows
<1> HIDE DEF scan
<1> SUFFICES ASSUME NEW p \in Range(parts), p.origin = "reconstructed"
             PROVE  /\ \A i, j \in DOMAIN parts : i < j =>
                         parts[i].start < parts[j].start /\ ~Overlaps(parts[i], parts[j])
                    /\ \A c \in Range(scan) : Explained(Reconstructed(c), parts)
  BY DEF ReconstructionIsDisjoint, Explained, Reconstructed, Range, parts, scan
<1>3. all = CandidatesToPartitions(scan)
  <2> SUFFICES ASSUME all \in Seq(Tabled) PROVE FALSE
    BY <1>1
  <2>1. \A q \in Tabled : /\ q.start \in Int /\ q.sectors \in Int /\ q.origin # "reconstructed"
    BY DEF Tabled, Rows
  <2>2. p \in Range(all)
    BY <1>1, <2>1, NormaliseKeeps
  <2>3. p \in Tabled
    BY <2>2 DEF Range
  <2>4. QED
    BY <2>1, <2>3
<1> DEFINE T == {Reconstructed(c) : c \in Candidates}
           key == [i \in DOMAIN all |-> <<all[i].start, all[i].sectors>>]
<1>4. \A q \in T : q.start \in Int /\ q.sectors \in Int
  BY DEF Reconstructed, Part, Candidates
<1>5. /\ all \in Seq(T)
      /\ \A i, j \in DOMAIN all : i # j => Apart(all[i], all[j])
      /\ \A c \in Range(scan) : Explained(Reconstructed(c), all)
  <2>1. \A c \in Candidates : c.lba \in Int /\ c.confidence \in Int
    BY DEF Candidates
  <2>2. QED
    BY <1>2, <1>3, <2>1, TableOfHeaders
<1> HIDE DEF T
<1>6. key \in [DOMAIN all -> Int \X Int] /\ \A i \in DOMAIN all : key[i][1] = all[i].start
  BY <1>4, <1>5
<1>7. parts = SortedBy(all, key)
  BY <1>1 DEF Normalise
<1> HIDE DEF key
<1>8. /\ \A i, j \in DOMAIN parts : i < j =>
           parts[i].start < parts[j].start /\ Apart(parts[i], parts[j])
      /\ \A q : Explained(q, all) => Explained(q, parts)
  BY <1>4, <1>5, <1>6, <1>7, SortedLieApart
<1>9. QED
  BY <1>5, <1>8 DEF Apart

\* A header whose entry array can be read, and whose entries are not back to front.
IsUsable(d, h) ==
  /\ LooksSane(h, d.total)
  /\ ~(h.num_entries * h.entry_size > MaxEntryBytes)
  /\ Readable(d, h.entry_lba, h.num_entries * h.entry_size)
  /\ h.entry_lba \in DOMAIN d.arrays
  /\ \A i \in DOMAIN d.arrays[h.entry_lba] :
       LET e == d.arrays[h.entry_lba][i] IN e.type # "unused" => e.last >= e.first

\* When the primary header is gone or fails its CRC and the backup can be used,
\* the partitions are the backup's, and the operator is told: for every device.
THEOREM BackupsAreUsed ==
  ASSUME NEW d, IsDevice(d), NEW always \in BOOLEAN, NEW step \in Nat \ {0}, NEW limit \in Nat,
         CommonStarts \in Seq(Nat), MaxCandidates \in Nat, d.total >= 2,
         LET backup == Read(d, d.total - 1, d.gpt) IN
         backup # None /\ backup.whole => IsUsable(d, backup)
  PROVE  BackupIsUsed(d, Discover(d, always, step, limit))
<1> DEFINE primary == Read(d, 1, d.gpt)
           backup == Read(d, d.total - 1, d.gpt)
           result == Discover(d, always, step, limit)
           gpt == ReadGpt(d).parts
           array == d.arrays[backup.entry_lba]
           Places(S) == {<<p.start, p.sectors>> : p \in S}
           ours == {q \in Range(result.partitions) : q.origin = "gpt-backup"}
           entries == {<<e.first, e.last - e.first + 1>> : e \in {x \in Range(array) : x.type # "unused"}}
<1> SUFFICES ASSUME primary = None \/ ~primary.crc_ok, backup # None, backup.crc_ok, backup.whole
             PROVE  result.backup_noted /\ Places(ours) = entries
  BY DEF BackupIsUsed
<1>1. IsUsable(d, backup)
  OBVIOUS
<1>2. ChooseHeader(primary, backup) = [hdr |-> backup, from_backup |-> TRUE]
  BY DEF ChooseHeader
<1> DEFINE parsed == ParseEntries(array)
           marked == [i \in DOMAIN parsed |->
                        [parsed[i] EXCEPT !.origin = "gpt-backup", !.confidence = 90]]
<1> HIDE DEF primary, backup, parsed, array
<1>3. ReadGpt(d).parts = marked /\ ReadGpt(d).note
  <2> DEFINE chosen == ChooseHeader(primary, backup)
             h == chosen.hdr
             parts == ParseEntries(d.arrays[h.entry_lba])
             remarked == [i \in DOMAIN parts |->
                            [parts[i] EXCEPT !.origin = "gpt-backup", !.confidence = 90]]
             refused == \/ d.total < 2 \/ h = None
                        \/ ~LooksSane(h, d.total)
                        \/ h.num_entries * h.entry_size > MaxEntryBytes
                        \/ ~Readable(d, h.entry_lba, h.num_entries * h.entry_size)
                        \/ h.entry_lba \notin DOMAIN d.arrays
  <2>1. /\ ReadGpt(d).parts =
             IF refused THEN <<>> ELSE IF chosen.from_backup THEN remarked ELSE parts
        /\ ReadGpt(d).note = IF refused THEN h # None /\ chosen.from_backup ELSE chosen.from_backup
    BY DEF ReadGpt, primary, backup
  <2>2. chosen.hdr = backup /\ chosen.from_backup
    BY <1>2
  <2> HIDE DEF chosen
  <2>3. h = backup
    BY <2>2
  <2> HIDE DEF h
  <2>4. ~refused
    <3>1. ~(d.total < 2) /\ h # None
      BY <2>3 DEF IsDevice
    <3>2. QED
      BY <1>1, <2>3, <3>1 DEF IsUsable
  <2>5. remarked = marked
    BY <2>3 DEF parsed, array
  <2> HIDE DEF remarked, refused, marked
  <2>6. QED
    BY <2>1, <2>2, <2>4, <2>5
<1>4. result.backup_noted
  <2>1. result.backup_noted = ReadGpt(d).note
    BY DEF Discover
  <2> HIDE DEF result, marked
  <2>2. QED
    BY <1>3, <2>1
<1>5. PICK kinds : array \in Seq([type : kinds, first : Nat, last : Nat])
  BY <1>1 DEF IsDevice, IsUsable, array
<1>6. parsed \in Seq(Rows({"gpt"})) /\ Places(Range(parsed)) = entries
  <2> DEFINE used == {i \in DOMAIN array : array[i].type # "unused" /\ array[i].last >= array[i].first}
  <2>1. parsed \in Seq(Rows({"gpt"}))
    BY <1>5, EntriesAreRows DEF parsed
  <2>2. Places(Range(parsed)) = {<<array[i].first, array[i].last - array[i].first + 1>> : i \in used}
    BY <1>5, EntriesAreRows DEF parsed
  <2>3. {x \in Range(array) : x.type # "unused"} = {array[i] : i \in used}
    BY <1>1 DEF IsUsable, Range, array
  <2> HIDE DEF used
  <2>4. entries = {<<array[i].first, array[i].last - array[i].first + 1>> : i \in used}
    BY <2>3
  <2>5. QED
    BY <2>1, <2>2, <2>4
<1>7. /\ Places(Range(marked)) = entries /\ \A p \in Range(marked) : p.origin = "gpt-backup"
      /\ marked = <<>> => entries = {}
  <2>1. ASSUME NEW p \in Rows({"gpt"})
        PROVE  LET m == [p EXCEPT !.origin = "gpt-backup", !.confidence = 90]
               IN  m.origin = "gpt-backup" /\ m.start = p.start /\ m.sectors = p.sectors
    BY DEF Rows
  <2>2. \A i \in DOMAIN parsed : parsed[i] \in Rows({"gpt"})
    BY <1>6
  <2> HIDE DEF entries
  <2>3. \A i \in DOMAIN parsed : /\ marked[i].origin = "gpt-backup"
                                 /\ <<marked[i].start, marked[i].sectors>> = <<parsed[i].start, parsed[i].sectors>>
    BY <2>1, <2>2
  <2>4. DOMAIN marked = DOMAIN parsed
    OBVIOUS
  <2>5. /\ Range(marked) = {marked[i] : i \in DOMAIN parsed}
        /\ Range(parsed) = {parsed[i] : i \in DOMAIN parsed}
    BY <2>4 DEF Range
  <2> HIDE DEF marked
  <2>6. Places(Range(marked)) = Places(Range(parsed))
    BY <2>3, <2>5
  <2>7. marked = <<>> => Range(marked) = {}
    BY DEF Range
  <2>8. QED
    BY <1>6, <2>3, <2>5, <2>6, <2>7
<1> HIDE DEF marked, entries
<1>8. gpt = marked
  BY <1>3
<1>9. PICK all : /\ result.partitions = Normalise(all)
                 /\ \/ /\ all \in Seq(Tabled)
                       /\ gpt # <<>> =>
                            {p \in Range(all) : p.origin # "whole-device"} = Range(gpt)
                       /\ gpt = <<>> => \A p \in Range(all) : p.origin \in {"mbr", "whole-device"}
                    \/ /\ all = CandidatesToPartitions(ScanForFilesystems(d, step, limit))
                       /\ gpt = <<>>
  BY Discovered
<1> HIDE DEF result, gpt
<1>10. /\ gpt # <<>> => ours = Range(marked)
       /\ gpt = <<>> => ours = {}
  <2>1. CASE all \in Seq(Tabled) /\ (gpt # <<>> => {p \in Range(all) : p.origin # "whole-device"} = Range(gpt))
             /\ (gpt = <<>> => \A p \in Range(all) : p.origin \in {"mbr", "whole-device"})
    <3>1. \A q \in Tabled : q.start \in Int /\ q.sectors \in Int
      BY DEF Tabled, Rows
    <3>2. Range(result.partitions) = Range(all)
      BY <1>9, <2>1, <3>1, NormaliseKeeps
    <3>3. gpt # <<>> => ours = Range(marked)
      BY <1>7, <1>8, <2>1, <3>2
    <3>4. gpt = <<>> => ours = {}
      BY <2>1, <3>2
    <3>5. QED
      BY <3>3, <3>4
  <2>2. CASE all = CandidatesToPartitions(ScanForFilesystems(d, step, limit)) /\ gpt = <<>>
    <3> DEFINE T == {Reconstructed(c) : c \in Candidates}
    <3>1. \A q \in T : q.start \in Int /\ q.sectors \in Int /\ q.origin = "reconstructed"
      BY DEF Reconstructed, Part, Candidates
    <3>2. \A c \in Candidates : c.lba \in Int /\ c.confidence \in Int
      BY DEF Candidates
    <3>3. ScanForFilesystems(d, step, limit) \in Seq(Candidates)
      BY ScanShows
    <3>4. all \in Seq(T)
      BY <2>2, <3>2, <3>3, TableOfHeaders
    <3> HIDE DEF T
    <3>5. Range(result.partitions) = Range(all)
      BY <1>9, <3>1, <3>4, NormaliseKeeps
    <3>6. \A q \in Range(all) : q.origin = "reconstructed"
      BY <3>1, <3>4 DEF Range
    <3>7. QED
      BY <2>2, <3>5, <3>6
  <2>3. QED
    BY <1>9, <2>1, <2>2
<1>11. Places(ours) = entries
  BY <1>7, <1>8, <1>10
<1>12. QED
  BY <1>4, <1>11

-----------------------------------------------------------------------------
(* Opening what was found.                                                 *)

\* A boot sector as a reader takes it: of NTFS two of its fields are bytes.
IsBootSector(b) ==
  /\ b # None /\ IsHeader(b)
  /\ b.magic = "ntfs" => /\ b.bytes_per_sector \in Nat /\ b.mft \in Nat
                         /\ b.sectors_per_cluster \in 0 .. 255 /\ b.record_size \in 0 .. 255
  /\ b.magic = "exfat" => b.sector_shift \in Nat /\ b.cluster_shift \in Nat

\* Which reader opens a volume, and what it made sure of.
LEMMA OpenedBy ==
  ASSUME NEW b, IsBootSector(b), NEW deep, OpenVolume(b, deep) # None
  PROVE  \/ b.magic = "ntfs" /\ OpenVolume(b, deep) = OpenNtfs(b)
         \/ b.magic = "exfat" /\ OpenVolume(b, deep) = OpenExfat(b)
         \/ b.magic = "fat" /\ PlausibleBpb(b) /\ OpenVolume(b, deep) = OpenFat(b)
<1>1. CASE b.magic \in {"ntfs", "exfat"}
  BY <1>1 DEF OpenVolume, Detect
<1>2. CASE b.magic \notin {"ntfs", "exfat"} /\ b.magic = "fat" /\ PlausibleBpb(b)
  <2> DEFINE clusters == (b.sectors - MetadataSectors(b)) \div b.sectors_per_cluster
  <2>1. Detect(b, deep) = OpenFat(b).fs
    BY <1>2 DEF Detect
  <2>2. OpenFat(b).fs = FatKind(clusters)
    BY <1>2 DEF OpenFat
  <2> HIDE DEF clusters
  <2>3. FatKind(clusters) \in {"fat12", "fat16", "fat32"}
    BY FatIsOneOfThree
  <2>4. Detect(b, deep) \in {"fat12", "fat16", "fat32"}
    BY <2>1, <2>2, <2>3
  <2>5. OpenVolume(b, deep) = OpenFat(b)
    BY <2>4 DEF OpenVolume
  <2>6. QED
    BY <1>2, <2>5
<1>3. CASE b.magic \notin {"ntfs", "exfat"} /\ ~(b.magic = "fat" /\ PlausibleBpb(b))
  <2>1. Detect(b, deep) \in {"ext4", "apfs", "hfs+", "unknown"}
    BY <1>3 DEF Detect
  <2>2. OpenVolume(b, deep) = None
    BY <2>1 DEF OpenVolume
  <2>3. QED
    BY <2>2
<1>4. QED
  BY <1>1, <1>2, <1>3

\* What an NTFS that was opened says of itself.
LEMMA NtfsHasClusters ==
  ASSUME NEW b, IsBootSector(b), b.magic = "ntfs", OpenNtfs(b) # None
  PROVE  /\ b.sectors \in Nat /\ b.sectors > 0
         /\ b.bytes_per_sector \in 256 .. 4096 /\ PowerOfTwo(b.bytes_per_sector)
         /\ NtfsClusterSectors(b) \in Nat /\ NtfsClusterSectors(b) > 0
         /\ OpenNtfs(b) = [fs |-> "ntfs", first |-> 0, count |-> b.sectors \div NtfsClusterSectors(b),
                           bytes |-> b.bytes_per_sector * NtfsClusterSectors(b), heap |-> 0]
<1> DEFINE spc == NtfsClusterSectors(b)
           open == [fs |-> "ntfs", first |-> 0, count |-> b.sectors \div spc,
                    bytes |-> b.bytes_per_sector * spc, heap |-> 0]
<1>1. OpenNtfs(b) = IF b.magic = "ntfs" /\ PlausibleBoot(b) THEN open ELSE None
  BY DEF OpenNtfs
<1> HIDE DEF spc, open
<1>2. PlausibleBoot(b) /\ OpenNtfs(b) = open
  BY <1>1
<1>3. /\ b.bytes_per_sector \in 256 .. 4096 /\ PowerOfTwo(b.bytes_per_sector)
      /\ spc \in Nat /\ spc > 0 /\ b.sectors # 0
  <2>1. MostUnits \in Nat
    BY DEF MostUnits
  <2>2. /\ b.bytes_per_sector \in 256 .. 4096 /\ PowerOfTwo(b.bytes_per_sector)
        /\ spc \in 1 .. MostUnits /\ b.sectors # 0
    BY <1>2 DEF PlausibleBoot, spc
  <2>3. QED
    BY <2>1, <2>2
<1>4. b.sectors \in Nat /\ b.sectors > 0
  BY <1>3 DEF IsBootSector, IsHeader
<1>5. QED
  BY <1>2, <1>3, <1>4 DEF spc, open

\* The rules of each header are written twice, for the scan and for the reader:
\* a volume the reader can open, where it fits on the device, is found without a
\* partition table, as the file system the reader opens it as, to its end.
THEOREM ReadersAgreeWithScan ==
  ASSUME NEW b, IsBootSector(b), NEW deep, NEW lba \in Nat, NEW total \in Nat,
         \A a, fs, n, k : Candidate(a, fs, n, k) # None
  PROVE  ReadableIsOffered(b, deep, lba, total)
<1> DEFINE g == OpenVolume(b, deep)
           c == IdentifyBootSector(b, lba, total)
           spc == NtfsClusterSectors(b)
           strict == b.bytes_per_sector >= 512 /\ PowerOfTwo(spc) /\ b.mft \in 1 .. b.sectors
<1> SUFFICES ASSUME g # None, lba + b.sectors <= total, g.fs = "ntfs" => strict
             PROVE  c # None /\ c.fs = g.fs /\ c.sectors >= b.sectors
  BY DEF ReadableIsOffered
<1>1. /\ b # None /\ IsHeader(b)
      /\ \/ b.magic = "ntfs" /\ g = OpenNtfs(b)
         \/ b.magic = "exfat" /\ g = OpenExfat(b)
         \/ b.magic = "fat" /\ PlausibleBpb(b) /\ g = OpenFat(b)
  BY OpenedBy DEF IsBootSector
<1> HIDE DEF g
<1>2. CASE b.magic = "ntfs" /\ g = OpenNtfs(b)
  <2>1. /\ b.sectors \in Nat /\ b.sectors > 0
        /\ b.bytes_per_sector \in 256 .. 4096 /\ PowerOfTwo(b.bytes_per_sector)
        /\ spc \in Nat /\ spc > 0 /\ g.fs = "ntfs"
    BY <1>2, NtfsHasClusters
  <2>2. strict
    BY <2>1
  <2>3. b.sectors_per_cluster >= 128 \/ PowerOfTwo(b.sectors_per_cluster)
    <3>1. b.sectors_per_cluster \in 0 .. 255
      BY <1>2 DEF IsBootSector
    <3>2. CASE b.sectors_per_cluster = 0
      BY <2>1, <3>2 DEF NtfsClusterSectors, SizedField
    <3>3. CASE b.sectors_per_cluster \in 1 .. 127
      <4>1. spc = b.sectors_per_cluster * 1
        BY <3>3 DEF NtfsClusterSectors, SizedField
      <4>2. spc = b.sectors_per_cluster
        BY <3>3, <4>1
      <4>3. QED
        BY <2>2, <4>2
    <3>4. QED
      BY <3>1, <3>2, <3>3
  <2>4. SectorBytes(b.bytes_per_sector)
    BY <2>1, <2>2 DEF SectorBytes
  <2>5. /\ b.sectors # 0 /\ lba + b.sectors <= total + 1
        /\ b.mft # 0 /\ b.mft <= b.sectors
    BY <2>1, <2>2
  <2>6. c = IdentifyNtfs(b, lba, total)
    BY <1>1, <1>2 DEF IdentifyBootSector
  <2>7. c = Candidate(lba, "ntfs", b.sectors + 1, 95)
    BY <1>2, <2>3, <2>4, <2>5, <2>6 DEF IdentifyNtfs
  <2> HIDE DEF c
  <2>8. c.fs = "ntfs" /\ c.sectors = b.sectors + 1
    BY <2>7 DEF Candidate
  <2>9. QED
    BY <2>1, <2>7, <2>8
<1>3. CASE b.magic = "exfat" /\ g = OpenExfat(b)
  <2> DEFINE right == /\ b.magic = "exfat" /\ b.clear
                      /\ b.sector_shift \in 9 .. 12 /\ b.cluster_shift <= 25 - b.sector_shift
                      /\ b.sectors # 0 /\ b.clusters # 0 /\ b.root >= 2
             open == [fs |-> "exfat", first |-> 2, count |-> b.clusters,
                      bytes |-> 2 ^ (b.sector_shift + b.cluster_shift),
                      heap |-> b.heap * 2 ^ b.sector_shift]
  <2>1. g = IF right THEN open ELSE None
    BY <1>3 DEF OpenExfat
  <2>2. open.fs = "exfat"
    OBVIOUS
  <2> HIDE DEF open
  <2>3. right /\ g.fs = "exfat"
    BY <2>1, <2>2
  <2>4. b.sectors \in Nat /\ b.cluster_shift <= 25
    BY <1>3, <2>3 DEF IsBootSector, IsHeader
  <2>5. c = IdentifyExfat(b, lba, total)
    BY <1>1, <1>3 DEF IdentifyBootSector
  <2>6. c = Candidate(lba, "exfat", b.sectors, 95)
    BY <2>3, <2>4, <2>5 DEF IdentifyExfat
  <2> HIDE DEF c
  <2>7. c.fs = "exfat" /\ c.sectors = b.sectors
    BY <2>6 DEF Candidate
  <2>8. QED
    BY <2>3, <2>4, <2>6, <2>7
<1>4. CASE b.magic = "fat" /\ PlausibleBpb(b) /\ g = OpenFat(b)
  <2> DEFINE kind == FatKind((b.sectors - MetadataSectors(b)) \div b.sectors_per_cluster)
             confidence == IF b.declared THEN 90 ELSE 70
  <2>1. b.sectors \in Nat
    BY <1>1, <1>4 DEF IsHeader
  <2>2. g.fs = kind
    BY <1>4 DEF OpenFat
  <2>3. c = IdentifyFat(b, lba, total)
    BY <1>1, <1>4 DEF IdentifyBootSector
  <2>4. c = Candidate(lba, kind, b.sectors, confidence)
    BY <1>4, <2>3 DEF IdentifyFat
  <2> HIDE DEF c, kind, confidence
  <2>5. c.fs = kind /\ c.sectors = b.sectors
    BY <2>4 DEF Candidate
  <2>6. QED
    BY <2>1, <2>2, <2>4, <2>5
<1>5. QED
  BY <1>1, <1>2, <1>3, <1>4

\* So many clusters of so many sectors each fit where they were divided from.
LEMMA ClustersFit ==
  ASSUME NEW n \in Nat, NEW spc \in Nat \ {0}, NEW bps \in Nat, NEW before \in Nat
  PROVE  LET count == n \div spc IN
         /\ count \in Nat
         /\ before * bps + count * (bps * spc) <= (before + n) * bps
<1> DEFINE count == n \div spc
           used == count * spc
<1>1. count \in Nat /\ used \in Nat /\ used <= n
  <2>1. n \div spc \in Nat /\ (n % spc) \in 0 .. spc - 1 /\ n = spc * (n \div spc) + (n % spc)
    BY DivSplits
  <2> DEFINE left == n % spc
  <2>2. left \in Nat /\ count \in Nat /\ n = spc * count + left
    BY <2>1
  <2> HIDE DEF count, left
  <2>3. spc * count = count * spc /\ count * spc \in Nat
    BY <2>2
  <2>4. QED
    BY <2>2, <2>3
<1> HIDE DEF count
<1>2. count * (bps * spc) = bps * used
  BY <1>1
<1> HIDE DEF used
<1>3. bps * used <= bps * n
  BY <1>1, Times
<1>4. (before + n) * bps = before * bps + bps * n
  OBVIOUS
<1>5. before * bps \in Int /\ bps * used \in Int /\ bps * n \in Int
  BY <1>1
<1>6. before * bps + bps * used <= before * bps + bps * n
  BY <1>3, <1>5
<1>7. QED
  BY <1>1, <1>2, <1>4, <1>6 DEF count

\* The clusters of a FAT or an NTFS that was opened lie on the volume, each in
\* one place, and those of a FAT behind its root directory: for every boot sector.
THEOREM ClustersFitTheirVolume ==
  ASSUME NEW b, IsBootSector(b), NEW deep
  PROVE  ClustersAreOnVolume(b, deep)
<1> DEFINE g == OpenVolume(b, deep)
<1> SUFFICES ASSUME g # None, g.fs # "exfat"
             PROVE  /\ g.bytes > 0 /\ g.heap + g.count * g.bytes <= b.sectors * b.bytes_per_sector
                    /\ g.fs # "ntfs" => g.heap >= RootDirOffset(b) + b.root_entries * 32
  BY DEF ClustersAreOnVolume
<1>1. \/ b.magic = "ntfs" /\ g = OpenNtfs(b)
      \/ b.magic = "exfat" /\ g = OpenExfat(b)
      \/ b.magic = "fat" /\ PlausibleBpb(b) /\ g = OpenFat(b)
  BY OpenedBy
<1> HIDE DEF g
<1>2. CASE b.magic = "ntfs" /\ g = OpenNtfs(b)
  <2> DEFINE spc == NtfsClusterSectors(b)
             bps == b.bytes_per_sector
             n == b.sectors
  <2>0. /\ n \in Nat /\ bps \in 256 .. 4096 /\ spc \in Nat /\ spc > 0
        /\ OpenNtfs(b) = [fs |-> "ntfs", first |-> 0, count |-> n \div spc,
                          bytes |-> bps * spc, heap |-> 0]
    <3>1. IsBootSector(b) /\ b.magic = "ntfs" /\ OpenNtfs(b) # None
      BY <1>2
    <3> HIDE DEF g
    <3>2. QED
      BY <3>1, NtfsHasClusters
  <2> HIDE DEF spc, bps, n
  <2>1. /\ n \in Nat /\ bps \in Nat /\ bps > 0 /\ spc \in Nat \ {0}
        /\ g = [fs |-> "ntfs", first |-> 0, count |-> n \div spc, bytes |-> bps * spc, heap |-> 0]
    BY <1>2, <2>0
  <2>2. /\ n \div spc \in Nat
        /\ 0 * bps + (n \div spc) * (bps * spc) <= (0 + n) * bps
    BY <2>1, ClustersFit
  <2>3. bps * spc > 0
    BY <2>1
  <2>4. 0 * bps = 0 /\ (0 + n) * bps = n * bps
    BY <2>1
  <2> DEFINE count == n \div spc
             bytes == bps * spc
             size == count * bytes
  <2>5. g.fs = "ntfs" /\ g.bytes = bytes /\ g.heap = 0 /\ g.count = count
    BY <2>1
  <2>6. size \in Int /\ 0 + size <= n * bps
    BY <2>1, <2>2, <2>4
  <2> HIDE DEF count, bytes
  <2>7. g.heap + g.count * g.bytes <= n * bps
    BY <2>5, <2>6
  <2>8. g.bytes > 0
    BY <2>3, <2>5 DEF bytes
  <2>9. QED
    BY <2>5, <2>7, <2>8 DEF n, bps
<1>3. CASE b.magic = "exfat" /\ g = OpenExfat(b)
  <2> DEFINE open == [fs |-> "exfat", first |-> 2, count |-> b.clusters,
                      bytes |-> 2 ^ (b.sector_shift + b.cluster_shift),
                      heap |-> b.heap * 2 ^ b.sector_shift]
  <2>1. g = None \/ g = open
    BY <1>3 DEF OpenExfat
  <2>2. open.fs = "exfat"
    OBVIOUS
  <2>3. QED
    BY <2>1, <2>2
<1>4. CASE b.magic = "fat" /\ PlausibleBpb(b) /\ g = OpenFat(b)
  <2> DEFINE spc == b.sectors_per_cluster
             bps == b.bytes_per_sector
             meta == MetadataSectors(b)
             n == b.sectors - meta
             fats == b.reserved + b.num_fats * b.fat_size
             root == b.root_entries * 32
             tail == RoundUp(root, bps)
             kind == FatKind(n \div spc)
  <2>1. /\ bps \in Nat /\ bps > 0 /\ spc \in Nat \ {0} /\ meta \in Nat /\ n \in Nat
        /\ b.sectors \in Nat /\ b.sectors = meta + n
    <3>1. IsHeader(b) /\ b # None
      BY DEF IsBootSector
    <3>2. /\ bps \in Nat /\ bps > 0 /\ spc \in Nat /\ spc > 0 /\ meta \in Nat
          /\ b.sectors \in Nat /\ meta <= b.sectors
      BY <1>4, <3>1, FatHasClusters
    <3> HIDE DEF meta
    <3>3. QED
      BY <3>2
  <2>2. fats \in Nat /\ root \in Nat
    BY <1>4 DEF IsBootSector, IsHeader
  <2>3. FirstDataSector(b) = meta /\ meta = fats + tail /\ RootDirOffset(b) = fats * bps
    BY DEF FirstDataSector, MetadataSectors, RootDirOffset
  <2>4. g = [fs |-> kind, first |-> 2, count |-> n \div spc, bytes |-> bps * spc,
             heap |-> FirstDataSector(b) * bps]
    BY <1>4 DEF OpenFat
  <2>5. kind # "ntfs"
    BY FatIsOneOfThree
  <2> HIDE DEF spc, bps, meta, n, fats, root, kind, tail
  <2>6. tail \in Nat /\ tail * bps >= root
    BY <2>1, <2>2, RoundedUp DEF tail
  <2>7. n \div spc \in Nat /\ meta * bps + (n \div spc) * (bps * spc) <= (meta + n) * bps
    BY <2>1, ClustersFit
  <2> DEFINE count == n \div spc
             bytes == bps * spc
  <2>8. g.fs = kind /\ g.bytes = bytes /\ g.heap = meta * bps /\ g.count = count
    BY <2>3, <2>4
  <2>9. bytes > 0
    BY <2>1
  <2>10. meta * bps >= fats * bps + root
    <3>1. (fats + tail) * bps = fats * bps + tail * bps
      BY <2>1, <2>2, <2>6
    <3>2. fats * bps \in Int /\ tail * bps \in Int
      BY <2>1, <2>2, <2>6
    <3>3. fats * bps + tail * bps >= fats * bps + root
      BY <2>2, <2>6, <3>2
    <3>4. QED
      BY <2>3, <3>1, <3>3
  <2> HIDE DEF count, bytes
  <2>11. meta * bps + count * bytes <= b.sectors * bps
    BY <2>1, <2>7 DEF count, bytes
  <2>12. g.bytes > 0 /\ g.heap + g.count * g.bytes <= b.sectors * bps
    BY <2>8, <2>9, <2>11
  <2>13. g.heap >= RootDirOffset(b) + root
    BY <2>3, <2>8, <2>10
  <2>14. QED
    BY <2>12, <2>13 DEF bps, root
<1>5. QED
  BY <1>1, <1>2, <1>3, <1>4

=============================================================================
