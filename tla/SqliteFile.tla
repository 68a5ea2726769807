----------------------------- MODULE SqliteFile -----------------------------
(* SQLite: the header, and the walk over the pages of a database that is    *)
(* all there.  A page is a b-tree page (its children, its cells' overflow   *)
(* chains, the roots its schema rows name), an overflow page, a freelist    *)
(* trunk, or something no structure should point at.                        *)
EXTENDS Outcome, SequencesExt

Damage(page) == [damage |-> page]
IsDamage(w) == "damage" \in DOMAIN w

(* A page may be claimed once: two structures never share one.              *)
Claim(d, w, from, n) ==
  CASE IsDamage(w) -> w
    [] n \notin 1..d.page_count \/ n \in w.visited -> Damage(from)
    [] OTHER -> [w EXCEPT !.visited = @ \cup {n}]

RECURSIVE Overflow(_, _, _, _, _)
Overflow(d, w, from, n, remaining) ==
  LET claimed == Claim(d, w, from, n)
      next == d.pages[n].next IN
  CASE remaining = 0 \/ IsDamage(w) -> w
    [] IsDamage(claimed) -> claimed
    [] (remaining = 1) # (next = 0) -> Damage(n)
    [] OTHER -> Overflow(d, claimed, n, next, remaining - 1)

(* The cells of a page in order, each with an overflow chain or none.       *)
RECURSIVE WalkCells(_, _, _, _)
WalkCells(d, w, n, i) ==
  LET page == d.pages[n] IN
  IF IsDamage(w) \/ i > Len(page.overflows) THEN w
  ELSE LET cell == page.overflows[i] IN
       WalkCells(d, Overflow(d, w, n, cell.first, cell.pages), n, i + 1)

(* A tree is walked with a stack: the last child first.                     *)
RECURSIVE Tree(_, _, _)
Tree(d, w, stack) ==
  IF IsDamage(w) \/ stack = <<>> THEN w
  ELSE LET top == stack[Len(stack)]
           claimed == IF top.root THEN w ELSE Claim(d, w, top.from, top.page)
           page == d.pages[top.page]
           children == [k \in DOMAIN page.children |->
                          [page |-> page.children[k], from |-> top.page, root |-> FALSE]] IN
       CASE IsDamage(claimed) -> claimed
         [] page.kind # "tree" \/ ~page.sound -> Damage(top.page)
         [] OTHER -> LET celled == WalkCells(d, claimed, top.page, 1) IN
                     IF IsDamage(celled) THEN celled
                     ELSE Tree(d, [celled EXCEPT !.roots = @ \o page.roots],
                               SubSeq(stack, 1, Len(stack) - 1) \o children)

RECURSIVE Trees(_, _, _, _)
Trees(d, w, roots, k) ==
  IF IsDamage(w) \/ k > Len(roots) THEN w
  ELSE LET claimed == Claim(d, w, 1, roots[k]) IN
       IF IsDamage(claimed) THEN claimed
       ELSE Trees(d, Tree(d, claimed, <<[page |-> roots[k], from |-> 1, root |-> TRUE]>>),
                  roots, k + 1)

RECURSIVE FreeList(_, _, _, _, _)
FreeList(d, w, from, n, counted) ==
  IF IsDamage(w) THEN w
  ELSE IF n = 0
  THEN IF counted = d.free_pages THEN w ELSE Damage(Max({d.trunk, 1}))
  ELSE LET claimed == Claim(d, w, from, n)
           page == d.pages[n]
           leaves == FoldLeft(LAMBDA v, leaf : Claim(d, v, n, leaf), claimed, page.leaves) IN
       CASE IsDamage(claimed) -> claimed
         [] ~page.sound -> Damage(n)
         [] OTHER -> FreeList(d, leaves, n, page.next, counted + 1 + Len(page.leaves))

(* The pages no tree reaches: the lock byte's page and the pointer maps.    *)
Walk(d) ==
  LET schema == Tree(d, [visited |-> d.skipped \cup {1}, roots |-> <<>>],
                     <<[page |-> 1, from |-> 1, root |-> TRUE]>>)
      trees == IF IsDamage(schema) THEN schema ELSE Trees(d, schema, schema.roots, 1) IN
  FreeList(d, trees, 1, d.trunk, 0)

(* The header.  With a size it vouches for the pages are walked; without,   *)
(* the length is a floor of whole pages.  A window of 100 bytes holds the   *)
(* header and not the byte of page 1 that is read with it.                  *)
SqliteFile(d) ==
  LET declared == d.page_size * d.page_count
      whole == (d.have \div d.page_size) * d.page_size
      walk == Walk(d) IN
  CASE d.have < 100 -> Truncated(Reject)
    [] ~d.fields -> Reject
    [] d.have = 100 -> [Reject EXCEPT !.status = "panicked"]
    [] d.sized /\ (d.free_pages >= d.page_count \/ d.trunk > d.page_count) -> Reject
    [] ~d.sized -> IF whole = 0 THEN Reject ELSE Partial(whole)
    [] declared > d.have -> Truncated(Partial(whole))
    [] IsDamage(walk) -> Established(Partial(declared))
    [] (d.trunk = 0) # (d.free_pages = 0) -> Established(Partial(declared))
    [] OTHER -> Valid(declared)

----------------------------------------------------------------------------
(* Properties. *)

(* The pages a page names, one pointer each, by what it is taken for: a     *)
(* free page is not read, so what is left on it names nothing.              *)
Pointers(d, n, role) ==
  LET page == d.pages[n]
      In(names, what) == {<<n, role, k, names[k], what>> : k \in DOMAIN names}
      next == IF page.next = 0 THEN <<>> ELSE <<page.next>> IN
  CASE role = "tree" ->
         In(page.children \o page.roots, "tree")
           \cup In([k \in DOMAIN page.overflows |-> page.overflows[k].first], "overflow")
    [] role = "trunk" -> In(next, "trunk") \cup In(page.leaves, "leaf")
    [] role = "overflow" -> In(next, "overflow")
    [] OTHER -> {}

Targets(pointers) == {p[4] : p \in pointers}

RECURSIVE Named(_, _)
Named(d, pointers) ==
  LET more == pointers \cup UNION {Pointers(d, p[4], p[5]) : p \in pointers} IN
  IF more = pointers THEN pointers ELSE Named(d, more)

(* In a database accepted as whole no page is named by two structures, or   *)
(* is page 1, the lock byte's page or a pointer map named by one.           *)
NoPageIsShared(d) ==
  SqliteFile(d).status = "valid" =>
    LET trunk == IF d.trunk = 0 THEN {} ELSE {<<0, "header", 1, d.trunk, "trunk">>}
        named == Named(d, trunk \cup Pointers(d, 1, "tree")) IN
    /\ \A p, q \in named : p[4] = q[4] => p = q
    /\ Targets(named) \cap ({1} \cup d.skipped) = {}

=============================================================================
