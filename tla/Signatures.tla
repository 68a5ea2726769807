----------------------------- MODULE Signatures -----------------------------
(* rc-carve: the signature database and the prefilter, the search for one   *)
(* byte of each header that decides where headers are compared at all.      *)
EXTENDS Lists, FiniteSetsExt, SequencesExt

CONSTANTS Common,           \* bytes that fill media, dear to search for
          MaxNeedles        \* most bytes searched for with memchr

(* A signature: header bytes, the mask of which bytes are fixed (TRUE), and *)
(* the header's offset from the start of the file.                          *)
HeaderEnd(s) == s.offset + Len(s.header)

Matches(s, hay, start) ==
  /\ start + HeaderEnd(s) <= Len(hay)
  /\ \A k \in DOMAIN s.header :
       s.fixed[k] => hay[start + s.offset + k] = s.header[k]

(* A database is refused unless its names differ and every header is there  *)
(* with a mask of its length and a bound on the file's size.                *)
Loads(db) ==
  /\ db # <<>>
  /\ \A i, j \in DOMAIN db : db[i].id = db[j].id => i = j
  /\ \A i \in DOMAIN db : /\ db[i].header # <<>>
                          /\ Len(db[i].fixed) = Len(db[i].header)
                          /\ db[i].max_size > 0

Commonness(b) == IF b \in Common THEN 1000 ELSE 1

(* The offset within the header forgotten: the place in the file.           *)
RarestUnplaced(s) ==
  LET fixed == {k \in DOMAIN s.header : s.fixed[k]} IN
  IF fixed = {} THEN {} ELSE {[byte |-> s.header[Min(fixed)], at |-> s.offset]}

(* The byte searched for: the rarest fixed one, the first of its equals.    *)
Rarest(s) ==
  LET fixed == {k \in DOMAIN s.header : s.fixed[k]}
      least == Min({Commonness(s.header[k]) : k \in fixed})
      k == Min({j \in fixed : Commonness(s.header[j]) = least}) IN
  IF fixed = {} THEN {} ELSE {[byte |-> s.header[k], at |-> s.offset + k - 1]}

Needles(db) == UNION {{r.byte : r \in Rarest(db[i])} : i \in DOMAIN db}

(* Signatures without a byte to search for: they have all offsets looked at. *)
Unfiltered(db) == {i \in DOMAIN db : Rarest(db[i]) = {}}

(* How hits are found; only the order of the hits differs between the ways. *)
Strategy(db) ==
  LET n == Cardinality(Needles(db)) IN
  IF Unfiltered(db) # {} \/ n = 0 THEN "everything"
  ELSE IF n <= 3 THEN "memchr"
  ELSE IF n <= MaxNeedles THEN "multi" ELSE "table"

Upward(places) == InOrder(places, Ascending(places))

Chunks(bytes) ==
  LET v == Upward(bytes)  passes == (Len(v) + 2) \div 3 IN
  [p \in 1..passes |-> {v[k] : k \in {k \in DOMAIN v : (k + 2) \div 3 = p}}]

HitsOf(hay, bytes) == Upward({p \in 1..Len(hay) : hay[p] \in bytes})

ForEachHit(db, hay) ==
  CASE Strategy(db) = "everything" -> Upward(1..Len(hay))
    [] Strategy(db) = "multi" ->
         LET chunks == Chunks(Needles(db)) IN
         FlattenSeq([p \in DOMAIN chunks |-> HitsOf(hay, chunks[p])])
    [] OTHER -> HitsOf(hay, Needles(db))

(* The signatures that a hit can belong to, each with its file's start.     *)
CandidatesAt(db, hay, hit) ==
  LET by_byte == UNION {{[sig |-> i, start |-> hit - 1 - r.at] :
                           r \in {q \in Rarest(db[i]) : q.byte = hay[hit]}} : i \in DOMAIN db}
      unfiltered == {[sig |-> i, start |-> hit - 1 - db[i].offset] : i \in Unfiltered(db)} IN
  {c \in by_byte \cup unfiltered : c.start >= 0 /\ Matches(db[c.sig], hay, c.start)}

MaxHeaderSpan(db) == Max({0} \cup {HeaderEnd(db[i]) : i \in DOMAIN db})

(* Mutant: blocks end where the next one begins.                            *)
OverlapNone(db) == 0

(* The bytes read past a block.                                             *)
OverlapOf(db) == Max({MaxHeaderSpan(db) - 1, 0})

(* scan_segment's worker, of the block of "owned" bytes from "from" on: as  *)
(* many times as it is claimed, every signature in it.                      *)
ClaimsOf(db, hay, from, owned) ==
  LET block == SubSeq(hay, from + 1, Min({from + owned + OverlapOf(db), Len(hay)}))
      hits == ForEachHit(db, block)
      Of(k) == {c \in CandidatesAt(db, block, hits[k]) : c.start < owned} IN
  FlattenSeq([k \in DOMAIN hits |->
    SetToSeq({[sig |-> c.sig, start |-> from + c.start] : c \in Of(k)})])

----------------------------------------------------------------------------
(* Properties. *)

(* However the range is cut into blocks, every place a header matches is    *)
(* found through the hits, and through one hit of one block only: nothing   *)
(* is lost to the prefilter or to a boundary and nothing is counted twice.  *)
PrefilterLosesNothing(db, hay) ==
  Loads(db) =>
    \A size \in DOMAIN hay :
      LET blocks == (Len(hay) + size - 1) \div size
          claims == FlattenSeq([b \in 1..blocks |-> ClaimsOf(db, hay, (b - 1) * size, size)]) IN
      /\ Range(claims) = {c \in [sig : DOMAIN db, start : 0..Len(hay)] :
                            Matches(db[c.sig], hay, c.start)}
      /\ IsInjective(claims)

=============================================================================
