------------------------------ MODULE Mp4File ------------------------------
(* MP4: a row of top-level boxes, and behind it the check that every H.264  *)
(* sample divides into NAL units.  A track names its samples by runs of     *)
(* samples per chunk, sizes and chunk places, as the index in "moov" does;  *)
(* "width" is the length field's, from avcC, and "bytes" the media's bytes  *)
(* in the window, wherever they come from.                                  *)
EXTENDS Outcome, SequencesExt

CONSTANT MaxSamples   \* MAX_SAMPLES

(* NAL units: a length of "width" bytes and a unit whose first byte has its *)
(* top bit clear.  They must tile the sample exactly.                       *)
RECURSIVE TilesFrom(_, _, _)
TilesFrom(sample, p, width) ==
  LET length == FoldLeft(LAMBDA v, b : 256 * v + b, 0, SubSeq(sample, p + 1, p + width))
      next == p + width + length IN
  \/ p = Len(sample)
  \/ /\ p + width < Len(sample)
     /\ length > 0
     /\ sample[p + width + 1] < 128
     /\ next <= Len(sample)
     /\ TilesFrom(sample, next, width)

(* A mutant: what is too short for a length at the sample's end is ignored. *)
TilesLoosely(sample, width) ==
  \E n \in 0..Min({width, Len(sample)}) :
    TilesFrom(SubSeq(sample, 1, Len(sample) - n), 0, width)

Tiles(sample, width) == TilesFrom(sample, 0, width)

(* The samples of a track, as the index places them: entry e of "runs" is   *)
(* in force from its first chunk until the next entry's.                    *)
PerChunk(track, k) ==
  LET RECURSIVE Entry(_)
      Entry(e) == IF e < Len(track.runs) /\ track.runs[e + 1].first <= k
                  THEN Entry(e + 1) ELSE e IN
  track.runs[Entry(1)].per

SamplesOf(track) ==
  LET Before(k) == Sum([j \in 1..k - 1 |-> PerChunk(track, j)])
      InChunk(k) == {s \in DOMAIN track.sizes : s \in Before(k) + 1..Before(k) + PerChunk(track, k)}
      Start(k, s) == track.chunks[k] +
                       FoldSet(LAMBDA j, sum : track.sizes[j] + sum, 0,
                               {j \in InChunk(k) : j < s}) IN
  FlattenSeq([k \in DOMAIN track.chunks |->
    [i \in 1..Cardinality(InChunk(k)) |->
       LET s == Before(k) + i IN
       [at |-> Start(k, s), end |-> Start(k, s) + track.sizes[s], width |-> track.width]]])

(* The samples are checked in the order of the tracks, MaxSamples of them;  *)
(* the first one that does not tile, or ends past the data, ends the check. *)
(* The inside of a unit is not looked at.                                   *)
CheckInOrder(d, samples) ==
  LET Content(s) == [k \in 1..s.end - s.at |-> d.bytes[s.at + k - 1]]
      checked == 1..Min({Len(samples), MaxSamples})
      stops == {k \in checked : \/ samples[k].end > d.have
                                \/ ~Tiles(Content(samples[k]), samples[k].width)}
      good == IF stops = {} THEN checked ELSE 1..Min(stops) - 1 IN
  IF stops # {} /\ samples[Min(stops)].end <= d.have
    THEN [kind |-> "spliced", offset |-> samples[Min(stops)].at]
    ELSE [kind |-> "checked", verified |-> Max({0} \cup {samples[k].end : k \in good})]
CheckSamples(d) ==
  LET avc == SelectSeq(d.tracks, LAMBDA t : t.avc) IN
  IF avc = <<>> THEN [kind |-> "not_applicable"]
  ELSE CheckInOrder(d, FlattenSeq([t \in DOMAIN avc |-> SamplesOf(avc[t])]))

RECURSIVE BoxesFrom(_, _, _, _)
BoxesFrom(d, k, at, seen) ==
  LET b == d.boxes[k]
      size == IF b.rest THEN d.have - at ELSE b.size
      Stops(why, boxes) == [stop |-> why, at |-> at, boxes |-> boxes, seen |-> seen] IN
  CASE at >= d.have -> Stops("end", k - 1)
    [] at + 8 > d.have -> Stops("cut", k - 1)
    [] k > Len(d.boxes) \/ b.kind = "unprintable" -> Stops("end", k - 1)
    [] b.large /\ at + 16 > d.have -> Stops("cut", k - 1)
    [] size < (IF b.large THEN 16 ELSE 8) -> Stops("end", k - 1)
    [] at + size > d.have -> [Stops("cut", k) EXCEPT !.seen = @ \cup {b.kind}]
    [] OTHER -> BoxesFrom(d, k + 1, at + size,
                          seen \cup {b.kind} \cup
                            (IF b.kind = "moov" THEN {"index"} ELSE {}))

Verdict(d, walk, check) ==
  CASE d.have < 16 -> Truncated(Reject)
    [] ~d.ftyp -> Reject
    [] walk.boxes < 2 -> IF walk.stop = "cut" THEN Truncated(Reject) ELSE Reject
    [] walk.stop = "cut" ->
         CASE check.kind = "spliced" -> Partial(check.offset)
           [] check.kind = "checked" /\ check.verified > 0 ->
                Truncated(Partial(check.verified))
           [] OTHER -> Truncated(Partial(Max({walk.at, 1})))
    [] ~({"moov", "mdat"} \subseteq walk.seen) -> Partial(walk.at)
    [] check.kind = "spliced" -> Partial(check.offset)
    [] OTHER -> Valid(walk.at)

Mp4(d) ==
  LET Checked(walk) == Verdict(d, walk, IF "index" \in walk.seen THEN CheckSamples(d)
                                        ELSE [kind |-> "not_applicable"]) IN
  Checked(BoxesFrom(d, 1, 0, {}))

----------------------------------------------------------------------------
(* Properties. *)

(* A sample can be cut into units, each as long as the field before it says.*)
Divides(d, s) ==
  LET Field(p) == FoldLeft(LAMBDA v, b : 256 * v + b, 0,
                           [k \in 1..s.width |-> d.bytes[p + k - 1]]) IN
  \E cuts \in SUBSET (s.at..s.end) :
    /\ {s.at, s.end} \subseteq cuts
    /\ \A p \in cuts \ {s.end} :
         LET next == Min({q \in cuts : q > p}) IN
         /\ next > p + s.width
         /\ Field(p) = next - p - s.width
         /\ d.bytes[p + s.width] < 128

(* The length fields and first bytes of the units the file was written with.*)
Heads(s, units) ==
  LET At(u) == s.at + Sum([j \in 1..u - 1 |-> s.width + units[j]]) IN
  UNION {At(u)..At(u) + s.width : u \in DOMAIN units}

(* Of a file whose index and samples are all there: other data inside the   *)
(* units goes unseen; a byte that can begin no unit, over a field or a first*)
(* byte of one, makes the file end before the first such sample; and with   *)
(* other bytes it is whole just when every sample can still be cut.         *)
SpliceIsSeen(d) ==
  LET avc == SelectSeq(d.tracks, LAMBDA t : t.avc)
      Marked(t) == LET s == SamplesOf(t) IN
                   [k \in DOMAIN s |-> s[k] @@ [heads |-> Heads(s[k], t.units[k])]]
      samples == FlattenSeq([t \in DOMAIN avc |-> Marked(avc[t])])
      checked == 1..Min({Len(samples), MaxSamples})
      hit == {k \in checked : samples[k].heads \cap d.foreign # {}}
      Seen(o) == /\ hit = {} => o.status = "valid"
                 /\ hit # {} /\ d.fill >= 128
                      => o.status = "partial" /\ o.length = samples[Min(hit)].at
                 /\ o.status = "valid" <=> \A k \in checked : Divides(d, samples[k]) IN
  /\ "index" \in BoxesFrom(d, 1, 0, {}).seen
  /\ \A k \in DOMAIN samples : samples[k].end <= d.have
  => Seen(Mp4(d))

(* The units tile a sample only where a unit ends.                          *)
UnitsTile(units, width) ==
  LET Unit(u) == [k \in 1..width - 1 |-> 0] \o <<u.length>>
                   \o [k \in 1..u.length |-> IF k = 1 /\ u.bad THEN 128 ELSE 1]
      sample == FlattenSeq([k \in DOMAIN units |-> Unit(units[k])])
      ends == {Sum([j \in 1..k |-> width + units[j].length]) : k \in 0..Len(units)} IN
  \A n \in 0..Len(sample) :
    Tiles(SubSeq(sample, 1, n), width) <=>
      n \in ends /\ \A k \in DOMAIN units :
                      units[k].bad => Sum([j \in 1..k - 1 |-> width + units[j].length]) >= n

=============================================================================
