------------------------------ MODULE JpegFile ------------------------------
(* JPEG: a chain of marker segments, and the entropy-coded scan, decoded    *)
(* unit by unit (MCU) where the frame is sequential and Huffman-coded, and  *)
(* walked byte by byte otherwise.  A scan is a row of items: an MCU of some *)
(* bytes, with what is left of the last one all 1s ("ones") or not, a       *)
(* restart marker, a code that is in no table, a value no image of this     *)
(* kind holds.  Any other item is a marker and ends it.                     *)
EXTENDS Outcome

CONSTANT MaxBytesPerBlock

Size(item) == IF item.kind \in {"restart", "marker"} THEN 2 ELSE item.bytes

IsMarker(item) == item.kind \in {"restart", "marker"}

Complete(s) == [result |-> "complete", at |-> s.at, k |-> s.k]
CutShort(s) == [result |-> "truncated", at |-> s.verified, k |-> s.k]
Broken(s) == [result |-> "broken", at |-> s.verified, k |-> s.k]

(* One step of the decoder over the items of the window; "verified" is the  *)
(* end of the last unit decoded, "expect" the restart marker that is due.   *)
(* Where a marker has to follow, the bits before it are 1s.                 *)
RECURSIVE DecodeFrom(_, _)
DecodeFrom(d, s) ==
  LET item == d.scan[s.k]
      end == s.at + Size(item)
      whole == s.mcus = d.total
      due == ~whole /\ d.interval > 0 /\ s.since = d.interval IN
  CASE (whole \/ due) /\ ~s.ones -> Broken(s)
    [] s.k > Len(d.scan) -> CutShort(s)
    [] IsMarker(item) /\ end > d.have -> CutShort(s)
    [] s.at >= d.have -> CutShort(s)
    [] whole -> IF IsMarker(item) THEN Complete(s) ELSE Broken(s)
    [] due -> IF item.kind = "restart" /\ item.number = s.expect
              THEN DecodeFrom(d, [s EXCEPT !.k = @ + 1, !.at = end, !.since = 0,
                                           !.expect = (@ + 1) % 8, !.verified = end])
              ELSE Broken(s)
    [] IsMarker(item) -> Broken(s)
    [] end > d.have \/ item.kind = "no_code" -> CutShort(s)
    [] item.kind = "no_value" -> Broken(s)
    [] OTHER -> DecodeFrom(d, [s EXCEPT !.k = @ + 1, !.at = end, !.mcus = @ + 1,
                                        !.since = @ + 1, !.verified = end, !.ones = item.ones])

(* Without decoding: only the restart markers' order, and the most bytes    *)
(* that an interval of them can hold, speak against the data.               *)
RECURSIVE WalkFrom(_, _)
WalkFrom(d, s) ==
  LET item == d.scan[s.k]
      end == s.at + Size(item)
      limit == d.interval * d.blocks * MaxBytesPerBlock
      run == Min({end, d.have - 1}) - s.start IN
  CASE s.k > Len(d.scan) \/ s.at + 1 >= d.have -> CutShort(s)
    [] ~IsMarker(item) /\ d.interval > 0 /\ run > limit -> Broken(s)
    [] ~IsMarker(item) -> WalkFrom(d, [s EXCEPT !.k = @ + 1, !.at = end])
    [] item.kind = "marker" -> Complete(s)
    [] item.number # s.expect -> Broken(s)
    [] OTHER -> WalkFrom(d, [s EXCEPT !.k = @ + 1, !.at = end, !.verified = end,
                                      !.start = end, !.expect = (@ + 1) % 8])

Scan(d, at, seen) ==
  LET s == [k |-> 1, at |-> at, mcus |-> 0, since |-> 0, expect |-> 0,
            verified |-> at, start |-> at, ones |-> TRUE] IN
  IF "SOF" \in seen /\ d.sequential /\ d.tables THEN DecodeFrom(d, s) ELSE WalkFrom(d, s)

(* Restart markers after the last unit stand alone between segments.        *)
RECURSIVE After(_, _)
After(d, s) ==
  IF s.k < Len(d.scan) /\ d.scan[s.k].kind = "restart"
  THEN After(d, [s EXCEPT !.k = @ + 1, !.at = @ + 2])
  ELSE [s EXCEPT !.result = IF s.k = Len(d.scan) THEN "complete" ELSE "junk"]

(* The segments: each has a marker and, but for the markers that stand      *)
(* alone, a length; a frame header and a scan make it an image.             *)
RECURSIVE SegmentsFrom(_, _, _, _)
SegmentsFrom(d, k, at, seen) ==
  LET segment == d.segments[k]
      end == at + 2 + segment.length
      image == {"SOF", "SOS"} \subseteq seen
      Ends(o) == IF image THEN o ELSE [Reject EXCEPT !.ran_out = o.ran_out]
      scan == Scan(d, end, seen)
      after == After(d, scan)
      verified == Max({scan.at, end}) IN
  CASE k > Len(d.segments) \/ at + 2 > d.have -> Ends(Truncated(Partial(at)))
    [] segment.kind = "junk" -> Ends(Partial(at))
    [] segment.kind = "SOI" -> Ends(Partial(at + 2))
    [] segment.kind = "EOI" -> IF image THEN Valid(at + 2) ELSE Reject
    [] at + 4 > d.have -> Ends(Truncated(Partial(at)))
    [] segment.length < 2 -> Ends(Partial(at + 2))
    [] end > d.have -> Ends(Truncated(Partial(at)))
    [] segment.kind = "SOF" /\ ~d.fields -> Reject
    [] segment.kind # "SOS" -> SegmentsFrom(d, k + 1, end, seen \cup {segment.kind})
    [] scan.result = "complete" ->
         IF after.result = "complete"
         THEN SegmentsFrom(d, k + 1, after.at, seen \cup {"SOS"})
         ELSE IF "SOF" \in seen THEN Partial(after.at) ELSE Reject
    [] scan.result = "truncated" ->
         IF "SOF" \in seen THEN Truncated(Partial(verified)) ELSE Truncated(Reject)
    [] OTHER -> Partial(verified)

Jpeg(d) == IF d.have < 4 THEN Truncated(Reject) ELSE SegmentsFrom(d, 1, 2, {})

JpegSize(d) ==
  2 + Sum([k \in DOMAIN d.segments |->
             IF d.segments[k].kind = "EOI" THEN 2 ELSE 2 + d.segments[k].length])
    + Sum([k \in 1..Len(d.scan) - 1 |-> Size(d.scan[k])])

----------------------------------------------------------------------------
(* Properties. *)

(* What the frame calls for: every unit, with the restart markers due, and  *)
(* then a marker (restart markers before it are skipped), each behind 1s.   *)
IsTheFrame(d) ==
  LET restarts == IF d.interval = 0 THEN 0 ELSE (d.total - 1) \div d.interval
      last == d.total + restarts
      Due(k) == d.interval > 0 /\ k % (d.interval + 1) = 0 IN
  /\ Len(d.scan) > last
  /\ d.scan[last].ones
  /\ \A k \in last + 1..Len(d.scan) : IsMarker(d.scan[k])
  /\ \A k \in 1..last :
       IF Due(k) THEN /\ d.scan[k].kind = "restart"
                      /\ d.scan[k].number = (k \div (d.interval + 1) - 1) % 8
                      /\ d.scan[k - 1].ones
                 ELSE d.scan[k].kind = "mcu"

(* A decoded file counts as whole only if its scan is what the frame calls  *)
(* for: data added, dropped or moved within it is seen, and what is vouched *)
(* for ends where the frame's items stop.                                   *)
NothingIsInserted(d) == Jpeg(d).status = "valid" => IsTheFrame(d)

=============================================================================
