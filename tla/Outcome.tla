------------------------------ MODULE Outcome ------------------------------
(* What a validator of rc-carve concludes about a candidate, and what a     *)
(* conclusion promises.  A validator is handed a window that starts at the  *)
(* candidate's first byte; the modules of the formats describe the window   *)
(* by the parts of a file, what each declares, and "have", the number of    *)
(* bytes the window holds.                                                  *)
EXTENDS Integers, Sequences, FiniteSetsExt

Valid(length) ==
  [status |-> "valid", length |-> length, established |-> TRUE, ran_out |-> FALSE]

Partial(length) ==
  [status |-> "partial", length |-> length, established |-> FALSE, ran_out |-> FALSE]

Reject ==
  [status |-> "rejected", length |-> 0, established |-> FALSE, ran_out |-> FALSE]

Truncated(o) == [o EXCEPT !.ran_out = TRUE]

Established(o) == [o EXCEPT !.established = TRUE]

(* A header that states the size: the tail of most of the validators.       *)
Declared(total, have) ==
  IF total > have THEN Truncated(Established(Partial(total))) ELSE Valid(total)

Sum(sizes) == FoldSet(LAMBDA k, sum : sizes[k] + sum, 0, DOMAIN sizes)

----------------------------------------------------------------------------
(* Properties.  "Of" is the outcome of the window that holds the first n    *)
(* bytes of the disk from the start of a file of "size" bytes on.           *)

(* Whatever follows it in the window, a whole file is accepted with exactly *)
(* its own length; a cut one never counts as whole, and a length said to be *)
(* the real one is (from the window on that holds the header, "header").    *)
ExtentIsExact(Of(_), size, header, windows) ==
  \A n \in windows :
    LET o == Of(n) IN
    /\ n >= size => o.status = "valid" /\ o.length = size
    /\ n < size => o.status # "valid"
    /\ n \in header..size /\ o.established => o.length = size

(* A length that is a floor lies inside the data.                           *)
FloorIsHeld(Of(_), windows) ==
  \A n \in windows : Of(n).established \/ Of(n).length <= n

(* More of the file never takes back what less of it had established.       *)
FloorOnlyGrows(Of(_), size, windows) ==
  LET length == [n \in {w \in windows : w <= size} |-> Of(n).length] IN
  \A k, n \in DOMAIN length : k <= n => length[k] <= length[n]

(* A file cut behind its header is said to be cut, not to be damaged.       *)
CutIsSaid(Of(_), size, header, windows) ==
  \A n \in windows : n \in header..size - 1 => Of(n).ran_out

=============================================================================
