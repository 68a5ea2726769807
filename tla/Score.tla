------------------------------- MODULE Score -------------------------------
(* rc-score: the evidence gathered about a listed file, and the rating it   *)
(* is given.  The content of a file is a row of clusters; of a cluster what *)
(* matters is whether it can be read, whether it is all zeros, one byte a   *)
(* format cannot repeat, or no text, and whether a live file holds it.      *)
EXTENDS Integers, Sequences, FiniteSetsExt

CONSTANTS NoCluster,        \* a cluster of a run with no place on the disk
          ClusterBytes

(* rules.json.                                                              *)
Caps == [trimmed |-> 0, header_lost |-> 30, half_or_more_lost |-> 40,
         clusters_lost |-> 75, damage_unlocated |-> 75,
         unverified_after_break |-> 80, truncated |-> 80,
         location_guessed |-> 70, location_unknown |-> 20]

Penalties == [path_untrusted |-> 2, validated_prefix |-> 0, no_structural_check |-> 0]

GreenMin == 90
YellowMin == 45

(* The rules that fire for a set of inputs.                                 *)
LossRule(i) ==
  IF i.validation = "header_rejected" \/ (i.clusters > 0 /\ 0 \in i.lost) THEN {"header_lost"}
  ELSE IF i.clusters > 0 /\ 2 * Cardinality(i.lost) >= i.clusters THEN {"half_or_more_lost"}
  ELSE IF i.lost # {} THEN {"clusters_lost"} ELSE {}

ValidationRule(i) ==
  CASE i.validation = "broken" /\ i.at = {} -> {"damage_unlocated"}
    [] i.validation = "broken" /\ (\E k \in i.at : k + 1 < i.clusters) ->
         {"unverified_after_break"}
    [] i.validation = "truncated" -> {"truncated"}
    [] i.validation = "validated_prefix" -> {"validated_prefix"}
    [] i.validation = "no_validator" -> {"no_structural_check"}
    [] OTHER -> {}

Fired(i) ==
  (IF i.trim /\ i.all_zero /\ i.size > 0 THEN {"trimmed"} ELSE {})
    \cup LossRule(i) \cup ValidationRule(i)
    \cup (IF i.location = "first_cluster" THEN {"location_guessed"} ELSE {})
    \cup (IF i.location = "unknown" THEN {"location_unknown"} ELSE {})
    \cup (IF i.path_trusted THEN {} ELSE {"path_untrusted"})

Value(i) ==
  LET penalty == FoldSet(LAMBDA r, sum : Penalties[r] + sum, 0,
                         Fired(i) \cap DOMAIN Penalties) IN
  Min({100 - penalty} \cup {Caps[r] : r \in Fired(i) \cap DOMAIN Caps})

Band(value) ==
  IF value >= GreenMin THEN "green" ELSE IF value >= YellowMin THEN "yellow" ELSE "red"

(* The clusters live files hold: merged ranges, searched by halves.         *)
Merged(runs) ==
  LET cells == UNION {r.start..r.start + r.count - 1 : r \in runs}
      starts == {c \in cells : c - 1 \notin cells} IN
  {<<s, Min({e \in s + 1..Max(cells) + 1 : e \notin cells})>> : s \in starts}

(* A cluster found in the range before its own.                             *)
OccupiedBelow(ranges, cluster) ==
  \E r \in ranges : r[1] < cluster /\ cluster < r[2]

Occupied(ranges, cluster) ==
  LET before == {r \in ranges : r[1] <= cluster} IN
  before # {} /\ \E r \in before : r[1] = Max({q[1] : q \in before}) /\ cluster < r[2]

(* The evidence.                                                            *)
Needed(e) == (e.size + ClusterBytes - 1) \div ClusterBytes

ClustersOf(e) ==
  CASE e.location = "runs" -> SubSeq(e.runs, 1, Min({Needed(e), Len(e.runs)}))
    [] e.location = "first_cluster" -> [k \in 1..Needed(e) |-> e.runs[1] + k - 1]
    [] OTHER -> <<>>

LostTo(e, disk, live, cluster) ==
  LET c == disk[cluster] IN
  \/ cluster \notin DOMAIN disk
  \/ ~e.allocated /\ Occupied(live, cluster)
  \/ c.repeats /\ e.never_repeats
  \/ e.text /\ ~c.text

(* A break counts as one lost cluster where it happened, unless there is    *)
(* evidence at or after it; the first cluster is spared where it can be.    *)
Broken(e, o, lost) ==
  LET at == IF o.damage_at # {} /\ (\A b \in o.damage_at : b < e.size)
            THEN {b \div ClusterBytes : b \in o.damage_at}
            ELSE IF o.length < e.size THEN {o.length \div ClusterBytes} ELSE {}
      last == Needed(e) - 1
      spared(k) == Min({Max({k, Min({1, last})}), last}) IN
  [at |-> at,
   lost |-> lost \cup {spared(k) : k \in {j \in at : Needed(e) > 0 /\
                                                   \A i \in lost : i < j}}]

Validation(e, o, prefix) ==
  IF ~e.validated \/ e.location = "unknown" THEN "no_validator"
  ELSE IF o.status = "valid" THEN "valid"
  ELSE IF prefix /\ o.ran_out THEN "validated_prefix"
  ELSE IF o.status = "rejected" /\ ~o.ran_out THEN "header_rejected"
  ELSE IF o.ran_out THEN "truncated" ELSE "broken"

InputsForEntry(e, disk, live, o, prefix, trim) ==
  LET clusters == ClustersOf(e)
      real == {k \in DOMAIN clusters : clusters[k] # NoCluster}
      content == {k - 1 : k \in {j \in real : LostTo(e, disk, live, clusters[j])}}
      validation == Validation(e, o, prefix)
      break == Broken(e, o, content) IN
  [size |-> e.size, clusters |-> Len(clusters), validation |-> validation,
   lost |-> IF validation = "broken" THEN break.lost ELSE content,
   at |-> IF validation = "broken" THEN break.at ELSE {},
   location |-> e.location, path_trusted |-> e.path_trusted, trim |-> trim,
   all_zero |-> clusters # <<>> /\ \A k \in real : /\ clusters[k] \in DOMAIN disk
                                                   /\ disk[clusters[k]].zero]

Rating(e, disk, live, o, prefix, trim) == Band(Value(InputsForEntry(e, disk, live, o, prefix, trim)))

----------------------------------------------------------------------------
(* Properties. *)

(* Green is given only to a file none of whose clusters is known to be      *)
(* somebody else's, whose layout is known and whose content is not known to *)
(* be damaged or cut short.                                                 *)
GreenIsClean(e, disk, runs, o, prefix, trim) ==
  Rating(e, disk, Merged(runs), o, prefix, trim) = "green" =>
    /\ e.location \in {"runs", "resident"}
    /\ \A k \in DOMAIN ClustersOf(e) :
         LET c == ClustersOf(e)[k] IN
         c # NoCluster =>
           /\ c \in DOMAIN disk
           /\ ~e.allocated => \A r \in runs : c \notin r.start..r.start + r.count - 1
    /\ e.validated => o.status = "valid" \/ prefix

(* One more cluster taken by a live file never makes a rating better.       *)
LossOnlyLowers(e, disk, runs, more, o, prefix, trim) ==
  Value(InputsForEntry(e, disk, Merged(runs \cup {more}), o, prefix, trim))
    <= Value(InputsForEntry(e, disk, Merged(runs), o, prefix, trim))

RatingFollowsEvidence(e, disk, runs, more, o, prefix, trim) ==
  /\ GreenIsClean(e, disk, runs, o, prefix, trim)
  /\ LossOnlyLowers(e, disk, runs, more, o, prefix, trim)

=============================================================================
