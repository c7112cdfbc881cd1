---------------------------- MODULE WharfRanges ----------------------------
(***************************************************************************)
(* The two range types every part of the berth scheduler shares: the time  *)
(* window of a visit (a tstzrange, half-open) and the stretch of wharf it  *)
(* takes (a numrange, closed, in POPA feet), with the overlap predicates   *)
(* of app/conflicts.py, the predicate of the exclusion constraint          *)
(* no_wharf_overlap (migrations 0001 and 0007) and the Dock No. crosswalk. *)
(*                                                                         *)
(* A range is a record [lo, hi]; it is empty when lo >= hi.  Postgres      *)
(* keeps one empty range and forgets its bounds, so both constructors      *)
(* below return the same Empty record.  An unbounded end of a window is    *)
(* the integer just outside the clock, Before or After: that is also what  *)
(* a NULL bound becomes when it is passed back to tstzrange().             *)
(***************************************************************************)
EXTENDS Integers

CONSTANTS
  MaxTime,    \* the last tick of the clock; bounded windows use 0..MaxTime
  MooringGap, \* clear water required between two confirmed hulls, in feet
  DockOrigin  \* the Dock No. of POPA station 0; Dock No. runs downwards

ASSUME RangeAssumption ==
  /\ MaxTime \in Nat
  /\ MooringGap \in Nat
  /\ DockOrigin \in Int

Before == -1
After  == MaxTime + 1

Times  == 0..MaxTime
Bounds == Before..After

Empty == [lo |-> 0, hi |-> 0]

IsEmpty(r) == r.lo >= r.hi

Windows  == {w \in [lo: Bounds, hi: Bounds] : w.lo < w.hi} \cup {Empty}
Stations == {s \in [lo: Int, hi: Int] : s.lo < s.hi} \cup {Empty}

(***************************************************************************)
(* tstzrange(lo, hi, '[)'): equal bounds make the empty range.             *)
(***************************************************************************)
TimeRange(lo, hi) == IF lo < hi THEN [lo |-> lo, hi |-> hi] ELSE Empty

(***************************************************************************)
(* lower(time_range) and upper(time_range) as the handlers read them: the  *)
(* empty range has NULL bounds, indistinguishable from unbounded ones.     *)
(***************************************************************************)
Lower(w) == IF IsEmpty(w) THEN Before ELSE w.lo
Upper(w) == IF IsEmpty(w) THEN After  ELSE w.hi

(***************************************************************************)
(* The affine map between POPA stations and the Dock No. operators read:   *)
(* its slope is -1, so it is its own inverse.                              *)
(***************************************************************************)
DockToPopa(d) == DockOrigin - d
PopaToDock(s) == DockOrigin - s

(***************************************************************************)
(* The water a hull takes from its bow and heading.                        *)
(***************************************************************************)
StationAlongBow(bow, direction, loa) ==
  IF direction = "downstream"
  THEN [lo |-> bow, hi |-> bow + loa]
  ELSE [lo |-> bow, hi |-> bow - loa]

StationFromBow(bow, direction, loa) ==
  IF direction = "downstream"
  THEN [lo |-> bow, hi |-> bow + loa]
  ELSE [lo |-> bow - loa, hi |-> bow]

(***************************************************************************)
(* time_overlaps: half-open intervals, touching ends do not overlap.       *)
(***************************************************************************)
TimeOverlaps(v, w) ==
  /\ ~IsEmpty(v) /\ ~IsEmpty(w)
  /\ v.lo < w.hi
  /\ w.lo < v.hi

(***************************************************************************)
(* station_overlaps: closed intervals, a shared foot overlaps.             *)
(***************************************************************************)
StationOverlaps(s, t) ==
  /\ ~IsEmpty(s) /\ ~IsEmpty(t)
  /\ s.lo <= t.hi
  /\ t.lo <= s.hi

(***************************************************************************)
(* The station operand of no_wharf_overlap: each hull padded by half the   *)
(* gap on both sides, half-open, an empty range left empty.  Feet are      *)
(* doubled so that half a gap is a whole number.                           *)
(***************************************************************************)
Unpadded(s) == [lo |-> 2 * s.lo, hi |-> 2 * s.hi]

Padded(s) ==
  IF IsEmpty(s) THEN s
  ELSE [lo |-> 2 * s.lo - MooringGap, hi |-> 2 * s.hi + MooringGap]

PaddedOverlaps(s, t) ==
  LET p == Padded(s)
      q == Padded(t)
  IN  /\ ~IsEmpty(p) /\ ~IsEmpty(q)
      /\ p.lo < q.hi
      /\ q.lo < p.hi

(***************************************************************************)
(* The pair of tests the EXCLUDE USING gist clause applies to two rows.    *)
(***************************************************************************)
WharfConflict(a, b) ==
  /\ TimeOverlaps(a.time, b.time)
  /\ PaddedOverlaps(a.station, b.station)
=============================================================================
