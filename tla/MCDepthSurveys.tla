--------------------------- MODULE MCDepthSurveys ---------------------------
(***************************************************************************)
(* A small wharf in bins of ten feet, with stations on both sides of zero  *)
(* and hulls that end on an edge of a bin.  One file has shoals and a      *)
(* wall-toe shallow that must be clipped, another has a hole between its   *)
(* two ends, the third lies off the apron.                                 *)
(***************************************************************************)
EXTENDS DepthSurveys, TLC

CONSTANTS east, west

S(sta, off, z) == [sta |-> sta, off |-> off, z |-> z, apron |-> TRUE]

Shoaled == {S(-12, 12, 33), S(-5, 12, 28), S(20, 12, 28), S(20, 22, 40), S(12, 3, 8)}
Holed   == {S(-3, 12, 33), S(25, 14, 35), S(25, 22, 31)}
OffApron == {[S(5, 12, 20) EXCEPT !.apron = FALSE]}

MCSymmetry == Permutations(Uploaders)

MCFiles == {Shoaled, Holed, OffApron}

MCHull  == [b \in Bookings |->
              IF b = west THEN [lo |-> -14, hi |-> -1] ELSE [lo |-> 11, hi |-> 20]]
MCDraft == [b \in Bookings |-> IF b = west THEN 27 ELSE 29]
=============================================================================
