------------------------- MODULE MCOccupancyWorker -------------------------
(***************************************************************************)
(* Fixes away and still: what a closing needs.                             *)
(***************************************************************************)
EXTENDS OccupancyWorker

Fix(alongside, sog, moored) ==
  [alongside |-> alongside, sog |-> sog, moored |-> moored]

TwoKinds == {Fix(FALSE, 0, FALSE), Fix(TRUE, 1, FALSE)}
=============================================================================
