------------------------ MODULE MCBerthingDetection ------------------------
(***************************************************************************)
(* Small instances of BerthingDetection: speeds on both sides of and on    *)
(* each threshold, with and without the moored status.                     *)
(***************************************************************************)
EXTENDS BerthingDetection

Fix(alongside, sog, moored) ==
  [alongside |-> alongside, sog |-> sog, moored |-> moored]

\* Every way a fix can stand to the two thresholds, moored or not.
AllKinds ==
  {Fix(FALSE, 0, FALSE), Fix(TRUE, NoSog, FALSE), Fix(TRUE, 1, FALSE),
   Fix(TRUE, 2, FALSE), Fix(TRUE, 2, TRUE), Fix(TRUE, 3, TRUE)}
=============================================================================
