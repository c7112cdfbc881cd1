-------------------------- MODULE MCVesselRegister --------------------------
(***************************************************************************)
(* Small instances of VesselRegister: one ship, known to the feed and to   *)
(* the clerks, two lengths, and room for two rows of it.                   *)
(***************************************************************************)
EXTENDS VesselRegister

CONSTANT s1

\* A request for the ship, with a length.  (One refused for a wrong name reads
\* no more of the register than an edit of a request under that name.)
MCForms == {[imo |-> s1, name |-> s1, loa |-> 1]}

\* Pin a length, clear the lock, link a row to the feed, take the link or the
\* length away.
MCEdits ==
  {[loa |-> 2, locked |-> TRUE], [locked |-> FALSE], [mmsi |-> s1], [mmsi |-> NoShip],
   [loa |-> Unknown]}
=============================================================================
