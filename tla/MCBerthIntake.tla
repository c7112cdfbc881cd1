--------------------------- MODULE MCBerthIntake ---------------------------
(***************************************************************************)
(* A small instance of BerthIntake: two clerks and one operator, any two   *)
(* of them at a time, one ship, two lengths, a bow in the middle of a      *)
(* berth.                                                                  *)
(***************************************************************************)
EXTENDS BerthIntake, TLC

CONSTANTS c1, c2, s1, n1

MCClerks == {c1, c2}

ClerkSymmetry == Permutations(MCClerks)

Visit == [lo |-> 0, hi |-> 1]

Form(imo, name, loa, time) == [imo |-> imo, name |-> name, loa |-> loa, time |-> time]

\* The ship with either length, dated and not.
MCForms == {Form(s1, n1, 1, Visit), Form(s1, n1, 2, Empty)}

\* The desk puts a bow, or a berth with no ship and another end.
MCPatches ==
  {[bow |-> -2, direction |-> "upstream", status |-> "confirmed"],
   [berth |-> [lo |-> 0, hi |-> 3], ship |-> NoImo, etd |-> 2]}
=============================================================================
