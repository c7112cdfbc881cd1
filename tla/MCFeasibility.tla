--------------------------- MODULE MCFeasibility ---------------------------
(***************************************************************************)
(* Small instances of Feasibility: a wharf of twelve feet, a hull of two,  *)
(* a gap of two and two ticks of time.                                     *)
(***************************************************************************)
EXTENDS Feasibility

At(lo, hi) == [lo |-> lo, hi |-> hi]
During(from, to) == [lo |-> from, hi |-> to]

MCExtent == At(0, 12)

\* Two berths, the second within the reach of two bands.
MCCatalog ==
  <<[name |-> "north", lo |-> 3, hi |-> 6], [name |-> "south", lo |-> 4, hi |-> 11]>>

\* Hulls at the ends of the wharf, in the middle and over one another; an
\* unplaced request and a cancelled visit that take no space.
MCStations == {At(0, 2), At(3, 4), At(4, 6), At(3, 9), At(8, 10), At(11, 13)}
MCRows ==
  {[time |-> w, station |-> s, status |-> st] :
     w \in {During(0, 1), During(1, After)}, s \in MCStations,
     st \in {"confirmed", "observed"}}
  \cup {[time |-> During(0, 2), station |-> Empty, status |-> "requested"],
        [time |-> During(0, 2), station |-> At(4, 6), status |-> "cancelled"]}

\* A visit of the first tick, one of both, one without an end.
MCSubjects ==
  {[time |-> w, station |-> Empty, status |-> "tentative", direction |-> d] :
     w \in {During(0, 1), During(0, 2), During(1, After)},
     d \in {"none", "downstream"}}

MCShoals == {At(9, 10)}
=============================================================================
