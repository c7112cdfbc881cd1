------------------------- MODULE MCReservationDesk -------------------------
(***************************************************************************)
(* Small instances of ReservationDesk.  Two berths of one hundred feet,    *)
(* exactly the mooring gap apart; a bow in between leaves a hull placed    *)
(* there less than the gap from the first and over the second.             *)
(***************************************************************************)
EXTENDS DeskRefinement, Advisories, TLC

CONSTANTS b1, b2, v1, v2, north, south

\* The rows of operators differ by nothing but their contents.
BookingSymmetry == Permutations(Bookings)

At(lo, hi) == [lo |-> lo, hi |-> hi]

MCCatalog == [b \in Berths |-> IF b = north THEN At(0, 100) ELSE At(175, 275)]
MCLoa     == [v \in Vessels |-> 100]
NoShoals  == [v \in Vessels |-> {}]
ShoalSouth == [v \in Vessels |-> {At(260, 270)}]
OneMooring == {[station |-> At(10, 110), direction |-> "upstream"]}

\* Requests: a placed tentative visit and a longer, confirmed one.
MCRequests ==
  {[etb |-> 0, etd |-> 1, vessel |-> v1, berth |-> north, status |-> "tentative"],
   [etb |-> 0, etd |-> 2, vessel |-> v1, berth |-> north, status |-> "confirmed"]}

\* Patches: promotion, cancellation, a moved departure, a placement by one bound,
\* by berth and by bow, a placement taken away, a note.
MCPatches ==
  {[status |-> "confirmed"],
   [status |-> "cancelled"],
   [etd |-> 2],
   [berth |-> south],
   [bow |-> 1000 - 250, direction |-> "upstream"],
   [stationLo |-> 1000 - 20],
   [unassigned |-> TRUE, etb |-> 1],
   [notes |-> "cleared"]}

\* For the sweeps and the panels: a visit of one tick, and for the same water a
\* later booking and one of now, both without a vessel or an end.
PanelRequests ==
  {[etb |-> 0, etd |-> 1, vessel |-> v1, berth |-> north, status |-> "tentative"],
   [etb |-> 1, berth |-> north, status |-> "confirmed"],
   [etb |-> 0, berth |-> north, status |-> "tentative"]}

\* Promotion of any row, for the first tick.
PanelPatches == {[status |-> "confirmed", etb |-> 0, etd |-> 1]}

\* Patches for the races with the sweep: promotion and a later departure.
SweepPatches ==
  {[status |-> "confirmed"], [etd |-> 2]}

\* Two requests for the same water, of one tick and without an end.
ShortRequests ==
  {[etb |-> 0, etd |-> 1, vessel |-> v1, berth |-> north, status |-> "tentative"],
   [etb |-> 0, vessel |-> v1, berth |-> north, status |-> "confirmed"]}
=============================================================================
