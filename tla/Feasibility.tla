---------------------------- MODULE Feasibility ----------------------------
(***************************************************************************)
(* Find-berth: where along the wharf a planned visit could berth.          *)
(* app/feasibility.py computes the free bands and the vessel-sized slots   *)
(* of one reservation; the picker of static/js/forms.js shows them, and a  *)
(* click confirms one with a PATCH (app/edit.py).  Between the answer and  *)
(* the click the board keeps changing: operators book and release berths,  *)
(* the occupancy worker records vessels alongside.                         *)
(***************************************************************************)
EXTENDS WharfRanges, Sequences, FiniteSets

CONSTANTS
  Extent,        \* the stations of the wharf
  Hull,          \* the length of the vessel asking, in feet
  Catalog,       \* the named berths, by rising station: <<[name, lo, hi], ...>>
  Rows,          \* rows others may put on the board
  MaxRows,       \* bound: rows of others on the board at once
  Subjects,      \* the planned rows that may ask
  Shoals,        \* the stretches too shallow for the vessel
  MaxCandidates, \* MAX_CANDIDATES, the length of the menu
  NoOffer        \* the picker is closed

Directions == {"none", "upstream", "downstream"}
Planned    == {"requested", "tentative", "confirmed"}
Occupying  == Planned \cup {"observed"}
Statuses   == Occupying \cup {"cancelled", "completed"}

BoardRow   == [time: Windows, station: Stations, status: Statuses]
SubjectRow == [time: Windows, station: Stations, status: Planned,
               direction: Directions]

ASSUME FeasibilityAssumption ==
  /\ Extent \in Stations
  /\ Hull \in Nat \ {0}
  /\ Catalog \in Seq([name: STRING, lo: Int, hi: Int])
  /\ Rows \subseteq BoardRow
  /\ Subjects \subseteq SubjectRow
  /\ Shoals \subseteq Stations
  /\ MaxRows \in Nat
  /\ MaxCandidates \in Nat

VARIABLES
  board,   \* the rows of others: [time, station, status]
  subject, \* the planned row the operator is placing: ... and its direction
  offer    \* the slots the picker shows

vars == <<board, subject, offer>>

Larger(m, n)  == IF m >= n THEN m ELSE n
Smaller(m, n) == IF m <= n THEN m ELSE n

-----------------------------------------------------------------------------
(***************************************************************************)
(* The interval arithmetic.  A span is [lo, hi], bounds on a line.         *)
(***************************************************************************)

(***************************************************************************)
(* sorted(): a set as a sequence, each element after as many as precede it *)
(* (SortSeq is built into the tools and has no definition to prove from).  *)
(***************************************************************************)
InOrder(S, Precedes(_, _)) ==
  [n \in 1..Cardinality(S) |->
     CHOOSE s \in S : Cardinality({t \in S : Precedes(t, s)}) = n - 1]

\* Spans in the order the sweep visits them.
SpanBefore(a, b) == a.lo < b.lo \/ (a.lo = b.lo /\ a.hi < b.hi)

Clipped(extent, blocked) ==
  {[lo |-> Larger(extent.lo, b.lo), hi |-> Smaller(extent.hi, b.hi)] :
     b \in {c \in blocked : c.hi > extent.lo /\ c.lo < extent.hi}}

(***************************************************************************)
(* One step of the sweep of subtract_intervals, and the sweep: what is     *)
(* left of extent, low to high.                                            *)
(***************************************************************************)
CursorJumps(st, seg) ==
  [cursor |-> seg.hi,
   free   |-> IF seg.lo > st.cursor
              THEN Append(st.free, [lo |-> st.cursor, hi |-> seg.lo])
              ELSE st.free]

Advance(st, seg) ==
  [cursor |-> Larger(st.cursor, seg.hi),
   free   |-> IF seg.lo > st.cursor
              THEN Append(st.free, [lo |-> st.cursor, hi |-> seg.lo])
              ELSE st.free]

SubtractIntervals(extent, blocked) ==
  LET segs == InOrder(Clipped(extent, blocked), SpanBefore)
      Sweep[n \in 0..Len(segs)] ==
        IF n = 0 THEN [cursor |-> extent.lo, free |-> <<>>]
        ELSE Advance(Sweep[n - 1], segs[n])
      last == Sweep[Len(segs)]
  IN  IF extent.hi <= extent.lo THEN <<>>
      ELSE IF last.cursor < extent.hi
      THEN Append(last.free, [lo |-> last.cursor, hi |-> extent.hi])
      ELSE last.free

(***************************************************************************)
(* feasible_bands: each obstacle padded by the whole gap, bands as long as *)
(* the hull or longer.                                                     *)
(***************************************************************************)
Whole(obstacles) ==
  {[lo |-> o.lo - MooringGap, hi |-> o.hi + MooringGap] : o \in obstacles}

FeasibleBands(extent, obstacles, loa) ==
  LET free == SubtractIntervals(extent, Whole(obstacles))
      Wide[n \in 0..Len(free)] ==
        IF n = 0 THEN <<>>
        ELSE IF free[n].hi - free[n].lo >= loa THEN Append(Wide[n - 1], free[n])
        ELSE Wide[n - 1]
  IN  Wide[Len(free)]

(***************************************************************************)
(* placement_range: where the low end of the hull may lie within a band.   *)
(***************************************************************************)
PlacementRange(band, loa) == band.lo .. (band.hi - loa)

(***************************************************************************)
(* candidate_slots.  A named berth takes one slot, in the first band its   *)
(* clamped footprint touches it from; a band no berth used gets one at its *)
(* low end.                                                                *)
(***************************************************************************)
SlotStart(berth, band, loa) ==
  Smaller(Larger(berth.lo, band.lo), band.hi - loa)

Touches(berth, band, loa) ==
  /\ berth.lo < band.hi
  /\ band.lo < berth.hi
  /\ SlotStart(berth, band, loa) + loa > berth.lo
  /\ SlotStart(berth, band, loa) < berth.hi

Push(slots, start, name) ==
  IF \E s \in slots : s.start = start THEN slots
  ELSE slots \cup {[start |-> start, berth |-> name]}

Place(st, berth, bands, loa) ==
  LET fits  == {n \in DOMAIN bands : Touches(berth, bands[n], loa)}
      first == CHOOSE n \in fits : \A m \in fits : n <= m
  IN  IF fits = {} THEN st
      ELSE [slots   |-> Push(st.slots, SlotStart(berth, bands[first], loa),
                             berth.name),
            covered |-> st.covered \cup {first}]

NamedSlots(bands, berths, loa) ==
  LET Placed[n \in 0..Len(berths)] ==
        IF n = 0 THEN [slots |-> {}, covered |-> {}]
        ELSE Place(Placed[n - 1], berths[n], bands, loa)
  IN  Placed[Len(berths)]

StartsBefore(a, b) == a.start < b.start

NamedSlotsOnly(bands, berths, loa) ==
  InOrder(NamedSlots(bands, berths, loa).slots, StartsBefore)

CandidateSlots(bands, berths, loa) ==
  LET named == NamedSlots(bands, berths, loa)
      Filled[n \in 0..Len(bands)] ==
        IF n = 0 THEN named.slots
        ELSE IF n \in named.covered THEN Filled[n - 1]
        ELSE Push(Filled[n - 1], bands[n].lo, "open")
  IN  InOrder(Filled[Len(bands)], StartsBefore)

-----------------------------------------------------------------------------
(***************************************************************************)
(* compute_feasibility for the subject on the current board.               *)
(***************************************************************************)

\* _OBSTACLES_SQL: every placed row that shares time with the window.
Obstacles(rows, window) ==
  {r.station : r \in {q \in rows : /\ q.status \in Occupying
                                   /\ ~IsEmpty(q.station)
                                   /\ TimeOverlaps(q.time, window)}}

Bands == FeasibleBands(Extent, Obstacles(board, subject.time), Hull)

TooShallow(station) == \E shoal \in Shoals : StationOverlaps(shoal, station)

\* A heading nobody set is offered as upstream.
OfferedHeading(row) ==
  IF row.direction = "none" THEN "upstream" ELSE row.direction

LowEndBow(start, loa, direction) == start

BowPopa(start, loa, direction) ==
  IF direction = "upstream" THEN start + loa ELSE start

\* One entry of the picker: the bow as a Dock No., and what the depth under
\* the exact footprint says.
Candidate(slot) ==
  [start     |-> slot.start,
   berth     |-> slot.berth,
   bow       |-> PopaToDock(BowPopa(slot.start, Hull, OfferedHeading(subject))),
   direction |-> OfferedHeading(subject),
   shallow   |-> TooShallow([lo |-> slot.start, hi |-> slot.start + Hull])]

Candidates ==
  LET slots == CandidateSlots(Bands, Catalog, Hull)
  IN  [n \in {k \in DOMAIN slots : k <= MaxCandidates} |-> Candidate(slots[n])]

\* 422 when the row has no window, or one without an end.
Evaluable(row) == Lower(row.time) # Before /\ Upper(row.time) # After

-----------------------------------------------------------------------------
(***************************************************************************)
(* The PATCH of confirmCandidate, as update_reservation applies it.        *)
(***************************************************************************)
Confirmed(row, c) ==
  [time      |-> row.time,
   station   |-> StationFromBow(DockToPopa(c.bow), c.direction, Hull),
   status    |-> "confirmed",
   direction |-> c.direction]

Admitted(row, rows) ==
  /\ row.status = "confirmed"
  => \A r \in rows : r.status = "confirmed" => ~WharfConflict(row, r)

Init ==
  /\ board = {}
  /\ subject \in Subjects
  /\ offer = NoOffer

(***************************************************************************)
(* Others book, record or release a stretch of the wharf.                  *)
(***************************************************************************)
OthersTake(r) ==
  /\ Cardinality(board) < MaxRows
  /\ r \notin board
  /\ Admitted(r, board \cup {subject})
  /\ board' = board \cup {r}
  /\ UNCHANGED <<subject, offer>>

OthersRelease(r) ==
  /\ board' = board \ {r}
  /\ UNCHANGED <<subject, offer>>

(***************************************************************************)
(* GET /feasibility.                                                       *)
(***************************************************************************)
FindBerth ==
  /\ Evaluable(subject)
  /\ offer' = Candidates
  /\ UNCHANGED <<board, subject>>

(***************************************************************************)
(* A click on a candidate.  The draft gate stops none: one shown shallow   *)
(* is sent with the override the operator has just agreed to, and one the  *)
(* gate refuses although it was not is sent again with an override.  An    *)
(* accepted PATCH closes the picker, a refused one leaves it.              *)
(***************************************************************************)
ConfirmCandidate(n) ==
  LET new == Confirmed(subject, offer[n])
  IN  /\ Admitted(new, board)
      /\ subject' = new
      /\ offer' = NoOffer
      /\ UNCHANGED board

ClosePicker ==
  /\ offer # NoOffer
  /\ offer' = NoOffer
  /\ UNCHANGED <<board, subject>>

Next ==
  \/ \E r \in Rows : OthersTake(r)
  \/ \E r \in board : OthersRelease(r)
  \/ FindBerth
  \/ /\ offer # NoOffer
     /\ \E n \in DOMAIN offer : ConfirmCandidate(n)
  \/ ClosePicker

Spec == Init /\ [][Next]_vars

-----------------------------------------------------------------------------
(***************************************************************************)
(* The reference: the low ends from which a hull keeps inside the wharf    *)
(* and the whole gap away from every obstacle.                             *)
(***************************************************************************)
KeepsClear(start, loa, obstacle) ==
  \/ start + loa + MooringGap <= obstacle.lo
  \/ obstacle.hi + MooringGap <= start

Room(extent, obstacles, loa) ==
  {start \in extent.lo .. (extent.hi - loa) :
     \A o \in obstacles : KeepsClear(start, loa, o)}

-----------------------------------------------------------------------------
\* Every variable has its type.
TypeOK ==
  /\ board \subseteq Rows
  /\ subject \in SubjectRow
  /\ offer = NoOffer \/ Len(offer) <= MaxCandidates

\* The bands are exactly the room there is: a hull may start at a station of the
\* placement range of some band if and only if it keeps the gap from every row
\* that shares its window (subtract_intervals, feasible_bands, placement_range).
BandsAreTheRoom ==
  UNION {PlacementRange(Bands[n], Hull) : n \in DOMAIN Bands}
    = Room(Extent, Obstacles(board, subject.time), Hull)

\* "An offered spot doesn't then 409/422" (feasibility.py): on the board that was
\* read, the PATCH of each candidate lands on the footprint shown, the exclusion
\* constraint admits it, and the draft gate refuses only those shown shallow.
FreshOfferConfirms ==
  \A n \in DOMAIN Candidates :
    LET c   == Candidates[n]
        row == Confirmed(subject, c)
    IN  /\ row.station = [lo |-> c.start, hi |-> c.start + Hull]
        /\ Admitted(row, board)
        /\ TooShallow(row.station) => c.shallow

\* No berth that exists is left out: every band offers a slot inside it, every
\* slot lies in a band and no two slots are the same place (candidate_slots).
SlotsCoverTheBands ==
  LET slots == CandidateSlots(Bands, Catalog, Hull)
      In(n, k) == slots[n].start \in PlacementRange(Bands[k], Hull)
  IN  /\ \A k \in DOMAIN Bands : \E n \in DOMAIN slots : In(n, k)
      /\ \A n \in DOMAIN slots : \E k \in DOMAIN Bands : In(n, k)
      /\ \A n, m \in DOMAIN slots : n < m => slots[n].start < slots[m].start
=============================================================================
