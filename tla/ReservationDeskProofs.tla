----------------------- MODULE ReservationDeskProofs -----------------------
(***************************************************************************)
(* What holds of the reservation table for every number of bookings,       *)
(* vessels, operators and sweeps, every request body and every wharf.      *)
(***************************************************************************)
EXTENDS DeskRefinement, Advisories, TLAPS

USE DeskAssumption, RangeAssumption

-----------------------------------------------------------------------------
(***************************************************************************)
(* Lemmas about resolving a request.                                       *)
(***************************************************************************)

\* Half a gap on each side of both hulls is a whole gap between them.
LEMMA HullsKeepTheGap ==
  ASSUME NEW s \in Stations, NEW t \in Stations,
         ~IsEmpty(s), ~IsEmpty(t), ~PaddedOverlaps(s, t)
  PROVE  s.hi + MooringGap <= t.lo \/ t.hi + MooringGap <= s.lo
  BY DEF Stations, IsEmpty, PaddedOverlaps, Padded, Empty

\* The window constructor returns a window (_time_range, _time_sql).
LEMMA TimeRangeType ==
  ASSUME NEW lo \in Bounds, NEW hi \in Bounds
  PROVE  TimeRange(lo, hi) \in Windows
  BY DEF TimeRange, Windows, Empty, Bounds, Before, After

\* The bounds read back from a stored window are bounds (lower, upper).
LEMMA ReadBackType ==
  ASSUME NEW w \in Windows
  PROVE  Lower(w) \in Bounds /\ Upper(w) \in Bounds
  BY DEF Lower, Upper, IsEmpty, Windows, Empty, Bounds, Before, After

\* An accepted PATCH over a row of the table yields a row (update_reservation).
LEMMA PatchedType ==
  ASSUME NEW p, WellFormed(p), NEW cur \in Row, PatchAccepted(p, cur)
  PROVE  Patched(p, cur) \in Row
<1> DEFINE status == Field(p, "status", cur.status)
           how    == PlacementCase(p, status)
           vessel == Field(p, "vessel", cur.vessel)
           dir    == Field(p, "direction", cur.direction)
<1>1. /\ status \in Statuses \cup {"absent"}
      /\ vessel \in Vessels \cup {NoVessel}
      /\ dir \in Directions
      /\ Field(p, "berth", cur.berth) \in Berths \cup {NoBerth}
  BY DEF WellFormed, Field, Row
<1>2. /\ Field(p, "etb", Lower(cur.time)) \in Bounds
      /\ Field(p, "etd", Upper(cur.time)) \in Bounds
  <2>1. cur.time \in Windows
    BY DEF Row
  <2>2. Lower(cur.time) \in Bounds /\ Upper(cur.time) \in Bounds
    BY <2>1, ReadBackType
  <2> QED
    BY <2>2 DEF WellFormed, Field, Bounds, Times, Before, After
<1>3. TimeRange(Field(p, "etb", Lower(cur.time)),
                Field(p, "etd", Upper(cur.time))) \in Windows
  BY <1>2, TimeRangeType
<1>4. PatchedStation(p, cur) \in Stations
  <2>0. PlacementAccepted(p, cur)
    BY DEF PatchAccepted
  <2>1. how \in {"cleared", "bow", "berth", "bounds", "kept"}
    BY DEF PlacementCase
  <2>2. CASE how = "cleared"
    BY <2>2 DEF PatchedStation, Stations, Empty
  <2>3. CASE how = "bow"
    <3>1. "bow" \in DOMAIN p /\ p["bow"] \in Int
      BY <2>3 DEF PlacementCase, WellFormed
    <3>2. LoaOf(vessel) \in Nat /\ LoaOf(vessel) > 0
      BY <2>0, <2>3, <1>1 DEF PlacementAccepted, LoaOf
    <3>3. DockToPopa(p["bow"]) \in Int
      BY <3>1 DEF DockToPopa
    <3>4. StationFromBow(DockToPopa(p["bow"]), dir, LoaOf(vessel)) \in Stations
      BY <3>2, <3>3 DEF StationFromBow, Stations
    <3> QED
      BY <2>3, <3>4 DEF PatchedStation
  <2>4. CASE how = "berth"
    <3>1. "berth" \in DOMAIN p /\ p["berth"] \in Berths
      BY <2>4 DEF PlacementCase, WellFormed, Field
    <3>2. Catalog[p["berth"]] \in Stations
      BY <3>1
    <3> QED
      BY <2>4, <3>2 DEF PatchedStation
  <2>5. CASE how = "bounds"
    <3>1. cur.station.lo \in Int /\ cur.station.hi \in Int
      BY DEF Row, Stations, Empty
    <3>2. /\ Bound(p, "stationLo", cur.station.lo) \in Int
          /\ Bound(p, "stationHi", cur.station.hi) \in Int
      BY <3>1 DEF Bound, DockToPopa, WellFormed
    <3>3. PatchedStation(p, cur)
            = [lo |-> Bound(p, "stationLo", cur.station.lo),
               hi |-> Bound(p, "stationHi", cur.station.hi)]
      BY <2>5 DEF PatchedStation
    <3>4. ~IsEmpty(PatchedStation(p, cur))
      BY <2>0, <2>5 DEF PlacementAccepted
    <3> QED
      BY <3>2, <3>3, <3>4 DEF Stations, IsEmpty
  <2>6. CASE how = "kept"
    BY <2>6 DEF PatchedStation, Row
  <2> QED
    BY <2>1, <2>2, <2>3, <2>4, <2>5, <2>6
<1>5. (IF "notes" \in DOMAIN p THEN 0 ELSE cur.flags) \in Nat
  BY DEF Row
<1> QED
  BY <1>1, <1>3, <1>4, <1>5 DEF Patched, Row

\* An accepted POST yields a row (create_reservation).
LEMMA CreatedType ==
  ASSUME NEW r, WellFormed(r), Field(r, "etb", Before) \in Times,
         CreateAccepted(r)
  PROVE  Created(r) \in Row
<1>1. /\ Field(r, "status", "tentative") \in Statuses \cup {"absent"}
      /\ Field(r, "vessel", NoVessel) \in Vessels \cup {NoVessel}
      /\ Field(r, "direction", "none") \in Directions
      /\ Field(r, "berth", NoBerth) \in Berths \cup {NoBerth}
  BY DEF WellFormed, Field, Statuses, Planned, Directions
<1>2. r["etb"] \in Bounds /\ Field(r, "etd", After) \in Bounds
  BY DEF WellFormed, Field, Bounds, Times, Before, After
<1>3. TimeRange(r["etb"], Field(r, "etd", After)) \in Windows
  BY <1>2, TimeRangeType
<1>4. CreatedStation(r) \in Stations
  <2>1. CASE HasBounds(r)
    <3>1. {"stationLo", "stationHi"} \subseteq DOMAIN r
      BY <2>1 DEF CreateAccepted
    <3>2. Bound(r, "stationLo", 0) \in Int /\ Bound(r, "stationHi", 0) \in Int
      BY <3>1 DEF Bound, DockToPopa, WellFormed
    <3>3. ~IsEmpty(CreatedStation(r))
      BY <2>1 DEF CreateAccepted, Created
    <3> QED
      BY <2>1, <3>2, <3>3 DEF CreatedStation, Stations, IsEmpty
  <2>2. CASE ~HasBounds(r)
    BY <2>2 DEF CreatedStation, WellFormed, Field, Stations, Empty
  <2> QED
    BY <2>1, <2>2
<1> QED
  BY <1>1, <1>3, <1>4 DEF Created, Row

-----------------------------------------------------------------------------
(***************************************************************************)
(* Lemmas about the sweep and the derivation.                              *)
(***************************************************************************)

\* A verdict is one of four, whatever the snapshot (expiry_action).
LEMMA VerdictValues ==
  ASSUME NEW snap, NEW i
  PROVE  Verdict(snap, i) \in {"none", "completed", "cancelled", "flagged"}
  BY DEF Verdict

\* The sweep leaves a row where and when it was, and confirms nothing: a row
\* confirmed after it was confirmed before (the UPDATE of _EXPIRE_SQL).
LEMMA SweptRowEffect ==
  ASSUME NEW verdict \in {"none", "completed", "cancelled", "flagged"},
         NEW row \in Row
  PROVE  LET new == SweptRow(verdict, row)
         IN  /\ new \in Row
             /\ new.time = row.time
             /\ new.station = row.station
             /\ new.vessel = row.vessel
             /\ new.status = "confirmed" => row.status = "confirmed"
<1>1. CASE verdict \in {"completed", "cancelled"}
  <2>1. SweptRow(verdict, row) = [row EXCEPT !.status = verdict]
    BY <1>1 DEF SweptRow
  <2> QED
    BY <1>1, <2>1 DEF Row, Statuses
<1>2. CASE verdict = "flagged"
  <2>1. SweptRow(verdict, row) = [row EXCEPT !.flags = @ + 1]
    BY <1>2 DEF SweptRow
  <2> QED
    BY <2>1 DEF Row
<1>3. CASE verdict = "none"
  <2>1. SweptRow(verdict, row) = row
    BY <1>3 DEF SweptRow
  <2> QED
    BY <2>1
<1> QED
  BY <1>1, <1>2, <1>3

\* The UPDATE of a sweep moves no row and takes none into the constraint,
\* whatever its snapshot was (_EXPIRE_SQL writes status and notes only).
LEMMA SweptEffect ==
  ASSUME NEW snap, NEW tbl \in [Ids -> Row]
  PROVE  /\ Swept(snap, tbl) \in [Ids -> Row]
         /\ \A i \in Ids :
              /\ Swept(snap, tbl)[i].time = tbl[i].time
              /\ Swept(snap, tbl)[i].station = tbl[i].station
              /\ Swept(snap, tbl)[i].vessel = tbl[i].vessel
              /\ Swept(snap, tbl)[i].status = "confirmed" =>
                   tbl[i].status = "confirmed"
<1>1. ASSUME NEW i \in Ids
      PROVE  /\ Swept(snap, tbl)[i] \in Row
             /\ Swept(snap, tbl)[i].time = tbl[i].time
             /\ Swept(snap, tbl)[i].station = tbl[i].station
             /\ Swept(snap, tbl)[i].vessel = tbl[i].vessel
             /\ Swept(snap, tbl)[i].status = "confirmed" =>
                  tbl[i].status = "confirmed"
  <2>1. CASE Present(tbl, i) /\ i \notin snap.gone
    <3>1. Swept(snap, tbl)[i] = SweptRow(Verdict(snap, i), tbl[i])
      BY <2>1 DEF Swept
    <3> QED
      BY <3>1, VerdictValues, SweptRowEffect
  <2>2. CASE ~(Present(tbl, i) /\ i \notin snap.gone)
    <3>1. Swept(snap, tbl)[i] = tbl[i]
      BY <2>2 DEF Swept
    <3> QED
      BY <3>1
  <2> QED
    BY <2>1, <2>2
<1>2. Swept(snap, tbl) = [i \in Ids |-> Swept(snap, tbl)[i]]
  BY DEF Swept
<1> QED
  BY <1>1, <1>2

\* Sweeping, from any snapshot, keeps the exclusion constraint.
LEMMA SweptKeepsConstraint ==
  ASSUME NEW snap, NEW tbl \in [Ids -> Row], ConstraintHolds(tbl)
  PROVE  ConstraintHolds(Swept(snap, tbl))
<1> DEFINE new == Swept(snap, tbl)
<1> SUFFICES ASSUME NEW i \in Ids, NEW j \in Ids, i # j,
                    new[i].status = "confirmed", new[j].status = "confirmed"
             PROVE  ~WharfConflict(new[i], new[j])
  BY DEF ConstraintHolds
<1>1. /\ tbl[i].status = "confirmed" /\ tbl[j].status = "confirmed"
      /\ new[i].time = tbl[i].time /\ new[i].station = tbl[i].station
      /\ new[j].time = tbl[j].time /\ new[j].station = tbl[j].station
  BY SweptEffect
<1>2. ~WharfConflict(tbl[i], tbl[j])
  BY <1>1 DEF ConstraintHolds
<1> QED
  BY <1>1, <1>2 DEF WharfConflict

\* The upserted table is a table, and the rows of operators are as they were.
LEMMA UpsertedType ==
  ASSUME TypeOK
  PROVE  /\ Upserted \in [Ids -> Row]
         /\ \A b \in Bookings : Upserted[b] = table[b]
<1>1. Absent \in Row
  BY DEF Absent, Row, Stations, Windows, Directions
<1>2. ASSUME NEW v \in Vessels, berthing[v] # NoBerthing
      PROVE  Derived(v) \in Row
  <2>1. berthing[v] \in BerthingsSeen
    BY <1>2 DEF TypeOK
  <2>2. TimeRange(berthing[v].start, berthing[v].end) \in Windows
    BY <2>1, TimeRangeType DEF BerthingsSeen, Bounds, Times, Before, After
  <2>3. berthing[v].station \in Stations /\ berthing[v].direction \in Directions
    BY <2>1 DEF BerthingsSeen
  <2>4. table[v] \in Row
    BY DEF TypeOK, Ids
  <2>5. CASE Present(table, v)
    <3>1. Derived(v) = [table[v] EXCEPT
                          !.station = berthing[v].station,
                          !.time = TimeRange(berthing[v].start, berthing[v].end),
                          !.direction = berthing[v].direction, !.flags = 0]
      BY <2>5 DEF Derived
    <3> DEFINE w  == TimeRange(berthing[v].start, berthing[v].end)
               r1 == [table[v] EXCEPT !.station = berthing[v].station]
               r2 == [r1 EXCEPT !.time = w]
               r3 == [r2 EXCEPT !.direction = berthing[v].direction]
               r4 == [r3 EXCEPT !.flags = 0]
    <3>2. r1 \in Row
      BY <2>3, <2>4 DEF Row
    <3>3. r2 \in Row
      <4> HIDE DEF r1
      <4> QED BY <2>2, <3>2 DEF Row
    <3>4. r3 \in Row
      <4> HIDE DEF r2
      <4> QED BY <2>3, <3>3 DEF Row
    <3>5. r4 \in Row
      <4> HIDE DEF r3
      <4> QED BY <3>4 DEF Row
    <3> QED
      BY <3>1, <3>5
  <2>6. CASE ~Present(table, v)
    <3>1. Derived(v) = [Absent EXCEPT
                          !.vessel = v, !.station = berthing[v].station,
                          !.time = TimeRange(berthing[v].start, berthing[v].end),
                          !.direction = berthing[v].direction,
                          !.status = "observed"]
      BY <2>6 DEF Derived
    <3>2. "observed" \in Statuses
      BY DEF Statuses
    <3> QED
      BY <1>1, <2>2, <2>3, <3>1, <3>2 DEF Row
  <2> QED
    BY <2>5, <2>6
<1>3. Upserted \in [Ids -> Row]
  BY <1>2 DEF Upserted, TypeOK
<1>4. \A b \in Bookings : Upserted[b] = table[b]
  BY DEF Upserted, Ids
<1> QED
  BY <1>3, <1>4

-----------------------------------------------------------------------------
(***************************************************************************)
(* Theorems.                                                               *)
(***************************************************************************)

\* Types hold in every reachable state: in particular no accepted request, in
\* whatever order reads and writes of the same row fall, stores an inverted
\* window or station range.
THEOREM TypeCorrect == Spec => []TypeOK
<1>1. Init => TypeOK
  <2> SUFFICES ASSUME Init PROVE TypeOK
    OBVIOUS
  <2>1. Absent \in Row
    BY DEF Absent, Row, Stations, Windows, Directions
  <2> QED
    BY <2>1 DEF Init, TypeOK, Times
<1>2. TypeOK /\ [Next]_vars => TypeOK'
  <2> SUFFICES ASSUME TypeOK, [Next]_vars PROVE TypeOK'
    OBVIOUS
  <2>1. CASE Tick
    BY <2>1 DEF Tick, TypeOK, Times
  <2>2. CASE FixLands
    BY <2>2 DEF FixLands, TypeOK
  <2>3. ASSUME NEW v \in Vessels, NEW m \in Moorings, VesselBerths(v, m)
        PROVE  TypeOK'
    <3>1. [start |-> clock, end |-> After, station |-> m.station,
           direction |-> m.direction] \in BerthingsSeen
      BY DEF TypeOK, BerthingsSeen, Bounds, Times, Before, After
    <3> QED
      BY <2>3, <3>1 DEF VesselBerths, TypeOK
  <2>4. ASSUME NEW v \in Vessels, VesselLeaves(v)
        PROVE  TypeOK'
    <3>1. [berthing[v] EXCEPT !.end = clock] \in BerthingsSeen
      BY <2>4 DEF VesselLeaves, TypeOK, BerthingsSeen, Bounds, Times, Before, After
    <3>2. berthing' = [berthing EXCEPT ![v] = [berthing[v] EXCEPT !.end = clock]]
      BY <2>4 DEF VesselLeaves
    <3> QED
      BY <2>4, <3>1, <3>2 DEF VesselLeaves, TypeOK
  <2>5. ASSUME NEW i \in Bookings, NEW r \in Requests, Create(i, r)
        PROVE  TypeOK'
    <3>1. Created(r) \in Row
      BY <2>5, CreatedType DEF Create
    <3> QED
      BY <2>5, <3>1 DEF Create, TypeOK, Ids
  <2>6. ASSUME NEW o \in Operators, NEW i \in Ids, PatchRead(o, i)
        PROVE  TypeOK'
    <3>1. [id |-> i, cur |-> table[i]] \in [id: Ids, cur: Row]
      BY DEF TypeOK
    <3> QED
      BY <2>6, <3>1 DEF PatchRead, TypeOK
  <2>7. ASSUME NEW o \in Operators, NEW p \in Patches, PatchCommit(o, p)
        PROVE  TypeOK'
    <3>1. session[o] \in [id: Ids, cur: Row]
      BY <2>7 DEF PatchCommit, TypeOK
    <3>2. session' \in [Operators -> [id: Ids, cur: Row] \cup {Idle}]
      BY <2>7 DEF PatchCommit, TypeOK
    <3>3. CASE PatchAccepted(p, session[o].cur)
      <4>1. Patched(p, session[o].cur) \in Row
        BY <3>1, <3>3, PatchedType
      <4>2. table' \in [Ids -> Row]
        BY <2>7, <3>1, <4>1 DEF PatchCommit, TypeOK
      <4> QED
        BY <2>7, <3>2, <4>2 DEF PatchCommit, TypeOK
    <3>4. CASE ~PatchAccepted(p, session[o].cur)
      BY <2>7, <3>2, <3>4 DEF PatchCommit, TypeOK
    <3> QED
      BY <3>3, <3>4
  <2>8. ASSUME NEW i \in Ids, Delete(i)
        PROVE  TypeOK'
    <3>1. Absent \in Row
      BY DEF Absent, Row, Stations, Windows, Directions
    <3>2. table' \in [Ids -> Row]
      BY <2>8, <3>1 DEF Delete, TypeOK
    <3>3. session' \in [Operators -> [id: Ids, cur: Row] \cup {Idle}]
      BY <2>8 DEF Delete, TypeOK
    <3>4. ASSUME NEW s \in Sweepers, sweep[s] # Idle
          PROVE  [sweep[s] EXCEPT !.gone = @ \cup {i}]
                   \in [now: Times, feed: SUBSET Times,
                        rows: [Ids -> Row], gone: SUBSET Ids]
      BY <3>4 DEF TypeOK
    <3>5. sweep' \in [Sweepers -> [now: Times, feed: SUBSET Times,
                                   rows: [Ids -> Row], gone: SUBSET Ids]
                                  \cup {Idle}]
      BY <2>8, <3>4 DEF Delete, TypeOK
    <3> QED
      BY <2>8, <3>2, <3>3, <3>5 DEF Delete, TypeOK
  <2>9. ASSUME NEW s \in Sweepers, SweepRead(s)
        PROVE  TypeOK'
    <3>1. Snapshot(table) \in [now: Times, feed: SUBSET Times,
                               rows: [Ids -> Row], gone: SUBSET Ids]
      BY DEF Snapshot, TypeOK
    <3> QED
      BY <2>9, <3>1 DEF SweepRead, TypeOK
  <2>10. ASSUME NEW s \in Sweepers, SweepCommit(s)
         PROVE  TypeOK'
    <3>1. table' \in [Ids -> Row]
      BY <2>10, SweptEffect DEF SweepCommit, TypeOK
    <3> QED
      BY <2>10, <3>1 DEF SweepCommit, TypeOK
  <2>11. CASE WorkerCycle
    <3>1. table' \in [Ids -> Row]
      BY <2>11, UpsertedType, SweptEffect DEF WorkerCycle
    <3> QED
      BY <2>11, <3>1 DEF WorkerCycle, TypeOK
  <2>12. CASE UNCHANGED vars
    BY <2>12 DEF vars, TypeOK
  <2> QED
    BY <2>1, <2>2, <2>3, <2>4, <2>5, <2>6, <2>7, <2>8, <2>9, <2>10, <2>11,
       <2>12 DEF Next
<1> QED
  BY <1>1, <1>2, PTL DEF Spec

\* The table satisfies the exclusion constraint.
Exclusive == ConstraintHolds(table)

\* The constraint is checked by the handlers that move or confirm a row; the
\* sweeps, the worker's derivation and the deletions keep it without a check.
LEMMA ConstraintKept == Spec => []Exclusive
<1>1. Init => Exclusive
  BY DEF Init, Exclusive, ConstraintHolds, Absent
<1>2. TypeOK /\ Exclusive /\ [Next]_vars => Exclusive'
  <2> SUFFICES ASSUME TypeOK, Exclusive, [Next]_vars
               PROVE  Exclusive'
    OBVIOUS
  <2>0. Exclusive' = ConstraintHolds(table')
    BY DEF Exclusive, ConstraintHolds
  <2>1. CASE UNCHANGED table
    BY <2>1 DEF Exclusive, ConstraintHolds
  <2>2. ASSUME NEW i \in Bookings, NEW r \in Requests, Create(i, r)
        PROVE  Exclusive'
    BY <2>0, <2>2 DEF Create
  <2>3. ASSUME NEW o \in Operators, NEW p \in Patches, PatchCommit(o, p)
        PROVE  Exclusive'
    BY <2>0, <2>1, <2>3 DEF PatchCommit
  <2>4. ASSUME NEW i \in Ids, Delete(i)
        PROVE  Exclusive'
    <3>1. \A j \in Ids : table'[j].status = "confirmed" =>
                           j # i /\ table'[j] = table[j]
      BY <2>4 DEF Delete, TypeOK, Absent
    <3> QED
      BY <3>1 DEF Exclusive, ConstraintHolds
  <2>5. ASSUME NEW s \in Sweepers, SweepCommit(s)
        PROVE  Exclusive'
    BY <2>0, <2>5, SweptKeepsConstraint
       DEF SweepCommit, TypeOK, Exclusive
  <2>6. CASE WorkerCycle
    BY <2>0, <2>6, UpsertedType, SweptKeepsConstraint DEF WorkerCycle
  <2> QED
    BY <2>1, <2>2, <2>3, <2>4, <2>5, <2>6
       DEF Next, Tick, FixLands, VesselBerths, VesselLeaves, PatchRead,
           SweepRead, vars
<1> QED
  BY <1>1, <1>2, TypeCorrect, PTL DEF Spec

\* No two confirmed rows ever hold the same water at the same time: the sweeps,
\* which check nothing, only ever take rows out of the constraint.
THEOREM WharfIsExclusive == Spec => []NoWharfOverlap
<1>1. TypeOK /\ Exclusive => NoWharfOverlap
  <2> SUFFICES ASSUME TypeOK, Exclusive, NEW i \in Ids, NEW j \in Ids, i # j,
                      table[i].status = "confirmed",
                      table[j].status = "confirmed",
                      TimeOverlaps(table[i].time, table[j].time),
                      ~IsEmpty(table[i].station), ~IsEmpty(table[j].station)
               PROVE  \/ table[i].station.hi + MooringGap <= table[j].station.lo
                      \/ table[j].station.hi + MooringGap <= table[i].station.lo
    BY DEF NoWharfOverlap
  <2>1. ~PaddedOverlaps(table[i].station, table[j].station)
    BY DEF Exclusive, ConstraintHolds, WharfConflict
  <2>2. table[i].station \in Stations /\ table[j].station \in Stations
    BY DEF TypeOK, Row
  <2> QED
    BY <2>1, <2>2, HullsKeepTheGap
<1> QED
  BY <1>1, TypeCorrect, ConstraintKept, PTL

\* A sweep can never be refused by the exclusion constraint, however stale its
\* snapshot has become.
THEOREM SweepIsNeverRefused == Spec => []ArchivingNeverBlocked
<1>1. TypeOK /\ Exclusive => ArchivingNeverBlocked
  BY SweptKeepsConstraint DEF TypeOK, Exclusive, ArchivingNeverBlocked
<1> QED
  BY <1>1, TypeCorrect, ConstraintKept, PTL

\* When no body overrides the draft gate, every confirmed booking clears the
\* depth under it, through any sequence of edits, sweeps and derivations.
THEOREM BookingsClearTheDepth ==
  ASSUME \A p \in Patches \cup Requests : "override" \notin DOMAIN p
  PROVE  Spec => []NoShallowBooking
<1>1. Init => NoShallowBooking
  BY DEF Init, NoShallowBooking, Absent, Ids
<1>2. TypeOK /\ NoShallowBooking /\ [Next]_vars => NoShallowBooking'
  <2> SUFFICES ASSUME TypeOK, NoShallowBooking, [Next]_vars,
                      NEW b \in Bookings, table'[b].status = "confirmed"
               PROVE  ~DepthBlocks(table'[b].vessel, table'[b].station, FALSE)
    BY DEF NoShallowBooking, DepthBlocks
  <2>0. b \in Ids /\ b \notin Vessels
    BY DEF Ids
  <2>1. CASE table'[b] = table[b]
    BY <2>1 DEF NoShallowBooking
  <2>2. ASSUME NEW i \in Bookings, NEW r \in Requests, Create(i, r)
        PROVE  ~DepthBlocks(table'[b].vessel, table'[b].station, FALSE)
    <3>1. table'[b] = Created(r) \/ table'[b] = table[b]
      BY <2>0, <2>2 DEF Create, TypeOK
    <3>2. Field(r, "override", FALSE) = FALSE
      BY DEF Field
    <3> QED
      BY <2>1, <2>2, <3>1, <3>2 DEF Create, CreateAccepted
  <2>3. ASSUME NEW o \in Operators, NEW p \in Patches, PatchCommit(o, p)
        PROVE  ~DepthBlocks(table'[b].vessel, table'[b].station, FALSE)
    <3>1. CASE PatchAccepted(p, session[o].cur)
      <4>1. \/ table'[b] = Patched(p, session[o].cur)
            \/ table'[b] = table[b]
        BY <2>0, <2>3 DEF PatchCommit, TypeOK
      <4>2. Field(p, "override", FALSE) = FALSE
        BY DEF Field
      <4> QED
        BY <2>1, <3>1, <4>1, <4>2 DEF PatchAccepted
    <3>2. CASE ~PatchAccepted(p, session[o].cur)
      BY <2>1, <2>3, <3>2 DEF PatchCommit
    <3> QED
      BY <3>1, <3>2
  <2>4. ASSUME NEW i \in Ids, Delete(i)
        PROVE  ~DepthBlocks(table'[b].vessel, table'[b].station, FALSE)
    BY <2>0, <2>1, <2>4 DEF Delete, TypeOK, Absent
  <2>5. ASSUME NEW s \in Sweepers, SweepCommit(s)
        PROVE  ~DepthBlocks(table'[b].vessel, table'[b].station, FALSE)
    <3>1. /\ table[b].status = "confirmed"
          /\ table'[b].vessel = table[b].vessel
          /\ table'[b].station = table[b].station
      BY <2>0, <2>5, SweptEffect DEF SweepCommit, TypeOK
    <3> QED
      BY <3>1 DEF NoShallowBooking
  <2>6. CASE WorkerCycle
    <3>1. Upserted \in [Ids -> Row] /\ Upserted[b] = table[b]
      BY UpsertedType
    <3>2. /\ table[b].status = "confirmed"
          /\ table'[b].vessel = table[b].vessel
          /\ table'[b].station = table[b].station
      BY <2>0, <2>6, <3>1, SweptEffect DEF WorkerCycle
    <3> QED
      BY <3>2 DEF NoShallowBooking
  <2> QED
    BY <2>1, <2>2, <2>3, <2>4, <2>5, <2>6
       DEF Next, Tick, FixLands, VesselBerths, VesselLeaves, PatchRead,
           SweepRead, vars
<1> QED
  BY <1>1, <1>2, TypeCorrect, PTL DEF Spec
-----------------------------------------------------------------------------
(***************************************************************************)
(* The desk implements the Wharf.  The exclusion constraint pads each hull *)
(* by half the gap; the Wharf asks for the whole gap between two hulls.    *)
(* That the one gives the other is HullsKeepTheGap; which steps may touch  *)
(* which holds is read off the actions.                                    *)
(***************************************************************************)

\* The Wharf's ranges are those of the desk: both extend WharfRanges with the
\* same constants.
LEMMA SameRanges ==
  /\ W!Empty = Empty
  /\ W!Stations = Stations
  /\ W!Windows = Windows
  /\ \A r : W!IsEmpty(r) <=> IsEmpty(r)
  /\ \A v, w : W!TimeOverlaps(v, w) <=> TimeOverlaps(v, w)
  BY DEF W!Empty, Empty, W!Stations, Stations, W!Windows, Windows, W!Bounds,
         Bounds, W!Before, Before, W!After, After, W!IsEmpty, IsEmpty,
         W!TimeOverlaps, TimeOverlaps

\* The holds of a table of rows are holds (intervals of conflicts.py).
LEMMA HeldInType ==
  ASSUME NEW tbl \in [Ids -> Row]
  PROVE  /\ HeldIn(tbl) \in [Ids -> W!Hold \cup {W!NoHold}]
         /\ \A i \in Ids : HeldIn(tbl)[i].given <=> tbl[i].status = "confirmed"
<1>1. \A i \in Ids : tbl[i].station \in Stations /\ tbl[i].time \in Windows
  BY DEF Row
<1>2. Empty \in Stations /\ Empty \in Windows
  BY DEF Stations, Windows
<1> QED
  BY <1>1, <1>2, SameRanges DEF HeldIn, W!Hold, W!NoHold

\* A table that satisfies no_wharf_overlap holds clear water only.
LEMMA ConstraintClears ==
  ASSUME NEW tbl \in [Ids -> Row], ConstraintHolds(tbl)
  PROVE  W!AllClear(HeldIn(tbl))
<1> SUFFICES ASSUME NEW i \in Ids, NEW j \in Ids, i # j
             PROVE  W!Clear(HeldIn(tbl)[i], HeldIn(tbl)[j])
  BY DEF W!AllClear
<1>1. CASE tbl[i].status = "confirmed" /\ tbl[j].status = "confirmed"
  <2>1. ~WharfConflict(tbl[i], tbl[j])
    BY <1>1 DEF ConstraintHolds
  <2>2. /\ HeldIn(tbl)[i].station = tbl[i].station
        /\ HeldIn(tbl)[i].time = tbl[i].time
        /\ HeldIn(tbl)[j].station = tbl[j].station
        /\ HeldIn(tbl)[j].time = tbl[j].time
    BY <1>1 DEF HeldIn
  <2>3. tbl[i].station \in Stations /\ tbl[j].station \in Stations
    BY DEF Row
  <2> QED
    BY <2>1, <2>2, <2>3, HullsKeepTheGap, SameRanges DEF WharfConflict, W!Clear
<1>2. CASE tbl[i].status # "confirmed"
  <2>1. HeldIn(tbl)[i].station = Empty
    BY <1>2 DEF HeldIn
  <2> QED
    BY <2>1, SameRanges DEF W!Clear, IsEmpty, Empty
<1>3. CASE tbl[j].status # "confirmed"
  <2>1. HeldIn(tbl)[j].station = Empty
    BY <1>3 DEF HeldIn
  <2> QED
    BY <2>1, SameRanges DEF W!Clear, IsEmpty, Empty
<1> QED
  BY <1>1, <1>2, <1>3

\* A step that keeps each hold or lets it go is a step of LetGo.
LEMMA OnlyReleases ==
  ASSUME NEW old \in [Ids -> Row], NEW new \in [Ids -> Row],
         \A i \in Ids : HeldIn(new)[i] \in {HeldIn(old)[i], W!NoHold}
  PROVE  \E gone \in SUBSET Ids :
           HeldIn(new) = [i \in Ids |-> IF i \in gone THEN W!NoHold
                                        ELSE HeldIn(old)[i]]
<1> DEFINE gone == {i \in Ids : HeldIn(new)[i] # HeldIn(old)[i]}
<1>1. gone \in SUBSET Ids
  OBVIOUS
<1>2. HeldIn(new) = [i \in Ids |-> HeldIn(new)[i]]
  BY DEF HeldIn
<1>3. \A i \in Ids : HeldIn(new)[i] = IF i \in gone THEN W!NoHold
                                      ELSE HeldIn(old)[i]
  OBVIOUS
<1> HIDE DEF gone
<1>4. HeldIn(new) = [i \in Ids |-> IF i \in gone THEN W!NoHold
                                   ELSE HeldIn(old)[i]]
  BY <1>2, <1>3
<1> QED
  BY <1>1, <1>4

\* A request that writes one row and is admitted by the constraint claims water
\* for that row and leaves every other hold alone (create, PATCH).
LEMMA OneClaim ==
  ASSUME NEW old \in [Ids -> Row], NEW i \in Ids, NEW row \in Row,
         row.status = "confirmed",
         ConstraintHolds([old EXCEPT ![i] = row])
  PROVE  LET new == [old EXCEPT ![i] = row]
         IN  /\ HeldIn(new)[i] \in W!Hold
             /\ HeldIn(new) = [HeldIn(old) EXCEPT ![i] = HeldIn(new)[i]]
             /\ W!AllClear(HeldIn(new))
<1> DEFINE new == [old EXCEPT ![i] = row]
<1>1. new \in [Ids -> Row]
  OBVIOUS
<1>2. HeldIn(new)[i] \in W!Hold
  <2>1. new[i].status = "confirmed"
    OBVIOUS
  <2>2. HeldIn(new)[i].given /\ HeldIn(new)[i] \in W!Hold \cup {W!NoHold}
    BY <1>1, <2>1, HeldInType
  <2>3. ~W!NoHold.given
    BY DEF W!NoHold
  <2> QED
    BY <2>2, <2>3
<1>3. \A j \in Ids : j # i => HeldIn(new)[j] = HeldIn(old)[j]
  BY DEF HeldIn
<1>4. HeldIn(new) = [HeldIn(old) EXCEPT ![i] = HeldIn(new)[i]]
  BY <1>3 DEF HeldIn
<1>5. W!AllClear(HeldIn(new))
  BY <1>1, ConstraintClears
<1> QED
  BY <1>2, <1>4, <1>5

\* A sweep keeps each hold or lets it go, from any snapshot (_EXPIRE_SQL).
LEMMA SweepReleases ==
  ASSUME NEW snap, NEW tbl \in [Ids -> Row], NEW i \in Ids
  PROVE  HeldIn(Swept(snap, tbl))[i] \in {HeldIn(tbl)[i], W!NoHold}
<1>1. /\ Swept(snap, tbl)[i].time = tbl[i].time
      /\ Swept(snap, tbl)[i].station = tbl[i].station
      /\ Swept(snap, tbl)[i].status = "confirmed" => tbl[i].status = "confirmed"
  BY SweptEffect
<1> QED
  BY <1>1, SameRanges DEF HeldIn, W!NoHold

\* The derivation moves no booking's hold and gives none: a row it inserts is
\* observed, a row already there keeps its status (upsert_observed).
LEMMA DerivationFollows ==
  ASSUME TypeOK, NEW i \in Ids
  PROVE  \/ HeldIn(Upserted)[i] = HeldIn(table)[i]
         \/ i \in Vessels /\ table[i].status = "confirmed"
<1>1. CASE i \in Bookings
  <2>1. Upserted[i] = table[i]
    BY <1>1, UpsertedType
  <2> QED
    BY <2>1 DEF HeldIn
<1>2. CASE i \in Vessels /\ table[i].status # "confirmed"
  <2>1. Upserted[i].status # "confirmed"
    BY <1>2 DEF Upserted, Derived, Present, TypeOK, Row, Absent
  <2> QED
    BY <1>2, <2>1 DEF HeldIn
<1> QED
  BY <1>1, <1>2 DEF Ids

\* Every step of the desk is a step of the Wharf or leaves the holds alone.
THEOREM DeskImplementsWharf == Spec => RefinesWharf
<1>1. Init => W!Init
  BY SameRanges DEF Init, W!Init, Held, HeldIn, W!NoHold, Absent
<1>2. TypeOK /\ TypeOK' /\ Exclusive /\ Exclusive' /\ [Next]_vars
        => [W!Next]_Held
  <2> SUFFICES ASSUME TypeOK, TypeOK', Exclusive, Exclusive', [Next]_vars
               PROVE  W!Next \/ UNCHANGED Held
    OBVIOUS
  <2>0. table \in [Ids -> Row] /\ table' \in [Ids -> Row]
    BY DEF TypeOK
  <2>1. CASE UNCHANGED table
    BY <2>1 DEF Held, HeldIn
  <2>2. ASSUME \A i \in Ids : HeldIn(table')[i] \in {HeldIn(table)[i], W!NoHold}
        PROVE  W!Next
    <3>1. Held' = HeldIn(table') /\ Held = HeldIn(table)
      BY DEF Held, HeldIn
    <3>2. W!LetGo
      <4>1. PICK gone \in SUBSET Ids :
              HeldIn(table') = [i \in Ids |-> IF i \in gone THEN W!NoHold
                                              ELSE HeldIn(table)[i]]
        BY <2>0, <2>2, OnlyReleases
      <4> QED
        BY <3>1, <4>1 DEF W!LetGo
    <3> QED
      BY <3>2 DEF W!Next
  <2>3. ASSUME NEW i \in Ids, NEW row \in Row,
               table' = [table EXCEPT ![i] = row], ConstraintHolds(table')
        PROVE  W!Next
    <3>0. Held' = HeldIn(table') /\ Held = HeldIn(table)
      BY DEF Held, HeldIn
    <3>1. CASE row.status = "confirmed"
      <4>1. LET new == [table EXCEPT ![i] = row]
            IN  /\ HeldIn(new)[i] \in W!Hold
                /\ HeldIn(new) = [HeldIn(table) EXCEPT ![i] = HeldIn(new)[i]]
                /\ W!AllClear(HeldIn(new))
        <5>1. ConstraintHolds([table EXCEPT ![i] = row])
          BY <2>3
        <5> QED
          BY <2>0, <3>1, <5>1, OneClaim
      <4>2. W!Claim(i)
        BY <2>3, <3>0, <4>1 DEF W!Claim
      <4> QED
        BY <2>3, <4>2 DEF W!Next
    <3>2. CASE row.status # "confirmed"
      <4>1. \A j \in Ids : HeldIn(table')[j] \in {HeldIn(table)[j], W!NoHold}
        BY <2>0, <2>3, <3>2, SameRanges DEF HeldIn, W!NoHold
      <4> QED
        BY <2>2, <4>1
    <3> QED
      BY <3>1, <3>2
  <2>4. ASSUME NEW i \in Bookings, NEW r \in Requests, Create(i, r)
        PROVE  W!Next
    <3>1. Created(r) \in Row
      BY <2>4, CreatedType, DeskAssumption DEF Create
    <3> QED
      BY <2>3, <2>4, <3>1 DEF Create, Ids
  <2>5. ASSUME NEW o \in Operators, NEW p \in Patches, PatchCommit(o, p)
        PROVE  W!Next \/ UNCHANGED table
    <3>1. session[o] \in [id: Ids, cur: Row]
      BY <2>5 DEF PatchCommit, TypeOK
    <3>2. CASE PatchAccepted(p, session[o].cur)
      <4>1. Patched(p, session[o].cur) \in Row
        BY <3>1, <3>2, PatchedType, DeskAssumption
      <4> QED
        BY <2>3, <2>5, <3>1, <4>1 DEF PatchCommit
    <3>3. CASE ~PatchAccepted(p, session[o].cur)
      BY <2>5, <3>3 DEF PatchCommit
    <3> QED
      BY <3>2, <3>3
  <2>6. ASSUME NEW i \in Ids, Delete(i)
        PROVE  W!Next
    <3>1. \A j \in Ids : HeldIn(table')[j] \in {HeldIn(table)[j], W!NoHold}
      BY <2>0, <2>6, SameRanges DEF Delete, HeldIn, Absent, W!NoHold
    <3> QED
      BY <2>2, <3>1
  <2>7. ASSUME NEW s \in Sweepers, SweepCommit(s)
        PROVE  W!Next
    <3>1. \A j \in Ids : HeldIn(table')[j] \in {HeldIn(table)[j], W!NoHold}
      BY <2>0, <2>7, SweepReleases DEF SweepCommit
    <3> QED
      BY <2>2, <3>1
  <2>8. CASE WorkerCycle
    <3>1. Upserted \in [Ids -> Row]
      BY UpsertedType
    <3>2. \A i \in Ids : HeldIn(table')[i] \in {HeldIn(Upserted)[i], W!NoHold}
      BY <2>8, <3>1, SweepReleases DEF WorkerCycle
    <3>3. Held' = HeldIn(table') /\ Held = HeldIn(table)
      BY DEF Held, HeldIn
    <3>4. \A i \in Ids : \/ Held'[i] \in {Held[i], W!NoHold}
                         \/ i \in Vessels /\ Held[i].given
      BY <2>0, <3>2, <3>3, DerivationFollows, HeldInType
    <3>5. Held' \in [Ids -> W!Hold \cup {W!NoHold}] /\ W!AllClear(Held')
      BY <2>0, <3>3, HeldInType, ConstraintClears DEF Exclusive
    <3> QED
      BY <3>4, <3>5 DEF W!FollowShips, W!Next
  <2> QED
    BY <2>1, <2>4, <2>5, <2>6, <2>7, <2>8
       DEF Next, Tick, FixLands, VesselBerths, VesselLeaves, PatchRead,
           SweepRead, vars
<1> QED
  BY <1>1, <1>2, TypeCorrect, ConstraintKept, PTL DEF Spec, RefinesWharf, W!Spec

-----------------------------------------------------------------------------
(***************************************************************************)
(* A partial edit.                                                         *)
(***************************************************************************)

\* The bound of a window that is not edited is read back and written again as it
\* was, unless the other one leaves no time between them (_time_sql).
LEMMA UneditedBoundStays ==
  ASSUME NEW w \in Windows, ~IsEmpty(w), NEW lo \in Bounds, NEW hi \in Bounds
  PROVE  /\ LET v == TimeRange(Lower(w), hi) IN v.lo = w.lo \/ IsEmpty(v)
         /\ LET v == TimeRange(lo, Upper(w)) IN v.hi = w.hi \/ IsEmpty(v)
  BY DEF TimeRange, Lower, Upper, IsEmpty, Empty

\* An edit that names no placement field keeps berth and station, one bound leaves
\* the other and the berth, unless the visit is cancelled (update_reservation).
LEMMA PatchedPlacement ==
  ASSUME NEW p, NEW cur \in Row,
         Field(p, "status", cur.status) # "cancelled"
  PROVE  LET placed == DOMAIN p \cap PlacementFields
             new    == Patched(p, cur)
         IN  /\ placed = {} => new.station = cur.station /\ new.berth = cur.berth
             /\ placed = {"stationLo"} =>
                  new.station.hi = cur.station.hi /\ new.berth = cur.berth
             /\ placed = {"stationHi"} =>
                  new.station.lo = cur.station.lo /\ new.berth = cur.berth
<1> DEFINE how == PlacementCase(p, Field(p, "status", cur.status))
           placed == DOMAIN p \cap PlacementFields
<1>1. /\ Patched(p, cur).station = PatchedStation(p, cur)
      /\ Patched(p, cur).berth =
           IF how = "cleared" THEN NoBerth ELSE Field(p, "berth", cur.berth)
  BY DEF Patched
<1>2. "berth" \notin DOMAIN p => Field(p, "berth", cur.berth) = cur.berth
  BY DEF Field
<1>3. ASSUME placed = {}
      PROVE  Patched(p, cur).station = cur.station /\ Patched(p, cur).berth = cur.berth
  <2>1. how = "kept" /\ "berth" \notin DOMAIN p
    BY <1>3 DEF PlacementFields, PlacementCase, HasBounds, Field
  <2>2. PatchedStation(p, cur) = cur.station
    BY <2>1 DEF PatchedStation
  <2> QED
    BY <1>1, <1>2, <2>1, <2>2
<1>4. ASSUME placed = {"stationLo"}
      PROVE  Patched(p, cur).station.hi = cur.station.hi /\ Patched(p, cur).berth = cur.berth
  <2>1. how = "bounds" /\ "berth" \notin DOMAIN p /\ "stationHi" \notin DOMAIN p
    BY <1>4 DEF PlacementFields, PlacementCase, HasBounds, Field
  <2>2. PatchedStation(p, cur).hi = cur.station.hi
    BY <2>1 DEF PatchedStation, Bound
  <2> QED
    BY <1>1, <1>2, <2>1, <2>2
<1>5. ASSUME placed = {"stationHi"}
      PROVE  Patched(p, cur).station.lo = cur.station.lo /\ Patched(p, cur).berth = cur.berth
  <2>1. how = "bounds" /\ "berth" \notin DOMAIN p /\ "stationLo" \notin DOMAIN p
    BY <1>5 DEF PlacementFields, PlacementCase, HasBounds, Field
  <2>2. PatchedStation(p, cur).lo = cur.station.lo
    BY <2>1 DEF PatchedStation, Bound
  <2> QED
    BY <1>1, <1>2, <2>1, <2>2
<1> QED
  BY <1>3, <1>4, <1>5

\* What an edit may write of the row p it read, was.
EditKeeps(p, was, new) ==
  LET placed == DOMAIN p \cap PlacementFields
  IN  /\ "vessel" \notin DOMAIN p => new.vessel = was.vessel
      /\ "direction" \notin DOMAIN p => new.direction = was.direction
      /\ "status" \notin DOMAIN p => new.status = was.status
      /\ "notes" \notin DOMAIN p => new.flags = was.flags
      /\ ~IsEmpty(was.time) /\ ~IsEmpty(new.time) =>
           /\ "etb" \notin DOMAIN p => new.time.lo = was.time.lo
           /\ "etd" \notin DOMAIN p => new.time.hi = was.time.hi
      /\ new.status # "cancelled" =>
           /\ placed = {} => /\ new.station = was.station
                             /\ new.berth = was.berth
           /\ placed = {"stationLo"} => /\ new.station.hi = was.station.hi
                                        /\ new.berth = was.berth
           /\ placed = {"stationHi"} => /\ new.station.lo = was.station.lo
                                        /\ new.berth = was.berth

\* The row a PATCH makes of the row it read keeps what its body does not name
\* (edit.py:118).
LEMMA PatchedKeeps ==
  ASSUME NEW p, WellFormed(p), NEW was \in Row
  PROVE  EditKeeps(p, was, Patched(p, was))
<1> DEFINE new == Patched(p, was)
           lo  == Field(p, "etb", Lower(was.time))
           hi  == Field(p, "etd", Upper(was.time))
<1>1. /\ new.vessel = Field(p, "vessel", was.vessel)
      /\ new.direction = Field(p, "direction", was.direction)
      /\ new.status = Field(p, "status", was.status)
      /\ new.flags = IF "notes" \in DOMAIN p THEN 0 ELSE was.flags
      /\ new.time = TimeRange(lo, hi)
  BY DEF Patched
<1>2. was.time \in Windows
  BY DEF Row
<1>3. lo \in Bounds /\ hi \in Bounds
  BY <1>2, ReadBackType DEF WellFormed, Field, Bounds, Times, Before, After
<1>4. /\ "etb" \notin DOMAIN p => lo = Lower(was.time)
      /\ "etd" \notin DOMAIN p => hi = Upper(was.time)
      /\ "vessel" \notin DOMAIN p => Field(p, "vessel", was.vessel) = was.vessel
      /\ "direction" \notin DOMAIN p =>
           Field(p, "direction", was.direction) = was.direction
      /\ "status" \notin DOMAIN p => Field(p, "status", was.status) = was.status
  BY DEF Field
<1>5. new.status # "cancelled" =>
        LET placed == DOMAIN p \cap PlacementFields
        IN  /\ placed = {} => new.station = was.station /\ new.berth = was.berth
            /\ placed = {"stationLo"} =>
                 new.station.hi = was.station.hi /\ new.berth = was.berth
            /\ placed = {"stationHi"} =>
                 new.station.lo = was.station.lo /\ new.berth = was.berth
  BY <1>1, PatchedPlacement
<1> HIDE DEF new, lo, hi
<1>6. ~IsEmpty(was.time) /\ ~IsEmpty(new.time) =>
        /\ "etb" \notin DOMAIN p => new.time.lo = was.time.lo
        /\ "etd" \notin DOMAIN p => new.time.hi = was.time.hi
  BY <1>1, <1>2, <1>3, <1>4, UneditedBoundStays
<1>7. EditKeeps(p, was, new)
  BY <1>1, <1>4, <1>5, <1>6 DEF EditKeeps
<1> QED
  BY <1>7 DEF new

\* A PATCH, of any operator and any body.
EditStep ==
  \A o \in Operators, p \in Patches :
    /\ table' # table /\ session'[o] # session[o]
    /\ table'[session[o].id] = Patched(p, session[o].cur)
    /\ PatchCommit(o, p)
    => EditKeeps(p, session[o].cur, table'[session[o].id])

\* Whatever the body and whatever happened since the PATCH read the row, an
\* accepted edit writes every field it does not name as it read it
\* (update_reservation in app/edit.py).
THEOREM EditsKeepTheRest == Spec => PartialEditKeepsTheRest
<1>1. TypeOK => EditStep
  <2> SUFFICES ASSUME TypeOK, NEW o \in Operators, NEW p \in Patches,
                      PatchCommit(o, p),
                      table'[session[o].id] = Patched(p, session[o].cur)
               PROVE  EditKeeps(p, session[o].cur, table'[session[o].id])
    BY DEF EditStep
  <2>1. session[o].cur \in Row
    BY DEF PatchCommit, TypeOK
  <2>2. WellFormed(p)
    BY DeskAssumption
  <2> QED
    BY <2>1, <2>2, PatchedKeeps
<1>2. Spec => [][EditStep]_vars
  BY <1>1, TypeCorrect, PTL DEF Spec
<1> QED
  BY <1>2 DEF PartialEditKeepsTheRest, EditStep, EditKeeps

-----------------------------------------------------------------------------
(***************************************************************************)
(* Archiving.  A sweep judges from a snapshot of the past: what made its   *)
(* verdict true then is true now, since the clock and the feed only grow.  *)
(***************************************************************************)

SnapshotsArePast ==
  \A s \in Sweepers :
    sweep[s] # Idle => sweep[s].now <= clock /\ sweep[s].feed \subseteq feed

\* Snapshots are of the past in every reachable state.
LEMMA SnapshotsStayPast == Spec => []SnapshotsArePast
<1>1. Init => SnapshotsArePast
  BY DEF Init, SnapshotsArePast
<1>2. TypeOK /\ SnapshotsArePast /\ [Next]_vars => SnapshotsArePast'
  <2> SUFFICES ASSUME TypeOK, SnapshotsArePast, [Next]_vars,
                      NEW s \in Sweepers, sweep'[s] # Idle
               PROVE  sweep'[s].now <= clock' /\ sweep'[s].feed \subseteq feed'
    BY DEF SnapshotsArePast
  <2>0. clock \in Int /\ (sweep[s] # Idle => sweep[s].now \in Int)
    BY DEF TypeOK, Times
  <2>1. clock <= clock' /\ feed \subseteq feed' /\ clock' \in Int
    <3>1. /\ clock' = clock \/ clock' = clock + 1
          /\ feed' = feed \/ feed' = feed \cup {clock}
      BY DEF Next, vars, Tick, FixLands, VesselBerths, VesselLeaves, Create,
         PatchRead, PatchCommit, Delete, SweepRead, SweepCommit, WorkerCycle
    <3> QED
      BY <2>0, <3>1
  <2>2. ASSUME sweep[s] # Idle, sweep'[s].now = sweep[s].now,
               sweep'[s].feed = sweep[s].feed
        PROVE  sweep'[s].now <= clock' /\ sweep'[s].feed \subseteq feed'
    BY <2>0, <2>1, <2>2 DEF SnapshotsArePast
  <2>3. CASE UNCHANGED sweep
    BY <2>2, <2>3
  <2>4. ASSUME NEW i \in Ids, Delete(i)
        PROVE  /\ sweep[s] # Idle
               /\ sweep'[s].now = sweep[s].now /\ sweep'[s].feed = sweep[s].feed
    <3>1. sweep'[s] = IF sweep[s] # Idle THEN [sweep[s] EXCEPT !.gone = @ \cup {i}]
                      ELSE sweep[s]
      BY <2>4 DEF Delete
    <3>2. sweep[s] # Idle
      BY <3>1
    <3>3. sweep[s] \in [now: Times, feed: SUBSET Times,
                        rows: [Ids -> Row], gone: SUBSET Ids]
      BY <3>2 DEF TypeOK
    <3> QED
      BY <3>1, <3>2, <3>3
  <2>5. ASSUME NEW q \in Sweepers, SweepRead(q)
        PROVE  sweep'[s].now <= clock' /\ sweep'[s].feed \subseteq feed'
    <3>1. CASE q = s
      <4>1. sweep'[s] = Snapshot(table)
        BY <2>5, <3>1 DEF SweepRead, TypeOK
      <4> QED
        BY <2>0, <2>1, <4>1 DEF Snapshot
    <3>2. CASE q # s
      BY <2>2, <2>5, <3>2 DEF SweepRead, TypeOK
    <3> QED
      BY <3>1, <3>2
  <2>6. ASSUME NEW q \in Sweepers, SweepCommit(q)
        PROVE  sweep'[s].now <= clock' /\ sweep'[s].feed \subseteq feed'
    BY <2>2, <2>6 DEF SweepCommit, TypeOK
  <2> QED
    BY <2>2, <2>3, <2>4, <2>5, <2>6
       DEF Next, vars, Tick, FixLands, VesselBerths, VesselLeaves, Create,
           PatchRead, PatchCommit, WorkerCycle
<1> QED
  BY <1>1, <1>2, TypeCorrect, PTL DEF Spec

\* What a verdict that archives rests on (expiry_action).
LEMMA VerdictEvidence ==
  ASSUME NEW snap, NEW i
  PROVE  /\ Verdict(snap, i) \in {"completed", "cancelled"} =>
              Stale(snap.rows[i], snap.now)
         /\ Verdict(snap, i) = "cancelled" =>
              /\ ~Arrived(snap.rows, i)
              /\ snap.rows[i].status # "confirmed"
              /\ FeedAlive(snap.feed, snap.rows[i].time)
  BY DEF Verdict

\* The sweep changes the status of a row to its verdict or not at all.
LEMMA SweptStatus ==
  ASSUME NEW snap, NEW tbl \in [Ids -> Row], NEW i \in Ids
  PROVE  \/ Swept(snap, tbl)[i].status = tbl[i].status
         \/ /\ Swept(snap, tbl)[i].status = Verdict(snap, i)
            /\ Verdict(snap, i) \in {"completed", "cancelled"}
<1> DEFINE verdict == Verdict(snap, i)
<1>1. Swept(snap, tbl)[i] \in {tbl[i], SweptRow(verdict, tbl[i])}
  BY DEF Swept
<1>2. verdict \in {"none", "completed", "cancelled", "flagged"}
  BY VerdictValues
<1>3. tbl[i] \in Row
  OBVIOUS
<1> HIDE DEF verdict
<1>4. CASE verdict \in {"completed", "cancelled"}
  <2>1. SweptRow(verdict, tbl[i]) = [tbl[i] EXCEPT !.status = verdict]
    BY <1>4 DEF SweptRow
  <2>2. SweptRow(verdict, tbl[i]).status = verdict
    BY <1>3, <2>1 DEF Row
  <2> QED
    BY <1>1, <1>4, <2>2 DEF verdict
<1>5. CASE verdict = "flagged"
  <2>1. SweptRow(verdict, tbl[i]) = [tbl[i] EXCEPT !.flags = @ + 1]
    BY <1>5 DEF SweptRow
  <2>2. SweptRow(verdict, tbl[i]).status = tbl[i].status
    BY <1>3, <2>1 DEF Row
  <2> QED
    BY <1>1, <2>2
<1>6. CASE verdict = "none"
  <2>1. SweptRow(verdict, tbl[i]) = tbl[i]
    BY <1>6 DEF SweptRow
  <2> QED
    BY <1>1, <2>1
<1> QED
  BY <1>2, <1>4, <1>5, <1>6

\* A booking is archived by no step that changes no session but the commit of a
\* browser's sweep or of the worker's cycle, and as its verdict says.
LEMMA WhoArchives ==
  ASSUME TypeOK, [Next]_vars, NEW b \in Bookings, Archives(b)
  PROVE  \/ \E s \in Sweepers :
              SweepCommit(s) /\ table'[b].status = Verdict(sweep[s], b)
         \/ WorkerCycle /\ table'[b].status = Verdict(Snapshot(Upserted), b)
<1>0. /\ b \in Ids /\ b \notin Vessels
      /\ table[b].status \in Planned /\ table'[b].status \in {"completed", "cancelled"}
      /\ table'[b].status # table[b].status
      /\ table[b].status # "absent"
  BY DEF Archives, Ids, Planned
<1>1. CASE UNCHANGED table
  BY <1>0, <1>1
<1>2. ASSUME NEW i \in Bookings, NEW r \in Requests, Create(i, r)
      PROVE  FALSE
  BY <1>0, <1>2 DEF Create, Present, TypeOK
<1>3. ASSUME NEW o \in Operators, NEW p \in Patches, PatchCommit(o, p)
      PROVE  FALSE
  BY <1>3 DEF PatchCommit, Archives, TypeOK
<1>4. ASSUME NEW i \in Ids, Delete(i)
      PROVE  FALSE
  BY <1>0, <1>4 DEF Delete, Absent, TypeOK
<1>5. ASSUME NEW s \in Sweepers, SweepCommit(s)
      PROVE  table'[b].status = Verdict(sweep[s], b)
  BY <1>0, <1>5, SweptStatus DEF SweepCommit, TypeOK
<1>6. CASE WorkerCycle
  <2>1. Upserted \in [Ids -> Row] /\ Upserted[b] = table[b]
    BY UpsertedType
  <2>2. table'[b].status = Verdict(Snapshot(Upserted), b)
    BY <1>0, <1>6, <2>1, SweptStatus DEF WorkerCycle
  <2> QED
    BY <1>6, <2>2
<1> QED
  BY <1>1, <1>2, <1>3, <1>4, <1>5, <1>6
     DEF Next, Tick, FixLands, VesselBerths, VesselLeaves, PatchRead,
         SweepRead, vars

\* What a step that archives rests on.
EvidenceStep ==
  \A b \in Bookings : Archives(b) => \A rows \in Judged : Evidence(b, rows)

\* A verdict of the past is evidence now.
LEMMA PastVerdict ==
  ASSUME TypeOK, NEW b \in Bookings, NEW snap,
         snap.rows \in [Ids -> Row], snap.now \in Int,
         snap.now <= clock, snap.feed \subseteq feed,
         table'[b].status = Verdict(snap, b),
         table'[b].status \in {"completed", "cancelled"}
  PROVE  Evidence(b, snap.rows)
<1> DEFINE seen == snap.rows[b]
<1>1. Stale(seen, snap.now)
  BY VerdictEvidence
<1>2. seen.time.hi \in Int /\ clock \in Int /\ Grace \in Int
  BY DEF Ids, TypeOK, Times, Row, Windows, Empty, Bounds, Before, After
<1>3. /\ seen.status \in Planned /\ ~IsEmpty(seen.time)
      /\ seen.time.hi + Grace <= clock
  <2>1. /\ seen.status \in Planned /\ ~IsEmpty(seen.time)
        /\ seen.time.hi + Grace <= snap.now
    BY <1>1 DEF Stale
  <2> HIDE DEF seen
  <2> QED
    BY <1>2, <2>1
<1>4. Arrived(snap.rows, b) <=>
        seen.vessel \in Vessels /\ ArrivalsSeen(snap.rows, b) # {}
  BY DEF Arrived, ArrivalsSeen
<1>5. table'[b].status = "completed" => Arrived(snap.rows, b)
  BY DEF Verdict
<1>6. table'[b].status = "cancelled" =>
        /\ ~Arrived(snap.rows, b)
        /\ seen.status # "confirmed"
        /\ FeedAlive(snap.feed, seen.time)
  BY VerdictEvidence
<1>7. FeedAlive(snap.feed, seen.time) => FeedAlive(feed, seen.time)
  BY DEF FeedAlive
<1> QED
  BY <1>3, <1>4, <1>5, <1>6, <1>7 DEF Evidence

\* Archiving rests on evidence, whatever was edited meanwhile: by the clock of the
\* commit the row the sweep saw had ended a grace period ago, it is completed on an
\* observed berthing of its vessel during its window, and cancelled only without
\* one, unconfirmed, and with the feed alive (expiry_action, _EXPIRE_SQL).
THEOREM ArchivesOnEvidence == Spec => ArchivedOnEvidence
<1>1. TypeOK /\ SnapshotsArePast /\ [Next]_vars => EvidenceStep
  <2> SUFFICES ASSUME TypeOK, SnapshotsArePast, [Next]_vars, NEW b \in Bookings,
                      Archives(b), NEW rows \in Judged
               PROVE  Evidence(b, rows)
    BY DEF EvidenceStep
  <2>0. table'[b].status \in {"completed", "cancelled"}
    BY DEF Archives
  <2>1. ASSUME NEW s \in Sweepers, SweepCommit(s),
               table'[b].status = Verdict(sweep[s], b)
        PROVE  Evidence(b, rows)
    <3>1. /\ sweep[s] # Idle /\ sweep'[s] = Idle
          /\ \A q \in Sweepers : q # s => sweep'[q] = sweep[q]
      BY <2>1 DEF SweepCommit, TypeOK
    <3>2. sweep' # sweep
      BY <3>1
    <3>3. rows = sweep[s].rows
      BY <3>1, <3>2 DEF Judged
    <3>4. /\ sweep[s].now \in Times /\ sweep[s].rows \in [Ids -> Row]
          /\ sweep[s].now <= clock /\ sweep[s].feed \subseteq feed
      BY <3>1 DEF TypeOK, SnapshotsArePast
    <3>5. sweep[s].now \in Int
      BY <3>4 DEF Times
    <3> QED
      BY <2>0, <2>1, <3>3, <3>4, <3>5, PastVerdict
  <2>2. ASSUME WorkerCycle, table'[b].status = Verdict(Snapshot(Upserted), b)
        PROVE  Evidence(b, rows)
    <3>1. rows = Upserted
      BY <2>2 DEF Judged, WorkerCycle
    <3>2. /\ Snapshot(Upserted).rows = Upserted /\ Snapshot(Upserted).now = clock
          /\ Snapshot(Upserted).feed = feed
      BY DEF Snapshot
    <3>3. Upserted \in [Ids -> Row]
      BY UpsertedType
    <3>4. clock \in Int /\ clock <= clock
      BY DEF TypeOK, Times
    <3>5. Evidence(b, Snapshot(Upserted).rows)
      BY <2>0, <2>2, <3>2, <3>3, <3>4, PastVerdict
    <3> QED
      BY <3>1, <3>2, <3>5
  <2> QED
    BY <2>1, <2>2, WhoArchives
<1>2. Spec => [][EvidenceStep]_vars
  BY <1>1, TypeCorrect, SnapshotsStayPast, PTL DEF Spec
<1> QED
  BY <1>2 DEF ArchivedOnEvidence, EvidenceStep

\* What the worker may not take for a no-show.
ArrivalStep ==
  \A b \in Bookings :
    /\ Archives(b)
    /\ UNCHANGED sweep
    /\ table'[b].status = "cancelled"
    => LET v == table[b].vessel
       IN  v \in Vessels =>
             \/ berthing[v] = NoBerthing
             \/ ~TimeOverlaps(TimeRange(berthing[v].start, berthing[v].end),
                              table[b].time)
             \/ table'[v].status # "observed"
             \/ table'[v].vessel # v

\* The worker takes no vessel for a no-show that its own derivation, in the same
\* transaction, shows alongside in the booked window.
THEOREM WorkerSweepsWhatItDerived == Spec => WorkerSeesArrivals
<1>1. TypeOK /\ [Next]_vars => ArrivalStep
  <2> SUFFICES ASSUME TypeOK, [Next]_vars, NEW b \in Bookings, Archives(b),
                      UNCHANGED sweep, table'[b].status = "cancelled",
                      NEW v \in Vessels, v = table[b].vessel,
                      berthing[v] # NoBerthing,
                      TimeOverlaps(TimeRange(berthing[v].start, berthing[v].end),
                                   table[b].time),
                      table'[v].status = "observed", table'[v].vessel = v
               PROVE  FALSE
    BY DEF ArrivalStep
  <2>0. b \in Ids /\ v \in Ids
    BY DEF Ids
  <2>1. WorkerCycle /\ Verdict(Snapshot(Upserted), b) = "cancelled"
    <3>1. ~ \E s \in Sweepers : SweepCommit(s)
      BY DEF SweepCommit, TypeOK
    <3> QED
      BY <3>1, WhoArchives
  <2>2. ~Arrived(Upserted, b)
    BY <2>1, VerdictEvidence DEF Snapshot
  <2>3. Upserted \in [Ids -> Row] /\ Upserted[b] = table[b]
    BY UpsertedType
  <2>4. Upserted[v].status = "observed" /\ Upserted[v].vessel = v
    <3>1. table' = Swept(Snapshot(Upserted), Upserted)
      BY <2>1 DEF WorkerCycle
    <3> QED
      BY <2>0, <2>3, <3>1, SweptStatus, SweptEffect
  <2>5. Upserted[v].time = TimeRange(berthing[v].start, berthing[v].end)
    <3>1. Upserted[v] = Derived(v)
      BY <2>0 DEF Upserted
    <3>2. table[v] \in Row
      BY <2>0 DEF TypeOK
    <3> QED
      BY <3>1, <3>2 DEF Derived, Row, Absent
  <2> QED
    BY <2>0, <2>2, <2>3, <2>4, <2>5 DEF Arrived
<1>2. Spec => [][ArrivalStep]_vars
  BY <1>1, TypeCorrect, PTL DEF Spec
<1> QED
  BY <1>2 DEF WorkerSeesArrivals, ArrivalStep

-----------------------------------------------------------------------------
(***************************************************************************)
(* What the console shows.                                                 *)
(***************************************************************************)

\* A vessel alongside now is shown in conflict with exactly the plans for its water
\* that reach the present: begun before this moment, over no earlier (conflicts.py).
THEOREM AlertsArePresent == Spec => []AlertsReachThePresent
<1>1. TypeOK => AlertsReachThePresent
  <2> SUFFICES ASSUME TypeOK, NEW i \in Ids, NEW j \in Ids,
                      table[i].status = "observed",
                      table[i].time.hi = After, Before < table[i].time.lo,
                      table[i].time.lo < clock,
                      table[j].status \in Planned, ~IsEmpty(table[j].time),
                      ~SameVessel(table[i], table[j]),
                      StationOverlaps(table[i].station, table[j].station)
               PROVE  LET b == table[j]
                          shown  == <<i, j>> \in Conflicts
                          covers == b.time.lo <= clock /\ clock < b.time.hi
                      IN  /\ covers /\ b.time.lo # clock => shown
                          /\ b.time.hi = clock => shown
                          /\ b.time.lo >= clock \/ b.time.hi < clock => ~shown
    BY DEF AlertsReachThePresent
  <2> DEFINE a == table[i]
             b == table[j]
  <2>1. /\ a.time.lo \in Int /\ b.time.lo \in Int /\ b.time.hi \in Int
        /\ clock \in Int
    BY DEF TypeOK, Row, Windows, Empty, Bounds, Before, After, Times
  <2>2. b.status # "observed" /\ OnBoard(a) /\ OnBoard(b) /\ i # j
    BY DEF OnBoard, Planned
  <2>3. EffRange(a) = [lo |-> a.time.lo, hi |-> clock]
    BY DEF EffRange, TimeRange
  <2>4. EffRange(b) = b.time
    BY <2>2 DEF EffRange
  <2>5. <<i, j>> \in Conflicts <=> Conflict(a, b) /\ Current(a, b)
    BY <2>2 DEF Conflicts
  <2>6. Conflict(a, b) <=> TimeOverlaps(EffRange(a), EffRange(b))
    BY <2>2 DEF Conflict
  <2>7. ~IsEmpty(b.time) /\ a.time.lo < clock
    OBVIOUS
  <2> HIDE DEF a, b
  <2>8. TimeOverlaps(EffRange(a), EffRange(b)) <=>
          a.time.lo < b.time.hi /\ b.time.lo < clock
    BY <2>1, <2>3, <2>4, <2>7 DEF TimeOverlaps, IsEmpty
  <2>9. Current(a, b) <=> clock <= b.time.hi
    BY <2>1, <2>3, <2>4 DEF Current
  <2>10. <<i, j>> \in Conflicts <=> b.time.lo < clock /\ clock <= b.time.hi
    BY <2>1, <2>5, <2>6, <2>7, <2>8, <2>9
  <2>11. b.time.lo < b.time.hi
    BY <2>1, <2>7 DEF IsEmpty
  <2> QED
    BY <2>1, <2>10, <2>11 DEF b
<1> QED
  BY <1>1, TypeCorrect, PTL

\* The sweep and the panel, two queries, find the same arrivals and call no-show
\* the same plans, the sweep a grace period later (expiry_action, verify).
THEOREM SweepAndPanelAgree == Spec => []SweepAgreesWithPanel
<1>1. TypeOK => SweepAgreesWithPanel
  <2> SUFFICES ASSUME TypeOK, NEW i \in DOMAIN PlannedPanel
               PROVE  LET verdict == Verdict(Snapshot(table), i)
                          state   == PlannedPanel[i]
                      IN  /\ verdict = "completed" => state = "arrived"
                          /\ verdict \in {"cancelled", "flagged"} => state = "no_show"
                          /\ state = "arrived" /\ Stale(table[i], clock) =>
                               verdict = "completed"
    BY DEF SweepAgreesWithPanel
  <2>1. i \in Ids /\ Verified(i) /\ PlannedPanel[i] = ClassifyPlanned(i)
    BY DEF PlannedPanel
  <2>2. /\ table[i].vessel \in Vessels
        /\ table[i].time.hi \in Int /\ clock \in Int /\ Grace \in Nat
    BY <2>1 DEF Verified, TypeOK, Row, Windows, Empty, Bounds, Before, After, Times
  <2>3. Arrived(table, i) <=> Matches(i) # {}
    BY <2>1, <2>2 DEF Arrived, Matches
  <2>4. /\ Snapshot(table).rows = table /\ Snapshot(table).now = clock
        /\ Snapshot(table).feed = feed
    BY DEF Snapshot
  <2>5. Stale(table[i], clock) =>
          table[i].time.hi # After /\ table[i].time.hi <= clock
    BY <2>2 DEF Stale
  <2> QED
    BY <2>1, <2>3, <2>4, <2>5 DEF Verdict, ClassifyPlanned
<1> QED
  BY <1>1, TypeCorrect, PTL
=============================================================================
