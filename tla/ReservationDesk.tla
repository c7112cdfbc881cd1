-------------------------- MODULE ReservationDesk --------------------------
(***************************************************************************)
(* The reservation table and everything that writes to it concurrently:    *)
(*                                                                         *)
(*   - operators, through POST / PATCH / DELETE /reservations              *)
(*     (app/edit.py, app/routers/edit.py).  A PATCH is a read followed by  *)
(*     a full-row UPDATE, with nothing locked in between;                  *)
(*   - browsers, through POST /verification/sweep (app/verification.py).   *)
(*     The sweep is one UPDATE joined to its own table: under READ         *)
(*     COMMITTED it decides from its snapshot and, where a row was changed *)
(*     meanwhile, applies the decision to the newer version of the row;    *)
(*   - the occupancy worker (app/occupancy/run.py), which upserts the      *)
(*     observed rows, sweeps and commits in one transaction.               *)
(*                                                                         *)
(* The environment is the clock, the AIS feed (the ticks at which any fix  *)
(* landed) and the berthings the position reports show.                    *)
(***************************************************************************)
EXTENDS WharfRanges

CONSTANTS
  Bookings,   \* ids of the rows operators create
  Vessels,    \* vessels; also the ids of the observed rows, one per vessel
  NoVessel,   \* vessel_id NULL
  Berths,     \* the named berths of the catalog
  NoBerth,    \* berth_id NULL
  Catalog,    \* the station range of each berth
  Loa,        \* the length of each vessel in feet, 0 when unknown
  Shoals,     \* the stretches of wharf too shallow for each vessel
  Grace,      \* verification_grace_minutes
  Operators,  \* concurrent PATCH requests
  Sweepers,   \* concurrent POST /verification/sweep requests
  Moorings,   \* where and how a vessel may be seen alongside
  Requests,   \* the bodies of POST /reservations
  Patches,    \* the bodies of PATCH /reservations/{id}: only the fields set
  Idle        \* no request in progress

Ids == Bookings \cup Vessels

Planned    == {"requested", "tentative", "confirmed"}
Statuses   == Planned \cup {"observed", "cancelled", "completed"}
Directions == {"none", "upstream", "downstream"}

NoBerthing == [start |-> Before, end |-> Before, station |-> Empty,
               direction |-> "none"]
BerthingsSeen ==
  {b \in [start: Times, end: Bounds, station: Stations, direction: Directions] :
     b.start < b.end}

(***************************************************************************)
(* A row of the table; "absent" is the id of no row.  flags counts the     *)
(* "[no-show flag]" lines of its notes.                                    *)
(***************************************************************************)
Row == [vessel: Vessels \cup {NoVessel}, berth: Berths \cup {NoBerth},
        station: Stations, time: Windows, direction: Directions,
        status: Statuses \cup {"absent"}, flags: Nat]

Absent == [vessel |-> NoVessel, berth |-> NoBerth, station |-> Empty,
           time |-> Empty, direction |-> "none", status |-> "absent",
           flags |-> 0]

BodyFields == {"vessel", "berth", "stationLo", "stationHi", "bow",
               "unassigned", "direction", "status", "etb", "etd", "notes",
               "override"}

(***************************************************************************)
(* A request body is the record of the fields it sets.                     *)
(***************************************************************************)
Field(p, f, default) == IF f \in DOMAIN p THEN p[f] ELSE default

WellFormed(p) ==
  /\ DOMAIN p \subseteq BodyFields
  /\ "vessel" \in DOMAIN p => p["vessel"] \in Vessels \cup {NoVessel}
  /\ "berth" \in DOMAIN p => p["berth"] \in Berths \cup {NoBerth}
  /\ "stationLo" \in DOMAIN p => p["stationLo"] \in Int
  /\ "stationHi" \in DOMAIN p => p["stationHi"] \in Int
  /\ "bow" \in DOMAIN p => p["bow"] \in Int
  /\ "unassigned" \in DOMAIN p => p["unassigned"] \in BOOLEAN
  /\ "direction" \in DOMAIN p => p["direction"] \in Directions
  /\ "status" \in DOMAIN p => p["status"] \in Statuses
  /\ "etb" \in DOMAIN p => p["etb"] \in Times \cup {Before}
  /\ "etd" \in DOMAIN p => p["etd"] \in Times \cup {After}
  /\ "override" \in DOMAIN p => p["override"] \in BOOLEAN

ASSUME DeskAssumption ==
  /\ Bookings \cap Vessels = {}
  /\ NoVessel \notin Vessels
  /\ NoBerth \notin Berths
  /\ Catalog \in [Berths -> Stations \ {Empty}]
  /\ Loa \in [Vessels -> Nat]
  /\ Shoals \in [Vessels -> SUBSET Stations]
  /\ Grace \in Nat
  /\ Moorings \subseteq
       [station: Stations \ {Empty}, direction: Directions]
  /\ \A p \in Patches : WellFormed(p)
  /\ \A r \in Requests : WellFormed(r) /\ Field(r, "etb", Before) \in Times

VARIABLES
  clock,    \* now()
  feed,     \* the ticks at which some position report landed
  berthing, \* what the position reports show of each vessel
  table,    \* the reservation table
  session,  \* what each PATCH in progress has read
  sweep     \* the snapshot of each sweep in progress

vars == <<clock, feed, berthing, table, session, sweep>>

Present(tbl, i) == tbl[i].status # "absent"

(***************************************************************************)
(* no_wharf_overlap: no two confirmed rows conflict.                       *)
(***************************************************************************)
ConstraintHolds(tbl) ==
  \A i, j \in Ids :
    /\ i # j
    /\ tbl[i].status = "confirmed"
    /\ tbl[j].status = "confirmed"
    => ~WharfConflict(tbl[i], tbl[j])

-----------------------------------------------------------------------------
(***************************************************************************)
(* Resolving a request into a row.                                         *)
(***************************************************************************)

LoaOf(v) == IF v \in Vessels THEN Loa[v] ELSE 0

(***************************************************************************)
(* The draft gate refuses a confirmed placement over a stretch too shallow *)
(* for the vessel, unless overridden; an unplaced row or a vessel of       *)
(* unknown draft only warns.                                               *)
(***************************************************************************)
DepthBlocks(v, s, override) ==
  /\ ~override
  /\ v \in Vessels
  /\ \E shoal \in Shoals[v] : StationOverlaps(shoal, s)

HasBounds(p) == DOMAIN p \cap {"stationLo", "stationHi"} # {}

Bound(p, f, default) ==
  IF f \in DOMAIN p THEN DockToPopa(p[f]) ELSE default

(***************************************************************************)
(* The precedence of the placement fields of a PATCH.                      *)
(***************************************************************************)
PlacementCase(p, status) ==
  IF status = "cancelled" \/ Field(p, "unassigned", FALSE) THEN "cleared"
  ELSE IF "bow" \in DOMAIN p THEN "bow"
  ELSE IF Field(p, "berth", NoBerth) # NoBerth /\ ~HasBounds(p) THEN "berth"
  ELSE IF HasBounds(p) THEN "bounds"
  ELSE "kept"

(***************************************************************************)
(* The station a PATCH resolves to, and when the handler accepts it: a bow *)
(* needs a heading and a length, bounds must both be known and ordered.    *)
(***************************************************************************)
PatchedStation(p, cur) ==
  LET how       == PlacementCase(p, Field(p, "status", cur.status))
      direction == Field(p, "direction", cur.direction)
      vessel    == Field(p, "vessel", cur.vessel)
  IN  CASE how = "cleared" -> Empty
        [] how = "bow"     -> StationFromBow(DockToPopa(p["bow"]), direction,
                                             LoaOf(vessel))
        [] how = "berth"   -> Catalog[p["berth"]]
        [] how = "bounds"  -> [lo |-> Bound(p, "stationLo", cur.station.lo),
                               hi |-> Bound(p, "stationHi", cur.station.hi)]
        [] how = "kept"    -> cur.station

PlacementAccepted(p, cur) ==
  LET how == PlacementCase(p, Field(p, "status", cur.status))
  IN  /\ how = "bow" =>
           /\ Field(p, "direction", cur.direction) # "none"
           /\ LoaOf(Field(p, "vessel", cur.vessel)) > 0
      /\ how = "bounds" =>
           /\ IsEmpty(cur.station) =>
                {"stationLo", "stationHi"} \subseteq DOMAIN p
           /\ ~IsEmpty(PatchedStation(p, cur))

WindowAccepted(etb, etd) == etb <= etd

(***************************************************************************)
(* The full row update_reservation writes back, from the row it read.      *)
(* Notes that are replaced lose the flags counted in them.                 *)
(***************************************************************************)
PatchedOpenEnded(p, cur) ==
  [vessel    |-> Field(p, "vessel", cur.vessel),
   berth     |-> Field(p, "berth", cur.berth),
   station   |-> PatchedStation(p, cur),
   time      |-> TimeRange(Field(p, "etb", Lower(cur.time)),
                           Field(p, "etd", After)),
   direction |-> Field(p, "direction", cur.direction),
   status    |-> Field(p, "status", cur.status),
   flags     |-> cur.flags]

Patched(p, cur) ==
  LET status == Field(p, "status", cur.status)
      how    == PlacementCase(p, status)
  IN  [vessel    |-> Field(p, "vessel", cur.vessel),
       berth     |-> IF how = "cleared" THEN NoBerth
                     ELSE Field(p, "berth", cur.berth),
       station   |-> PatchedStation(p, cur),
       time      |-> TimeRange(Field(p, "etb", Lower(cur.time)),
                               Field(p, "etd", Upper(cur.time))),
       direction |-> Field(p, "direction", cur.direction),
       status    |-> status,
       flags     |-> IF "notes" \in DOMAIN p THEN 0 ELSE cur.flags]

PatchGatedWhereItWas(p, cur) ==
  /\ PlacementAccepted(p, cur)
  /\ Field(p, "status", cur.status) = "confirmed" =>
       ~DepthBlocks(cur.vessel, cur.station, Field(p, "override", FALSE))

PatchAccepted(p, cur) ==
  LET new == Patched(p, cur)
  IN  /\ WindowAccepted(Field(p, "etb", Lower(cur.time)),
                        Field(p, "etd", Upper(cur.time)))
      /\ PlacementAccepted(p, cur)
      /\ new.status = "confirmed" =>
           ~DepthBlocks(new.vessel, new.station, Field(p, "override", FALSE))

(***************************************************************************)
(* The row create_reservation inserts: explicit bounds win over a berth's  *)
(* catalog range, neither leaves the berth unassigned.                     *)
(***************************************************************************)
CreatedStation(r) ==
  IF HasBounds(r)
  THEN [lo |-> Bound(r, "stationLo", 0), hi |-> Bound(r, "stationHi", 0)]
  ELSE IF Field(r, "berth", NoBerth) # NoBerth THEN Catalog[r["berth"]]
  ELSE Empty

Created(r) ==
  [vessel    |-> Field(r, "vessel", NoVessel),
   berth     |-> Field(r, "berth", NoBerth),
   station   |-> CreatedStation(r),
   time      |-> TimeRange(r["etb"], Field(r, "etd", After)),
   direction |-> Field(r, "direction", "none"),
   status    |-> Field(r, "status", "tentative"),
   flags     |-> 0]

CreateAccepted(r) ==
  LET new == Created(r)
  IN  /\ WindowAccepted(r["etb"], Field(r, "etd", After))
      /\ HasBounds(r) =>
           /\ {"stationLo", "stationHi"} \subseteq DOMAIN r
           /\ ~IsEmpty(new.station)
      /\ new.status = "confirmed" =>
           ~DepthBlocks(new.vessel, new.station, Field(r, "override", FALSE))

-----------------------------------------------------------------------------
(***************************************************************************)
(* The sweep: what expire_stale does to each row, judged from a snapshot.  *)
(***************************************************************************)

Snapshot(tbl) == [now |-> clock, feed |-> feed, rows |-> tbl, gone |-> {}]

Stale(row, now) ==
  /\ row.status \in Planned
  /\ ~IsEmpty(row.time)
  /\ row.time.hi # After
  /\ row.time.hi + Grace <= now

Arrived(rows, i) ==
  /\ rows[i].vessel \in Vessels
  /\ \E j \in Ids :
       /\ rows[j].status = "observed"
       /\ rows[j].vessel = rows[i].vessel
       /\ TimeOverlaps(rows[j].time, rows[i].time)

FeedAlive(fixes, w) == \E t \in fixes : w.lo <= t /\ t < w.hi

(***************************************************************************)
(* expiry_action and the guard that flags a confirmed no-show only once.   *)
(***************************************************************************)
VerdictOnDeadFeed(snap, i) ==
  LET row == snap.rows[i]
  IN  IF ~Stale(row, snap.now) THEN "none"
      ELSE IF Arrived(snap.rows, i) THEN "completed"
      ELSE IF row.status # "confirmed" THEN "cancelled"
      ELSE IF row.flags = 0 THEN "flagged"
      ELSE "none"

VerdictFlagsAll(snap, i) ==
  LET row == snap.rows[i]
  IN  IF ~Stale(row, snap.now) THEN "none"
      ELSE IF Arrived(snap.rows, i) THEN "completed"
      ELSE IF FeedAlive(snap.feed, row.time) /\ row.flags = 0 THEN "flagged"
      ELSE "none"

Verdict(snap, i) ==
  LET row == snap.rows[i]
  IN  IF ~Stale(row, snap.now) THEN "none"
      ELSE IF Arrived(snap.rows, i) THEN "completed"
      ELSE IF ~FeedAlive(snap.feed, row.time) THEN "none"
      ELSE IF row.status # "confirmed" THEN "cancelled"
      ELSE IF row.flags = 0 THEN "flagged"
      ELSE "none"

(***************************************************************************)
(* The UPDATE: it writes status and notes only, over the current version   *)
(* of each row still there, and a flag keeps the current status.           *)
(***************************************************************************)
SweptRowRestored(verdict, row) ==
  CASE verdict \in {"completed", "cancelled"} -> [row EXCEPT !.status = verdict]
    [] verdict = "flagged" -> [row EXCEPT !.flags = @ + 1, !.status = "confirmed"]
    [] verdict = "none"    -> row

SweptRow(verdict, row) ==
  CASE verdict \in {"completed", "cancelled"} -> [row EXCEPT !.status = verdict]
    [] verdict = "flagged" -> [row EXCEPT !.flags = @ + 1]
    [] verdict = "none"    -> row

Swept(snap, tbl) ==
  [i \in Ids |->
     IF Present(tbl, i) /\ i \notin snap.gone
     THEN SweptRow(Verdict(snap, i), tbl[i])
     ELSE tbl[i]]

-----------------------------------------------------------------------------
(***************************************************************************)
(* derive_observed: one upsert per vessel seen alongside.  A row already   *)
(* there keeps its status and vessel, whatever an operator made of it.     *)
(***************************************************************************)
Derived(v) ==
  LET b == berthing[v]
      w == TimeRange(b.start, b.end)
  IN  IF Present(table, v)
      THEN [table[v] EXCEPT !.station = b.station, !.time = w,
                            !.direction = b.direction, !.flags = 0]
      ELSE [Absent EXCEPT !.vessel = v, !.station = b.station, !.time = w,
                          !.direction = b.direction, !.status = "observed"]

Upserted ==
  [i \in Ids |->
     IF i \in Vessels /\ berthing[i] # NoBerthing THEN Derived(i)
     ELSE table[i]]

-----------------------------------------------------------------------------
Init ==
  /\ clock = 0
  /\ feed = {}
  /\ berthing = [v \in Vessels |-> NoBerthing]
  /\ table = [i \in Ids |-> Absent]
  /\ session = [o \in Operators |-> Idle]
  /\ sweep = [s \in Sweepers |-> Idle]

(***************************************************************************)
(* The environment.                                                        *)
(***************************************************************************)
Tick ==
  /\ clock < MaxTime
  /\ clock' = clock + 1
  /\ UNCHANGED <<feed, berthing, table, session, sweep>>

FixLands ==
  /\ feed' = feed \cup {clock}
  /\ UNCHANGED <<clock, berthing, table, session, sweep>>

VesselBerths(v, m) ==
  /\ berthing[v] = NoBerthing
  /\ berthing' = [berthing EXCEPT
                    ![v] = [start |-> clock, end |-> After,
                            station |-> m.station, direction |-> m.direction]]
  /\ feed' = feed \cup {clock}
  /\ UNCHANGED <<clock, table, session, sweep>>

VesselLeaves(v) ==
  /\ berthing[v] # NoBerthing
  /\ berthing[v].end = After
  /\ berthing[v].start < clock
  /\ berthing' = [berthing EXCEPT ![v].end = clock]
  /\ feed' = feed \cup {clock}
  /\ UNCHANGED <<clock, table, session, sweep>>

(***************************************************************************)
(* POST /reservations: 422 and 409 leave no row.                           *)
(***************************************************************************)
Create(i, r) ==
  LET tbl == [table EXCEPT ![i] = Created(r)]
  IN  /\ ~Present(table, i)
      /\ CreateAccepted(r)
      /\ ConstraintHolds(tbl)
      /\ table' = tbl
      /\ UNCHANGED <<clock, feed, berthing, session, sweep>>

(***************************************************************************)
(* PATCH /reservations/{id}: the SELECT, then the UPDATE and commit.       *)
(***************************************************************************)
PatchRead(o, i) ==
  /\ session[o] = Idle
  /\ Present(table, i)
  /\ session' = [session EXCEPT ![o] = [id |-> i, cur |-> table[i]]]
  /\ UNCHANGED <<clock, feed, berthing, table, sweep>>

PatchCommit(o, p) ==
  LET i   == session[o].id
      cur == session[o].cur
      tbl == [table EXCEPT ![i] = Patched(p, cur)]
  IN  /\ session[o] # Idle
      /\ session' = [session EXCEPT ![o] = Idle]
      /\ \/ /\ PatchAccepted(p, cur)
            /\ ConstraintHolds(tbl)
            /\ table' = tbl
         \/ /\ ~(PatchAccepted(p, cur) /\ ConstraintHolds(tbl))
            /\ UNCHANGED table
      /\ UNCHANGED <<clock, feed, berthing, sweep>>

(***************************************************************************)
(* DELETE /reservations/{id}.  The id is never used again: a PATCH that    *)
(* had read the row updates nothing, a sweep that had judged it skips it.  *)
(***************************************************************************)
Delete(i) ==
  /\ Present(table, i)
  /\ table' = [table EXCEPT ![i] = Absent]
  /\ session' = [o \in Operators |->
                   IF session[o] # Idle /\ session[o].id = i THEN Idle
                   ELSE session[o]]
  /\ sweep' = [s \in Sweepers |->
                 IF sweep[s] # Idle
                 THEN [sweep[s] EXCEPT !.gone = @ \cup {i}]
                 ELSE sweep[s]]
  /\ UNCHANGED <<clock, feed, berthing>>

(***************************************************************************)
(* POST /verification/sweep.                                               *)
(***************************************************************************)
SweepRead(s) ==
  /\ sweep[s] = Idle
  /\ sweep' = [sweep EXCEPT ![s] = Snapshot(table)]
  /\ UNCHANGED <<clock, feed, berthing, table, session>>

SweepCommit(s) ==
  /\ sweep[s] # Idle
  /\ table' = Swept(sweep[s], table)
  /\ sweep' = [sweep EXCEPT ![s] = Idle]
  /\ UNCHANGED <<clock, feed, berthing, session>>

(***************************************************************************)
(* One cycle of the occupancy worker: derive, sweep, commit.  When an      *)
(* upsert breaks the exclusion constraint the whole cycle is rolled back.  *)
(***************************************************************************)
WorkerSweepsFirst ==
  /\ ConstraintHolds(Upserted)
  /\ table' = Swept(Snapshot(table), Upserted)
  /\ UNCHANGED <<clock, feed, berthing, session, sweep>>

WorkerCycle ==
  /\ ConstraintHolds(Upserted)
  /\ table' = Swept(Snapshot(Upserted), Upserted)
  /\ UNCHANGED <<clock, feed, berthing, session, sweep>>

Next ==
  \/ Tick
  \/ FixLands
  \/ \E v \in Vessels, m \in Moorings : VesselBerths(v, m)
  \/ \E v \in Vessels : VesselLeaves(v)
  \/ \E i \in Bookings, r \in Requests : Create(i, r)
  \/ \E o \in Operators, i \in Ids : PatchRead(o, i)
  \/ \E o \in Operators, p \in Patches : PatchCommit(o, p)
  \/ \E i \in Ids : Delete(i)
  \/ \E s \in Sweepers : SweepRead(s)
  \/ \E s \in Sweepers : SweepCommit(s)
  \/ WorkerCycle

Spec == Init /\ [][Next]_vars

(***************************************************************************)
(* The worker's loop runs a cycle every minute for ever; nothing is        *)
(* assumed of the operators, the browsers, the vessels or the feed.        *)
(***************************************************************************)
FairSpec == Spec /\ WF_vars(WorkerCycle)

-----------------------------------------------------------------------------
(***************************************************************************)
(* Invariants.                                                             *)
(***************************************************************************)

\* Every variable has its type.
TypeOK ==
  /\ clock \in Times
  /\ feed \subseteq Times
  /\ berthing \in [Vessels -> BerthingsSeen \cup {NoBerthing}]
  /\ table \in [Ids -> Row]
  /\ session \in [Operators -> [id: Ids, cur: Row] \cup {Idle}]
  /\ sweep \in [Sweepers -> [now: Times, feed: SUBSET Times,
                             rows: [Ids -> Row], gone: SUBSET Ids] \cup {Idle}]

\* No two confirmed bookings ever hold the same water: whatever the operators,
\* the sweeps and the worker do to rows already confirmed, two placed ones that
\* share time keep the whole mooring gap between their hulls, although the
\* constraint pads each by half of it (migrations 0001, 0007).
NoWharfOverlap ==
  \A i, j \in Ids :
    LET s == table[i].station
        t == table[j].station
    IN  /\ i # j
        /\ table[i].status = "confirmed" /\ table[j].status = "confirmed"
        /\ TimeOverlaps(table[i].time, table[j].time)
        /\ ~IsEmpty(s) /\ ~IsEmpty(t)
        => s.hi + MooringGap <= t.lo \/ t.hi + MooringGap <= s.lo

\* Archiving never trips the exclusion constraint (expiry_action: "archiving can
\* never raise an IntegrityError"): the sweep catches no such error, and whatever
\* was committed since its snapshot, applying it leaves the constraint true.
ArchivingNeverBlocked ==
  \A s \in Sweepers :
    sweep[s] # Idle => ConstraintHolds(Swept(sweep[s], table))

\* When no request overrides the draft gate, no operator's booking is confirmed
\* over water too shallow for its vessel: whatever sequence of partial edits
\* moved it, changed its vessel or promoted it (the gate of edit.py).
NoShallowBooking ==
  \A b \in Bookings :
    table[b].status = "confirmed" =>
      ~DepthBlocks(table[b].vessel, table[b].station, FALSE)

-----------------------------------------------------------------------------
(***************************************************************************)
(* Action properties.  The steps that archive a row and change no session  *)
(* are those of the sweeps and of the worker.                              *)
(***************************************************************************)

Archives(i) ==
  /\ UNCHANGED session
  /\ table[i].status \in Planned
  /\ table'[i].status \in {"completed", "cancelled"}

PlacementFields == {"berth", "stationLo", "stationHi", "bow", "unassigned"}

\* A partial edit writes back whatever its body does not name as the PATCH read it
\* (update_reservation: "a partial edit ... preserves the other bound"): the vessel,
\* the heading, the status, each bound of the window, and the berth and station of
\* a visit that is not cancelled; one station bound leaves the other.  So a field
\* the body leaves out changes only where somebody else changed it between the
\* read and the write, and what they wrote there is then undone: "Fields absent
\* from the body are left as-is" (edit.py:118) is true of the row read, not of the
\* row in the table.
PartialEditKeepsTheRest ==
  [][\A o \in Operators, p \in Patches :
       /\ table' # table /\ session'[o] # session[o]
       /\ table'[session[o].id] = Patched(p, session[o].cur)
       /\ PatchCommit(o, p)
       =>
         LET was    == session[o].cur
             new    == table'[session[o].id]
             placed == DOMAIN p \cap PlacementFields
         IN  /\ "vessel" \notin DOMAIN p => new.vessel = was.vessel
             /\ "direction" \notin DOMAIN p => new.direction = was.direction
             /\ "status" \notin DOMAIN p => new.status = was.status
             /\ "notes" \notin DOMAIN p => new.flags = was.flags
             /\ ~IsEmpty(was.time) /\ ~IsEmpty(new.time) =>
                  /\ "etb" \notin DOMAIN p => new.time.lo = was.time.lo
                  /\ "etd" \notin DOMAIN p => new.time.hi = was.time.hi
             /\ new.status # "cancelled" =>
                  /\ placed = {} => /\ new.station = was.station
                                    /\ new.berth = was.berth
                  /\ placed = {"stationLo"} => /\ new.station.hi = was.station.hi
                                               /\ new.berth = was.berth
                  /\ placed = {"stationHi"} => /\ new.station.lo = was.station.lo
                                               /\ new.berth = was.berth]_vars

(***************************************************************************)
(* The rows the sweep of a step that archives judged: the snapshot of the  *)
(* browser's sweep that ends in it, or what the worker had just derived.   *)
(***************************************************************************)
Judged ==
  IF sweep' = sweep THEN {Upserted}
  ELSE {sweep[s].rows : s \in {q \in Sweepers : sweep[q] # Idle /\ sweep'[q] = Idle}}

ArrivalsSeen(rows, b) ==
  {j \in Ids : /\ rows[j].status = "observed"
               /\ rows[j].vessel = rows[b].vessel
               /\ TimeOverlaps(rows[j].time, rows[b].time)}

Evidence(b, rows) ==
  /\ rows[b].status \in Planned
  /\ ~IsEmpty(rows[b].time)
  /\ rows[b].time.hi + Grace <= clock
  /\ table'[b].status = "completed" =>
       rows[b].vessel \in Vessels /\ ArrivalsSeen(rows, b) # {}
  /\ table'[b].status = "cancelled" =>
       /\ rows[b].status # "confirmed"
       /\ FeedAlive(feed, rows[b].time)
       /\ rows[b].vessel \in Vessels => ArrivalsSeen(rows, b) = {}

\* Archiving rests on evidence: the row the sweep judged had ended a full grace
\* period ago by the clock of the commit; it is completed only when a berthing of
\* its vessel was observed during its window, cancelled only when none was,
\* although the feed was alive during it (a dead feed is not a no-show), and only
\* when it was not confirmed.  All of it is said of the row as it was read, and so
\* of the row archived unless somebody edited it in between: the UPDATE carries
\* the verdict over to the newer version (ConfirmedNeverAutoCancelled).
ArchivedOnEvidence ==
  [][\A b \in Bookings :
       Archives(b) => \A rows \in Judged : Evidence(b, rows)]_vars

\* The worker derives before it sweeps, so its sweep never reads a vessel as a
\* no-show that the position reports show alongside during the booked window,
\* unless an operator took the derived row out of the observed status, gave it
\* to another vessel, or the sweep is a browser's.
WorkerSeesArrivals ==
  [][\A b \in Bookings :
       /\ Archives(b)
       /\ UNCHANGED sweep
       /\ table'[b].status = "cancelled"
       => LET v == table[b].vessel
          IN  v \in Vessels =>
                \/ berthing[v] = NoBerthing
                \/ ~TimeOverlaps(TimeRange(berthing[v].start, berthing[v].end),
                                 table[b].time)
                \/ table'[v].status # "observed"
                \/ table'[v].vessel # v]_vars

-----------------------------------------------------------------------------
(***************************************************************************)
(* Liveness.                                                               *)
(***************************************************************************)

Overdue(b) ==
  /\ Stale(table[b], clock)
  /\ table[b].status # "confirmed"
  /\ FeedAlive(feed, table[b].time)

\* A request left past its window with the feed alive does not linger: it is
\* archived or edited, unless the worker's own derivation is being refused by
\* the exclusion constraint.
OverdueIsJudged ==
  \A b \in Bookings :
    Overdue(b) ~> (~Overdue(b) \/ ~ConstraintHolds(Upserted))

-----------------------------------------------------------------------------
(***************************************************************************)
(* What docs, comments and tests say of the code and the code does not do: *)
(* each is checked by a run that expects its violation.                    *)
(***************************************************************************)

\* expiry_action: a confirmed booking is "not cancelled", only flagged.
ConfirmedNeverAutoCancelled ==
  [][\A i \in Ids :
       UNCHANGED session /\ table[i].status = "confirmed" =>
         table'[i].status # "cancelled"]_vars
=============================================================================
