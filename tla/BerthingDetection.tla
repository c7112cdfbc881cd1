------------------------- MODULE BerthingDetection -------------------------
(***************************************************************************)
(* How the position reports of one vessel become observed rows of the      *)
(* reservation table: the hysteresis detector (app/occupancy/detect.py)    *)
(* over the whole track, and the upserts keyed on the start of each event  *)
(* (app/occupancy/derive.py) of a worker that starts over at every cycle   *)
(* (app/occupancy/run.py), while fixes keep landing, some of them late.    *)
(* ReservationDesk takes the outcome as given and plays it against the     *)
(* operators and the sweeps; here the rest of the table stands still.      *)
(***************************************************************************)
EXTENDS Integers

CONSTANTS
  MaxTime,    \* bound: the last tick of the clock
  EnterSog,   \* berth_enter_sog_kn
  DepartSog,  \* berth_depart_sog_kn
  Dwell,      \* berth_dwell_min
  DepartGap,  \* berth_depart_gap_min
  StaleAfter, \* berth_stale_close_min
  NoSog,      \* the speed of a fix that reports none
  Kinds,      \* the fixes the vessel may send: [alongside, sog, moored]
  NoFix,      \* no fix of that instant
  Lateness,   \* bound: how late a fix may land
  Sinces      \* the --since bounds of the runs; 0 is all history

Before == -1
After  == MaxTime + 1
Times  == 0..MaxTime

ASSUME DetectionAssumption ==
  /\ MaxTime \in Nat
  /\ Dwell \in Nat \ {0}
  /\ DepartGap \in Nat \ {0}
  /\ StaleAfter \in Nat \ {0}
  /\ Lateness \in Nat
  /\ Sinces \subseteq Times
  /\ \A k \in Kinds :
       /\ {k.alongside, k.moored} \subseteq BOOLEAN
       /\ k.sog = NoSog \/ k.sog \in Nat
  /\ NoFix \notin Kinds

NoRow == [end |-> Before, open |-> FALSE]

VARIABLES
  clock, \* the wall clock
  track, \* the fix of each instant, once landed
  feed,  \* the newest fix landed from any vessel: the feed clock
  rows   \* the observed rows of the vessel, by the start in their derived_key

vars == <<clock, track, feed, rows>>

-----------------------------------------------------------------------------
(***************************************************************************)
(* The detector.                                                           *)
(***************************************************************************)

\* Still alongside, or alongside and silent about speed; a moored or anchored
\* status admits speeds up to the departure threshold.
CanEnter(s) ==
  /\ s.alongside
  /\ \/ s.sog = NoSog
     \/ s.sog <= EnterSog
     \/ s.moored /\ s.sog <= DepartSog

Departed(s) ==
  \/ ~s.alongside
  \/ s.sog # NoSog /\ s.sog > DepartSog

EmittedAlways(events, start, end, open) ==
  events \cup {[start |-> start, end |-> end, open |-> open]}

Emitted(events, start, end, open) ==
  IF end - start >= Dwell
  THEN events \cup {[start |-> start, end |-> end, open |-> open]}
  ELSE events

NoSegment == [start |-> Before, last |-> Before, events |-> {}]

(***************************************************************************)
(* What one fix makes of the scan: it opens a segment, keeps it alive,     *)
(* closes it at its last still fix, or changes nothing.                    *)
(***************************************************************************)
NextScanForgets(scan, t, s) ==
  CASE scan.start = Before /\ CanEnter(s) ->
         [scan EXCEPT !.start = t, !.last = t]
    [] scan.start # Before /\ ~Departed(s) -> [scan EXCEPT !.start = t, !.last = t]
    [] scan.start # Before /\ Departed(s) /\ t - scan.last >= DepartGap ->
         [NoSegment EXCEPT
            !.events = Emitted(scan.events, scan.start, scan.last, FALSE)]
    [] OTHER -> scan

NextScanKeepsAlive(scan, t, s) ==
  CASE scan.start = Before /\ CanEnter(s) ->
         [scan EXCEPT !.start = t, !.last = t]
    [] scan.start # Before -> [scan EXCEPT !.last = t]
    [] OTHER -> scan

NextScan(scan, t, s) ==
  CASE scan.start = Before /\ CanEnter(s) ->
         [scan EXCEPT !.start = t, !.last = t]
    [] scan.start # Before /\ ~Departed(s) -> [scan EXCEPT !.last = t]
    [] scan.start # Before /\ Departed(s) /\ t - scan.last >= DepartGap ->
         [NoSegment EXCEPT
            !.events = Emitted(scan.events, scan.start, scan.last, FALSE)]
    [] OTHER -> scan

ScanOf(fixes) ==
  LET Scan[t \in Before..MaxTime] ==
        IF t = Before THEN NoSegment
        ELSE IF fixes[t] = NoFix THEN Scan[t - 1]
        ELSE NextScan(Scan[t - 1], t, fixes[t])
  IN  Scan[MaxTime]

(***************************************************************************)
(* detect_berthings: a trailing segment is open, unless its last fix has   *)
(* gone stale against the feed clock.                                      *)
(***************************************************************************)
NeverStale(last, asOf) == FALSE

StaleByWallClock(last, asOf) == clock - last >= StaleAfter

GoneStale(last, asOf) == asOf - last >= StaleAfter

DetectedDroppingStale(fixes, asOf) ==
  LET scan == ScanOf(fixes)
  IN  IF scan.start = Before \/ GoneStale(scan.last, asOf) THEN scan.events
      ELSE Emitted(scan.events, scan.start, scan.last, TRUE)

DetectBerthings(fixes, asOf) ==
  LET scan == ScanOf(fixes)
  IN  IF scan.start = Before THEN scan.events
      ELSE Emitted(scan.events, scan.start, scan.last,
                   ~GoneStale(scan.last, asOf))

\* load_samples: the fixes from a bound on.
Since(from) == [t \in Times |-> IF t >= from THEN track[t] ELSE NoFix]

Events == DetectBerthings(track, feed)

\* _upsert: an open berthing has no upper bound.
RowOf(e) == [end |-> IF e.open THEN After ELSE e.end, open |-> e.open]

-----------------------------------------------------------------------------
Init ==
  /\ clock = 0
  /\ track = [t \in Times |-> NoFix]
  /\ feed = Before
  /\ rows = [t \in Times |-> NoRow]

Tick ==
  /\ clock < MaxTime
  /\ clock' = clock + 1
  /\ UNCHANGED <<track, feed, rows>>

FixLands(t, k) ==
  /\ t <= clock
  /\ clock - t <= Lateness
  /\ track[t] = NoFix
  /\ track' = [track EXCEPT ![t] = k]
  /\ feed' = IF t > feed THEN t ELSE feed
  /\ UNCHANGED <<clock, rows>>

OtherVesselFix ==
  /\ feed' = clock
  /\ UNCHANGED <<clock, track, rows>>

(***************************************************************************)
(* derive_observed and the commit: an upsert per event, under the key of   *)
(* its start.                                                              *)
(***************************************************************************)
Upserted(events) ==
  [t \in Times |->
     IF \E e \in events : e.start = t
     THEN RowOf(CHOOSE e \in events : e.start = t)
     ELSE rows[t]]

Derive(from) ==
  /\ \E events \in {DetectBerthings(Since(from), feed)} : rows' = Upserted(events)
  /\ UNCHANGED <<clock, track, feed>>

Next ==
  \/ Tick
  \/ \E t \in Times, k \in Kinds : FixLands(t, k)
  \/ OtherVesselFix
  \/ \E from \in Sinces : Derive(from)

Spec == Init /\ [][Next]_vars

-----------------------------------------------------------------------------
(***************************************************************************)
(* What the detector makes of a track.                                     *)
(***************************************************************************)

Landed(t)     == track[t] # NoFix
HasLeft(t)    == Landed(t) /\ Departed(track[t])
IsThere(t)    == Landed(t) /\ ~Departed(track[t])
WouldBerth(t) == Landed(t) /\ CanEnter(track[t])

\* Every variable has its type.
TypeOK ==
  /\ clock \in Times
  /\ track \in [Times -> Kinds \cup {NoFix}]
  /\ feed \in Times \cup {Before}
  /\ rows \in [Times -> [end: Times \cup {Before, After}, open: BOOLEAN]]

\* Berthings of a vessel are visits of at least the dwell, each begun and ended
\* by a fix alongside, more than the departure gap apart with a departure seen
\* in between, and only the last may still be going on.
BerthingsAreVisits ==
  \A e \in Events :
    /\ e.end - e.start >= Dwell
    /\ WouldBerth(e.start) /\ IsThere(e.end)
    /\ \A f \in Events \ {e} :
         /\ e.start # f.start
         /\ e.start < f.start =>
              /\ e.end + DepartGap < f.start
              /\ ~e.open
              /\ \E t \in e.end..f.start : HasLeft(t)

\* No stay is missed: between two fixes that would each start a berthing, a dwell
\* or more apart with no departure between them, one berthing covers both.
SteadyStayIsDetected ==
  \A t, u \in Times :
    /\ WouldBerth(t) /\ WouldBerth(u)
    /\ u - t >= Dwell
    /\ \A w \in t..u : ~HasLeft(w)
    => \E e \in Events : e.start <= t /\ u <= e.end

\* Last seen there at u, the vessel is seen departed at w, the gap or more later.
Leaves(u, w) ==
  /\ IsThere(u) /\ HasLeft(w)
  /\ w - u >= DepartGap
  /\ \A v \in (u + 1)..w : ~IsThere(v)

\* A berthing ends where the vessel leaves, and nowhere else: it holds no fix that
\* shows it departed the gap or more after it was last seen there, and it is open
\* exactly until such a fix, or until the feed has gone on long enough without it.
\* (Silence shows nothing: departed once within the gap, then unheard of and then
\* alongside again, the vessel is taken to have stayed, however long that was.)
DeparturesEndBerthings ==
  \A e \in Events :
    /\ \A u, w \in e.start..e.end : ~Leaves(u, w)
    /\ e.open <=> ~GoneStale(e.end, feed) /\ \A w \in Times : ~Leaves(e.end, w)

\* The row of a start is one of these events, and ends no later than it does.
IsABerthing(row, start, events) ==
  \E e \in events : e.start = start /\ (row.open \/ row.end <= e.end)

\* However late fixes land and whatever the runs are given, a row is orphaned only by
\* a fix that lands before one already there, or by a run whose --since cuts the
\* history at or before its start: a fix in order, a run over all history and the
\* rest of the feed update the row of the berthing and strand none (derive.py:
\* "re-running over the same window UPDATEs instead of duplicating").
RowsFollowTheTrack ==
  [][\A now \in {[track |-> track', feed |-> feed']}, t \in Times :
       rows'[t] # NoRow =>
         \/ IsABerthing(rows'[t], t, DetectBerthings(now.track, now.feed))
         \/ rows[t] # NoRow /\ ~IsABerthing(rows[t], t, Events)
         \/ \E u, v \in Times : u < v /\ Landed(v) /\ ~Landed(u) /\ Landed(u)'
         \/ \E from \in Sinces : from \in 1..t /\ Derive(from)]_vars

\* A dead feed closes nothing: a row goes from open to closed only when the
\* vessel was seen departed, or when others were heard long after its last fix.
DeadFeedClosesNothing ==
  [][\A t \in Times :
       rows[t].open /\ ~rows'[t].open =>
         \/ \E u \in Times : u > rows'[t].end /\ HasLeft(u)
         \/ feed - rows'[t].end >= StaleAfter]_vars
=============================================================================
