----------------------------- MODULE Advisories -----------------------------
(***************************************************************************)
(* What the console tells the operators of the reservation table and never *)
(* acts upon: the conflicts (app/conflicts.py, GET /conflicts) and the     *)
(* verification panel (verify of app/verification.py, GET /verification),  *)
(* each a query over the table at now().                                   *)
(*                                                                         *)
(* The live panels' defaults are modelled: current rows only.  Their       *)
(* filter on harbor craft and the spans and limits a caller may give are   *)
(* left out.                                                               *)
(***************************************************************************)
EXTENDS ReservationDesk

(***************************************************************************)
(* eff_range: a berthing without an end is taken to end now.               *)
(***************************************************************************)
OpenForEver(row) == row.time

EffRange(row) ==
  IF /\ row.status = "observed"
     /\ row.time.hi = After
     /\ Before < row.time.lo /\ row.time.lo < clock
  THEN TimeRange(row.time.lo, clock)
  ELSE row.time

OnBoard(row) == row.status \in Planned \cup {"observed"}

SameVessel(a, b) == a.vessel # NoVessel /\ a.vessel = b.vessel

Conflict(a, b) ==
  /\ OnBoard(a) /\ OnBoard(b)
  /\ ~(a.status = "observed" /\ b.status = "observed")
  /\ ~SameVessel(a, b)
  /\ TimeOverlaps(EffRange(a), EffRange(b))
  /\ StationOverlaps(a.station, b.station)

\* The overlap of the two reaches the present.
Current(a, b) == EffRange(a).hi >= clock /\ EffRange(b).hi >= clock

Conflicts ==
  {p \in Ids \X Ids : /\ p[1] # p[2]
                      /\ Conflict(table[p[1]], table[p[2]])
                      /\ Current(table[p[1]], table[p[2]])}

-----------------------------------------------------------------------------
(***************************************************************************)
(* The planned rows of the panel and the berthings each is matched with:   *)
(* by vessel and time, wherever it lies.                                   *)
(***************************************************************************)
Verified(i) ==
  /\ table[i].status \in Planned
  /\ table[i].vessel # NoVessel
  /\ ~IsEmpty(table[i].time)

Matches(i) ==
  {j \in Ids : /\ table[j].status = "observed"
               /\ table[j].vessel = table[i].vessel
               /\ TimeOverlaps(table[j].time, table[i].time)}

ClassifyPastItsEnd(i) ==
  IF Matches(i) # {} THEN "arrived"
  ELSE IF table[i].time.hi # After /\ table[i].time.hi < clock THEN "no_show"
  ELSE "awaiting"

ClassifyPlanned(i) ==
  IF Matches(i) # {} THEN "arrived"
  ELSE IF table[i].time.hi # After /\ table[i].time.hi <= clock THEN "no_show"
  ELSE "awaiting"

(***************************************************************************)
(* verify: the planned half of the panel.                                  *)
(***************************************************************************)
PlannedPanel == [i \in {j \in Ids : Verified(j)} |-> ClassifyPlanned(i)]

-----------------------------------------------------------------------------
(***************************************************************************)
(* Properties.                                                             *)
(***************************************************************************)

\* A vessel lying alongside raises an alert over every plan of another for its
\* water that reaches the present, and over no other (conflicts.py: "it conflicts
\* only with plans that reach the present, never with a purely-future one"): a plan
\* that covers this very moment and had begun before it is shown, one that is over
\* before it or still to come is not.  At the edges the query is not the half-open
\* cover of now(): a plan that ends at this very moment is still shown (the >= of
\* conflicts.py:263), one that begins at this very moment not yet (the vessel's own
\* window is cut at now(), and windows that touch do not overlap).
AlertsReachThePresent ==
  \A i, j \in Ids :
    LET a == table[i]
        b == table[j]
        shown  == <<i, j>> \in Conflicts
        covers == b.time.lo <= clock /\ clock < b.time.hi
    IN  /\ a.status = "observed"
        /\ a.time.hi = After /\ Before < a.time.lo /\ a.time.lo < clock
        /\ b.status \in Planned /\ ~IsEmpty(b.time)
        /\ ~SameVessel(a, b)
        /\ StationOverlaps(a.station, b.station)
        => /\ covers /\ b.time.lo # clock => shown
           /\ b.time.hi = clock => shown
           /\ b.time.lo >= clock \/ b.time.hi < clock => ~shown

\* A sweep now would do to no row what the panel contradicts: it completes only
\* what the panel shows arrived, cancels or flags only what it shows as a no-show,
\* and completes every arrived row past its grace.  The two queries find the
\* berthing of a row each in its own way, in SQL of its own.
SweepAgreesWithPanel ==
  \A i \in DOMAIN PlannedPanel :
    LET verdict == Verdict(Snapshot(table), i)
        state   == PlannedPanel[i]
    IN  /\ verdict = "completed" => state = "arrived"
        /\ verdict \in {"cancelled", "flagged"} => state = "no_show"
        /\ state = "arrived" /\ Stale(table[i], clock) => verdict = "completed"
=============================================================================
