---------------------------- MODULE BerthIntake ----------------------------
(***************************************************************************)
(* The berth-request intake (app/intake/manual.py): a request lands on the *)
(* trail (intake_event), names a vessel, and is projected into a booking   *)
(* (reservation) once it has an arrival date.  A request can be edited in  *)
(* place and withdrawn; the desk meanwhile edits and deletes the bookings, *)
(* and the length of a ship is corrected under all of them.                *)
(*                                                                         *)
(* An edit and a withdrawal read the event and its link first and write    *)
(* later, with no lock in between; so does the desk's PATCH with the row   *)
(* of the booking.  The session of a request is the unit of commit: what   *)
(* the constraints refuse changes nothing.                                 *)
(***************************************************************************)
EXTENDS WharfRanges, FiniteSets

CONSTANTS
  MaxEvents,  \* how many events the trail may hold (a bound)
  MaxBookings, \* how many bookings requests may make (a bound)
  MaxOpen,    \* how many requests may be in progress at once (a bound)
  Clerks,     \* concurrent edits and withdrawals
  Imos,       \* the ships' IMO numbers
  NoImo,      \* a request that gives none
  Names,      \* ship names, and
  NoName,     \* none
  Tracked,    \* the ships the feed knows, by IMO
  Lengths,    \* lengths in feet
  Unknown,    \* a length nobody has given
  Forms,      \* what a request says: [imo, name, loa, time]
  Operators,  \* concurrent PATCHes of bookings
  Patches,    \* their bodies: only the fields set
  NoHeading,  \* direction is NULL
  NoLink,     \* reservation_id is NULL
  Unused,     \* an id not given out yet
  Gone,       \* a booking deleted
  Idle        \* no request in progress

\* Serial ids, given out in order and never again.
EventIds   == 1..MaxEvents
BookingIds == 1..MaxBookings

Headings == {"upstream", "downstream"}

(***************************************************************************)
(* A PATCH of the desk sets some of these.  A bound that is NULL is one    *)
(* outside the clock; a named berth is its range in the catalog; a stretch *)
(* is given by both its bounds.                                            *)
(***************************************************************************)
BodyOK(p) ==
  /\ DOMAIN p \subseteq {"ship", "etb", "etd", "bow", "direction", "berth",
                         "stretch", "unassigned", "status"}
  /\ "ship" \in DOMAIN p => p["ship"] \in Imos \cup {NoImo}
  /\ "etb" \in DOMAIN p => p["etb"] \in Bounds
  /\ "etd" \in DOMAIN p => p["etd"] \in Bounds
  /\ "bow" \in DOMAIN p => p["bow"] \in Int
  /\ "direction" \in DOMAIN p => p["direction"] \in Headings \cup {NoHeading}
  /\ "berth" \in DOMAIN p => p["berth"] \in Stations
  /\ "stretch" \in DOMAIN p => p["stretch"] \in Stations \ {Empty}
  /\ "status" \in DOMAIN p => p["status"] \in {"tentative", "confirmed", "cancelled"}

ASSUME IntakeAssumption ==
  /\ MaxEvents \in Nat
  /\ MaxBookings \in Nat
  /\ NoLink \notin BookingIds
  /\ NoImo \notin Imos
  /\ NoName \notin Names
  /\ NoHeading \notin Headings
  /\ Tracked \subseteq Imos
  /\ Lengths \subseteq Nat \ {0}
  /\ Unknown \notin Lengths
  /\ \A p \in Patches : BodyOK(p)
  /\ Forms \subseteq [imo: Imos \cup {NoImo}, name: Names \cup {NoName},
                      loa: Lengths \cup {Unknown}, time: Windows]

VARIABLES
  events,   \* the trail
  bookings, \* the bookings of requests
  ships,    \* vessel rows by IMO
  session,  \* what each edit or withdrawal in progress has read
  patch     \* the row each PATCH in progress has read

vars == <<events, bookings, ships, session, patch>>

(***************************************************************************)
(* key is the content hash, here the form it was computed from.  Two marks *)
(* are history, kept for the properties: an event is raced when a request  *)
(* wrote it after another had withdrawn it or given it a booking, and a    *)
(* booking is rewritten when the desk, and not its request, last changed   *)
(* its ship or its window.                                                 *)
(***************************************************************************)
Content == [imo: Imos \cup {NoImo}, name: Names \cup {NoName},
            loa: Lengths \cup {Unknown}, time: Windows]

Event == [live: BOOLEAN, form: Content, key: Content,
          link: BookingIds \cup {NoLink}, raced: BOOLEAN]

Booking == [ship: Imos \cup {NoImo}, time: Windows, station: Stations,
            direction: Headings \cup {NoHeading}, berthed: BOOLEAN,
            status: {"requested", "tentative", "confirmed", "cancelled"},
            request: EventIds, rewritten: BOOLEAN]

Ship == [exists: BOOLEAN, name: Names \cup {NoName}, loa: Lengths \cup {Unknown}]

(***************************************************************************)
(* What an edit or a withdrawal has read of its request, and what it will  *)
(* make of it.                                                             *)
(***************************************************************************)
Session == [kind: {"edit", "withdraw"}, event: EventIds,
            link: BookingIds \cup {NoLink}, form: Content]

Patching == [booking: BookingIds, row: Booking]

ASSUME MarksAssumption ==
  /\ Unused \notin Event \cup Booking
  /\ Gone \notin Booking \cup {Unused}
  /\ Idle \notin Session \cup Patching

Landed(e)  == events[e] # Unused
Live(e)    == Landed(e) /\ events[e].live
OnBoard(b) == bookings[b] \notin {Unused, Gone}

IsNext(table, i) ==
  /\ table[i] = Unused
  /\ i - 1 \in DOMAIN table => table[i - 1] # Unused

Room ==
  Cardinality({c \in Clerks : session[c] # Idle})
    + Cardinality({o \in Operators : patch[o] # Idle}) < MaxOpen

-----------------------------------------------------------------------------
Init ==
  /\ events = [e \in EventIds |-> Unused]
  /\ bookings = [b \in BookingIds |-> Unused]
  /\ ships = [i \in Imos |-> [exists |-> i \in Tracked, name |-> NoName, loa |-> Unknown]]
  /\ session = [c \in Clerks |-> Idle]
  /\ patch = [o \in Operators |-> Idle]

(***************************************************************************)
(* _resolve_imo_vessel: an IMO on file under another name refuses a new    *)
(* request.                                                                *)
(***************************************************************************)
Resolves(f) ==
  f.imo # NoImo /\ f.name # NoName => ships[f.imo].name \in {NoName, f.name}

(***************************************************************************)
(* _upsert_vessel: fills what is missing of a tracked ship, overwrites     *)
(* what the request gives of any other.                                    *)
(***************************************************************************)
Coalesce(new, old, null) == IF new # null THEN new ELSE old

UpsertedShip(i, f) ==
  [exists |-> TRUE,
   name   |-> IF i \in Tracked THEN Coalesce(ships[i].name, f.name, NoName)
                               ELSE Coalesce(f.name, ships[i].name, NoName),
   loa    |-> IF i \in Tracked THEN Coalesce(ships[i].loa, f.loa, Unknown)
                               ELSE Coalesce(f.loa, ships[i].loa, Unknown)]

UpsertedShips(f) ==
  [i \in Imos |-> IF i = f.imo THEN UpsertedShip(i, f) ELSE ships[i]]

(***************************************************************************)
(* _reproject_placements: the planned rows of the ship that were placed by *)
(* the bow keep it and take the ship's length.                             *)
(***************************************************************************)
PlacedByBow(r) ==
  /\ r.status \in {"tentative", "confirmed"}
  /\ ~r.berthed
  /\ r.direction # NoHeading
  /\ ~IsEmpty(r.station)

Bow(r) == IF r.direction = "downstream" THEN r.station.lo ELSE r.station.hi

ReprojectedFromLow(r, loa) ==
  [r EXCEPT !.station = [lo |-> @.lo, hi |-> @.lo + loa]]

Reprojected(r, loa) ==
  [r EXCEPT !.station = StationFromBow(Bow(r), r.direction, loa)]

ReprojectionsOfTentative(i, loa) ==
  [b \in BookingIds |->
     IF /\ OnBoard(b) /\ bookings[b].ship = i /\ loa # Unknown
        /\ PlacedByBow(bookings[b]) /\ bookings[b].status = "tentative"
     THEN Reprojected(bookings[b], loa) ELSE bookings[b]]

Reprojections(i, loa) ==
  [b \in BookingIds |->
     IF OnBoard(b) /\ bookings[b].ship = i /\ loa # Unknown /\ PlacedByBow(bookings[b])
     THEN Reprojected(bookings[b], loa) ELSE bookings[b]]

ReprojectedFor(f) ==
  IF f.imo = NoImo THEN bookings
  ELSE Reprojections(f.imo, UpsertedShips(f)[f.imo].loa)

(***************************************************************************)
(* no_wharf_overlap, among confirmed bookings.                             *)
(***************************************************************************)
Confirmed(table) ==
  {b \in BookingIds : table[b] \notin {Unused, Gone} /\ table[b].status = "confirmed"}

ConstraintHolds(table) ==
  \A b, c \in Confirmed(table) : b # c => ~WharfConflict(table[b], table[c])

\* _insert_reservation
NewBooking(f, e) ==
  [ship |-> f.imo, time |-> f.time, station |-> Empty, direction |-> NoHeading,
   berthed |-> FALSE, status |-> "requested", request |-> e, rewritten |-> FALSE]

Dated(f) == ~IsEmpty(f.time)

(***************************************************************************)
(* record_manual_request.  An empty form, a clash of names and content     *)
(* that is already live change nothing.                                    *)
(***************************************************************************)
Create(f) ==
  /\ f.name # NoName \/ f.imo # NoImo \/ Dated(f)
  /\ Resolves(f)
  /\ \A e \in EventIds : Live(e) => events[e].key # f
  /\ \E e \in EventIds, b \in BookingIds \cup {NoLink} :
       /\ IsNext(events, e)
       /\ IF Dated(f) THEN b # NoLink /\ IsNext(bookings, b) ELSE b = NoLink
       /\ events' = [events EXCEPT ![e] = [live |-> TRUE, form |-> f, key |-> f,
                                           link |-> b, raced |-> FALSE]]
       /\ bookings' = [i \in BookingIds |->
                         IF i = b THEN NewBooking(f, e) ELSE ReprojectedFor(f)[i]]
  /\ ships' = UpsertedShips(f)
  /\ ConstraintHolds(bookings')
  /\ UNCHANGED <<session, patch>>

(***************************************************************************)
(* update_manual_request: the read.  A length left at the feed's value, as *)
(* the form shows it, stands for the length first entered                  *)
(* (_restore_kept_ais_prefill).                                            *)
(***************************************************************************)
Restored(f, prior) ==
  IF f.imo \in Tracked /\ f.loa # Unknown /\ f.loa = ships[f.imo].loa
  THEN [f EXCEPT !.loa = prior.loa] ELSE f

EditRead(c, e, f) ==
  /\ session[c] = Idle /\ Room
  /\ Live(e)
  /\ session' = [session EXCEPT ![c] =
       [kind |-> "edit", event |-> e, link |-> events[e].link,
        form |-> Restored(f, events[e].form)]]
  /\ UNCHANGED <<events, bookings, ships, patch>>

(***************************************************************************)
(* The write: the content and its hash, the vessel, its placements, then   *)
(* the booking that was linked at the read, or a new one.  It touches the  *)
(* event whatever became of it since.                                      *)
(***************************************************************************)
Overtaken(s) ==
  \/ ~events[s.event].live
  \/ events[s.event].link \notin {s.link, NoLink}

EditedEventKeepingKey(s, link) ==
  [events[s.event] EXCEPT !.form = s.form, !.link = link, !.raced = @ \/ Overtaken(s)]

EditedEvent(s, link) ==
  [events[s.event] EXCEPT !.form = s.form, !.key = s.form, !.link = link,
                          !.raced = @ \/ Overtaken(s)]

ProjectedIfDated(s, r) ==
  [r EXCEPT !.ship = s.form.imo,
            !.time = IF Dated(s.form) THEN s.form.time ELSE @,
            !.rewritten = FALSE]

Projected(s, r) ==
  [r EXCEPT !.ship = s.form.imo, !.time = s.form.time, !.rewritten = FALSE]

Edited(s) ==
  LET moved == ReprojectedFor(s.form)
  IN  IF s.link # NoLink
      THEN /\ bookings' = [b \in BookingIds |->
                             IF b = s.link /\ OnBoard(b)
                             THEN Projected(s, moved[b]) ELSE moved[b]]
           /\ events' = [events EXCEPT ![s.event] = EditedEvent(s, @.link)]
      ELSE \E b \in BookingIds \cup {NoLink} :
             /\ IF Dated(s.form) THEN b # NoLink /\ IsNext(bookings, b) ELSE b = NoLink
             /\ bookings' = [i \in BookingIds |->
                               IF i = b THEN NewBooking(s.form, s.event) ELSE moved[i]]
             /\ events' = [events EXCEPT
                             ![s.event] = EditedEvent(s, IF b = NoLink THEN @.link ELSE b)]

ContentTaken(s) ==
  /\ events[s.event].live
  /\ \E e \in EventIds \ {s.event} : Live(e) /\ events[e].key = s.form

CommitEdit(c) ==
  /\ session[c] # Idle
  /\ session[c].kind = "edit"
  /\ ~ContentTaken(session[c])
  /\ Edited(session[c])
  /\ ships' = UpsertedShips(session[c].form)
  /\ ConstraintHolds(bookings')
  /\ session' = [session EXCEPT ![c] = Idle]
  /\ UNCHANGED patch

\* A refusal (409), or a failure of the database, rolls a request back whole.
RolledBack(c) ==
  /\ session[c] # Idle
  /\ session' = [session EXCEPT ![c] = Idle]
  /\ UNCHANGED <<events, bookings, ships, patch>>

(***************************************************************************)
(* Deleting a booking clears the links to it (ON DELETE SET NULL).         *)
(***************************************************************************)
Without(b) == [bookings EXCEPT ![b] = Gone]

Unlinked(trail, b) ==
  [e \in EventIds |-> IF trail[e] # Unused /\ trail[e].link = b
                      THEN [trail[e] EXCEPT !.link = NoLink] ELSE trail[e]]

(***************************************************************************)
(* delete_manual_request: the event is kept, its booking is not.           *)
(***************************************************************************)
WithdrawRead(c, e) ==
  /\ session[c] = Idle /\ Room
  /\ Live(e)
  /\ session' = [session EXCEPT ![c] =
       [kind |-> "withdraw", event |-> e, link |-> events[e].link,
        form |-> events[e].form]]
  /\ UNCHANGED <<events, bookings, ships, patch>>

WithdrawnEvent(s) ==
  [events[s.event] EXCEPT !.live = FALSE, !.raced = @ \/ Overtaken(s)]

Withdrawn(s) == [events EXCEPT ![s.event] = WithdrawnEvent(s)]

CommitWithdraw(c) ==
  /\ session[c] # Idle
  /\ session[c].kind = "withdraw"
  /\ LET s == session[c]
         b == s.link
     IN  IF b # NoLink /\ OnBoard(b)
         THEN bookings' = Without(b) /\ events' = Unlinked(Withdrawn(s), b)
         ELSE events' = Withdrawn(s) /\ UNCHANGED bookings
  /\ session' = [session EXCEPT ![c] = Idle]
  /\ UNCHANGED <<ships, patch>>

(***************************************************************************)
(* The desk's PATCH (update_reservation of app/edit.py): the row is read,  *)
(* and every column written back, named in the body or as it was read; an  *)
(* empty window reads as two NULL bounds.  A bow needs a heading and a     *)
(* ship of known length.  The UPDATE of a row deleted meanwhile matches    *)
(* nothing.                                                                *)
(***************************************************************************)
Field(p, f, default) == IF f \in DOMAIN p THEN p[f] ELSE default

PatchRead(o, b) ==
  /\ patch[o] = Idle /\ Room
  /\ OnBoard(b)
  /\ patch' = [patch EXCEPT ![o] = [booking |-> b, row |-> bookings[b]]]
  /\ UNCHANGED <<events, bookings, ships, session>>

Status(p, read)  == Field(p, "status", read.status)
Heading(p, read) == Field(p, "direction", read.direction)
LoaOf(ship)      == IF ship = NoImo THEN Unknown ELSE ships[ship].loa

Cleared(p, read) == Status(p, read) = "cancelled" \/ "unassigned" \in DOMAIN p

PatchAccepted(p, read) ==
  /\ Field(p, "etb", Lower(read.time)) <= Field(p, "etd", Upper(read.time))
  /\ "bow" \in DOMAIN p /\ ~Cleared(p, read) =>
       Heading(p, read) # NoHeading /\ LoaOf(Field(p, "ship", read.ship)) # Unknown

PatchedWindow(p, read) ==
  TimeRange(Field(p, "etb", Lower(read.time)), Field(p, "etd", Upper(read.time)))

PatchedStation(p, read) ==
  IF Cleared(p, read) THEN Empty
  ELSE IF "bow" \in DOMAIN p
  THEN StationFromBow(DockToPopa(p["bow"]), Heading(p, read),
                      LoaOf(Field(p, "ship", read.ship)))
  ELSE Field(p, "stretch", Field(p, "berth", read.station))

PatchedRow(p, read, row) ==
  LET ship == Field(p, "ship", read.ship)
      time == PatchedWindow(p, read)
  IN  [ship |-> ship, time |-> time, station |-> PatchedStation(p, read),
       direction |-> Heading(p, read),
       berthed |-> ~Cleared(p, read) /\ (read.berthed \/ "berth" \in DOMAIN p),
       status |-> Status(p, read), request |-> row.request,
       rewritten |-> row.rewritten \/ ship # row.ship \/ time # row.time]

PatchCommit(o, p) ==
  LET b    == patch[o].booking
      read == patch[o].row
  IN  /\ patch[o] # Idle
      /\ PatchAccepted(p, read)
      /\ bookings' = [i \in BookingIds |->
                        IF i = b /\ OnBoard(b) THEN PatchedRow(p, read, bookings[b])
                        ELSE bookings[i]]
      /\ ConstraintHolds(bookings')
      /\ patch' = [patch EXCEPT ![o] = Idle]
      /\ UNCHANGED <<events, ships, session>>

PatchRefused(o) ==
  /\ patch[o] # Idle
  /\ patch' = [patch EXCEPT ![o] = Idle]
  /\ UNCHANGED <<events, bookings, ships, session>>

DeleteBooking(b) ==
  /\ OnBoard(b)
  /\ bookings' = Without(b)
  /\ events' = Unlinked(events, b)
  /\ UNCHANGED <<ships, session, patch>>

\* PATCH /vessels, or the feed: no placement moves.
LengthChanges(i, loa) ==
  /\ ships[i].exists
  /\ ships' = [ships EXCEPT ![i].loa = loa]
  /\ UNCHANGED <<events, bookings, session, patch>>

Next ==
  \/ \E f \in Forms : Create(f)
  \/ \E c \in Clerks, e \in EventIds, f \in Forms : EditRead(c, e, f)
  \/ \E c \in Clerks : CommitEdit(c)
  \/ \E c \in Clerks : RolledBack(c)
  \/ \E c \in Clerks, e \in EventIds : WithdrawRead(c, e)
  \/ \E c \in Clerks : CommitWithdraw(c)
  \/ \E o \in Operators, b \in BookingIds : PatchRead(o, b)
  \/ \E o \in Operators, p \in Patches : PatchCommit(o, p)
  \/ \E o \in Operators : PatchRefused(o)
  \/ \E b \in BookingIds : DeleteBooking(b)
  \/ \E i \in Imos, loa \in Lengths : LengthChanges(i, loa)

Spec == Init /\ [][Next]_vars

-----------------------------------------------------------------------------
\* Every variable has its type.
TypeOK ==
  /\ events \in [EventIds -> Event \cup {Unused}]
  /\ bookings \in [BookingIds -> Booking \cup {Unused, Gone}]
  /\ ships \in [Imos -> Ship]
  /\ session \in [Clerks -> Session \cup {Idle}]
  /\ patch \in [Operators -> Patching \cup {Idle}]

\* No two live requests say the same thing, whatever was edited, withdrawn and
\* sent again (the content hash follows an edit, and only live rows are unique).
OneRequestPerContent ==
  \A d, e \in EventIds :
    d # e /\ Live(d) /\ Live(e) => events[d].form # events[e].form

Linked(e) == Landed(e) /\ events[e].link # NoLink

\* Whatever races: a link leads to a booking on board, of that very request.
LinksLead ==
  \A e \in EventIds :
    Linked(e) => OnBoard(events[e].link) /\ bookings[events[e].link].request = e

\* Unless raced: a request with a booking is live, the booking has its ship and
\* window but where the desk rewrote them, and no request has two.
Mirror ==
  /\ \A e \in EventIds :
       Linked(e) /\ ~events[e].raced =>
         LET r == bookings[events[e].link]
         IN  /\ events[e].live
             /\ ~r.rewritten => r.ship = events[e].form.imo /\ r.time = events[e].form.time
  /\ \A b \in BookingIds :
       OnBoard(b) /\ ~events[bookings[b].request].raced =>
         events[bookings[b].request].link = b

\* The schedule mirrors the trail.  In every case a request's link leads to a
\* booking on board that is its own.  And but for the requests that one clerk wrote
\* after another had withdrawn them or given them a booking, a booking belongs to
\* one live request, is its only one and says its ship and its window, until the
\* desk says otherwise: the desk's PATCH may name another ship or window, or write
\* back the ones it read before an edit of the request, and the trail does not
\* follow; the next edit of the request takes both back.  A withdrawn request has
\* no booking.
ScheduleMirrorsTrail == LinksLead /\ Mirror

IntakeStep ==
  \/ session' # session
  \/ \E e \in EventIds : ~Landed(e) /\ Landed(e)'

\* Whatever a request says, it moves no bow, turns no hull, takes no named berth
\* and changes no status ("holding the bow fixed"; "the request governs vessel /
\* time / cargo, not where or whether it berthed").
BowsAreHeld ==
  [][IntakeStep => \A b \in BookingIds :
       OnBoard(b) /\ OnBoard(b)' =>
         LET r == bookings[b]
             q == bookings'[b]
         IN  /\ q.status = r.status /\ q.direction = r.direction /\ q.berthed = r.berthed
             /\ q.station # r.station => PlacedByBow(r) /\ Bow(q) = Bow(r)]_vars

Length(r) == r.station.hi - r.station.lo

\* A length a request corrects reaches every placement by the bow of that ship,
\* also those of other requests ("the footprint must follow").
FootprintsFollow ==
  [][IntakeStep => \A b \in BookingIds :
       /\ OnBoard(b) /\ OnBoard(b)'
       /\ PlacedByBow(bookings[b])
       /\ bookings[b].ship # NoImo
       /\ bookings'[b].ship = bookings[b].ship
       /\ ships'[bookings[b].ship].loa # ships[bookings[b].ship].loa
       => Length(bookings'[b]) = ships'[bookings[b].ship].loa]_vars

=============================================================================
