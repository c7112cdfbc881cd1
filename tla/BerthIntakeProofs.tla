------------------------- MODULE BerthIntakeProofs -------------------------
(***************************************************************************)
(* Proofs about the intake: for any number of clerks, requests, ships and  *)
(* bookings, the trail holds no content twice and the schedule mirrors it. *)
(***************************************************************************)
EXTENDS BerthIntake, TLAPS

(***************************************************************************)
(* The hash is the content's; a booking belongs to the request that made   *)
(* it, and so does every link, in the trail and in what a clerk has read.  *)
(***************************************************************************)
KeyIsTheContent == \A e \in EventIds : Landed(e) => events[e].key = events[e].form

LinksBelong ==
  /\ \A e \in EventIds : Landed(e) /\ events[e].link # NoLink =>
       OnBoard(events[e].link) /\ bookings[events[e].link].request = e
  /\ \A b \in BookingIds : OnBoard(b) => Landed(bookings[b].request)

SessionsBelong ==
  \A c \in Clerks : session[c] # Idle =>
    LET s == session[c]
    IN  /\ Landed(s.event)
        /\ s.link # NoLink =>
             /\ bookings[s.link] # Unused
             /\ OnBoard(s.link) => bookings[s.link].request = s.event

IInv ==
  /\ TypeOK
  /\ KeyIsTheContent
  /\ OneRequestPerContent
  /\ LinksBelong
  /\ SessionsBelong
  /\ Mirror

-----------------------------------------------------------------------------
(***************************************************************************)
(* Types.                                                                  *)
(***************************************************************************)

Events == [EventIds -> Event \cup {Unused}]
Board  == [BookingIds -> Booking \cup {Unused, Gone}]
Ships  == [Imos -> Ship]
Reads  == [Operators -> Patching \cup {Idle}]

\* A hull laid from a bow is a stretch of wharf.
LEMMA StationFromBowType ==
  ASSUME NEW bow \in Int, NEW heading \in Headings, NEW loa \in Lengths
  PROVE  StationFromBow(bow, heading, loa) \in Stations
  BY IntakeAssumption DEF StationFromBow, Stations

\* What an upsert leaves of the ships.
LEMMA UpsertedShipsType ==
  ASSUME ships \in Ships, NEW f \in Content
  PROVE  UpsertedShips(f) \in Ships
  <1>1. ASSUME NEW i \in Imos PROVE UpsertedShip(i, f) \in Ship
    <2>1. ships[i].name \in Names \cup {NoName} /\ ships[i].loa \in Lengths \cup {Unknown}
      BY DEF Ships, Ship
    <2>2. f.name \in Names \cup {NoName} /\ f.loa \in Lengths \cup {Unknown}
      BY DEF Content
    <2> QED
      BY <2>1, <2>2 DEF UpsertedShip, Coalesce, Ship
  <1> QED
    BY <1>1 DEF UpsertedShips, Ships

\* The booking q is of the same request as r; and unless the desk rewrote it since,
\* of the same ship, at the same time.
SameDues(q, r) ==
  /\ q.request = r.request
  /\ ~q.rewritten => ~r.rewritten /\ q.ship = r.ship /\ q.time = r.time

\* What a correction of a length does to the bookings: those on board stay, each
\* with its dues.
LEMMA ReprojectedForKeeps ==
  ASSUME bookings \in Board, ships \in Ships, NEW f \in Content
  PROVE  /\ ReprojectedFor(f) \in Board
         /\ \A b \in BookingIds :
              LET q == ReprojectedFor(f)[b]
              IN  /\ ~OnBoard(b) => q = bookings[b]
                  /\ OnBoard(b) => q \in Booking /\ SameDues(q, bookings[b])
  <1> DEFINE R == ReprojectedFor(f)
  <1>1. CASE f.imo = NoImo
    BY <1>1 DEF ReprojectedFor, Board, OnBoard, SameDues
  <1>2. CASE f.imo # NoImo
    <2>1. f.imo \in Imos
      BY <1>2 DEF Content
    <2>2. PICK loa \in Lengths \cup {Unknown} : loa = UpsertedShips(f)[f.imo].loa
      BY <2>1, UpsertedShipsType DEF Ships, Ship
    <2>3. R = [b \in BookingIds |->
                 IF OnBoard(b) /\ bookings[b].ship = f.imo /\ loa # Unknown
                    /\ PlacedByBow(bookings[b])
                 THEN Reprojected(bookings[b], loa) ELSE bookings[b]]
      BY <1>2, <2>2 DEF ReprojectedFor, Reprojections
    <2>4. ASSUME NEW b \in BookingIds, OnBoard(b), loa # Unknown, PlacedByBow(bookings[b])
          PROVE  LET q == Reprojected(bookings[b], loa)
                 IN  q \in Booking /\ SameDues(q, bookings[b])
      <3> DEFINE r == bookings[b]
                 st == StationFromBow(Bow(r), r.direction, loa)
      <3>1. r \in Booking
        BY <2>4 DEF Board, OnBoard
      <3>2. r.direction \in Headings /\ r.station \in Stations /\ ~IsEmpty(r.station)
        BY <2>4, <3>1 DEF Booking, PlacedByBow
      <3>3. Bow(r) \in Int
        BY <3>2 DEF Bow, Stations, Empty
      <3>4. st \in Stations
        BY <2>4, <3>2, <3>3, StationFromBowType
      <3>5. Reprojected(r, loa) = [r EXCEPT !.station = st]
        BY DEF Reprojected
      <3> HIDE DEF r, st
      <3>6. [r EXCEPT !.station = st] \in Booking
        BY <3>1, <3>4 DEF Booking
      <3>7. SameDues([r EXCEPT !.station = st], r)
        BY <3>1 DEF Booking, SameDues
      <3> QED
        BY <3>5, <3>6, <3>7 DEF r
    <2>5. ASSUME NEW b \in BookingIds
          PROVE  /\ ~OnBoard(b) => R[b] = bookings[b]
                 /\ OnBoard(b) => R[b] \in Booking /\ SameDues(R[b], bookings[b])
      BY <2>3, <2>4 DEF Board, OnBoard, SameDues
    <2>6. R \in Board
      BY <2>3, <2>5 DEF Board
    <2> QED
      BY <2>5, <2>6
  <1> QED
    BY <1>1, <1>2

\* A booking is neither of the marks, nor an event.
LEMMA RecordsAreNoMarks ==
  /\ \A r \in Booking : r # Unused /\ r # Gone
  /\ \A v \in Event : v # Unused
  BY MarksAssumption

\* The types as sets.
LEMMA TypesOfIInv ==
  ASSUME IInv
  PROVE  /\ events \in Events /\ bookings \in Board /\ ships \in Ships
         /\ patch \in Reads
         /\ session \in [Clerks -> Session \cup {Idle}]
         /\ \A e \in EventIds : Landed(e) => events[e] \in Event
         /\ \A b \in BookingIds : OnBoard(b) => bookings[b] \in Booking
  BY DEF IInv, TypeOK, Events, Board, Ships, Reads, Landed, OnBoard

-----------------------------------------------------------------------------
(***************************************************************************)
(* The steps.                                                              *)
(***************************************************************************)

\* The bookings on board stay, with their dues.
BoardStays ==
  \A b \in BookingIds :
    /\ ~OnBoard(b) => bookings'[b] = bookings[b]
    /\ OnBoard(b) => bookings'[b] \in Booking /\ SameDues(bookings'[b], bookings[b])

\* At the start there is nothing.
LEMMA InitIInv == Init => IInv
  <1> SUFFICES ASSUME Init PROVE IInv
    OBVIOUS
  <1>1. TypeOK
    <2>1. ships \in [Imos -> Ship]
      BY DEF Init, Ship
    <2> QED
      BY <2>1 DEF Init, TypeOK
  <1> QED
    BY <1>1 DEF Init, IInv, KeyIsTheContent, OneRequestPerContent, LinksBelong,
       SessionsBelong, Mirror, Linked, Landed, Live, OnBoard

\* What leaves the trail and the sessions alone, and the bookings on board.
LEMMA DeskKeeps ==
  ASSUME IInv, UNCHANGED <<events, session>>, bookings' \in Board, ships' \in Ships,
         patch' \in Reads, BoardStays
  PROVE  IInv'
  <1>1. \A b \in BookingIds : OnBoard(b)' <=> OnBoard(b)
    BY RecordsAreNoMarks DEF BoardStays, OnBoard
  <1>2. \A b \in BookingIds : bookings'[b] = Unused <=> bookings[b] = Unused
    BY RecordsAreNoMarks DEF BoardStays, OnBoard
  <1>3. TypeOK'
    BY DEF IInv, TypeOK, Board, Ships, Reads
  <1>4. KeyIsTheContent' /\ OneRequestPerContent'
    BY DEF IInv, KeyIsTheContent, OneRequestPerContent, Landed, Live
  <1>5. LinksBelong'
    BY <1>1, TypesOfIInv DEF IInv, LinksBelong, BoardStays, SameDues, Landed, Event
  <1>6. SessionsBelong'
    BY <1>1, <1>2, TypesOfIInv
       DEF IInv, SessionsBelong, BoardStays, SameDues, Landed, Session
  <1>7. Mirror'
    BY <1>1, TypesOfIInv DEF IInv, Mirror, Linked, LinksBelong, BoardStays, SameDues,
       Landed, Event
  <1> QED
    BY <1>3, <1>4, <1>5, <1>6, <1>7 DEF IInv

\* What the desk's PATCH makes of a row: its dues are the row's, or rewritten.
LEMMA PatchedRowType ==
  ASSUME IInv, NEW p \in Patches, NEW read \in Booking, NEW row \in Booking,
         PatchAccepted(p, read)
  PROVE  PatchedRow(p, read, row) \in Booking /\ SameDues(PatchedRow(p, read, row), row)
  <1> DEFINE ship == Field(p, "ship", read.ship)
             time == PatchedWindow(p, read)
             sta  == PatchedStation(p, read)
             way  == Heading(p, read)
             status == Status(p, read)
  <1>1. BodyOK(p)
    BY IntakeAssumption
  <1>2. /\ ship \in Imos \cup {NoImo}
        /\ status \in {"requested", "tentative", "confirmed", "cancelled"}
    BY <1>1 DEF Field, BodyOK, Booking, Status
  <1>3. way \in Headings \cup {NoHeading}
    BY <1>1 DEF Heading, Field, BodyOK, Booking
  <1>4. time \in Windows
    <2>1. Lower(read.time) \in Bounds /\ Upper(read.time) \in Bounds
      BY RangeAssumption DEF Booking, Windows, Bounds, Lower, Upper, Before, After, Empty, IsEmpty
    <2>2. /\ Field(p, "etb", Lower(read.time)) \in Bounds
          /\ Field(p, "etd", Upper(read.time)) \in Bounds
      BY <1>1, <2>1 DEF Field, BodyOK
    <2> QED
      BY <2>2 DEF PatchedWindow, TimeRange, Windows
  <1>5. sta \in Stations
    <2>1. Empty \in Stations
      BY DEF Stations
    <2>2. ASSUME ~Cleared(p, read), "bow" \in DOMAIN p PROVE sta \in Stations
      <3>1. LoaOf(ship) \in Lengths /\ way \in Headings
        BY <1>2, <1>3, <2>2, TypesOfIInv DEF PatchAccepted, Ships, Ship, LoaOf
      <3>2. DockToPopa(p["bow"]) \in Int
        BY <1>1, <2>2, RangeAssumption DEF BodyOK, DockToPopa
      <3>3. sta = StationFromBow(DockToPopa(p["bow"]), way, LoaOf(ship))
        BY <2>2 DEF PatchedStation
      <3> HIDE DEF sta, way, ship
      <3> QED
        BY <3>1, <3>2, <3>3, StationFromBowType
    <2>3. ASSUME ~Cleared(p, read), "bow" \notin DOMAIN p PROVE sta \in Stations
      BY <1>1, <2>3 DEF PatchedStation, Field, BodyOK, Booking
    <2>4. ASSUME Cleared(p, read) PROVE sta \in Stations
      BY <2>1, <2>4 DEF PatchedStation
    <2> QED
      BY <2>2, <2>3, <2>4
  <1> PICK rw \in BOOLEAN : rw = (row.rewritten \/ ship # row.ship \/ time # row.time)
    OBVIOUS
  <1> PICK moored \in BOOLEAN :
        moored = (~Cleared(p, read) /\ (read.berthed \/ "berth" \in DOMAIN p))
    OBVIOUS
  <1>6. PatchedRow(p, read, row) =
          [ship |-> ship, time |-> time, station |-> sta, direction |-> way,
           berthed |-> moored, status |-> status, request |-> row.request,
           rewritten |-> rw]
    BY DEF PatchedRow
  <1>7. ~rw => ~row.rewritten /\ ship = row.ship /\ time = row.time
    BY DEF Booking
  <1>8. row.request \in EventIds
    BY DEF Booking
  <1> HIDE DEF ship, time, sta, way, status
  <1>9. PatchedRow(p, read, row) \in Booking
    BY <1>2, <1>3, <1>4, <1>5, <1>6, <1>8 DEF Booking
  <1>10. SameDues(PatchedRow(p, read, row), row)
    BY <1>6, <1>7 DEF SameDues
  <1> QED
    BY <1>9, <1>10

\* The desk reads a booking, writes it back, gives up; a length changes.
LEMMA DeskStepsKeep ==
  ASSUME IInv,
         \/ \E o \in Operators, b \in BookingIds : PatchRead(o, b)
         \/ \E o \in Operators, p \in Patches : PatchCommit(o, p)
         \/ \E o \in Operators : PatchRefused(o)
         \/ \E i \in Imos, loa \in Lengths : LengthChanges(i, loa)
  PROVE  IInv'
  <1>1. ASSUME UNCHANGED <<events, bookings, session>>, ships' \in Ships, patch' \in Reads
        PROVE  IInv'
    <2>1. bookings' \in Board /\ BoardStays
      BY <1>1, TypesOfIInv DEF BoardStays, SameDues
    <2> QED
      BY <1>1, <2>1, DeskKeeps
  <1>2. ASSUME NEW o \in Operators, NEW b \in BookingIds, PatchRead(o, b) PROVE IInv'
    <2>1. [booking |-> b, row |-> bookings[b]] \in Patching
      BY <1>2, TypesOfIInv DEF PatchRead, Patching
    <2>2. patch' \in Reads
      BY <1>2, <2>1, TypesOfIInv DEF PatchRead, Reads
    <2> QED
      BY <1>1, <1>2, <2>2, TypesOfIInv DEF PatchRead
  <1>3. ASSUME NEW o \in Operators, PatchRefused(o) PROVE IInv'
    <2>1. patch' \in Reads
      BY <1>3, TypesOfIInv DEF PatchRefused, Reads
    <2> QED
      BY <1>1, <1>3, <2>1, TypesOfIInv DEF PatchRefused
  <1>4. ASSUME NEW o \in Operators, NEW p \in Patches, PatchCommit(o, p) PROVE IInv'
    <2> PICK b \in BookingIds, read \in Booking :
          patch[o].booking = b /\ patch[o].row = read
      BY <1>4, TypesOfIInv DEF PatchCommit, Reads, Patching
    <2> DEFINE q == PatchedRow(p, read, bookings[b])
    <2>1. /\ UNCHANGED <<events, ships, session>>
          /\ PatchAccepted(p, read)
          /\ bookings' = [i \in BookingIds |->
                            IF i = b /\ OnBoard(b) THEN q ELSE bookings[i]]
          /\ patch' = [patch EXCEPT ![o] = Idle]
      BY <1>4 DEF PatchCommit
    <2>2. OnBoard(b) => q \in Booking /\ SameDues(q, bookings[b])
      BY <2>1, PatchedRowType, TypesOfIInv
    <2> HIDE DEF q
    <2>3. bookings' \in Board
      BY <2>1, <2>2, TypesOfIInv DEF Board
    <2>4. BoardStays
      BY <2>1, <2>2, TypesOfIInv DEF BoardStays, SameDues, Board
    <2>5. patch' \in Reads
      BY <2>1, TypesOfIInv DEF Reads
    <2> QED
      BY <2>1, <2>3, <2>4, <2>5, TypesOfIInv, DeskKeeps
  <1>5. ASSUME NEW i \in Imos, NEW loa \in Lengths, LengthChanges(i, loa) PROVE IInv'
    <2>1. ships' \in Ships
      BY <1>5, TypesOfIInv DEF LengthChanges, Ships, Ship
    <2> QED
      BY <1>1, <1>5, <2>1, TypesOfIInv DEF LengthChanges
  <1> QED
    BY <1>2, <1>3, <1>4, <1>5

\* A clerk reads a request, or gives up.
LEMMA ReadsKeep ==
  ASSUME IInv, NEW c \in Clerks,
         \/ \E e \in EventIds, f \in Forms : EditRead(c, e, f)
         \/ \E e \in EventIds : WithdrawRead(c, e)
         \/ RolledBack(c)
  PROVE  IInv'
  <1>1. UNCHANGED <<events, bookings, ships, patch>>
    BY DEF EditRead, WithdrawRead, RolledBack
  <1>2. \E s \in Session \cup {Idle} :
          /\ session' = [session EXCEPT ![c] = s]
          /\ s # Idle => Landed(s.event) /\ s.link = events[s.event].link
    <2>1. CASE RolledBack(c)
      BY <2>1 DEF RolledBack
    <2>2. ASSUME NEW e \in EventIds, Landed(e), NEW kind \in {"edit", "withdraw"},
                 NEW f \in Content,
                 session' = [session EXCEPT ![c] =
                   [kind |-> kind, event |-> e, link |-> events[e].link, form |-> f]]
          PROVE  \E s \in Session \cup {Idle} :
                   /\ session' = [session EXCEPT ![c] = s]
                   /\ s # Idle => Landed(s.event) /\ s.link = events[s.event].link
      <3> DEFINE s == [kind |-> kind, event |-> e, link |-> events[e].link, form |-> f]
      <3>1. s \in Session
        BY <2>2, TypesOfIInv DEF Session, Event
      <3>2. s.event = e /\ s.link = events[e].link
        OBVIOUS
      <3> QED
        BY <2>2, <3>1, <3>2
    <2>3. ASSUME NEW e \in EventIds, NEW f \in Forms, EditRead(c, e, f)
          PROVE  \E s \in Session \cup {Idle} :
                   /\ session' = [session EXCEPT ![c] = s]
                   /\ s # Idle => Landed(s.event) /\ s.link = events[s.event].link
      <3>1. Landed(e) /\ events[e].form \in Content
        BY <2>3, TypesOfIInv DEF EditRead, Live, Event
      <3>2. Restored(f, events[e].form) \in Content
        BY <3>1, IntakeAssumption DEF Restored, Content
      <3> QED
        BY <2>2, <2>3, <3>1, <3>2 DEF EditRead
    <2>4. ASSUME NEW e \in EventIds, WithdrawRead(c, e)
          PROVE  \E s \in Session \cup {Idle} :
                   /\ session' = [session EXCEPT ![c] = s]
                   /\ s # Idle => Landed(s.event) /\ s.link = events[s.event].link
      <3>1. Landed(e) /\ events[e].form \in Content
        BY <2>4, TypesOfIInv DEF WithdrawRead, Live, Event
      <3> QED
        BY <2>2, <2>4, <3>1 DEF WithdrawRead
    <2> QED
      BY <2>1, <2>3, <2>4
  <1>3. PICK s \in Session \cup {Idle} :
          /\ session' = [session EXCEPT ![c] = s]
          /\ s # Idle => Landed(s.event) /\ s.link = events[s.event].link
    BY <1>2
  <1>4. TypeOK'
    BY <1>1, <1>3 DEF IInv, TypeOK
  <1>5. KeyIsTheContent' /\ OneRequestPerContent' /\ LinksBelong' /\ Mirror'
    BY <1>1 DEF IInv, KeyIsTheContent, OneRequestPerContent, LinksBelong,
       Mirror, Linked, Landed, Live, OnBoard
  <1>6. SessionsBelong'
    <2> SUFFICES ASSUME NEW d \in Clerks, session'[d] # Idle
                 PROVE  /\ Landed(session'[d].event)
                        /\ session'[d].link # NoLink =>
                             /\ bookings[session'[d].link] # Unused
                             /\ OnBoard(session'[d].link) =>
                                  bookings[session'[d].link].request
                                    = session'[d].event
      BY <1>1 DEF SessionsBelong, Landed, OnBoard
    <2>1. CASE d # c
      BY <1>3, <2>1, TypesOfIInv DEF IInv, SessionsBelong
    <2>2. CASE d = c
      <3>1. session'[d] = s /\ s \in Session
        BY <1>3, <2>2, TypesOfIInv
      <3>2. Landed(s.event) /\ s.link = events[s.event].link /\ s.event \in EventIds
        BY <1>3, <3>1 DEF Session
      <3> QED
        BY <3>1, <3>2 DEF IInv, LinksBelong, OnBoard
    <2> QED
      BY <2>1, <2>2
  <1> QED
    BY <1>4, <1>5, <1>6 DEF IInv

\* An event that lands has the first free id; so has its booking.
LEMMA CreateKeeps ==
  ASSUME IInv, NEW f \in Forms, Create(f)
  PROVE  IInv'
  <1>1. f \in Content
    BY IntakeAssumption DEF Content
  <1> DEFINE R == ReprojectedFor(f)
  <1>2. PICK e \in EventIds, b \in BookingIds \cup {NoLink} :
          /\ events[e] = Unused
          /\ b # NoLink => bookings[b] = Unused
          /\ events' = [events EXCEPT ![e] = [live |-> TRUE, form |-> f, key |-> f,
                                              link |-> b, raced |-> FALSE]]
          /\ bookings' = [i \in BookingIds |-> IF i = b THEN NewBooking(f, e) ELSE R[i]]
    BY DEF Create, IsNext
  <1>3. ships' \in Ships /\ session' = session /\ patch' = patch
    BY <1>1, UpsertedShipsType, TypesOfIInv DEF Create
  <1> DEFINE ev == [live |-> TRUE, form |-> f, key |-> f, link |-> b, raced |-> FALSE]
             nb == NewBooking(f, e)
  <1>4. /\ ev \in Event
        /\ ev.live /\ ev.form = f /\ ev.key = f /\ ev.link = b /\ ~ev.raced
    BY <1>1 DEF Event
  <1>5. nb \in Booking /\ nb.ship = f.imo /\ nb.time = f.time /\ nb.request = e
    <2>1. Empty \in Stations
      BY DEF Stations
    <2> QED
      BY <1>1, <2>1 DEF NewBooking, Booking, Content
  <1>6. /\ events' = [events EXCEPT ![e] = ev]
        /\ bookings' = [i \in BookingIds |-> IF i = b THEN nb ELSE R[i]]
    BY <1>2
  <1>7. R \in Board /\ \A i \in BookingIds :
          /\ ~OnBoard(i) => R[i] = bookings[i]
          /\ OnBoard(i) => R[i] \in Booking /\ SameDues(R[i], bookings[i])
    BY <1>1, ReprojectedForKeeps, TypesOfIInv
  <1> HIDE DEF ev, nb, R
  <1>8. /\ events' \in Events
        /\ events'[e] = ev /\ \A d \in EventIds : d # e => events'[d] = events[d]
    BY <1>4, <1>6, TypesOfIInv DEF Events
  <1>9. /\ bookings' \in Board
        /\ b # NoLink => bookings'[b] = nb /\ OnBoard(b)' /\ ~OnBoard(b)
        /\ \A i \in BookingIds : i # b =>
             /\ OnBoard(i)' <=> OnBoard(i)
             /\ bookings'[i] = Unused <=> bookings[i] = Unused
             /\ OnBoard(i) => SameDues(bookings'[i], bookings[i])
    BY <1>2, <1>5, <1>6, <1>7, RecordsAreNoMarks DEF Board, OnBoard
  <1>10. \A d \in EventIds : Landed(d)' <=> d = e \/ Landed(d)
    BY <1>4, <1>8, RecordsAreNoMarks DEF Landed
  <1>11. TypeOK'
    BY <1>3, <1>8, <1>9, TypesOfIInv DEF TypeOK, Events, Board, Ships, Reads
  <1>12. KeyIsTheContent'
    BY <1>4, <1>8, <1>10 DEF IInv, KeyIsTheContent
  <1>13. OneRequestPerContent'
    <2>1. \A d \in EventIds : Live(d) => events[d].form # f /\ d # e
      BY <1>2 DEF Create, IInv, KeyIsTheContent, Live, Landed
    <2>2. \A d \in EventIds : d # e => (Live(d)' <=> Live(d))
      BY <1>8 DEF Live, Landed
    <2> QED
      BY <1>4, <1>8, <2>1, <2>2 DEF IInv, OneRequestPerContent
  <1>14. LinksBelong'
    <2>1. ASSUME NEW d \in EventIds, Landed(d)', events'[d].link # NoLink
          PROVE  /\ bookings'[events'[d].link] \notin {Unused, Gone}
                 /\ bookings'[events'[d].link].request = d
      <3>1. CASE d = e
        BY <1>4, <1>5, <1>8, <1>9, <2>1, <3>1 DEF OnBoard
      <3>2. CASE d # e
        <4>1. Landed(d) /\ events'[d] = events[d]
          BY <1>8, <1>10, <2>1, <3>2
        <4>2. PICK i \in BookingIds : i = events[d].link
          BY <2>1, <4>1, TypesOfIInv DEF Event
        <4>3. OnBoard(i) /\ bookings[i].request = d
          BY <2>1, <4>1, <4>2 DEF IInv, LinksBelong
        <4>4. i # b
          BY <1>2, <4>3, IntakeAssumption DEF OnBoard
        <4> QED
          BY <1>9, <4>1, <4>2, <4>3, <4>4 DEF OnBoard, SameDues
      <3> QED
        BY <3>1, <3>2
    <2>2. ASSUME NEW i \in BookingIds, OnBoard(i)'
          PROVE  events'[bookings'[i].request] # Unused
      <3>1. CASE i = b
        BY <1>5, <1>9, <1>10, <3>1, IntakeAssumption DEF Landed
      <3>2. CASE i # b
        <4>1. OnBoard(i) /\ bookings'[i].request = bookings[i].request
          BY <1>9, <2>2, <3>2 DEF SameDues
        <4>2. Landed(bookings[i].request) /\ bookings[i].request \in EventIds
          BY <4>1, TypesOfIInv DEF IInv, LinksBelong, Booking
        <4> QED
          BY <1>8, <1>10, <4>1, <4>2 DEF Landed
      <3> QED
        BY <3>1, <3>2
    <2> QED
      BY <2>1, <2>2 DEF LinksBelong, OnBoard, Landed
  <1>15. SessionsBelong'
    <2> SUFFICES ASSUME NEW d \in Clerks, session[d] # Idle
                 PROVE  LET s == session[d]
                        IN  /\ Landed(s.event)'
                            /\ s.link # NoLink =>
                                 /\ bookings'[s.link] # Unused
                                 /\ OnBoard(s.link)' =>
                                      bookings'[s.link].request = s.event
      BY <1>3 DEF SessionsBelong, Landed, OnBoard
    <2> PICK s \in Session : s = session[d]
      BY TypesOfIInv
    <2>1. /\ Landed(s.event) /\ s.event \in EventIds
          /\ s.link \in BookingIds \cup {NoLink}
          /\ s.link # NoLink =>
               /\ bookings[s.link] # Unused
               /\ OnBoard(s.link) => bookings[s.link].request = s.event
      BY DEF IInv, SessionsBelong, Session
    <2>2. Landed(s.event)'
      BY <1>10, <2>1
    <2>3. s.link # NoLink => s.link # b
      BY <1>2, <2>1
    <2> QED
      BY <1>3, <1>9, <2>1, <2>2, <2>3 DEF Landed, OnBoard, SameDues
  <1>16. Mirror'
    <2>1. ASSUME NEW d \in EventIds, Landed(d)', ~events'[d].raced,
                 events'[d].link # NoLink
          PROVE  LET i == events'[d].link
                 IN  /\ events'[d].live
                     /\ ~bookings'[i].rewritten =>
                          /\ bookings'[i].ship = events'[d].form.imo
                          /\ bookings'[i].time = events'[d].form.time
      <3>1. CASE d = e
        BY <1>4, <1>5, <1>8, <1>9, <2>1, <3>1 DEF OnBoard
      <3>2. CASE d # e
        <4>1. Landed(d) /\ events'[d] = events[d]
          BY <1>8, <1>10, <2>1, <3>2
        <4>2. PICK i \in BookingIds : i = events[d].link
          BY <2>1, <4>1, TypesOfIInv DEF Event
        <4>3. /\ OnBoard(i) /\ events[d].live /\ bookings[i].request = d
              /\ ~bookings[i].rewritten =>
                   /\ bookings[i].ship = events[d].form.imo
                   /\ bookings[i].time = events[d].form.time
          BY <2>1, <4>1, <4>2 DEF IInv, Mirror, Linked, LinksBelong
        <4>4. i # b
          BY <1>2, <4>3, IntakeAssumption DEF OnBoard
        <4> QED
          BY <1>9, <4>1, <4>2, <4>3, <4>4 DEF SameDues
      <3> QED
        BY <3>1, <3>2
    <2>2. ASSUME NEW i \in BookingIds, OnBoard(i)', ~events'[bookings'[i].request].raced
          PROVE  events'[bookings'[i].request].link = i
      <3>1. CASE i = b
        BY <1>4, <1>5, <1>8, <1>9, <3>1, IntakeAssumption
      <3>2. CASE i # b
        <4>1. OnBoard(i) /\ bookings'[i].request = bookings[i].request
          BY <1>9, <2>2, <3>2 DEF SameDues
        <4>2. Landed(bookings[i].request) /\ bookings[i].request \in EventIds
          BY <4>1, TypesOfIInv DEF IInv, LinksBelong, Booking
        <4>3. bookings[i].request # e
          BY <1>2, <4>2 DEF Landed
        <4> QED
          BY <1>8, <2>2, <4>1, <4>2, <4>3 DEF IInv, Mirror, Linked
      <3> QED
        BY <3>1, <3>2
    <2> QED
      BY <2>1, <2>2 DEF Mirror, Linked, Landed, OnBoard
  <1> QED
    BY <1>11, <1>12, <1>13, <1>14, <1>15, <1>16 DEF IInv

\* ON DELETE SET NULL.
LEMMA UnlinkedIs ==
  ASSUME NEW trail \in Events, NEW b \in BookingIds
  PROVE  /\ Unlinked(trail, b) \in Events
         /\ \A e \in EventIds :
              LET u == Unlinked(trail, b)[e]
                  t == trail[e]
              IN  /\ u = Unused <=> t = Unused
                  /\ t # Unused =>
                       /\ u.live = t.live /\ u.form = t.form /\ u.key = t.key
                       /\ u.raced = t.raced
                       /\ u.link = IF t.link = b THEN NoLink ELSE t.link
  <1> DEFINE U == Unlinked(trail, b)
  <1>1. \A e \in EventIds :
          U[e] = IF trail[e] # Unused /\ trail[e].link = b
                 THEN [trail[e] EXCEPT !.link = NoLink] ELSE trail[e]
    BY DEF Unlinked
  <1>2. ASSUME NEW e \in EventIds, trail[e] # Unused, trail[e].link = b
        PROVE  /\ U[e] \in Event
               /\ U[e].live = trail[e].live /\ U[e].form = trail[e].form
               /\ U[e].key = trail[e].key /\ U[e].raced = trail[e].raced
               /\ U[e].link = NoLink
    <2>1. trail[e] \in Event
      BY <1>2 DEF Events
    <2>2. U[e] = [trail[e] EXCEPT !.link = NoLink]
      BY <1>1, <1>2
    <2> HIDE DEF U
    <2> QED
      BY <2>1, <2>2 DEF Event
  <1>3. U \in Events
    BY <1>1, <1>2 DEF Unlinked, Events
  <1> HIDE DEF U
  <1>4. \A e \in EventIds :
          /\ U[e] = Unused <=> trail[e] = Unused
          /\ trail[e] # Unused =>
               /\ U[e].live = trail[e].live /\ U[e].form = trail[e].form
               /\ U[e].key = trail[e].key /\ U[e].raced = trail[e].raced
               /\ U[e].link = IF trail[e].link = b THEN NoLink ELSE trail[e].link
    BY <1>1, <1>2, RecordsAreNoMarks
  <1> QED
    BY <1>3, <1>4 DEF U

\* A booking goes, and every link to it; its own event may have been changed in
\* the same transaction.
LEMMA RemovalKeeps ==
  ASSUME IInv, NEW b \in BookingIds, OnBoard(b), NEW trail \in Events,
         bookings' = Without(b), ships' = ships, events' = Unlinked(trail, b),
         session' \in [Clerks -> Session \cup {Idle}], patch' = patch,
         \A d \in Clerks : session'[d] \in {session[d], Idle},
         \A e \in EventIds :
           /\ trail[e] = Unused <=> events[e] = Unused
           /\ events[e] # Unused =>
                /\ trail[e].form = events[e].form /\ trail[e].key = events[e].key
                /\ trail[e].link = events[e].link
                /\ trail[e].live => events[e].live
           /\ e # bookings[b].request => trail[e] = events[e],
         LET e == bookings[b].request
         IN  ~trail[e].raced => ~events[e].raced /\ events[e].link \in {b, NoLink}
  PROVE  IInv'
  <1> DEFINE e0 == bookings[b].request
  <1>0. PICK r \in EventIds : r = e0
    BY TypesOfIInv DEF Booking
  <1>1. /\ events' \in Events
        /\ \A e \in EventIds :
             /\ events'[e] = Unused <=> events[e] = Unused
             /\ events[e] # Unused =>
                  /\ events'[e].form = events[e].form /\ events'[e].key = events[e].key
                  /\ events'[e].link = IF events[e].link = b THEN NoLink
                                       ELSE events[e].link
                  /\ events'[e].live => events[e].live
                  /\ e # r => /\ events'[e].live = events[e].live
                              /\ events'[e].raced = events[e].raced
                  /\ e = r /\ ~events'[e].raced =>
                       ~events[e].raced /\ events[e].link \in {b, NoLink}
    BY <1>0, UnlinkedIs
  <1>2. /\ bookings' \in Board
        /\ bookings'[b] = Gone
        /\ \A i \in BookingIds : i # b => bookings'[i] = bookings[i]
    BY TypesOfIInv DEF Without, Board
  <1>3. \A e \in EventIds : Landed(e)' <=> Landed(e)
    BY <1>1 DEF Landed
  <1>4. \A i \in BookingIds : OnBoard(i)' <=> OnBoard(i) /\ i # b
    BY <1>2 DEF OnBoard
  <1>5. TypeOK'
    BY <1>1, <1>2, TypesOfIInv DEF TypeOK, Events, Board, Ships, Reads
  <1>6. KeyIsTheContent'
    BY <1>1, <1>3 DEF IInv, KeyIsTheContent, Landed
  <1>7. OneRequestPerContent'
    BY <1>1, <1>3 DEF IInv, OneRequestPerContent, Live, Landed
  <1>8. LinksBelong'
    <2>1. ASSUME NEW e \in EventIds, events'[e] # Unused, events'[e].link # NoLink
          PROVE  /\ bookings'[events'[e].link] \notin {Unused, Gone}
                 /\ bookings'[events'[e].link].request = e
      <3>1. Landed(e) /\ events'[e].link = events[e].link /\ events[e].link # b
        BY <1>1, <2>1 DEF Landed
      <3>2. PICK i \in BookingIds : i = events[e].link
        BY <2>1, <3>1, TypesOfIInv DEF Event
      <3>3. OnBoard(i) /\ bookings[i].request = e
        BY <2>1, <3>1, <3>2 DEF IInv, LinksBelong
      <3> QED
        BY <1>2, <3>1, <3>2, <3>3 DEF OnBoard
    <2>2. ASSUME NEW i \in BookingIds, OnBoard(i)'
          PROVE  events'[bookings'[i].request] # Unused
      <3>1. OnBoard(i) /\ bookings'[i] = bookings[i]
        BY <1>2, <1>4, <2>2
      <3>2. Landed(bookings[i].request) /\ bookings[i].request \in EventIds
        BY <3>1, TypesOfIInv DEF IInv, LinksBelong, Booking
      <3> QED
        BY <1>1, <3>1, <3>2 DEF Landed
    <2> QED
      BY <2>1, <2>2 DEF LinksBelong, OnBoard, Landed
  <1>9. SessionsBelong'
    <2> SUFFICES ASSUME NEW d \in Clerks, NEW s \in Session, s = session'[d], s # Idle
                 PROVE  /\ events'[s.event] # Unused
                        /\ s.link # NoLink =>
                             /\ bookings'[s.link] # Unused
                             /\ bookings'[s.link] \notin {Unused, Gone} =>
                                  bookings'[s.link].request = s.event
      BY DEF SessionsBelong, Landed, OnBoard
    <2>1. s = session[d] /\ s.event \in EventIds /\ s.link \in BookingIds \cup {NoLink}
      BY DEF Session
    <2>2. /\ events[s.event] # Unused
          /\ s.link # NoLink =>
               /\ bookings[s.link] # Unused
               /\ OnBoard(s.link) => bookings[s.link].request = s.event
      BY <2>1 DEF IInv, SessionsBelong, Landed
    <2>3. events'[s.event] # Unused
      BY <1>1, <2>1, <2>2
    <2> QED
      BY <1>2, <2>1, <2>2, <2>3, MarksAssumption DEF OnBoard
  <1>10. Mirror'
    <2>1. ASSUME NEW e \in EventIds, events'[e] # Unused, ~events'[e].raced,
                 events'[e].link # NoLink
          PROVE  LET i == events'[e].link
                 IN  /\ events'[e].live
                     /\ ~bookings'[i].rewritten =>
                          /\ bookings'[i].ship = events'[e].form.imo
                          /\ bookings'[i].time = events'[e].form.time
      <3>1. /\ Landed(e) /\ events'[e].link = events[e].link /\ events[e].link # b
            /\ events'[e].form = events[e].form
        BY <1>1, <2>1 DEF Landed
      <3>2. e # r /\ ~events[e].raced /\ events'[e].live = events[e].live
        BY <1>1, <2>1, <3>1 DEF Landed
      <3>3. PICK i \in BookingIds : i = events[e].link
        BY <2>1, <3>1, TypesOfIInv DEF Event
      <3>4. /\ OnBoard(i) /\ events[e].live /\ bookings[i].request = e
            /\ ~bookings[i].rewritten =>
                 /\ bookings[i].ship = events[e].form.imo
                 /\ bookings[i].time = events[e].form.time
        BY <2>1, <3>1, <3>2, <3>3 DEF IInv, Mirror, Linked, LinksBelong
      <3> QED
        BY <1>2, <3>1, <3>2, <3>3, <3>4 DEF OnBoard
    <2>2. ASSUME NEW i \in BookingIds, OnBoard(i)', ~events'[bookings'[i].request].raced
          PROVE  events'[bookings'[i].request].link = i
      <3>1. OnBoard(i) /\ i # b /\ bookings'[i] = bookings[i]
        BY <1>2, <1>4, <2>2
      <3>2. PICK e \in EventIds : e = bookings[i].request
        BY <3>1, TypesOfIInv DEF Booking
      <3>3. Landed(e)
        BY <3>1, <3>2 DEF IInv, LinksBelong
      <3>4. ~events[e].raced
        BY <1>1, <2>2, <3>1, <3>2, <3>3 DEF Landed
      <3>5. events[e].link = i
        BY <3>1, <3>2, <3>4 DEF IInv, Mirror, Linked
      <3>6. events'[e].link = i
        BY <1>1, <3>1, <3>3, <3>5 DEF Landed
      <3> QED
        BY <3>1, <3>2, <3>6
    <2> QED
      BY <2>1, <2>2 DEF Mirror, Linked, Landed, OnBoard
  <1> QED
    BY <1>5, <1>6, <1>7, <1>8, <1>9, <1>10 DEF IInv

\* The desk deletes a booking.
LEMMA DeleteBookingKeeps ==
  ASSUME IInv, NEW b \in BookingIds, DeleteBooking(b)
  PROVE  IInv'
  <1>1. /\ OnBoard(b) /\ bookings' = Without(b) /\ events' = Unlinked(events, b)
        /\ UNCHANGED <<ships, session, patch>>
    BY DEF DeleteBooking
  <1>2. LET e == bookings[b].request
        IN  ~events[e].raced => events[e].link \in {b, NoLink}
    BY <1>1 DEF IInv, Mirror, Linked
  <1> QED
    BY <1>1, <1>2, TypesOfIInv, RemovalKeeps

\* A clerk's session, and what the invariant says of it.
LEMMA SessionFacts ==
  ASSUME IInv, NEW c \in Clerks, session[c] # Idle
  PROVE  LET s == session[c]
         IN  /\ s \in Session /\ s.event \in EventIds
             /\ s.form \in Content
             /\ s.link \in BookingIds \cup {NoLink}
             /\ Landed(s.event) /\ events[s.event] \in Event
             /\ s.link # NoLink =>
                  /\ bookings[s.link] # Unused
                  /\ OnBoard(s.link) => bookings[s.link].request = s.event
  <1> PICK s \in Session : s = session[c]
    BY TypesOfIInv
  <1>1. s.event \in EventIds /\ s.form \in Content /\ s.link \in BookingIds \cup {NoLink}
    BY DEF Session
  <1> QED
    BY <1>1, TypesOfIInv DEF IInv, SessionsBelong

\* A session that ends leaves the others as they are.
LEMMA SessionEnds ==
  ASSUME IInv, NEW c \in Clerks, session' = [session EXCEPT ![c] = Idle]
  PROVE  /\ session' \in [Clerks -> Session \cup {Idle}]
         /\ \A d \in Clerks : session'[d] \in {session[d], Idle}
  BY TypesOfIInv

\* A request is withdrawn.
LEMMA CommitWithdrawKeeps ==
  ASSUME IInv, NEW c \in Clerks, CommitWithdraw(c)
  PROVE  IInv'
  <1> PICK s \in Session : s = session[c] /\ s # Idle
    BY SessionFacts DEF CommitWithdraw
  <1>1. /\ s.event \in EventIds
        /\ s.link \in BookingIds \cup {NoLink}
        /\ Landed(s.event) /\ events[s.event] \in Event
        /\ s.link # NoLink =>
             /\ bookings[s.link] # Unused
             /\ OnBoard(s.link) => bookings[s.link].request = s.event
    BY SessionFacts
  <1>2. /\ session' = [session EXCEPT ![c] = Idle] /\ UNCHANGED <<ships, patch>>
        /\ IF s.link # NoLink /\ OnBoard(s.link)
           THEN bookings' = Without(s.link)
                /\ events' = Unlinked(Withdrawn(s), s.link)
           ELSE events' = Withdrawn(s) /\ UNCHANGED bookings
    BY DEF CommitWithdraw
  <1> DEFINE e0 == s.event
             w  == Withdrawn(s)
             ev == WithdrawnEvent(s)
  <1>3. /\ ev \in Event
        /\ ~ev.live /\ ev.form = events[e0].form /\ ev.key = events[e0].key
        /\ ev.link = events[e0].link
        /\ ~ev.raced => ~events[e0].raced /\ events[e0].link \in {s.link, NoLink}
    <2> PICK rc \in BOOLEAN : rc = (events[e0].raced \/ Overtaken(s))
      OBVIOUS
    <2>1. ev = [events[e0] EXCEPT !.live = FALSE, !.raced = rc]
      BY DEF WithdrawnEvent
    <2>2. ~rc => ~events[e0].raced /\ events[e0].link \in {s.link, NoLink}
      BY DEF Overtaken
    <2> HIDE DEF ev
    <2> QED
      BY <1>1, <2>1, <2>2 DEF Event
  <1>4. w = [events EXCEPT ![e0] = ev]
    BY DEF Withdrawn
  <1> HIDE DEF w, ev
  <1>5. /\ w \in Events /\ w[e0] = ev
        /\ \A e \in EventIds : e # e0 => w[e] = events[e]
        /\ \A e \in EventIds : w[e] = Unused <=> events[e] = Unused
    BY <1>1, <1>3, <1>4, TypesOfIInv, RecordsAreNoMarks DEF Events, Landed
  <1>6. CASE s.link # NoLink /\ OnBoard(s.link)
    <2> PICK b \in BookingIds : b = s.link
      BY <1>1, <1>6
    <2>1. OnBoard(b) /\ bookings[b].request = e0
      BY <1>1, <1>6
    <2>2. bookings' = Without(b) /\ events' = Unlinked(w, b)
      BY <1>2, <1>6 DEF w
    <2>3. \A e \in EventIds :
            /\ w[e] = Unused <=> events[e] = Unused
            /\ events[e] # Unused =>
                 /\ w[e].form = events[e].form /\ w[e].key = events[e].key
                 /\ w[e].link = events[e].link
                 /\ w[e].live => events[e].live
            /\ e # bookings[b].request => w[e] = events[e]
      BY <1>3, <1>5, <2>1
    <2>4. LET e == bookings[b].request
          IN  ~w[e].raced => ~events[e].raced /\ events[e].link \in {b, NoLink}
      BY <1>3, <1>5, <2>1
    <2> QED
      BY <1>2, <1>5, <2>1, <2>2, <2>3, <2>4, SessionEnds, RemovalKeeps
  <1>7. CASE ~(s.link # NoLink /\ OnBoard(s.link))
    <2>1. events' = w /\ bookings' = bookings
      BY <1>2, <1>7 DEF w
    <2>2. ~ev.raced => ~events[e0].raced /\ events[e0].link = NoLink
      BY <1>1, <1>3, <1>7 DEF IInv, LinksBelong
    <2>3. TypeOK'
      BY <1>2, <1>5, <2>1, SessionEnds, TypesOfIInv DEF TypeOK, Events, Board, Ships, Reads
    <2>4. KeyIsTheContent'
      BY <1>1, <1>3, <1>5, <2>1 DEF IInv, KeyIsTheContent, Landed
    <2>5. OneRequestPerContent'
      BY <1>1, <1>3, <1>5, <2>1 DEF IInv, OneRequestPerContent, Live, Landed
    <2>6. \A e \in EventIds : events'[e] # Unused =>
            events[e] # Unused /\ events'[e].link = events[e].link
      BY <1>3, <1>5, <2>1
    <2>7. LinksBelong'
      <3>1. ASSUME NEW i \in BookingIds, OnBoard(i)
            PROVE  events'[bookings[i].request] # Unused
        <4>1. bookings[i].request \in EventIds /\ events[bookings[i].request] # Unused
          BY <3>1, TypesOfIInv DEF IInv, LinksBelong, Landed, Booking
        <4> QED
          BY <1>5, <2>1, <4>1
      <3> QED
        BY <2>1, <2>6, <3>1 DEF IInv, LinksBelong, Landed, OnBoard
    <2>8. SessionsBelong'
      <3> SUFFICES ASSUME NEW d \in Clerks, session'[d] # Idle
                   PROVE  /\ events'[session'[d].event] # Unused
                          /\ session'[d].link # NoLink =>
                               /\ bookings[session'[d].link] # Unused
                               /\ OnBoard(session'[d].link) =>
                                    bookings[session'[d].link].request
                                      = session'[d].event
        BY <2>1 DEF SessionsBelong, Landed, OnBoard
      <3>1. session'[d] = session[d]
        BY <1>2, SessionEnds
      <3>2. session[d].event \in EventIds /\ events[session[d].event] # Unused
        BY <3>1, SessionFacts DEF Landed
      <3> QED
        BY <1>5, <2>1, <3>1, <3>2, SessionFacts
    <2>9. Mirror'
      <3>1. ASSUME NEW e \in EventIds, events'[e] # Unused, ~events'[e].raced,
                   events'[e].link # NoLink
            PROVE  e # e0 /\ events'[e] = events[e]
        BY <1>3, <1>5, <2>1, <2>2, <3>1
      <3>2. ASSUME NEW i \in BookingIds, OnBoard(i), ~events'[bookings[i].request].raced
            PROVE  events'[bookings[i].request].link = i
        <4>1. PICK e \in EventIds : e = bookings[i].request
          BY <3>2, TypesOfIInv DEF Booking
        <4>2. ~events[e].raced
          BY <1>3, <1>5, <2>1, <3>2, <4>1
        <4>3. events[e].link = i
          BY <3>2, <4>1, <4>2 DEF IInv, Mirror, Linked
        <4>4. i # NoLink
          BY IntakeAssumption
        <4>5. e # e0
          BY <1>5, <2>1, <2>2, <3>2, <4>1, <4>3, <4>4
        <4> QED
          BY <1>5, <2>1, <4>1, <4>3, <4>5
      <3> QED
        BY <2>1, <3>1, <3>2 DEF IInv, Mirror, Linked, Landed, OnBoard
    <2> QED
      BY <2>3, <2>4, <2>5, <2>7, <2>8, <2>9 DEF IInv
  <1> QED
    BY <1>6, <1>7

(***************************************************************************)
(* An edit commits.  Of an event that is written without having been       *)
(* overtaken, the link is still the one read, or was cleared with its      *)
(* booking; so what the edit finds on board is that request's own.         *)
(***************************************************************************)

\* What an edit leaves of its event, the trail and the board: the event has the
\* link l, and the bookings are the reprojected ones, but for one of its own (m),
\* projected or new.
EditedTo(s, l, m, nb) ==
  /\ l \in BookingIds \cup {NoLink}
  /\ m \in BookingIds \cup {NoLink}
  /\ events' = [events EXCEPT ![s.event] = EditedEvent(s, l)]
  /\ nb \in Booking /\ nb.ship = s.form.imo /\ nb.time = s.form.time
  /\ nb.request = s.event
  /\ bookings' = [i \in BookingIds |-> IF i = m THEN nb ELSE ReprojectedFor(s.form)[i]]
  /\ \/ /\ l = events[s.event].link /\ m = NoLink
        /\ s.link # NoLink => ~OnBoard(s.link)
     \/ l = events[s.event].link /\ m = s.link /\ m # NoLink /\ OnBoard(m)
     \/ l = m /\ s.link = NoLink /\ m # NoLink /\ bookings[m] = Unused

\* Every edit is one of these.
LEMMA EditIsEditedTo ==
  ASSUME IInv, NEW c \in Clerks, NEW s \in Session, s = session[c], s # Idle, Edited(s)
  PROVE  \E l, m, nb : EditedTo(s, l, m, nb)
  <1>1. /\ s.event \in EventIds /\ s.form \in Content
        /\ s.link \in BookingIds \cup {NoLink}
        /\ Landed(s.event) /\ events[s.event] \in Event
        /\ s.link # NoLink =>
             /\ bookings[s.link] # Unused
             /\ OnBoard(s.link) => bookings[s.link].request = s.event
    BY SessionFacts
  <1> DEFINE R  == ReprojectedFor(s.form)
             l0 == events[s.event].link
             fresh == NewBooking(s.form, s.event)
  <1>2. R \in Board /\ \A i \in BookingIds :
          /\ ~OnBoard(i) => R[i] = bookings[i]
          /\ OnBoard(i) => R[i] \in Booking /\ SameDues(R[i], bookings[i])
    BY <1>1, ReprojectedForKeeps, TypesOfIInv
  <1>3. /\ fresh \in Booking /\ fresh.ship = s.form.imo /\ fresh.time = s.form.time
        /\ fresh.request = s.event
    <2>1. Empty \in Stations
      BY DEF Stations
    <2> QED
      BY <1>1, <2>1 DEF NewBooking, Booking, Content
  <1>4. l0 \in BookingIds \cup {NoLink}
    BY <1>1 DEF Event
  <1>5. CASE s.link # NoLink
    <2>1. /\ bookings' = [b \in BookingIds |->
                            IF b = s.link /\ OnBoard(b)
                            THEN Projected(s, R[b]) ELSE R[b]]
          /\ events' = [events EXCEPT ![s.event] = EditedEvent(s, l0)]
      BY <1>5 DEF Edited
    <2>2. CASE OnBoard(s.link)
      <3> PICK m \in BookingIds : m = s.link
        BY <1>1, <1>5
      <3> DEFINE nb == Projected(s, R[m])
      <3>1. R[m] \in Booking /\ R[m].request = s.event
        BY <1>1, <1>2, <1>5, <2>2 DEF SameDues
      <3>2. nb = [R[m] EXCEPT !.ship = s.form.imo, !.time = s.form.time, !.rewritten = FALSE]
        BY DEF Projected
      <3>3. s.form.imo \in Imos \cup {NoImo} /\ s.form.time \in Windows
        BY <1>1 DEF Content
      <3>4. bookings' = [i \in BookingIds |-> IF i = m THEN nb ELSE R[i]]
        BY <2>1, <2>2
      <3> HIDE DEF nb, R
      <3>5. /\ nb \in Booking /\ nb.ship = s.form.imo /\ nb.time = s.form.time
            /\ nb.request = s.event
        BY <3>1, <3>2, <3>3 DEF Booking
      <3>6. EditedTo(s, l0, m, nb)
        BY <1>4, <1>5, <2>1, <2>2, <3>4, <3>5, IntakeAssumption DEF EditedTo, R
      <3> QED
        BY <3>6
    <2>3. CASE ~OnBoard(s.link)
      <3>1. bookings' = [i \in BookingIds |-> IF i = NoLink THEN fresh ELSE R[i]]
        <4>1. \A i \in BookingIds : i # NoLink
          BY IntakeAssumption
        <4> QED
          BY <2>1, <2>3, <4>1
      <3> HIDE DEF fresh
      <3>2. EditedTo(s, l0, NoLink, fresh)
        BY <1>3, <1>4, <2>1, <2>3, <3>1 DEF EditedTo
      <3> QED
        BY <3>2
    <2> QED
      BY <2>2, <2>3
  <1>6. CASE s.link = NoLink
    <2>1. PICK b \in BookingIds \cup {NoLink} :
            /\ b # NoLink => bookings[b] = Unused
            /\ bookings' = [i \in BookingIds |-> IF i = b THEN fresh ELSE R[i]]
            /\ events' = [events EXCEPT
                            ![s.event] = EditedEvent(s, IF b = NoLink THEN l0 ELSE b)]
      BY <1>6 DEF Edited, IsNext
    <2> DEFINE l == IF b = NoLink THEN l0 ELSE b
    <2>2. l \in BookingIds \cup {NoLink}
      BY <1>4
    <2> HIDE DEF fresh
    <2>3. EditedTo(s, l, b, fresh)
      BY <1>3, <1>6, <2>1, <2>2 DEF EditedTo
    <2> QED
      BY <2>3
  <1> QED
    BY <1>5, <1>6

\* Whichever it is, the mirror holds.
LEMMA CommitEditKeeps ==
  ASSUME IInv, NEW c \in Clerks, CommitEdit(c)
  PROVE  IInv'
  <1> PICK s \in Session : s = session[c] /\ s # Idle
    BY SessionFacts DEF CommitEdit
  <1>1. /\ s.event \in EventIds /\ s.form \in Content
        /\ s.link \in BookingIds \cup {NoLink}
        /\ Landed(s.event) /\ events[s.event] \in Event
        /\ s.link # NoLink =>
             /\ bookings[s.link] # Unused
             /\ OnBoard(s.link) => bookings[s.link].request = s.event
    BY SessionFacts
  <1>2. /\ ~ContentTaken(s) /\ Edited(s) /\ ships' = UpsertedShips(s.form)
        /\ session' = [session EXCEPT ![c] = Idle] /\ patch' = patch
    BY DEF CommitEdit
  <1>3. PICK l, m, nb : EditedTo(s, l, m, nb)
    BY <1>2, EditIsEditedTo
  <1> DEFINE e0 == s.event
             ev == EditedEvent(s, l)
             R  == ReprojectedFor(s.form)
  <1>4. /\ l \in BookingIds \cup {NoLink}
        /\ m \in BookingIds \cup {NoLink}
        /\ events' = [events EXCEPT ![e0] = ev]
        /\ nb \in Booking /\ nb.ship = s.form.imo /\ nb.time = s.form.time
        /\ nb.request = e0
        /\ bookings' = [i \in BookingIds |-> IF i = m THEN nb ELSE R[i]]
        /\ \/ /\ l = events[e0].link /\ m = NoLink
              /\ s.link # NoLink => ~OnBoard(s.link)
           \/ l = events[e0].link /\ m = s.link /\ m # NoLink /\ OnBoard(m)
           \/ l = m /\ s.link = NoLink /\ m # NoLink /\ bookings[m] = Unused
    BY <1>3 DEF EditedTo
  <1>5. /\ ev \in Event
        /\ ev.live = events[e0].live /\ ev.form = s.form /\ ev.key = s.form
        /\ ev.link = l
        /\ ~ev.raced => /\ ~events[e0].raced /\ events[e0].live
                        /\ events[e0].link \in {s.link, NoLink}
    <2> PICK rc \in BOOLEAN : rc = (events[e0].raced \/ Overtaken(s))
      OBVIOUS
    <2>1. ev = [events[e0] EXCEPT !.form = s.form, !.key = s.form, !.link = l,
                                  !.raced = rc]
      BY DEF EditedEvent
    <2>2. ~rc => /\ ~events[e0].raced /\ events[e0].live
                 /\ events[e0].link \in {s.link, NoLink}
      BY DEF Overtaken
    <2> HIDE DEF ev
    <2> QED
      BY <1>1, <1>4, <2>1, <2>2 DEF Event
  <1>6. R \in Board /\ \A i \in BookingIds :
          /\ ~OnBoard(i) => R[i] = bookings[i]
          /\ OnBoard(i) => R[i] \in Booking /\ SameDues(R[i], bookings[i])
    BY <1>1, ReprojectedForKeeps, TypesOfIInv
  <1> HIDE DEF ev, R
  <1>7. /\ events' \in Events /\ events'[e0] = ev
        /\ \A e \in EventIds : e # e0 => events'[e] = events[e]
        /\ \A e \in EventIds : events'[e] = Unused <=> events[e] = Unused
    BY <1>1, <1>4, <1>5, TypesOfIInv, RecordsAreNoMarks DEF Events, Landed
  <1>8. /\ bookings' \in Board
        /\ m # NoLink => bookings'[m] = nb /\ nb \notin {Unused, Gone}
        /\ \A i \in BookingIds : i # m =>
             /\ OnBoard(i)' <=> OnBoard(i)
             /\ bookings'[i] = Unused <=> bookings[i] = Unused
             /\ OnBoard(i) => SameDues(bookings'[i], bookings[i])
    BY <1>4, <1>6, RecordsAreNoMarks DEF Board, OnBoard
  <1>9. m # NoLink /\ OnBoard(m) => bookings[m].request = e0
    BY <1>1, <1>4 DEF OnBoard
  <1>10. ships' \in Ships
    BY <1>1, <1>2, UpsertedShipsType, TypesOfIInv
  <1>11. TypeOK'
    BY <1>2, <1>7, <1>8, <1>10, SessionEnds, TypesOfIInv DEF TypeOK, Events, Board, Ships, Reads
  <1>12. KeyIsTheContent'
    BY <1>5, <1>7 DEF IInv, KeyIsTheContent, Landed
  <1>13. OneRequestPerContent'
    <2>1. ASSUME NEW d \in EventIds, d # e0, Live(d), events[e0].live
          PROVE  events[d].form # s.form
      BY <1>1, <1>2, <2>1 DEF ContentTaken, IInv, KeyIsTheContent, Live
    <2>2. \A d \in EventIds : Live(d)' <=> Live(d)
      BY <1>5, <1>7 DEF Live, Landed
    <2>3. Live(e0) => events[e0].live
      BY DEF Live
    <2> QED
      BY <1>5, <1>7, <2>1, <2>2, <2>3 DEF IInv, OneRequestPerContent
  <1>14. LinksBelong'
    <2>1. ASSUME NEW e \in EventIds, events'[e] # Unused, events'[e].link # NoLink
          PROVE  /\ bookings'[events'[e].link] \notin {Unused, Gone}
                 /\ bookings'[events'[e].link].request = e
      <3> PICK i \in BookingIds : i = events'[e].link
        BY <1>7, <2>1 DEF Events, Event
      <3>1. CASE i = m
        <4>1. bookings'[i] = nb /\ nb \notin {Unused, Gone}
          BY <1>8, <2>1, <3>1
        <4>2. e = e0
          <5> SUFFICES ASSUME e # e0 PROVE FALSE
            OBVIOUS
          <5>1. Landed(e) /\ events[e].link = i
            BY <1>7, <2>1 DEF Landed
          <5>2. OnBoard(i) /\ bookings[i].request = e
            BY <2>1, <5>1 DEF IInv, LinksBelong
          <5> QED
            BY <1>9, <2>1, <3>1, <5>2
        <4> QED
          BY <1>4, <4>1, <4>2
      <3>2. CASE i # m
        <4>1. Landed(e) /\ events[e].link = i
          BY <1>4, <1>5, <1>7, <2>1, <3>2 DEF Landed
        <4>2. OnBoard(i) /\ bookings[i].request = e
          BY <2>1, <4>1 DEF IInv, LinksBelong
        <4> QED
          BY <1>8, <3>2, <4>2 DEF OnBoard, SameDues
      <3> QED
        BY <3>1, <3>2
    <2>2. ASSUME NEW i \in BookingIds, OnBoard(i)'
          PROVE  events'[bookings'[i].request] # Unused
      <3>1. CASE i = m
        BY <1>1, <1>4, <1>7, <1>8, <3>1, IntakeAssumption DEF Landed
      <3>2. CASE i # m
        <4>1. OnBoard(i) /\ bookings'[i].request = bookings[i].request
          BY <1>8, <2>2, <3>2 DEF SameDues
        <4>2. Landed(bookings[i].request) /\ bookings[i].request \in EventIds
          BY <4>1, TypesOfIInv DEF IInv, LinksBelong, Booking
        <4> QED
          BY <1>7, <4>1, <4>2 DEF Landed
      <3> QED
        BY <3>1, <3>2
    <2> QED
      BY <2>1, <2>2 DEF LinksBelong, OnBoard, Landed
  <1>15. SessionsBelong'
    <2> SUFFICES ASSUME NEW d \in Clerks, NEW z \in Session, z = session'[d], z # Idle
                 PROVE  /\ events'[z.event] # Unused
                        /\ z.link # NoLink =>
                             /\ bookings'[z.link] # Unused
                             /\ bookings'[z.link] \notin {Unused, Gone} =>
                                  bookings'[z.link].request = z.event
      BY <1>2, SessionEnds DEF SessionsBelong, Landed, OnBoard
    <2>1. z = session[d]
      BY <1>2, SessionEnds
    <2>2. /\ z.event \in EventIds /\ events[z.event] # Unused
          /\ z.link \in BookingIds \cup {NoLink}
          /\ z.link # NoLink =>
               /\ bookings[z.link] # Unused
               /\ OnBoard(z.link) => bookings[z.link].request = z.event
      BY <2>1, SessionFacts DEF Landed
    <2>3. events'[z.event] # Unused
      BY <1>7, <2>2
    <2>4. CASE z.link # NoLink /\ z.link = m
      <3>1. OnBoard(m)
        BY <1>4, <2>2, <2>4
      <3> QED
        BY <1>4, <1>8, <1>9, <2>2, <2>3, <2>4, <3>1
    <2>5. CASE z.link # m
      BY <1>8, <2>2, <2>3, <2>5 DEF OnBoard, SameDues
    <2> QED
      BY <2>3, <2>4, <2>5
  <1>16. Mirror'
    <2>1. ASSUME NEW e \in EventIds, events'[e] # Unused, ~events'[e].raced,
                 events'[e].link # NoLink
          PROVE  LET i == events'[e].link
                 IN  /\ events'[e].live
                     /\ ~bookings'[i].rewritten =>
                          /\ bookings'[i].ship = events'[e].form.imo
                          /\ bookings'[i].time = events'[e].form.time
      <3> PICK i \in BookingIds : i = events'[e].link
        BY <1>7, <2>1 DEF Events, Event
      <3>1. CASE e = e0
        <4>1. i = l /\ events[e0].live /\ events[e0].link \in {s.link, NoLink}
          BY <1>5, <1>7, <2>1, <3>1
        <4>2. l = m
          <5> SUFFICES ASSUME l # m PROVE FALSE
            OBVIOUS
          <5>1. l = events[e0].link /\ m = NoLink /\ ~OnBoard(l)
            BY <1>4, <2>1, <4>1
          <5> QED
            BY <1>1, <2>1, <4>1, <5>1 DEF IInv, LinksBelong
        <4>3. bookings'[i] = nb /\ nb \notin {Unused, Gone}
          BY <1>8, <2>1, <4>1, <4>2
        <4>4. events'[e].form = s.form /\ events'[e].live
          BY <1>5, <1>7, <3>1, <4>1
        <4> QED
          BY <1>4, <4>3, <4>4
      <3>2. CASE e # e0
        <4>1. Landed(e) /\ events'[e] = events[e] /\ events[e].link = i
          BY <1>7, <2>1, <3>2 DEF Landed
        <4>2. /\ OnBoard(i) /\ events[e].live /\ bookings[i].request = e
              /\ ~bookings[i].rewritten =>
                   /\ bookings[i].ship = events[e].form.imo
                   /\ bookings[i].time = events[e].form.time
          BY <2>1, <4>1 DEF IInv, Mirror, Linked, LinksBelong
        <4>3. i # m
          BY <1>9, <2>1, <3>2, <4>1, <4>2 DEF IInv, LinksBelong
        <4> QED
          BY <1>8, <4>1, <4>2, <4>3 DEF SameDues
      <3> QED
        BY <3>1, <3>2
    <2>2. ASSUME NEW i \in BookingIds, OnBoard(i)', ~events'[bookings'[i].request].raced
          PROVE  events'[bookings'[i].request].link = i
      <3>1. CASE i = m
        <4>1. bookings'[i].request = e0 /\ m # NoLink
          BY <1>4, <1>8, <3>1, IntakeAssumption
        <4>2. l = m
          <5> SUFFICES ASSUME l # m PROVE FALSE
            OBVIOUS
          <5>1. l = events[e0].link /\ m = s.link /\ OnBoard(m)
            BY <1>4, <4>1
          <5>2. ~events[e0].raced
            BY <1>5, <1>7, <2>2, <4>1
          <5> QED
            BY <1>9, <3>1, <4>1, <5>1, <5>2 DEF IInv, Mirror, Linked
        <4> QED
          BY <1>5, <1>7, <3>1, <4>1, <4>2
      <3>2. CASE i # m
        <4>1. OnBoard(i) /\ bookings'[i].request = bookings[i].request
          BY <1>8, <2>2, <3>2 DEF SameDues
        <4>2. PICK e \in EventIds : e = bookings[i].request
          BY <4>1, TypesOfIInv DEF Booking
        <4>3. ~events[e].raced /\ (e = e0 => events[e0].link \in {s.link, NoLink})
          BY <1>5, <1>7, <2>2, <4>1, <4>2
        <4>4. events[e].link = i
          BY <4>1, <4>2, <4>3 DEF IInv, Mirror, Linked
        <4>5. CASE e # e0
          BY <1>7, <4>1, <4>2, <4>4, <4>5
        <4>6. CASE e = e0
          <5>1. i = s.link
            BY <4>3, <4>4, <4>6, IntakeAssumption
          <5>2. FALSE
            BY <1>4, <3>2, <4>1, <5>1, IntakeAssumption
          <5> QED
            BY <5>2
        <4> QED
          BY <4>5, <4>6
      <3> QED
        BY <3>1, <3>2
    <2> QED
      BY <2>1, <2>2 DEF Mirror, Linked, Landed, OnBoard
  <1> QED
    BY <1>11, <1>12, <1>13, <1>14, <1>15, <1>16 DEF IInv

-----------------------------------------------------------------------------
(***************************************************************************)
(* The theorems.                                                           *)
(***************************************************************************)

\* Every step keeps the invariant.
LEMMA NextKeeps == IInv /\ [Next]_vars => IInv'
  <1> SUFFICES ASSUME IInv, [Next]_vars PROVE IInv'
    OBVIOUS
  <1>1. CASE UNCHANGED vars
    <2>1. bookings' \in Board /\ ships' \in Ships /\ BoardStays
          /\ UNCHANGED <<events, session>> /\ patch' \in Reads
      BY <1>1, TypesOfIInv DEF vars, BoardStays, SameDues
    <2> QED
      BY <2>1, DeskKeeps
  <1>2. CASE Next
    BY <1>2, CreateKeeps, ReadsKeep, CommitEditKeeps, CommitWithdrawKeeps,
       DeskStepsKeep, DeleteBookingKeeps DEF Next
  <1> QED
    BY <1>1, <1>2

\* The invariant of every behaviour.
LEMMA Inductive == Spec => []IInv
  BY InitIInv, NextKeeps, PTL DEF Spec

\* The intake's type correctness.
THEOREM IntakeTypeOK == Spec => []TypeOK
  BY Inductive, PTL DEF IInv

\* No content is live twice, whatever any number of clerks send, edit and withdraw
\* (the partial unique index on the content hash, and the hash following an edit).
THEOREM ContentIsUnique == Spec => []OneRequestPerContent
  BY Inductive, PTL DEF IInv

\* A request's link leads to its own booking whatever races; and but for the requests
\* written after a withdrawal or a new booking they had not read, a booking is the only
\* one of a live request and says what it says, until the desk's PATCH says otherwise
\* (update_manual_request, delete_manual_request, update_reservation, ON DELETE SET
\* NULL).
THEOREM TrailAndScheduleAgree == Spec => []ScheduleMirrorsTrail
  <1>1. IInv => ScheduleMirrorsTrail
    BY DEF IInv, LinksBelong, LinksLead, Linked, ScheduleMirrorsTrail
  <1> QED
    BY <1>1, Inductive, PTL

-----------------------------------------------------------------------------
(***************************************************************************)
(* What a request does to the placements.                                  *)
(***************************************************************************)

\* A booking q keeps of r all but its ship, its time and, placed by the bow, the
\* length behind the bow.
Held(q, r) ==
  /\ q.status = r.status /\ q.direction = r.direction /\ q.berthed = r.berthed
  /\ q.station # r.station => PlacedByBow(r) /\ Bow(q) = Bow(r)

\* Of a placement by the bow, the correction moves the stern.
LEMMA ReprojectedHolds ==
  ASSUME NEW r \in Booking, PlacedByBow(r), NEW loa \in Lengths
  PROVE  /\ Held(Reprojected(r, loa), r)
         /\ Length(Reprojected(r, loa)) = loa
  <1> DEFINE st == StationFromBow(Bow(r), r.direction, loa)
             q  == [r EXCEPT !.station = st]
  <1>1. Reprojected(r, loa) = q
    BY DEF Reprojected
  <1>2. r.direction \in Headings /\ r.station \in Stations /\ ~IsEmpty(r.station)
    BY DEF Booking, PlacedByBow
  <1>3. Bow(r) \in Int /\ loa \in Nat \ {0}
    BY <1>2, IntakeAssumption DEF Bow, Stations, Empty
  <1>4. /\ r.direction = "downstream" => st.lo = Bow(r)
        /\ r.direction # "downstream" => st.hi = Bow(r)
        /\ st.hi - st.lo = loa
    BY <1>3 DEF StationFromBow
  <1> HIDE DEF st
  <1>5. /\ q.station = st /\ q.direction = r.direction
        /\ q.status = r.status /\ q.berthed = r.berthed
    BY DEF Booking
  <1> HIDE DEF q
  <1>6. Bow(q) = Bow(r)
    BY <1>4, <1>5 DEF Bow
  <1> QED
    BY <1>1, <1>4, <1>5, <1>6 DEF Held, Length

\* Of every booking on board, with the length of its ship when that changes.
LEMMA ReprojectedForHolds ==
  ASSUME bookings \in Board, ships \in Ships, NEW f \in Content,
         NEW b \in BookingIds, OnBoard(b)
  PROVE  LET q == ReprojectedFor(f)[b]
             r == bookings[b]
         IN  /\ Held(q, r)
             /\ r.ship # NoImo /\ PlacedByBow(r)
                /\ UpsertedShips(f)[r.ship].loa # ships[r.ship].loa
                  => Length(q) = UpsertedShips(f)[r.ship].loa
  <1> PICK r \in Booking : r = bookings[b]
    BY DEF Board, OnBoard
  <1> DEFINE q == ReprojectedFor(f)[b]
  <1>1. Held(r, r)
    BY DEF Held
  <1>2. r.ship \in Imos \cup {NoImo}
    BY DEF Booking
  <1>3. ASSUME r.ship # NoImo, UpsertedShips(f)[r.ship].loa # ships[r.ship].loa
        PROVE  r.ship = f.imo /\ UpsertedShips(f)[r.ship].loa # Unknown
    <2>1. r.ship \in Imos
      BY <1>2, <1>3
    <2>2. r.ship = f.imo
      BY <1>3, <2>1 DEF UpsertedShips
    <2>3. UpsertedShips(f)[r.ship].loa = UpsertedShip(r.ship, f).loa
      BY <2>1, <2>2 DEF UpsertedShips
    <2> QED
      BY <1>3, <2>2, <2>3 DEF UpsertedShip, Coalesce
  <1>4. CASE f.imo = NoImo
    <2>1. q = r
      BY <1>4 DEF ReprojectedFor
    <2> QED
      BY <1>1, <1>3, <1>4, <2>1
  <1>5. CASE f.imo # NoImo
    <2>1. f.imo \in Imos
      BY <1>5 DEF Content
    <2>2. PICK loa \in Lengths \cup {Unknown} : loa = UpsertedShips(f)[f.imo].loa
      BY <2>1, UpsertedShipsType DEF Ships, Ship
    <2>3. q = IF r.ship = f.imo /\ loa # Unknown /\ PlacedByBow(r)
              THEN Reprojected(r, loa) ELSE r
      BY <1>5, <2>2 DEF ReprojectedFor, Reprojections
    <2> HIDE DEF q
    <2>4. Held(q, r)
      BY <1>1, <2>2, <2>3, ReprojectedHolds
    <2>5. ASSUME r.ship # NoImo, PlacedByBow(r),
                 UpsertedShips(f)[r.ship].loa # ships[r.ship].loa
          PROVE  Length(q) = UpsertedShips(f)[r.ship].loa
      <3>1. r.ship = f.imo /\ loa # Unknown
        BY <1>3, <2>2, <2>5
      <3> QED
        BY <2>2, <2>3, <2>5, <3>1, ReprojectedHolds
    <2> QED
      BY <2>4, <2>5 DEF q
  <1> QED
    BY <1>4, <1>5

\* A step of the intake: what it makes of the ships and of the placements.
Corrects(f) ==
  /\ ships' = UpsertedShips(f)
  /\ \A b \in BookingIds : OnBoard(b) =>
       LET q == bookings'[b]
           p == ReprojectedFor(f)[b]
       IN  /\ q.status = p.status /\ q.direction = p.direction
           /\ q.berthed = p.berthed /\ q.station = p.station

\* Each such step corrects by some request, or leaves ships and placements alone.
LEMMA IntakeCorrects ==
  ASSUME IInv, [Next]_vars, IntakeStep
  PROVE  \/ \E f \in Content : Corrects(f)
         \/ /\ ships' = ships
            /\ \A b \in BookingIds : OnBoard(b) /\ OnBoard(b)' => bookings'[b] = bookings[b]
  <1>1. ASSUME NEW f \in Forms, Create(f) PROVE Corrects(f) /\ f \in Content
    <2>1. PICK e \in EventIds, b \in BookingIds \cup {NoLink} :
            /\ b # NoLink => bookings[b] = Unused
            /\ bookings' = [i \in BookingIds |->
                              IF i = b THEN NewBooking(f, e) ELSE ReprojectedFor(f)[i]]
      BY <1>1 DEF Create, IsNext
    <2>2. \A i \in BookingIds : OnBoard(i) => i # b
      BY <2>1, IntakeAssumption DEF OnBoard
    <2>3. f \in Content
      BY IntakeAssumption DEF Content
    <2> QED
      BY <1>1, <2>1, <2>2, <2>3 DEF Create, Corrects
  <1>2. ASSUME NEW c \in Clerks, CommitEdit(c)
        PROVE  \E f \in Content : Corrects(f)
    <2> PICK s \in Session : s = session[c] /\ s # Idle
      BY <1>2, SessionFacts DEF CommitEdit
    <2>1. s.form \in Content /\ Edited(s) /\ ships' = UpsertedShips(s.form)
      BY <1>2, SessionFacts DEF CommitEdit
    <2> DEFINE R == ReprojectedFor(s.form)
    <2>2. \A i \in BookingIds : OnBoard(i) => R[i] \in Booking
      BY <2>1, ReprojectedForKeeps, TypesOfIInv
    <2>3. CASE s.link # NoLink
      <3>1. bookings' = [b \in BookingIds |->
                           IF b = s.link /\ OnBoard(b)
                           THEN Projected(s, R[b]) ELSE R[b]]
        BY <2>1, <2>3 DEF Edited
      <3>2. ASSUME NEW i \in BookingIds, OnBoard(i)
            PROVE  LET q == bookings'[i]
                   IN  /\ q.status = R[i].status /\ q.direction = R[i].direction
                       /\ q.berthed = R[i].berthed /\ q.station = R[i].station
        <4>1. R[i] \in Booking
          BY <2>2, <3>2
        <4>2. bookings'[i] \in {R[i], Projected(s, R[i])}
          BY <3>1
        <4> HIDE DEF R
        <4> QED
          BY <4>1, <4>2 DEF Projected, Booking
      <3> QED
        BY <2>1, <3>2 DEF Corrects
    <2>4. CASE s.link = NoLink
      <3>1. PICK b \in BookingIds \cup {NoLink} :
              /\ b # NoLink => bookings[b] = Unused
              /\ bookings' = [i \in BookingIds |->
                                IF i = b THEN NewBooking(s.form, s.event) ELSE R[i]]
        BY <2>1, <2>4 DEF Edited, IsNext
      <3>2. \A i \in BookingIds : OnBoard(i) => i # b
        BY <3>1, IntakeAssumption DEF OnBoard
      <3> QED
        BY <2>1, <3>1, <3>2 DEF Corrects
    <2> QED
      BY <2>3, <2>4
  <1>3. ASSUME NEW c \in Clerks,
               \/ \E e \in EventIds, f \in Forms : EditRead(c, e, f)
               \/ \E e \in EventIds : WithdrawRead(c, e)
               \/ RolledBack(c)
        PROVE  UNCHANGED <<ships, bookings>>
    BY <1>3 DEF EditRead, WithdrawRead, RolledBack
  <1>4. ASSUME NEW c \in Clerks, CommitWithdraw(c)
        PROVE  /\ ships' = ships
               /\ \A b \in BookingIds : OnBoard(b)' => bookings'[b] = bookings[b]
    <2>1. /\ ships' = ships
          /\ bookings' = bookings \/ bookings' = Without(session[c].link)
      BY <1>4 DEF CommitWithdraw
    <2> QED
      BY <2>1, TypesOfIInv DEF Without, Board, OnBoard
  <1>5. ASSUME UNCHANGED session, \A e \in EventIds : ~Landed(e) => ~Landed(e)'
        PROVE  FALSE
    BY <1>5 DEF IntakeStep
  <1>6. ASSUME NEW b \in BookingIds, DeleteBooking(b) PROVE FALSE
    <2>1. session' = session /\ events' = Unlinked(events, b)
      BY <1>6 DEF DeleteBooking
    <2>2. \A e \in EventIds : ~Landed(e) => ~Landed(e)'
      BY <2>1, UnlinkedIs, TypesOfIInv DEF Landed
    <2> QED
      BY <1>5, <2>1, <2>2
  <1>7. UNCHANGED <<events, session>> => FALSE
    BY <1>5 DEF Landed
  <1> QED
    BY <1>1, <1>2, <1>3, <1>4, <1>6, <1>7 DEF Next, vars, PatchRead, PatchCommit,
       PatchRefused, LengthChanges

\* A request moves no bow and turns no hull (_reproject_placements), for any ships,
\* requests and clerks.
THEOREM RequestsHoldBows == Spec => BowsAreHeld
  <1> DEFINE A == IntakeStep => \A b \in BookingIds :
       OnBoard(b) /\ OnBoard(b)' =>
         LET r == bookings[b]
             q == bookings'[b]
         IN  /\ q.status = r.status /\ q.direction = r.direction /\ q.berthed = r.berthed
             /\ q.station # r.station => PlacedByBow(r) /\ Bow(q) = Bow(r)
  <1>1. IInv /\ [Next]_vars => A
    <2> SUFFICES ASSUME IInv, [Next]_vars, IntakeStep, NEW b \in BookingIds,
                        OnBoard(b), OnBoard(b)'
                 PROVE  Held(bookings'[b], bookings[b])
      BY DEF Held
    <2>1. ASSUME NEW f \in Content, Corrects(f) PROVE Held(bookings'[b], bookings[b])
      <3>1. Held(ReprojectedFor(f)[b], bookings[b])
        BY ReprojectedForHolds, TypesOfIInv
      <3> QED
        BY <2>1, <3>1 DEF Corrects, Held, Bow
    <2>2. CASE bookings'[b] = bookings[b]
      BY <2>2 DEF Held
    <2> QED
      BY <2>1, <2>2, IntakeCorrects
  <1> QED
    BY <1>1, Inductive, PTL DEF Spec, BowsAreHeld

\* A corrected length reaches the placements of its ship (_reproject_placements).
THEOREM CorrectionsReachFootprints == Spec => FootprintsFollow
  <1> DEFINE A == IntakeStep => \A b \in BookingIds :
       /\ OnBoard(b) /\ OnBoard(b)'
       /\ PlacedByBow(bookings[b])
       /\ bookings[b].ship # NoImo
       /\ bookings'[b].ship = bookings[b].ship
       /\ ships'[bookings[b].ship].loa # ships[bookings[b].ship].loa
       => Length(bookings'[b]) = ships'[bookings[b].ship].loa
  <1>1. IInv /\ [Next]_vars => A
    <2> SUFFICES ASSUME IInv, [Next]_vars, IntakeStep, NEW b \in BookingIds,
                        OnBoard(b), OnBoard(b)', PlacedByBow(bookings[b]),
                        bookings[b].ship # NoImo,
                        ships'[bookings[b].ship].loa # ships[bookings[b].ship].loa
                 PROVE  Length(bookings'[b]) = ships'[bookings[b].ship].loa
      OBVIOUS
    <2>1. ASSUME NEW f \in Content, Corrects(f)
          PROVE  Length(bookings'[b]) = ships'[bookings[b].ship].loa
      <3>1. ships' = UpsertedShips(f) /\ bookings'[b].station = ReprojectedFor(f)[b].station
        BY <2>1 DEF Corrects
      <3>2. Length(ReprojectedFor(f)[b]) = UpsertedShips(f)[bookings[b].ship].loa
        BY <3>1, ReprojectedForHolds, TypesOfIInv
      <3> QED
        BY <3>1, <3>2 DEF Length
    <2> QED
      BY <2>1, IntakeCorrects
  <1> QED
    BY <1>1, Inductive, PTL DEF Spec, FootprintsFollow
=============================================================================
