-------------------------- MODULE DataverseProofs --------------------------
(***************************************************************************)
(* For any number of rows, processes and restarts: no request is marked    *)
(* before it was dealt with, and a process records a row once.             *)
(***************************************************************************)
EXTENDS DataverseWorker, SequenceTheorems, TLAPS

-----------------------------------------------------------------------------
(***************************************************************************)
(* The trail, entry by entry.                                              *)
(***************************************************************************)

\* An edit or a withdrawal keeps the trail a sequence of as many events, and all
\* of them but the one as they were.
LEMMA EntryReplaced ==
  ASSUME trail \in Seq(Event), NEW n \in Events, NEW e \in Event
  PROVE  /\ [trail EXCEPT ![n] = e] \in Seq(Event)
         /\ Len([trail EXCEPT ![n] = e]) = Len(trail)
         /\ \A m \in Events :
              [trail EXCEPT ![n] = e][m] = IF m = n THEN e ELSE trail[m]
BY ExceptSeq DEF Events

\* A recording appends one event and keeps the others.
LEMMA EntryAppended ==
  ASSUME trail \in Seq(Event), NEW e \in Event
  PROVE  /\ Append(trail, e) \in Seq(Event)
         /\ Len(Append(trail, e)) = Len(trail) + 1
         /\ Append(trail, e)[Len(trail) + 1] = e
         /\ \A m \in Events : Append(trail, e)[m] = trail[m]
BY AppendProperties DEF Events

\* The row in hand is one: the oldest left in the batch.
LEMMA OneInHand ==
  ASSUME TypeOK, NEW w \in Workers, NEW r \in Rows, NEW q \in Rows,
         InHand(w, r), InHand(w, q)
  PROVE  r = q
BY DEF InHand, TypeOK, Process, Rows

-----------------------------------------------------------------------------
(***************************************************************************)
(* Types.                                                                  *)
(***************************************************************************)

\* The event an edit writes, and the one a withdrawal leaves, are events.
LEMMA EditedEvent ==
  ASSUME TypeOK, NEW n \in Events, NEW c \in Contents, EditEvent(n, c)
  PROVE  LET e == [trail[n] EXCEPT !.content = c, !.held = @ \cup {c}]
         IN  e \in Event /\ trail' = [trail EXCEPT ![n] = e]
<1>1. trail[n] \in Event
  BY ElementOfSeq DEF TypeOK, Events
<1>2. [trail[n] EXCEPT !.content = c, !.held = @ \cup {c}] \in Event
  BY <1>1 DEF Event
<1>3. trail' = [trail EXCEPT ![n].content = c, ![n].held = @ \cup {c}]
  BY DEF EditEvent
<1> QED
  BY <1>2, <1>3

\* A withdrawal changes nothing of an event but that it is live.
LEMMA WithdrawnEvent ==
  ASSUME TypeOK, NEW n \in Events, Withdraw(n)
  PROVE  LET e == [trail[n] EXCEPT !.live = FALSE]
         IN  e \in Event /\ trail' = [trail EXCEPT ![n] = e]
<1>1. trail[n] \in Event
  BY ElementOfSeq DEF TypeOK, Events
<1>2. [trail[n] EXCEPT !.live = FALSE] \in Event
  BY <1>1 DEF Event
<1> QED
  BY <1>2 DEF Withdraw

\* The event a recording lands is an event, when the reading is one.
LEMMA LandedEvent ==
  ASSUME TypeOK, NEW w \in Workers, NEW r \in Rows, NEW run \in Nat \cup {Unheard},
         worker[w].reading \in Contents
  PROVE  LET e == [row |-> r, by |-> <<w, run>>,
                   content |-> worker[w].reading,
                   held |-> {worker[w].reading}, live |-> TRUE]
         IN  e \in Event /\ Landed(w, r, run) = Append(trail, e)
BY DEF TypeOK, Process, Event, Landed

\* No step takes an event off the trail, changes where it came from or forgets a
\* content it held, and each event goes on holding its own content.
EventsAreHeld == \A n \in Events : trail[n].content \in trail[n].held

TrailKept ==
  /\ trail' \in Seq(Event)
  /\ Len(trail) <= Len(trail')
  /\ \A n \in Events : /\ trail'[n].row = trail[n].row
                       /\ trail'[n].by = trail[n].by
                       /\ trail[n].held \subseteq trail'[n].held

\* An edit keeps the trail, and the edited event holds its new content.
LEMMA EditKeepsTrail ==
  ASSUME TypeOK, EventsAreHeld, NEW n \in Events, NEW c \in Contents,
         EditEvent(n, c)
  PROVE  TrailKept /\ EventsAreHeld' /\ Len(trail') = Len(trail)
<1> DEFINE e == [trail[n] EXCEPT !.content = c, !.held = @ \cup {c}]
<1>1. e \in Event /\ trail' = [trail EXCEPT ![n] = e]
  BY EditedEvent
<1>2. trail[n] \in Event
  BY ElementOfSeq DEF TypeOK, Events
<1>3. /\ e.row = trail[n].row /\ e.by = trail[n].by
      /\ trail[n].held \subseteq e.held /\ e.content \in e.held
  BY <1>2 DEF Event
<1> HIDE DEF e
<1>4. /\ trail' \in Seq(Event) /\ Len(trail') = Len(trail)
      /\ \A m \in Events : trail'[m] = IF m = n THEN e ELSE trail[m]
  BY <1>1, EntryReplaced DEF TypeOK
<1> QED
  BY <1>3, <1>4 DEF TrailKept, EventsAreHeld, Events

\* A withdrawal keeps the trail in order.
LEMMA WithdrawalKeepsTrail ==
  ASSUME TypeOK, EventsAreHeld, NEW n \in Events, Withdraw(n)
  PROVE  TrailKept /\ EventsAreHeld' /\ Len(trail') = Len(trail)
<1> DEFINE e == [trail[n] EXCEPT !.live = FALSE]
<1>1. e \in Event /\ trail' = [trail EXCEPT ![n] = e]
  BY WithdrawnEvent
<1>2. trail[n] \in Event
  BY ElementOfSeq DEF TypeOK, Events
<1>3. /\ e.row = trail[n].row /\ e.by = trail[n].by
      /\ trail[n].held \subseteq e.held
      /\ trail[n].content \in trail[n].held => e.content \in e.held
  BY <1>2 DEF Event
<1> HIDE DEF e
<1>4. /\ trail' \in Seq(Event) /\ Len(trail') = Len(trail)
      /\ \A m \in Events : trail'[m] = IF m = n THEN e ELSE trail[m]
  BY <1>1, EntryReplaced DEF TypeOK
<1> QED
  BY <1>3, <1>4 DEF TrailKept, EventsAreHeld, Events

\* Only a reading is recorded.
HasRead ==
  \A w \in Workers :
    worker[w].phase = "record" => worker[w].reading # NoReading

\* An event that lands, heard of or not, keeps the trail and holds the reading.
LEMMA LandingKeepsTrail ==
  ASSUME TypeOK, EventsAreHeld, NEW w \in Workers, NEW r \in Rows,
         NEW run \in Nat \cup {Unheard}, worker[w].reading \in Contents,
         trail' = Landed(w, r, run)
  PROVE  LET c == worker[w].reading
             n == Len(trail) + 1
         IN  /\ TrailKept
             /\ EventsAreHeld'
             /\ \E m \in Events' : c \in trail'[m].held
             /\ Events' = Events \cup {n}
             /\ Len(trail') = n /\ trail'[n].row = r /\ trail'[n].by = <<w, run>>
<1> DEFINE c == worker[w].reading
           n == Len(trail) + 1
           e == [row |-> r, by |-> <<w, run>>, content |-> c,
                 held |-> {c}, live |-> TRUE]
<1>1. e \in Event /\ trail' = Append(trail, e)
  BY LandedEvent
<1>2. e.row = r /\ e.by = <<w, run>> /\ e.content \in e.held /\ c \in e.held
  OBVIOUS
<1> HIDE DEF e
<1>3. /\ trail' \in Seq(Event) /\ Len(trail') = n /\ trail'[n] = e
      /\ \A m \in Events : trail'[m] = trail[m]
  BY <1>1, EntryAppended DEF TypeOK
<1>4. Len(trail) \in Nat
  BY LenProperties DEF TypeOK
<1>5. n \in Events' /\ Events' = Events \cup {n}
  BY <1>3, <1>4 DEF Events
<1>6. TrailKept
  BY <1>3, <1>4 DEF TrailKept
<1>7. EventsAreHeld'
  BY <1>2, <1>3, <1>5 DEF EventsAreHeld
<1>8. \E m \in Events' : c \in trail'[m].held
  BY <1>2, <1>3, <1>5
<1> QED
  BY <1>2, <1>3, <1>5, <1>6, <1>7, <1>8

\* A recording keeps the trail, and lands either nothing or one event that holds
\* the reading; what was read is then blank or on file.
LEMMA RecordingLands ==
  ASSUME TypeOK, EventsAreHeld, HasRead, NEW w \in Workers, NEW r \in Rows, Record(w, r)
  PROVE  LET c == worker[w].reading
             n == Len(trail) + 1
         IN  /\ TrailKept
             /\ EventsAreHeld'
             /\ c = Blank \/ \E m \in Events' : c \in trail'[m].held
             /\ \/ trail' = trail
                \/ /\ Len(trail') = n
                   /\ trail'[n].row = r
                   /\ trail'[n].by = <<w, worker[w].run>>
<1> DEFINE c == worker[w].reading
           n == Len(trail) + 1
<1>1. CASE LandsNothing(c)
  <2>1. trail' = trail
    BY <1>1 DEF Record
  <2>2. c = Blank \/ \E m \in Events : c \in trail[m].held
    BY <1>1 DEF LandsNothing, HeldLive, EventsAreHeld
  <2> QED
    BY <2>1, <2>2 DEF TrailKept, EventsAreHeld, Events, TypeOK
<1>2. CASE ~LandsNothing(c) /\ c # NoReading
  <2>1. c \in Contents
    BY <1>2 DEF TypeOK, Process, LandsNothing
  <2>2. worker[w].run \in Nat
    BY DEF TypeOK, Process
  <2>3. trail' = Landed(w, r, worker[w].run)
    BY <1>2 DEF Record
  <2> QED
    BY <2>1, <2>2, <2>3, LandingKeepsTrail
<1> QED
  BY <1>1, <1>2 DEF HasRead, Record

-----------------------------------------------------------------------------
(***************************************************************************)
(* The inductive invariant.  What is remembered, about to be marked or     *)
(* marked was dealt with; and a row a live run has recorded is either      *)
(* marked and out of its batch, or remembered, or about to be marked.      *)
(***************************************************************************)
Dealt(r) == answer[r] = Blank \/ OnFile(answer[r])

AboutToMark(w, r) == InHand(w, r) /\ worker[w].phase = "mark"

EmptyHanded == \A w \in Workers : worker[w].batch = {} => worker[w].phase = "next"

ReadFirst ==
  /\ \A r \in triaged : Dealt(r)
  /\ \A w \in Workers, r \in Rows :
       r \in worker[w].recorded \/ AboutToMark(w, r) => Dealt(r)

Settled(n) ==
  LET w == trail[n].by[1]
      r == trail[n].row
  IN  \/ r \in triaged /\ r \notin worker[w].batch
      \/ r \in worker[w].recorded
      \/ AboutToMark(w, r)

RunsArePast == \A n \in Events : trail[n].by[2] <= worker[trail[n].by[1]].run

OnlyFreshIsRecorded ==
  \A w \in Workers, r \in Rows :
    InHand(w, r) /\ worker[w].phase = "record" => r \notin worker[w].recorded

OwnEventsSettled ==
  \A n \in Events : trail[n].by[2] = worker[trail[n].by[1]].run => Settled(n)

Typed == TypeOK /\ EventsAreHeld /\ HasRead /\ EmptyHanded

Once ==
  /\ RunsArePast
  /\ OnlyFreshIsRecorded
  /\ OwnEventsSettled
  /\ RecordedOncePerRun

Inv == Typed /\ ReadFirst /\ Once

-----------------------------------------------------------------------------
\* The variables start with their types and no request in hand.
LEMMA InitTyped == DataverseAssumption /\ Init => Inv
<1> SUFFICES ASSUME DataverseAssumption, Init PROVE Inv
  OBVIOUS
<1>1. trail = <<>> /\ Events = {} /\ trail \in Seq(Event) /\ Len(trail) = 0
  BY EmptySeq DEF Init, Events
<1>2. TypeOK
  BY <1>1 DEF Init, TypeOK, Started, Process, Rows, DataverseAssumption
<1> QED
  BY <1>1, <1>2 DEF Init, Inv, Once, Typed, EventsAreHeld, HasRead, EmptyHanded,
     ReadFirst, AboutToMark, InHand, RunsArePast, OnlyFreshIsRecorded,
     OwnEventsSettled, RecordedOncePerRun, Started

-----------------------------------------------------------------------------
\* When a step leaves the trail alone and writes the process w a well-typed state
\* that reads before it records, the types hold after it.
LEMMA ProcessWritten ==
  ASSUME Typed, NEW w \in Workers, NEW p \in Process,
         worker' = [worker EXCEPT ![w] = p],
         p.phase = "record" => p.reading # NoReading,
         p.batch = {} => p.phase = "next",
         submitted' = submitted, trail' = trail, answer' = answer,
         triaged' \subseteq Rows
  PROVE  Typed' /\ TrailKept
<1>1. TypeOK'
  BY DEF Typed, TypeOK
<1>2. HasRead' /\ EmptyHanded'
  BY DEF Typed, TypeOK, HasRead, EmptyHanded
<1>3. TrailKept /\ EventsAreHeld'
  BY LenProperties DEF Typed, TypeOK, TrailKept, EventsAreHeld, Events
<1> QED
  BY <1>1, <1>2, <1>3 DEF Typed

\* What is left of a process when it is done with a row is well-typed, whatever
\* it then remembers.
DoneWith(w, r, S) == [Done(w, r) EXCEPT !.recorded = S]

\* A process done with a row keeps its type.
LEMMA DoneTyped ==
  ASSUME TypeOK, NEW w \in Workers, NEW r \in Rows
  PROVE  /\ Done(w, r) \in Process
         /\ Done(w, r).phase = "next"
         /\ Done(w, r).recorded = worker[w].recorded
         /\ Done(w, r).batch = worker[w].batch \ {r}
         /\ Done(w, r).run = worker[w].run
BY DEF TypeOK, Process, Done

\* A process done with a row and remembering others keeps its type.
LEMMA DoneWithTyped ==
  ASSUME TypeOK, NEW w \in Workers, NEW r \in Rows, NEW S, S \subseteq Rows
  PROVE  /\ DoneWith(w, r, S) \in Process
         /\ DoneWith(w, r, S).phase = "next"
         /\ DoneWith(w, r, S).recorded = S
         /\ DoneWith(w, r, S).batch = worker[w].batch \ {r}
         /\ DoneWith(w, r, S).run = worker[w].run
BY DEF TypeOK, Process, Done, DoneWith

\* Every step keeps the types and the trail.
LEMMA NextTyped ==
  ASSUME DataverseAssumption, Typed, [Next]_vars
  PROVE  Typed' /\ TrailKept
<1> USE DEF Typed
<1>1. CASE UNCHANGED vars
  BY <1>1, LenProperties DEF vars, TypeOK, TrailKept, EventsAreHeld, HasRead,
     EmptyHanded, Events
<1>2. CASE Submit
  <2>1. submitted' \in 0..MaxRows
    BY <1>2 DEF Submit, TypeOK, DataverseAssumption
  <2> QED
    BY <1>2, <2>1, LenProperties DEF Submit, TypeOK, TrailKept, EventsAreHeld,
       HasRead, EmptyHanded, Events
<1>3. CASE \E n \in Events, c \in Contents : EditEvent(n, c)
  <2>1. PICK n \in Events, c \in Contents : EditEvent(n, c)
    BY <1>3
  <2>2. TrailKept /\ EventsAreHeld'
    BY <2>1, EditKeepsTrail
  <2> QED
    BY <2>1, <2>2 DEF EditEvent, TypeOK, TrailKept, HasRead, EmptyHanded
<1>4. CASE \E n \in Events : Withdraw(n)
  <2>1. PICK n \in Events : Withdraw(n)
    BY <1>4
  <2>2. TrailKept /\ EventsAreHeld'
    BY <2>1, WithdrawalKeepsTrail
  <2> QED
    BY <2>1, <2>2 DEF Withdraw, TypeOK, TrailKept, HasRead, EmptyHanded
<1>5. ASSUME NEW w \in Workers, Fetch(w) PROVE Typed' /\ TrailKept
  <2> DEFINE p == [worker[w] EXCEPT !.batch = Oldest(NewRows)]
  <2>1. Oldest(NewRows) \subseteq Rows
    BY DEF Oldest, NewRows, TypeOK, Rows
  <2>2. p \in Process /\ p.phase = "next"
    <3>1. worker[w] \in Process /\ worker[w].phase = "next"
      BY <1>5 DEF TypeOK, Fetch, EmptyHanded
    <3> QED
      BY <2>1, <3>1 DEF Process
  <2>3. worker' = [worker EXCEPT ![w] = p]
    BY <1>5 DEF Fetch
  <2> HIDE DEF p
  <2> QED
    BY <1>5, <2>2, <2>3, ProcessWritten DEF Fetch, TypeOK
<1>6. ASSUME NEW w \in Workers, NEW r \in Rows, Parse(w, r)
      PROVE  Typed' /\ TrailKept
  <2>1. PICK c \in Readings[r] :
          worker' = [worker EXCEPT ![w].phase = "record", ![w].reading = c]
    BY <1>6 DEF Parse
  <2>2. c \in Contents \cup {Blank} /\ c # NoReading
    BY <2>1 DEF DataverseAssumption
  <2> DEFINE p == [worker[w] EXCEPT !.phase = "record", !.reading = c]
  <2>3. worker[w] \in Process /\ worker[w].batch # {}
    BY <1>6 DEF TypeOK, Parse, InHand
  <2>5. p \in Process /\ p.reading = c /\ p.batch # {}
    BY <2>2, <2>3 DEF Process
  <2>4. worker' = [worker EXCEPT ![w] = p]
    BY <2>1
  <2> HIDE DEF p
  <2> QED
    BY <1>6, <2>2, <2>4, <2>5, ProcessWritten DEF Parse, TypeOK
<1>7. ASSUME NEW w \in Workers, NEW r \in Rows, Record(w, r)
      PROVE  Typed' /\ TrailKept
  <2>1. TrailKept /\ EventsAreHeld'
    BY <1>7, RecordingLands
  <2>2. worker' \in [Workers -> Process]
    <3> DEFINE p == [worker[w] EXCEPT !.phase = "mark"]
    <3>1. worker[w] \in Process
      BY DEF TypeOK
    <3>2. p \in Process
      BY <3>1 DEF Process
    <3>3. worker' = [worker EXCEPT ![w] = p]
      BY <1>7 DEF Record
    <3> HIDE DEF p
    <3> QED
      BY <3>2, <3>3 DEF TypeOK
  <2>3. answer' \in [Rows -> Contents \cup {Blank, NoReading}]
    BY <1>7 DEF Record, TypeOK, Process
  <2>4. HasRead'
    BY <1>7 DEF Record, TypeOK, HasRead, Process
  <2>5. EmptyHanded'
    BY <1>7 DEF Record, TypeOK, EmptyHanded, InHand, Process
  <2> QED
    BY <1>7, <2>1, <2>2, <2>3, <2>4, <2>5 DEF Record, TypeOK, TrailKept
<1>8. ASSUME NEW w \in Workers, NEW r \in Rows, Fail(w, r)
      PROVE  Typed' /\ TrailKept
  <2>1. Done(w, r) \in Process /\ Done(w, r).phase = "next"
    BY DoneTyped
  <2>2. worker' = [worker EXCEPT ![w] = Done(w, r)]
    BY <1>8 DEF Fail
  <2> QED
    BY <1>8, <2>1, <2>2, ProcessWritten DEF Fail, TypeOK
<1>9. ASSUME NEW w \in Workers, NEW r \in Rows, MarkSucceeds(w, r)
      PROVE  Typed' /\ TrailKept
  <2> DEFINE S == worker[w].recorded \ {r}
  <2>1. S \subseteq Rows
    BY DEF TypeOK, Process
  <2>2. worker' = [worker EXCEPT ![w] = DoneWith(w, r, S)]
    BY <1>9 DEF MarkSucceeds, Done, DoneWith
  <2> HIDE DEF S
  <2>3. DoneWith(w, r, S) \in Process /\ DoneWith(w, r, S).phase = "next"
    BY <2>1, DoneWithTyped
  <2>4. triaged' \subseteq Rows
    BY <1>9 DEF MarkSucceeds, TypeOK
  <2> QED
    BY <1>9, <2>2, <2>3, <2>4, ProcessWritten DEF MarkSucceeds
<1>10. ASSUME NEW w \in Workers, NEW r \in Rows, MarkFails(w, r)
       PROVE  Typed' /\ TrailKept
  <2> DEFINE S == worker[w].recorded \cup {r}
  <2>1. S \subseteq Rows
    BY DEF TypeOK, Process
  <2>2. worker' = [worker EXCEPT ![w] = DoneWith(w, r, S)]
    BY <1>10 DEF MarkFails, Done, DoneWith
  <2> HIDE DEF S
  <2>3. DoneWith(w, r, S) \in Process /\ DoneWith(w, r, S).phase = "next"
    BY <2>1, DoneWithTyped
  <2>4. triaged' \subseteq Rows
    BY <1>10 DEF MarkFails, TypeOK
  <2> QED
    BY <1>10, <2>2, <2>3, <2>4, ProcessWritten DEF MarkFails
<1>12. ASSUME NEW w \in Workers, NEW r \in Rows, CommitUnheard(w, r)
       PROVE  Typed' /\ TrailKept
  <2>1. worker[w].reading \in Contents /\ Unheard \in Nat \cup {Unheard}
    BY <1>12 DEF CommitUnheard, LandsNothing, HasRead, TypeOK, Process
  <2>2. TrailKept /\ EventsAreHeld'
    BY <1>12, <2>1, LandingKeepsTrail DEF CommitUnheard
  <2>3. Done(w, r) \in Process /\ Done(w, r).phase = "next"
    BY DoneTyped
  <2>4. worker' = [worker EXCEPT ![w] = Done(w, r)]
    BY <1>12 DEF CommitUnheard
  <2>5. worker' \in [Workers -> Process] /\ HasRead' /\ EmptyHanded'
    BY <2>3, <2>4 DEF TypeOK, HasRead, EmptyHanded
  <2> QED
    BY <1>12, <2>2, <2>5 DEF CommitUnheard, TypeOK, TrailKept
<1>11. ASSUME NEW w \in Workers, Restart(w) PROVE Typed' /\ TrailKept
  <2> DEFINE p == Started(worker[w].run + 1)
  <2>1. p \in Process /\ p.phase = "next"
    BY DEF Started, Process, TypeOK
  <2>2. worker' = [worker EXCEPT ![w] = p]
    BY <1>11 DEF Restart
  <2> HIDE DEF p
  <2> QED
    BY <1>11, <2>1, <2>2, ProcessWritten DEF Restart, TypeOK
<1> QED
  BY <1>1, <1>2, <1>3, <1>4, <1>5, <1>6, <1>7, <1>8, <1>9, <1>10, <1>11, <1>12
  DEF Next, WorkOn

-----------------------------------------------------------------------------
\* A row dealt with stays so while its answer stands: the trail forgets nothing.
LEMMA DealtStays ==
  ASSUME TrailKept, TypeOK, NEW r \in Rows, answer'[r] = answer[r], Dealt(r)
  PROVE  Dealt(r)'
<1>1. \A c : OnFile(c) => OnFile(c)'
  BY LenProperties DEF OnFile, TrailKept, Events, TypeOK
<1> QED
  BY <1>1 DEF Dealt

\* When a step writes the process w alone and no answer, and all it newly marks,
\* remembers or is about to mark was dealt with, so is everything after it.
LEMMA ReadFirstKept ==
  ASSUME Typed, TrailKept, ReadFirst, NEW w \in Workers, NEW p \in Process,
         worker' = [worker EXCEPT ![w] = p], answer' = answer,
         \A r \in Rows :
           r \in triaged' \ triaged \/ r \in p.recorded \ worker[w].recorded
             => Dealt(r),
         p.phase # "mark", triaged' \subseteq Rows
  PROVE  ReadFirst'
<1>1. \A r \in Rows : Dealt(r) => Dealt(r)'
  BY DealtStays DEF Typed
<1>2. \A r \in triaged' : Dealt(r)'
  BY <1>1 DEF ReadFirst, Typed, TypeOK
<1>3. ASSUME NEW v \in Workers, NEW r \in Rows,
             r \in worker'[v].recorded \/ AboutToMark(v, r)'
      PROVE  Dealt(r)'
  <2>1. CASE v = w
    BY <1>1, <1>3, <2>1 DEF ReadFirst, AboutToMark, Typed, TypeOK
  <2>2. CASE v # w
    <3>1. worker'[v] = worker[v]
      BY <2>2 DEF Typed, TypeOK
    <3>2. AboutToMark(v, r)' = AboutToMark(v, r)
      BY <3>1 DEF AboutToMark, InHand
    <3> QED
      BY <1>1, <1>3, <3>1, <3>2 DEF ReadFirst
  <2> QED
    BY <2>1, <2>2
<1> QED
  BY <1>2, <1>3 DEF ReadFirst

\* Every step keeps ReadFirst.
LEMMA NextReadFirst ==
  ASSUME DataverseAssumption, Typed, Typed', TrailKept, ReadFirst, [Next]_vars
  PROVE  ReadFirst'
<1>0. \A r \in Rows : answer'[r] = answer[r] /\ Dealt(r) => Dealt(r)'
  BY DealtStays DEF Typed
<1>1. CASE UNCHANGED <<triaged, worker, answer>>
  <2>1. \A v \in Workers, r \in Rows : AboutToMark(v, r)' = AboutToMark(v, r)
    BY <1>1 DEF AboutToMark, InHand
  <2> QED
    BY <1>0, <1>1, <2>1 DEF ReadFirst, Typed, TypeOK
<1>2. ASSUME NEW w \in Workers, Fetch(w) PROVE ReadFirst'
  <2> DEFINE p == [worker[w] EXCEPT !.batch = Oldest(NewRows)]
  <2>1. worker' = [worker EXCEPT ![w] = p]
    BY <1>2 DEF Fetch
  <2>2. p = worker'[w] /\ p \in Process
    BY <2>1 DEF Typed, TypeOK
  <2>3. p.phase # "mark" /\ p.recorded = worker[w].recorded
    BY <1>2 DEF Fetch, Typed, TypeOK, EmptyHanded, Process
  <2> HIDE DEF p
  <2> QED
    BY <1>2, <2>1, <2>2, <2>3, ReadFirstKept DEF Fetch, Typed, TypeOK
<1>3. ASSUME NEW w \in Workers, NEW r \in Rows, Parse(w, r) PROVE ReadFirst'
  <2>1. PICK c \in Readings[r] :
          worker' = [worker EXCEPT ![w].phase = "record", ![w].reading = c]
    BY <1>3 DEF Parse
  <2> DEFINE p == [worker[w] EXCEPT !.phase = "record", !.reading = c]
  <2>2. worker' = [worker EXCEPT ![w] = p]
    BY <2>1
  <2>3. p = worker'[w] /\ p \in Process
    BY <2>2 DEF Typed, TypeOK
  <2>4. p.phase # "mark" /\ p.recorded = worker[w].recorded
    BY DEF Typed, TypeOK, Process
  <2> HIDE DEF p
  <2> QED
    BY <1>3, <2>2, <2>3, <2>4, ReadFirstKept DEF Parse, Typed, TypeOK
<1>4. ASSUME NEW w \in Workers, NEW r \in Rows, Record(w, r) PROVE ReadFirst'
  <2>1. answer' = [answer EXCEPT ![r] = worker[w].reading]
    BY <1>4 DEF Record
  <2>2. Dealt(r)'
    BY <1>4, <2>1, RecordingLands DEF Dealt, OnFile, Typed, TypeOK
  <2>3. \A q \in Rows : Dealt(q) => Dealt(q)'
    BY <1>0, <2>1, <2>2 DEF Typed, TypeOK
  <2>4. ASSUME NEW v \in Workers, NEW q \in Rows, AboutToMark(v, q)', q # r
        PROVE  Dealt(q)
    <3>1. CASE v = w
      <4>1. InHand(w, q) /\ InHand(w, r)
        BY <1>4, <2>4, <3>1 DEF Record, AboutToMark, InHand, Typed, TypeOK, Process
      <4> QED
        BY <4>1, <2>4, OneInHand DEF Typed
    <3>2. CASE v # w
      BY <1>4, <2>4, <3>2 DEF Record, AboutToMark, InHand, Typed, TypeOK,
         ReadFirst
    <3> QED
      BY <3>1, <3>2
  <2>5. \A v \in Workers : worker'[v].recorded = worker[v].recorded
    BY <1>4 DEF Record, Typed, TypeOK, Process
  <2>6. triaged' = triaged
    BY <1>4 DEF Record
  <2> QED
    BY <2>2, <2>3, <2>4, <2>5, <2>6 DEF ReadFirst, Typed, TypeOK
<1>5. ASSUME NEW w \in Workers, NEW r \in Rows, Fail(w, r) PROVE ReadFirst'
  <2>1. /\ Done(w, r) \in Process /\ Done(w, r).phase = "next"
        /\ Done(w, r).recorded = worker[w].recorded
    BY DoneTyped DEF Typed
  <2>2. worker' = [worker EXCEPT ![w] = Done(w, r)] /\ answer' = answer
    BY <1>5 DEF Fail
  <2>3. triaged' = triaged /\ triaged \subseteq Rows
    BY <1>5 DEF Fail, Typed, TypeOK
  <2> QED
    BY <2>1, <2>2, <2>3, ReadFirstKept
<1>6. ASSUME NEW w \in Workers, NEW r \in Rows, MarkSucceeds(w, r)
      PROVE  ReadFirst'
  <2> DEFINE S == worker[w].recorded \ {r}
  <2>1. S \subseteq Rows /\ S \subseteq worker[w].recorded
    BY DEF Typed, TypeOK, Process
  <2>2. worker' = [worker EXCEPT ![w] = DoneWith(w, r, S)]
    BY <1>6 DEF MarkSucceeds, Done, DoneWith
  <2> HIDE DEF S
  <2>3. /\ DoneWith(w, r, S) \in Process
        /\ DoneWith(w, r, S).phase = "next"
        /\ DoneWith(w, r, S).recorded = S
    BY <2>1, DoneWithTyped DEF Typed
  <2>4. Dealt(r)
    BY <1>6 DEF MarkSucceeds, ToMark, ReadFirst, AboutToMark
  <2>5. triaged' \subseteq Rows /\ triaged' \ triaged \subseteq {r}
    BY <1>6 DEF MarkSucceeds, Typed, TypeOK
  <2>6. \A q \in Rows :
          q \in triaged' \ triaged \/ q \in S \ worker[w].recorded => Dealt(q)
    BY <2>1, <2>4, <2>5
  <2>7. answer' = answer
    BY <1>6 DEF MarkSucceeds
  <2> QED
    BY <2>2, <2>3, <2>5, <2>6, <2>7, ReadFirstKept
<1>7. ASSUME NEW w \in Workers, NEW r \in Rows, MarkFails(w, r)
      PROVE  ReadFirst'
  <2> DEFINE S == worker[w].recorded \cup {r}
  <2>1. S \subseteq Rows /\ S = worker[w].recorded \cup {r}
    BY DEF Typed, TypeOK, Process
  <2>2. worker' = [worker EXCEPT ![w] = DoneWith(w, r, S)]
    BY <1>7 DEF MarkFails, Done, DoneWith
  <2> HIDE DEF S
  <2>3. /\ DoneWith(w, r, S) \in Process
        /\ DoneWith(w, r, S).phase = "next"
        /\ DoneWith(w, r, S).recorded = S
    BY <2>1, DoneWithTyped DEF Typed
  <2>4. Dealt(r)
    BY <1>7 DEF MarkFails, ToMark, ReadFirst, AboutToMark
  <2>5. triaged' \subseteq Rows /\ triaged' \ triaged \subseteq {r}
    BY <1>7 DEF MarkFails, Typed, TypeOK
  <2>6. \A q \in Rows :
          q \in triaged' \ triaged \/ q \in S \ worker[w].recorded => Dealt(q)
    BY <2>1, <2>4, <2>5
  <2>7. answer' = answer
    BY <1>7 DEF MarkFails
  <2> QED
    BY <2>2, <2>3, <2>5, <2>6, <2>7, ReadFirstKept
<1>9. ASSUME NEW w \in Workers, NEW r \in Rows, CommitUnheard(w, r)
      PROVE  ReadFirst'
  <2>1. /\ Done(w, r) \in Process /\ Done(w, r).phase = "next"
        /\ Done(w, r).recorded = worker[w].recorded
    BY DoneTyped DEF Typed
  <2>2. worker' = [worker EXCEPT ![w] = Done(w, r)] /\ answer' = answer
    BY <1>9 DEF CommitUnheard
  <2>3. triaged' = triaged /\ triaged \subseteq Rows
    BY <1>9 DEF CommitUnheard, Typed, TypeOK
  <2> QED
    BY <2>1, <2>2, <2>3, ReadFirstKept
<1>8. ASSUME NEW w \in Workers, Restart(w) PROVE ReadFirst'
  <2> DEFINE p == Started(worker[w].run + 1)
  <2>1. p \in Process /\ p.phase = "next" /\ p.recorded = {}
    BY DEF Started, Process, Typed, TypeOK
  <2>2. worker' = [worker EXCEPT ![w] = p] /\ answer' = answer
    BY <1>8 DEF Restart
  <2>3. triaged' = triaged /\ triaged \subseteq Rows
    BY <1>8 DEF Restart, Typed, TypeOK
  <2> HIDE DEF p
  <2>4. /\ p.phase # "mark"
        /\ \A q \in Rows : /\ q \notin triaged' \ triaged
                           /\ q \notin p.recorded \ worker[w].recorded
    BY <2>1, <2>3
  <2> QED
    BY <2>1, <2>2, <2>3, <2>4, ReadFirstKept
<1> QED
  BY <1>1, <1>2, <1>3, <1>4, <1>5, <1>6, <1>7, <1>8, <1>9
  DEF Next, WorkOn, Submit, EditEvent, Withdraw, vars

-----------------------------------------------------------------------------
\* Where an event came from is a process, one of its runs or none it knows of, and
\* a row.
LEMMA Origin ==
  ASSUME TypeOK, NEW n \in Events
  PROVE  /\ trail[n].by[1] \in Workers /\ trail[n].by[2] \in Nat \cup {Unheard}
         /\ trail[n].by = <<trail[n].by[1], trail[n].by[2]>>
         /\ trail[n].row \in Rows
<1>1. trail[n] \in Event
  BY ElementOfSeq DEF TypeOK, Events
<1> QED
  BY <1>1 DEF Event

\* A step that lands no event the process hears of, and writes the process w alone,
\* keeps Once when it goes on recording only what is fresh and settles the events
\* of its run.
LEMMA OnceKept ==
  ASSUME Typed, Typed', TrailKept, Once,
         \A n \in Events' \ Events : trail'[n].by[2] = Unheard,
         NEW w \in Workers, NEW p \in Process,
         worker' = [worker EXCEPT ![w] = p],
         triaged \subseteq triaged', worker[w].run <= p.run,
         \A r \in Rows : InHand(w, r)' /\ p.phase = "record" => r \notin p.recorded,
         \A n \in Events :
           trail[n].by = <<w, p.run>> =>
             LET r == trail[n].row
             IN  \/ r \in triaged' /\ r \notin p.batch
                 \/ r \in p.recorded
                 \/ InHand(w, r)' /\ p.phase = "mark"
  PROVE  Once'
<1>1. \A n \in Events : /\ trail'[n].row = trail[n].row
                        /\ trail'[n].by = trail[n].by
  BY DEF TrailKept
<1>2. worker'[w] = p /\ \A v \in Workers : v # w => worker'[v] = worker[v]
  BY DEF Typed, TypeOK
<1>3. RecordedOncePerRun'
  BY <1>1 DEF Once, RecordedOncePerRun
<1>7. ASSUME NEW n \in Events', n \notin Events
      PROVE  /\ trail'[n].by[2] = Unheard
             /\ worker'[trail'[n].by[1]].run \in Nat
  <2>1. trail'[n] \in Event
    BY ElementOfSeq DEF Typed, TypeOK, Events
  <2>2. trail'[n].by[1] \in Workers
    BY <2>1 DEF Event
  <2> QED
    BY <1>7, <2>2 DEF Typed, TypeOK, Process
<1>4. RunsArePast'
  <2>1. ASSUME NEW n \in Events
        PROVE  trail[n].by[2] <= worker'[trail[n].by[1]].run
    <3>1. trail[n].by[1] \in Workers /\ trail[n].by[2] \in Int
      BY Origin DEF Typed, Unheard
    <3>2. trail[n].by[2] <= worker[trail[n].by[1]].run
      BY DEF Once, RunsArePast
    <3>3. worker[w].run \in Nat /\ p.run \in Nat
      BY DEF Typed, TypeOK, Process
    <3> QED
      BY <1>2, <3>1, <3>2, <3>3
  <2>2. ASSUME NEW n \in Events', n \notin Events
        PROVE  trail'[n].by[2] <= worker'[trail'[n].by[1]].run
    BY <1>7, <2>2 DEF Unheard
  <2> QED
    BY <1>1, <2>1, <2>2 DEF RunsArePast
<1>5. OnlyFreshIsRecorded'
  BY <1>2 DEF Once, OnlyFreshIsRecorded, InHand
<1>6. OwnEventsSettled'
  <2>1. ASSUME NEW n \in Events, trail[n].by[2] = worker'[trail[n].by[1]].run
        PROVE  Settled(n)'
    <3> DEFINE v == trail[n].by[1]
    <3>1. v \in Workers /\ trail[n].by = <<v, trail[n].by[2]>>
      BY Origin DEF Typed
    <3>2. CASE v = w
      BY <1>1, <1>2, <2>1, <3>1, <3>2 DEF Settled, AboutToMark
    <3>3. CASE v # w
      <4>1. worker'[v] = worker[v] /\ Settled(n)
        BY <1>2, <2>1, <3>1, <3>3 DEF Once, OwnEventsSettled
      <4>2. trail'[n].by[1] = v /\ trail'[n].row = trail[n].row
        BY <1>1
      <4> QED
        BY <4>1, <4>2 DEF Settled, AboutToMark, InHand
    <3> QED
      BY <3>2, <3>3
  <2>2. ASSUME NEW n \in Events', n \notin Events
        PROVE  trail'[n].by[2] # worker'[trail'[n].by[1]].run
    BY <1>7, <2>2 DEF Unheard
  <2> QED
    BY <1>1, <2>1, <2>2 DEF OwnEventsSettled
<1> QED
  BY <1>3, <1>4, <1>5, <1>6 DEF Once

\* A recording keeps Once: what is in hand is fresh, so the run has no event of it.
LEMMA RecordKeepsOnce ==
  ASSUME Typed, Typed', TrailKept, Once,
         NEW w \in Workers, NEW r \in Rows, Record(w, r)
  PROVE  Once'
<1> DEFINE p == [worker[w] EXCEPT !.phase = "mark"]
<1>0. PICK n : n = Len(trail) + 1
  OBVIOUS
<1>1. /\ worker' = [worker EXCEPT ![w] = p] /\ p \in Process
      /\ p.run = worker[w].run /\ p.batch = worker[w].batch
      /\ p.recorded = worker[w].recorded /\ p.phase = "mark"
  <2>1. worker' = [worker EXCEPT ![w] = p]
    BY DEF Record
  <2>2. worker[w] \in Process
    BY DEF Typed, TypeOK
  <2> QED
    BY <2>1, <2>2 DEF Process
<1> HIDE DEF p
<1>2. worker'[w] = p /\ \A v \in Workers : v # w => worker'[v] = worker[v]
  BY <1>1 DEF Typed, TypeOK
<1>3. InHand(w, r) /\ InHand(w, r)' /\ worker[w].phase = "record"
      /\ triaged' = triaged
  BY <1>1, <1>2 DEF Record, InHand
<1>4. ASSUME NEW m \in Events, trail[m].by = <<w, worker[w].run>>
      PROVE  /\ trail[m].row # r
             /\ \/ trail[m].row \in triaged /\ trail[m].row \notin p.batch
                \/ trail[m].row \in p.recorded
  <2>1. Settled(m) /\ trail[m].row \in Rows
    BY <1>4, Origin DEF Once, OwnEventsSettled, Typed
  <2>2. trail[m].by[1] = w
    BY <1>4
  <2> QED
    BY <1>1, <1>3, <2>1, <2>2 DEF Settled, AboutToMark, Once,
       OnlyFreshIsRecorded, InHand
<1>5. CASE Len(trail') = Len(trail)
  <2>1. triaged \subseteq triaged' /\ worker[w].run <= p.run
    BY <1>1, <1>3 DEF Typed, TypeOK, Process
  <2>2. \A m \in Events : trail[m].by = <<w, p.run>> =>
          \/ trail[m].row \in triaged' /\ trail[m].row \notin p.batch
          \/ trail[m].row \in p.recorded
    BY <1>1, <1>3, <1>4
  <2>3. Events' \ Events = {}
    BY <1>5 DEF Events
  <2> QED
    BY <1>1, <2>1, <2>2, <2>3, OnceKept
<1>6. CASE /\ Len(trail') = n
           /\ trail'[n].row = r
           /\ trail'[n].by = <<w, worker[w].run>>
  <2>1. Len(trail) \in Nat /\ Events' = Events \cup {n} /\ n \notin Events
    BY <1>0, <1>6, LenProperties DEF Events, Typed, TypeOK
  <2>2. \A m \in Events : /\ trail'[m].row = trail[m].row
                          /\ trail'[m].by = trail[m].by
    BY DEF TrailKept
  <2>3. RecordedOncePerRun'
    BY <1>4, <1>6, <2>1, <2>2 DEF Once, RecordedOncePerRun
  <2>4. RunsArePast'
    <3>1. \A m \in Events : trail[m].by[1] \in Workers
      BY Origin DEF Typed
    <3>2. worker[w].run \in Nat
      BY DEF Typed, TypeOK, Process
    <3> QED
      BY <1>1, <1>2, <1>6, <2>1, <2>2, <3>1, <3>2 DEF Once, RunsArePast
  <2>5. OnlyFreshIsRecorded'
    BY <1>1, <1>2 DEF Once, OnlyFreshIsRecorded, InHand
  <2>6. Settled(n)'
    BY <1>1, <1>2, <1>3, <1>6 DEF Settled, AboutToMark
  <2>7. ASSUME NEW m \in Events, trail[m].by[2] = worker'[trail[m].by[1]].run
        PROVE  Settled(m)'
    <3> DEFINE v == trail[m].by[1]
    <3>1. v \in Workers /\ trail[m].by = <<v, trail[m].by[2]>>
      BY Origin DEF Typed
    <3>2. trail'[m].by[1] = v /\ trail'[m].row = trail[m].row
      BY <2>2
    <3>3. CASE v = w
      BY <1>1, <1>2, <1>3, <1>4, <2>7, <3>1, <3>2, <3>3 DEF Settled
    <3>4. CASE v # w
      <4>1. worker'[v] = worker[v] /\ Settled(m)
        BY <1>2, <2>7, <3>1, <3>4 DEF Once, OwnEventsSettled
      <4> QED
        BY <1>3, <3>2, <4>1 DEF Settled, AboutToMark, InHand
    <3> QED
      BY <3>3, <3>4
  <2>8. OwnEventsSettled'
    BY <2>1, <2>2, <2>6, <2>7 DEF OwnEventsSettled
  <2> QED
    BY <2>3, <2>4, <2>5, <2>8 DEF Once
<1> QED
  BY <1>0, <1>5, <1>6, RecordingLands DEF Typed

\* In particular when it lands nothing and leaves the process between two rows.
LEMMA OnceKeptBetween ==
  ASSUME Typed, Typed', TrailKept, Once, trail' = trail,
         NEW w \in Workers, NEW p \in Process,
         worker' = [worker EXCEPT ![w] = p], p.phase = "next",
         triaged \subseteq triaged', worker[w].run <= p.run,
         \A n \in Events :
           trail[n].by = <<w, p.run>> =>
             \/ trail[n].row \in triaged' /\ trail[n].row \notin p.batch
             \/ trail[n].row \in p.recorded
  PROVE  Once'
<1>1. Events' \ Events = {}
  BY DEF Events
<1>2. \A r \in Rows : InHand(w, r)' /\ p.phase = "record" => r \notin p.recorded
  OBVIOUS
<1>3. \A n \in Events :
        trail[n].by = <<w, p.run>> =>
          LET r == trail[n].row
          IN  \/ r \in triaged' /\ r \notin p.batch
              \/ r \in p.recorded
              \/ InHand(w, r)' /\ p.phase = "mark"
  OBVIOUS
<1> QED
  BY <1>1, <1>2, <1>3, OnceKept

\* Every step keeps Once.
LEMMA NextOnce ==
  ASSUME DataverseAssumption, Typed, Typed', TrailKept, Once, [Next]_vars
  PROVE  Once'
<1>1. ASSUME UNCHANGED worker, UNCHANGED triaged, Len(trail') = Len(trail)
      PROVE  Once'
  <2>1. /\ Events' = Events
        /\ \A n \in Events : /\ trail'[n].row = trail[n].row
                             /\ trail'[n].by = trail[n].by
    BY <1>1 DEF TrailKept, Events
  <2>2. \A n \in Events : Settled(n) => Settled(n)'
    BY <1>1, <2>1 DEF Settled, AboutToMark, InHand
  <2> QED
    BY <1>1, <2>1, <2>2 DEF Once, RunsArePast, OnlyFreshIsRecorded, InHand,
       OwnEventsSettled, RecordedOncePerRun
<1>2. ASSUME NEW n \in Events, NEW c \in Contents, EditEvent(n, c) PROVE Once'
  BY <1>1, <1>2, EditKeepsTrail DEF EditEvent, Typed
<1>3. ASSUME NEW n \in Events, Withdraw(n) PROVE Once'
  BY <1>1, <1>3, WithdrawalKeepsTrail DEF Withdraw, Typed
\* What the events of a process settle to, by the row in its hand.
<1>4. ASSUME NEW w \in Workers, NEW n \in Events,
             trail[n].by = <<w, worker[w].run>>
      PROVE  /\ trail[n].row \in Rows
             /\ LET r == trail[n].row
                IN  \/ r \in triaged /\ r \notin worker[w].batch
                    \/ r \in worker[w].recorded
                    \/ InHand(w, r) /\ worker[w].phase = "mark"
  BY <1>4, Origin DEF Typed, Once, OwnEventsSettled, Settled, AboutToMark
<1>5. ASSUME NEW w \in Workers, Fetch(w) PROVE Once'
  <2> DEFINE p == [worker[w] EXCEPT !.batch = Oldest(NewRows)]
  <2>1. worker[w] \in Process /\ worker[w].phase = "next"
    BY <1>5 DEF Fetch, Typed, TypeOK, EmptyHanded
  <2>2. /\ p \in Process /\ p.phase = "next" /\ p.run = worker[w].run
        /\ p.recorded = worker[w].recorded
        /\ p.batch = Oldest(NewRows)
    <3>1. Oldest(NewRows) \subseteq Rows
      BY DEF Oldest, NewRows, Typed, TypeOK, Rows
    <3> QED
      BY <2>1, <3>1 DEF Process
  <2>3. worker' = [worker EXCEPT ![w] = p] /\ triaged' = triaged /\ trail' = trail
    BY <1>5 DEF Fetch
  <2>4. p.batch \cap triaged = {} /\ worker[w].run <= p.run
    BY <2>1, <2>2 DEF Oldest, NewRows, Process
  <2>5. worker[w].batch = {}
    BY <1>5 DEF Fetch
  <2> HIDE DEF p
  <2>6. \A n \in Events : trail[n].by = <<w, p.run>> =>
          \/ trail[n].row \in triaged' /\ trail[n].row \notin p.batch
          \/ trail[n].row \in p.recorded
    BY <1>4, <2>2, <2>3, <2>4, <2>5 DEF InHand
  <2> QED
    BY <2>2, <2>3, <2>4, <2>6, OnceKeptBetween
<1>6. ASSUME NEW w \in Workers, NEW r \in Rows, Parse(w, r) PROVE Once'
  <2>1. PICK c \in Readings[r] :
          worker' = [worker EXCEPT ![w].phase = "record", ![w].reading = c]
    BY <1>6 DEF Parse
  <2> DEFINE p == [worker[w] EXCEPT !.phase = "record", !.reading = c]
  <2>2. worker[w] \in Process /\ c \in Contents \cup {Blank}
    BY <2>1 DEF Typed, TypeOK, DataverseAssumption
  <2>3. /\ p \in Process /\ p.phase = "record" /\ p.run = worker[w].run
        /\ p.recorded = worker[w].recorded /\ p.batch = worker[w].batch
    BY <2>2 DEF Process
  <2>4. worker' = [worker EXCEPT ![w] = p]
    BY <2>1
  <2>5. triaged' = triaged /\ trail' = trail /\ worker[w].phase = "next"
        /\ r \notin p.recorded /\ InHand(w, r)
    BY <1>6, <2>3 DEF Parse
  <2> HIDE DEF p
  <2>6. worker'[w] = p
    BY <2>4 DEF Typed, TypeOK
  <2>7. ASSUME NEW q \in Rows, InHand(w, q)' PROVE q \notin p.recorded
    <3>1. InHand(w, q)
      BY <2>3, <2>6, <2>7 DEF InHand
    <3> QED
      BY <2>5, <3>1, OneInHand DEF Typed
  <2>8. \A n \in Events : trail[n].by = <<w, p.run>> =>
          \/ trail[n].row \in triaged' /\ trail[n].row \notin p.batch
          \/ trail[n].row \in p.recorded
    BY <1>4, <2>3, <2>5
  <2>9. worker[w].run <= p.run
    BY <2>2, <2>3 DEF Process
  <2>10. Events' \ Events = {}
    BY <2>5 DEF Events
  <2> QED
    BY <2>3, <2>4, <2>5, <2>7, <2>8, <2>9, <2>10, OnceKept
<1>7. ASSUME NEW w \in Workers, NEW r \in Rows, Fail(w, r) PROVE Once'
  <2>1. /\ Done(w, r) \in Process /\ Done(w, r).phase = "next"
        /\ Done(w, r).recorded = worker[w].recorded
        /\ Done(w, r).batch = worker[w].batch \ {r}
        /\ Done(w, r).run = worker[w].run
        /\ worker[w].run <= Done(w, r).run
    BY DoneTyped DEF Typed, TypeOK, Process
  <2>2. worker' = [worker EXCEPT ![w] = Done(w, r)]
    BY <1>7 DEF Fail
  <2>3. triaged' = triaged /\ trail' = trail /\ worker[w].phase # "mark"
    BY <1>7 DEF Fail
  <2>4. \A n \in Events : trail[n].by = <<w, Done(w, r).run>> =>
          \/ trail[n].row \in triaged' /\ trail[n].row \notin Done(w, r).batch
          \/ trail[n].row \in Done(w, r).recorded
    BY <1>4, <2>1, <2>3
  <2> QED
    BY <2>1, <2>2, <2>3, <2>4, OnceKeptBetween
<1>12. ASSUME NEW w \in Workers, NEW r \in Rows, CommitUnheard(w, r) PROVE Once'
  <2> DEFINE p == Done(w, r)
  <2>1. /\ p \in Process /\ p.phase = "next"
        /\ p.recorded = worker[w].recorded
        /\ p.batch = worker[w].batch \ {r}
        /\ p.run = worker[w].run
        /\ worker[w].run <= p.run
    BY DoneTyped DEF Typed, TypeOK, Process
  <2>2. /\ worker' = [worker EXCEPT ![w] = p]
        /\ triaged' = triaged /\ worker[w].phase # "mark"
        /\ trail' = Landed(w, r, Unheard)
    BY <1>12 DEF CommitUnheard
  <2> HIDE DEF p
  <2>3. worker[w].reading \in Contents /\ Unheard \in Nat \cup {Unheard}
    BY <1>12 DEF CommitUnheard, LandsNothing, Typed, HasRead, TypeOK, Process
  <2>4. /\ Events' = Events \cup {Len(trail) + 1}
        /\ trail'[Len(trail) + 1].by = <<w, Unheard>>
    BY <2>2, <2>3, LandingKeepsTrail DEF Typed
  <2>5. \A n \in Events' \ Events : trail'[n].by[2] = Unheard
    BY <2>4
  <2>6. \A n \in Events : trail[n].by = <<w, p.run>> =>
          LET q == trail[n].row
          IN  \/ q \in triaged' /\ q \notin p.batch
              \/ q \in p.recorded
              \/ InHand(w, q)' /\ p.phase = "mark"
    BY <1>4, <2>1, <2>2
  <2>7. \A q \in Rows : InHand(w, q)' /\ p.phase = "record" => q \notin p.recorded
    BY <2>1
  <2> QED
    BY <2>1, <2>2, <2>5, <2>6, <2>7, OnceKept
<1>8. ASSUME NEW w \in Workers, NEW r \in Rows, MarkSucceeds(w, r) PROVE Once'
  <2> DEFINE S == worker[w].recorded \ {r}
  <2>1. S \subseteq Rows /\ S = worker[w].recorded \ {r} /\ worker[w].run \in Nat
    BY DEF Typed, TypeOK, Process
  <2>2. worker' = [worker EXCEPT ![w] = DoneWith(w, r, S)]
    BY <1>8 DEF MarkSucceeds, Done, DoneWith
  <2> HIDE DEF S
  <2>3. /\ DoneWith(w, r, S) \in Process /\ DoneWith(w, r, S).phase = "next"
        /\ DoneWith(w, r, S).recorded = S
        /\ DoneWith(w, r, S).batch = worker[w].batch \ {r}
        /\ DoneWith(w, r, S).run = worker[w].run
    BY <2>1, DoneWithTyped DEF Typed
  <2>4. triaged' = triaged \cup {r} /\ trail' = trail /\ InHand(w, r)
    BY <1>8 DEF MarkSucceeds, ToMark
  <2>5. ASSUME NEW n \in Events, trail[n].by = <<w, worker[w].run>>
        PROVE  \/ trail[n].row \in triaged'
                    /\ trail[n].row \notin worker[w].batch \ {r}
               \/ trail[n].row \in S
    BY <1>4, <2>1, <2>4, <2>5, OneInHand DEF Typed
  <2>6. worker[w].run <= DoneWith(w, r, S).run
    <3>1. worker[w].run <= worker[w].run
      BY <2>1
    <3> QED
      BY <2>3, <3>1
  <2> DEFINE p == DoneWith(w, r, S)
  <2>10. worker[w].run <= p.run
    BY <2>6
  <2>7. \A n \in Events : trail[n].by = <<w, p.run>> =>
          \/ trail[n].row \in triaged' /\ trail[n].row \notin p.batch
          \/ trail[n].row \in p.recorded
    BY <2>3, <2>5
  <2>8. triaged \subseteq triaged'
    BY <2>4
  <2>9. /\ p \in Process /\ p.phase = "next" /\ trail' = trail
        /\ worker' = [worker EXCEPT ![w] = p]
    BY <2>2, <2>3, <2>4
  <2> HIDE DEF p
  <2> QED
    BY <2>7, <2>8, <2>9, <2>10, OnceKeptBetween
<1>9. ASSUME NEW w \in Workers, NEW r \in Rows, MarkFails(w, r) PROVE Once'
  <2> DEFINE S == worker[w].recorded \cup {r}
  <2>1. S \subseteq Rows /\ S = worker[w].recorded \cup {r} /\ worker[w].run \in Nat
    BY DEF Typed, TypeOK, Process
  <2>2. worker' = [worker EXCEPT ![w] = DoneWith(w, r, S)]
    BY <1>9 DEF MarkFails, Done, DoneWith
  <2> HIDE DEF S
  <2>3. /\ DoneWith(w, r, S) \in Process /\ DoneWith(w, r, S).phase = "next"
        /\ DoneWith(w, r, S).recorded = S
        /\ DoneWith(w, r, S).batch = worker[w].batch \ {r}
        /\ DoneWith(w, r, S).run = worker[w].run
    BY <2>1, DoneWithTyped DEF Typed
  <2>4. triaged \subseteq triaged' /\ trail' = trail /\ InHand(w, r)
    BY <1>9 DEF MarkFails, ToMark
  <2>5. ASSUME NEW n \in Events, trail[n].by = <<w, worker[w].run>>
        PROVE  \/ trail[n].row \in triaged'
                    /\ trail[n].row \notin worker[w].batch \ {r}
               \/ trail[n].row \in S
    BY <1>4, <2>1, <2>4, <2>5, OneInHand DEF Typed
  <2>6. worker[w].run <= DoneWith(w, r, S).run
    <3>1. worker[w].run <= worker[w].run
      BY <2>1
    <3> QED
      BY <2>3, <3>1
  <2> DEFINE p == DoneWith(w, r, S)
  <2>10. worker[w].run <= p.run
    BY <2>6
  <2>7. \A n \in Events : trail[n].by = <<w, p.run>> =>
          \/ trail[n].row \in triaged' /\ trail[n].row \notin p.batch
          \/ trail[n].row \in p.recorded
    BY <2>3, <2>5
  <2>8. triaged \subseteq triaged'
    BY <2>4
  <2>9. /\ p \in Process /\ p.phase = "next" /\ trail' = trail
        /\ worker' = [worker EXCEPT ![w] = p]
    BY <2>2, <2>3, <2>4
  <2> HIDE DEF p
  <2> QED
    BY <2>7, <2>8, <2>9, <2>10, OnceKeptBetween
<1>10. ASSUME NEW w \in Workers, Restart(w) PROVE Once'
  <2> DEFINE p == Started(worker[w].run + 1)
  <2>1. worker[w].run \in Nat
    BY DEF Typed, TypeOK, Process
  <2>2. p \in Process /\ p.phase = "next" /\ p.run = worker[w].run + 1
    BY <2>1 DEF Started, Process
  <2>3. worker' = [worker EXCEPT ![w] = p] /\ triaged' = triaged /\ trail' = trail
    BY <1>10 DEF Restart
  <2> HIDE DEF p
  <2>4. \A n \in Events : trail[n].by # <<w, p.run>>
    <3>1. ASSUME NEW n \in Events, trail[n].by = <<w, p.run>> PROVE FALSE
      <4>1. trail[n].by[1] = w /\ trail[n].by[2] = p.run
        BY <3>1
      <4>2. p.run <= worker[w].run
        BY <4>1 DEF Once, RunsArePast
      <4> QED
        BY <2>1, <2>2, <4>2
    <3> QED
      BY <3>1
  <2>5. worker[w].run <= p.run
    BY <2>1, <2>2
  <2> QED
    BY <2>2, <2>3, <2>4, <2>5, OnceKeptBetween
<1>11. CASE Submit \/ UNCHANGED vars
  BY <1>1, <1>11 DEF Submit, vars
<1> QED
  BY <1>2, <1>3, <1>5, <1>6, <1>7, <1>8, <1>9, <1>10, <1>11, <1>12, RecordKeepsOnce
  DEF Next, WorkOn

-----------------------------------------------------------------------------
\* The invariant is inductive.
THEOREM Inductive == Spec => []Inv
<1>1. Init => Inv
  BY InitTyped, DataverseAssumption
<1>2. Inv /\ [Next]_vars => Inv'
  BY NextTyped, NextReadFirst, NextOnce, DataverseAssumption DEF Inv
<1> QED
  BY <1>1, <1>2, PTL DEF Spec

\* Every variable keeps its type.
THEOREM WorkerTypeCorrect == Spec => []TypeOK
<1>1. Inv => TypeOK
  BY DEF Inv, Typed
<1> QED
  BY <1>1, Inductive, PTL

\* No portal request is marked triaged before it was dealt with, whatever fails,
\* dies or is lost, and however many processes run.
THEOREM NothingMarkedUnread == Spec => []TriagedWasRead
<1>1. Inv => TriagedWasRead
  BY DEF Inv, ReadFirst, Dealt, TriagedWasRead
<1> QED
  BY <1>1, Inductive, PTL

\* A process records a row once in its run to its knowledge, whatever fails between
\* the recording and the mark.
THEOREM RecordsOnce == Spec => []RecordedOncePerRun
<1>1. Inv => RecordedOncePerRun
  BY DEF Inv, Once
<1> QED
  BY <1>1, Inductive, PTL

\* A process remembers what it knows it recorded until the portal shows it
\* triaged: a failed or a lost mark costs a retry of the mark, not a second record.
THEOREM Remembers == Spec => []UnmarkedIsRemembered
<1>1. Inv => UnmarkedIsRemembered
  BY DEF Inv, Once, OwnEventsSettled, Settled, AboutToMark, UnmarkedIsRemembered
<1> QED
  BY <1>1, Inductive, PTL
=============================================================================
