----------------------- MODULE BerthingDetectionProofs -----------------------
(***************************************************************************)
(* What the hysteresis detector makes of a track, for every track, every   *)
(* threshold and every length of time: the scan is a recursive function of *)
(* the instants, and what is said of it is proved instant by instant, over *)
(* the set of those where it holds.                                        *)
(***************************************************************************)
EXTENDS OccupancyWorker, WellFoundedInduction, TLAPS

USE DetectionAssumption

-----------------------------------------------------------------------------
(***************************************************************************)
(* The scan, instant by instant.                                           *)
(***************************************************************************)

\* A set of natural numbers has a least one.
LEMMA NaturalsHaveALeast ==
  ASSUME NEW T, T \subseteq Nat, T # {}
  PROVE  \E x \in T : \A y \in T : x <= y
  <1>1. PICK x \in T : \A y \in T : <<y, x>> \notin OpToRel(<, Nat)
    BY NatLessThanWellFounded, WFMin
  <1>2. \A y \in T : ~(y < x)
    BY <1>1, Zenon DEF OpToRel
  <1>3. \A y \in T : x <= y
    <2> SUFFICES ASSUME NEW y \in T PROVE x <= y
      OBVIOUS
    <2> QED
      BY <1>2
  <1> QED
    BY <1>3

\* What holds before the first instant, and at one when it holds at the one
\* before, holds at all of them.
LEMMA InstantInduction ==
  ASSUME NEW S, Before \in S, \A t \in Times : t - 1 \in S => t \in S
  PROVE  \A t \in Before..MaxTime : t \in S
  <1> DEFINE T == {n \in Times : n \notin S}
  <1>1. CASE T = {}
    BY <1>1 DEF Before, Times
  <1>2. CASE T # {}
    <2>1. T \subseteq Nat
      BY DEF Times
    <2>2. PICK n \in T : \A m \in T : n <= m
      <3> HIDE DEF T
      <3> QED
        BY <1>2, <2>1, NaturalsHaveALeast
    <2>3. n - 1 \in S
      <3>1. CASE n = 0
        BY <3>1 DEF Before
      <3>2. CASE n # 0
        <4>1. n - 1 \in Times /\ ~(n <= n - 1)
          BY <3>2 DEF Times
        <4>2. n - 1 \notin T
          BY <2>2, <4>1
        <4> QED
          BY <4>1, <4>2
      <3> QED
        BY <3>1, <3>2
    <2> QED
      BY <2>2, <2>3
  <1> QED
    BY <1>1, <1>2

\* What one instant makes of the scan, heard of or not.
ScanStep(q, t, x) == IF x = NoFix THEN q ELSE NextScan(q, t, x)

\* g is the scan of some fixes, instant by instant.
IsScan(g, fixes) ==
  /\ g[Before] = NoSegment
  /\ \A t \in Times : g[t] = ScanStep(g[t - 1], t, fixes[t])

\* The recursive function of detect_berthings exists, and the scan of a track is
\* its value at the last instant.
LEMMA ScanExists ==
  ASSUME NEW fixes
  PROVE  \E g : IsScan(g, fixes) /\ ScanOf(fixes) = g[MaxTime]
  <1> DEFINE Body(g, t) == IF t = Before THEN NoSegment
                           ELSE ScanStep(g[t - 1], t, fixes[t])
             P(n) == \E g : \A t \in Before..n : g[t] = Body(g, t)
             S == {n \in Before..MaxTime : P(n)}
  <1>1. Before \in S
    <2> DEFINE g == [t \in {Before} |-> NoSegment]
    <2>1. \A t \in Before..Before : g[t] = Body(g, t)
      BY DEF Before
    <2>2. P(Before)
      BY <2>1
    <2> QED
      BY <2>2 DEF Before
  <1>2. ASSUME NEW t \in Times, t - 1 \in S PROVE t \in S
    <2>1. PICK g : \A u \in Before..(t - 1) : g[u] = Body(g, u)
      BY <1>2
    <2> DEFINE h == [u \in Before..t |-> IF u = t THEN Body(g, t) ELSE g[u]]
    <2>2. ASSUME NEW u \in Before..t PROVE h[u] = Body(h, u)
      <3>1. u # Before => h[u - 1] = g[u - 1]
        BY DEF Before, Times
      <3>2. h[u] = Body(g, u)
        <4>1. CASE u = t
          BY <4>1
        <4>2. CASE u # t
          <5>1. u \in Before..(t - 1)
            BY <4>2 DEF Before, Times
          <5> QED
            BY <2>1, <4>2, <5>1
        <4> QED
          BY <4>1, <4>2
      <3> HIDE DEF h
      <3> QED
        BY <3>1, <3>2
    <2>3. P(t)
      <3> HIDE DEF h, Body
      <3> QED
        BY <2>2
    <2>4. t \in Before..MaxTime
      BY DEF Before, Times
    <2> QED
      BY <2>3, <2>4
  <1>3. P(MaxTime)
    <2>1. \A t \in Before..MaxTime : t \in S
      <3> HIDE DEF S
      <3> QED
        BY <1>1, <1>2, InstantInduction
    <2>2. MaxTime \in Before..MaxTime
      BY DEF Before
    <2> HIDE DEF P
    <2> QED
      BY <2>1, <2>2
  <1>4. PICK g : \A t \in Before..MaxTime : g[t] = Body(g, t)
    BY <1>3
  <1> DEFINE F(f) == [t \in Before..MaxTime |->
                        IF t = Before THEN NoSegment
                        ELSE IF fixes[t] = NoFix THEN f[t - 1]
                        ELSE NextScan(f[t - 1], t, fixes[t])]
  <1>5. ScanOf(fixes) = (CHOOSE f : f = F(f))[MaxTime]
    BY DEF ScanOf
  <1>6. \E f : f = F(f)
    <2> DEFINE f == [t \in Before..MaxTime |-> g[t]]
    <2>1. ASSUME NEW t \in Before..MaxTime
          PROVE  f[t] = IF t = Before THEN NoSegment
                        ELSE IF fixes[t] = NoFix THEN f[t - 1]
                        ELSE NextScan(f[t - 1], t, fixes[t])
      <3>1. t # Before => f[t - 1] = g[t - 1]
        BY DEF Before
      <3> QED
        BY <1>4, <3>1 DEF ScanStep
    <2>2. f = F(f)
      BY <2>1
    <2> QED
      BY <2>2
  <1>7. PICK f : f = F(f) /\ ScanOf(fixes) = f[MaxTime]
    <2> HIDE DEF F
    <2> QED
      BY <1>5, <1>6
  <1>8. f[Before] = NoSegment
    BY <1>7 DEF Before
  <1>9. \A t \in Times : f[t] = ScanStep(f[t - 1], t, fixes[t])
    <2> SUFFICES ASSUME NEW t \in Times
                 PROVE  f[t] = ScanStep(f[t - 1], t, fixes[t])
      OBVIOUS
    <2>1. t \in Before..MaxTime /\ t # Before
      BY DEF Before, Times
    <2>2. F(f)[t] = ScanStep(f[t - 1], t, fixes[t])
      BY <2>1 DEF ScanStep
    <2> HIDE DEF F
    <2> QED
      BY <1>7, <2>2
  <1> QED
    BY <1>7, <1>8, <1>9 DEF IsScan

\* Two tracks that are the same before an instant have the same scan until then.
LEMMA SameUntil ==
  ASSUME NEW x, NEW y, NEW g, NEW h, IsScan(g, x), IsScan(h, y),
         NEW t \in Times, \A u \in Times : u < t => x[u] = y[u]
  PROVE  \A u \in Before..(t - 1) : g[u] = h[u]
  <1> DEFINE S == {u \in Before..MaxTime : u < t => g[u] = h[u]}
  <1>1. Before \in S
    BY DEF IsScan, Before
  <1>2. ASSUME NEW u \in Times, u - 1 \in S PROVE u \in S
    <2>1. u \in Before..MaxTime /\ (u < t => u - 1 < t)
      BY DEF Times, Before
    <2>2. u < t => g[u - 1] = h[u - 1]
      BY <1>2, <2>1
    <2>3. g[u] = ScanStep(g[u - 1], u, x[u]) /\ h[u] = ScanStep(h[u - 1], u, y[u])
      BY DEF IsScan
    <2>4. u < t => g[u] = h[u]
      BY <2>2, <2>3
    <2> QED
      BY <2>1, <2>4
  <1>3. \A u \in Before..MaxTime : u \in S
    <2> HIDE DEF S
    <2> QED
      BY <1>1, <1>2, InstantInduction
  <1>4. \A u \in Before..(t - 1) : u \in Before..MaxTime /\ u < t
    BY DEF Before, Times
  <1> QED
    BY <1>3, <1>4

\* A track that is silent from an instant on leaves the scan as it is.
LEMMA SilentAfter ==
  ASSUME NEW x, NEW g, IsScan(g, x),
         NEW t \in Times, \A u \in Times : u > t => x[u] = NoFix
  PROVE  g[MaxTime] = g[t]
  <1> DEFINE S == {u \in Before..MaxTime : u >= t => g[u] = g[t]}
  <1>1. Before \in S
    BY DEF Before, Times
  <1>2. ASSUME NEW u \in Times, u - 1 \in S PROVE u \in S
    <2>1. CASE u > t
      <3>1. g[u] = g[u - 1]
        BY <2>1 DEF IsScan, ScanStep
      <3>2. u - 1 >= t /\ u \in Before..MaxTime
        BY <2>1 DEF Times, Before
      <3> QED
        BY <1>2, <3>1, <3>2
    <2>2. CASE ~(u > t)
      <3>1. u \in Before..MaxTime /\ (u >= t => u = t)
        BY <2>2 DEF Times, Before
      <3> QED
        BY <3>1
    <2> QED
      BY <2>1, <2>2
  <1>3. \A u \in Before..MaxTime : u \in S
    <2> HIDE DEF S
    <2> QED
      BY <1>1, <1>2, InstantInduction
  <1>4. MaxTime \in Before..MaxTime /\ MaxTime >= t
    BY DEF Before, Times
  <1> QED
    BY <1>3, <1>4

-----------------------------------------------------------------------------
(***************************************************************************)
(* What one fix makes of the scan.                                         *)
(***************************************************************************)

Fixes   == [Times -> Kinds \cup {NoFix}]
Event   == [start: Times, end: Times, open: BOOLEAN]
Scanned == [start: Times \cup {Before}, last: Times \cup {Before},
            events: SUBSET Event]

\* The cases of the loop of detect_berthings: a fix changes nothing, opens a
\* segment, keeps it alive or closes it.
Keeps(q, t, x) ==
  /\ x = NoFix \/ ~CanEnter(x) \/ q.start # Before
  /\ q.start # Before /\ x # NoFix => Departed(x) /\ ~(t - q.last >= DepartGap)

Opens(q, t, x, r) ==
  /\ x # NoFix /\ CanEnter(x) /\ q.start = Before
  /\ r = [start |-> t, last |-> t, events |-> q.events]

Extends(q, t, x, r) ==
  /\ x # NoFix /\ ~Departed(x) /\ q.start # Before
  /\ r = [start |-> q.start, last |-> t, events |-> q.events]

Closes(q, t, x, r) ==
  /\ x # NoFix /\ Departed(x) /\ q.start # Before
  /\ t - q.last >= DepartGap
  /\ r = [start |-> Before, last |-> Before,
          events |-> Emitted(q.events, q.start, q.last, FALSE)]

\* A fix is looked over, opens a segment, extends it or closes it.
LEMMA ScanStepCases ==
  ASSUME NEW q \in Scanned, NEW t, NEW x
  PROVE  LET r == ScanStep(q, t, x)
         IN  \/ Keeps(q, t, x) /\ r = q
             \/ Opens(q, t, x, r)
             \/ Extends(q, t, x, r)
             \/ Closes(q, t, x, r)
  <1>0. q = [start |-> q.start, last |-> q.last, events |-> q.events]
    BY DEF Scanned
  <1>1. CASE x = NoFix
    BY <1>1 DEF ScanStep, Keeps
  <1>2. CASE x # NoFix /\ q.start = Before /\ CanEnter(x)
    <2>1. ScanStep(q, t, x) = [q EXCEPT !.start = t, !.last = t]
      BY <1>2 DEF ScanStep, NextScan
    <2> QED
      BY <1>0, <1>2, <2>1 DEF Opens
  <1>3. CASE x # NoFix /\ q.start # Before /\ ~Departed(x)
    <2>1. ScanStep(q, t, x) = [q EXCEPT !.last = t]
      BY <1>3 DEF ScanStep, NextScan
    <2> QED
      BY <1>0, <1>3, <2>1 DEF Extends
  <1>4. CASE x # NoFix /\ q.start # Before /\ Departed(x) /\ t - q.last >= DepartGap
    <2>1. ScanStep(q, t, x)
            = [NoSegment EXCEPT !.events = Emitted(q.events, q.start, q.last, FALSE)]
      BY <1>4 DEF ScanStep, NextScan
    <2> QED
      BY <1>4, <2>1 DEF Closes, NoSegment
  <1>5. CASE /\ x # NoFix
             /\ ~(q.start = Before /\ CanEnter(x))
             /\ ~(q.start # Before /\ ~Departed(x))
             /\ ~(q.start # Before /\ Departed(x) /\ t - q.last >= DepartGap)
    <2>1. ScanStep(q, t, x) = q
      BY <1>5 DEF ScanStep, NextScan
    <2> QED
      BY <1>5, <2>1 DEF Keeps
  <1> QED
    BY <1>1, <1>2, <1>3, <1>4, <1>5

-----------------------------------------------------------------------------
(***************************************************************************)
(* What holds of the scan of any track, whatever the thresholds.           *)
(***************************************************************************)

Left(x, t)   == x[t] # NoFix /\ Departed(x[t])
There(x, t)  == x[t] # NoFix /\ ~Departed(x[t])
Enters(x, t) == x[t] # NoFix /\ CanEnter(x[t])

\* The vessel was seen departed before s, the departure gap or more after end.
GoneBefore(x, end, s) ==
  \E w \in Times : Left(x, w) /\ end + DepartGap <= w /\ w < s

SegmentSound(x, t, q) ==
  q.start # Before =>
    /\ q.start \in Times /\ q.last \in Times
    /\ q.start <= q.last /\ q.last <= t
    /\ Enters(x, q.start)
    /\ \A e \in q.events : GoneBefore(x, e.end, q.start)

EventSound(x, t, e) ==
  /\ ~e.open
  /\ e.end - e.start >= Dwell
  /\ Enters(x, e.start)
  /\ GoneBefore(x, e.end, t + 1)

Apart(x, events) ==
  \A e, f \in events :
    e = f \/ GoneBefore(x, e.end, f.start) \/ GoneBefore(x, f.end, e.start)

Sound(x, t, q) ==
  /\ q \in Scanned
  /\ SegmentSound(x, t, q)
  /\ \A e \in q.events : EventSound(x, t, e)
  /\ Apart(x, q.events)

\* An iteration of the scan keeps what Sound says.
LEMMA SoundStep ==
  ASSUME NEW x \in Fixes, NEW t \in Times, NEW q, Sound(x, t - 1, q)
  PROVE  Sound(x, t, ScanStep(q, t, x[t]))
  <1> DEFINE r == ScanStep(q, t, x[t])
  <1> SUFFICES Sound(x, t, r)
    OBVIOUS
  <1>0. /\ t \in Int /\ 0 <= t /\ t <= MaxTime
        /\ q \in Scanned /\ q.events \subseteq Event
        /\ q.start \in Int /\ q.last \in Int
        /\ q.start # Before => q.start \in Times /\ q.last \in Times
    BY DEF Sound, SegmentSound, Scanned, Times, Before
  <1>1. \A e \in q.events : e.start \in Times /\ e.end \in Times
    BY <1>0 DEF Event
  <1>2. \A end \in Times : GoneBefore(x, end, t) => GoneBefore(x, end, t + 1)
    BY <1>0 DEF GoneBefore, Times
  <1>3. \A e \in q.events : EventSound(x, t, e) /\ GoneBefore(x, e.end, t)
    <2>1. (t - 1) + 1 = t
      BY <1>0
    <2> SUFFICES ASSUME NEW e \in q.events
                 PROVE  EventSound(x, t, e) /\ GoneBefore(x, e.end, t)
      OBVIOUS
    <2>2. EventSound(x, t - 1, e)
      BY DEF Sound
    <2>3. GoneBefore(x, e.end, t)
      BY <2>1, <2>2 DEF EventSound
    <2>4. GoneBefore(x, e.end, t + 1)
      BY <1>1, <1>2, <2>3
    <2> QED
      BY <2>2, <2>3, <2>4 DEF EventSound
  <1>4. CASE r = q
    <2>1. SegmentSound(x, t, q)
      BY <1>0 DEF Sound, SegmentSound, Times
    <2> QED
      BY <1>3, <1>4, <2>1 DEF Sound
  <1>5. CASE Opens(q, t, x[t], r)
    <2>1. /\ r.start = t /\ r.last = t /\ r.events = q.events
          /\ r \in Scanned
      BY <1>0, <1>5 DEF Opens, Scanned
    <2>2. Enters(x, t)
      BY <1>5 DEF Opens, Enters
    <2>3. SegmentSound(x, t, r)
      BY <1>0, <1>3, <2>1, <2>2 DEF SegmentSound
    <2> HIDE DEF r
    <2> QED
      BY <1>3, <2>1, <2>3 DEF Sound
  <1>6. CASE Extends(q, t, x[t], r)
    <2>1. /\ r.start = q.start /\ r.last = t /\ r.events = q.events
          /\ q.start # Before /\ r \in Scanned
      BY <1>0, <1>6 DEF Extends, Scanned
    <2>2. SegmentSound(x, t, r)
      BY <1>0, <2>1 DEF Sound, SegmentSound, Times
    <2> HIDE DEF r
    <2> QED
      BY <1>3, <2>1, <2>2 DEF Sound
  <1>7. CASE Closes(q, t, x[t], r)
    <2> DEFINE n == [start |-> q.start, end |-> q.last, open |-> FALSE]
    <2>1. /\ q.start # Before /\ q.start \in Times /\ q.last \in Times
          /\ q.start <= q.last /\ q.last < t
          /\ Left(x, t) /\ q.last + DepartGap <= t
          /\ Enters(x, q.start)
      BY <1>0, <1>7 DEF Sound, SegmentSound, Closes, Left, Times
    <2>2. n \in Event /\ n.start = q.start /\ n.end = q.last /\ ~n.open
      BY <2>1 DEF Event
    <2>3. \A e \in r.events : e \in q.events \/ (e = n /\ q.last - q.start >= Dwell)
      <3>1. r.events = Emitted(q.events, q.start, q.last, FALSE)
        BY <1>7 DEF Closes
      <3> HIDE DEF r
      <3> SUFFICES ASSUME NEW e \in r.events
                   PROVE  e \in q.events \/ (e = n /\ q.last - q.start >= Dwell)
        OBVIOUS
      <3>2. e \in Emitted(q.events, q.start, q.last, FALSE)
        BY <3>1
      <3> QED
        BY <3>2 DEF Emitted
    <2>4. r.start = Before /\ r.last = Before
      BY <1>7 DEF Closes
    <2>5. r \in Scanned
      <3>1. r.events \subseteq Event
        BY <1>0, <2>2, <2>3
      <3>2. r = [start |-> Before, last |-> Before, events |-> r.events]
        BY <1>7 DEF Closes
      <3> HIDE DEF r
      <3> QED
        BY <3>1, <3>2 DEF Scanned
    <2>6. GoneBefore(x, q.last, t + 1)
      BY <1>0, <2>1 DEF GoneBefore
    <2>7. q.last - q.start >= Dwell => EventSound(x, t, n)
      BY <2>1, <2>2, <2>6 DEF EventSound
    <2>8. \A e \in q.events : GoneBefore(x, e.end, n.start)
      BY <2>1, <2>2 DEF Sound, SegmentSound
    <2> HIDE DEF r, n
    <2>10. \A e \in r.events : EventSound(x, t, e)
      BY <1>3, <2>3, <2>7
    <2>11. Apart(x, r.events)
      BY <2>3, <2>8 DEF Sound, Apart
    <2>12. SegmentSound(x, t, r)
      BY <2>4 DEF SegmentSound
    <2> QED
      BY <2>5, <2>10, <2>11, <2>12 DEF Sound
  <1> QED
    BY <1>0, <1>4, <1>5, <1>6, <1>7, ScanStepCases

\* The scan of a track is sound at every instant.
LEMMA ScanIsSound ==
  ASSUME NEW x \in Fixes, NEW g, IsScan(g, x)
  PROVE  \A t \in Before..MaxTime : Sound(x, t, g[t])
  <1> DEFINE S == {t \in Before..MaxTime : Sound(x, t, g[t])}
  <1>1. Before \in S
    <2>1. NoSegment \in Scanned /\ NoSegment.events = {} /\ NoSegment.start = Before
      BY DEF NoSegment, Scanned
    <2> QED
      BY <2>1 DEF IsScan, Sound, SegmentSound, Apart, Before
  <1>2. ASSUME NEW t \in Times, t - 1 \in S PROVE t \in S
    <2>1. Sound(x, t - 1, g[t - 1]) /\ g[t] = ScanStep(g[t - 1], t, x[t])
      BY <1>2 DEF IsScan
    <2>2. t \in Before..MaxTime
      BY DEF Times, Before
    <2> QED
      BY <2>1, <2>2, SoundStep
  <1>3. \A t \in Before..MaxTime : t \in S
    <2> HIDE DEF S
    <2> QED
      BY <1>1, <1>2, InstantInduction
  <1> QED
    BY <1>3

-----------------------------------------------------------------------------
(***************************************************************************)
(* With the thresholds in order, a fix that would start a berthing is not  *)
(* a departure, and a segment holds no absence as long as the gap.         *)
(***************************************************************************)

\* Hysteresis: the speed a berthing starts at is none a vessel departs with
\* (berth_enter_sog_kn, berth_depart_sog_kn of app/config.py).
ThresholdsInOrder ==
  EnterSog \in Nat /\ DepartSog \in Nat /\ EnterSog <= DepartSog

\* With the thresholds in order, a fix that would start a berthing is there.
LEMMA StillIsThere ==
  ASSUME ThresholdsInOrder, NEW x \in Fixes, NEW t \in Times, Enters(x, t)
  PROVE  There(x, t)
  <1>1. PICK k \in Kinds : k = x[t]
    BY DEF Fixes, Enters
  <1>2. k.sog = NoSog \/ k.sog \in Nat
    OBVIOUS
  <1> QED
    BY <1>1, <1>2 DEF Enters, There, CanEnter, Departed, ThresholdsInOrder

NoAbsence(x, s, t) ==
  \A u \in s..t : Left(x, u) => \E v \in s..u : There(x, v) /\ u - v < DepartGap

NotThereSince(x, u, t) == \A v \in (u + 1)..t : ~There(x, v)

\* Leaves, of any track.
Leaving(x, u, w) ==
  There(x, u) /\ Left(x, w) /\ w - u >= DepartGap /\ NotThereSince(x, u, w)

EventAttended(x, e) ==
  /\ There(x, e.end) /\ NoAbsence(x, e.start, e.end)
  /\ \E w \in Times : Leaving(x, e.end, w)

Attended(x, t, q) ==
  /\ q.start # Before =>
       There(x, q.last) /\ NoAbsence(x, q.start, t) /\ NotThereSince(x, q.last, t)
  /\ \A e \in q.events : EventAttended(x, e)

\* An iteration keeps what Attended says.
LEMMA AttendedStep ==
  ASSUME ThresholdsInOrder, NEW x \in Fixes, NEW t \in Times, NEW q,
         Sound(x, t - 1, q), Attended(x, t - 1, q)
  PROVE  Attended(x, t, ScanStep(q, t, x[t]))
  <1> DEFINE r == ScanStep(q, t, x[t])
  <1> SUFFICES Attended(x, t, r)
    OBVIOUS
  <1>0. /\ t \in Int /\ 0 <= t
        /\ q \in Scanned
        /\ q.start # Before => /\ q.start \in Int /\ q.last \in Int
                               /\ q.start <= q.last /\ q.last <= t - 1
    BY DEF Sound, SegmentSound, Scanned, Times, Before
  <1>1. ASSUME NEW s \in Int, s <= t, NoAbsence(x, s, t - 1),
               Left(x, t) => \E v \in s..t : There(x, v) /\ t - v < DepartGap
        PROVE  NoAbsence(x, s, t)
    <2> SUFFICES ASSUME NEW u \in s..t, Left(x, u)
                 PROVE  \E v \in s..u : There(x, v) /\ u - v < DepartGap
      BY DEF NoAbsence
    <2>1. u = t \/ u \in s..(t - 1)
      BY <1>0
    <2> QED
      BY <1>1, <2>1 DEF NoAbsence
  <1>2. ~(There(x, t) /\ Left(x, t))
    BY DEF There, Left
  <1>3. CASE Keeps(q, t, x[t]) /\ r = q
    <2>1. ASSUME q.start # Before PROVE NoAbsence(x, q.start, t)
      <3>1. Left(x, t) => /\ q.last \in q.start..t
                          /\ There(x, q.last) /\ t - q.last < DepartGap
        BY <1>0, <1>3, <2>1 DEF Keeps, Left, Attended
      <3>2. NoAbsence(x, q.start, t - 1) /\ q.start \in Int /\ q.start <= t
        BY <1>0, <2>1 DEF Attended
      <3> QED
        BY <1>1, <3>1, <3>2
    <2>2. ASSUME q.start # Before PROVE NotThereSince(x, q.last, t)
      <3>1. ~There(x, t)
        BY <1>3, <2>2 DEF Keeps, There
      <3> QED
        BY <1>0, <2>2, <3>1 DEF Attended, NotThereSince
    <2> QED
      BY <1>3, <2>1, <2>2 DEF Attended
  <1>4. CASE Opens(q, t, x[t], r)
    <2>1. r.start = t /\ r.last = t /\ r.events = q.events
      BY <1>4 DEF Opens
    <2>2. There(x, t)
      BY <1>4, StillIsThere DEF Opens, Enters
    <2>3. NoAbsence(x, t, t) /\ NotThereSince(x, t, t)
      BY <1>0, <1>2, <2>2 DEF NoAbsence, NotThereSince
    <2> HIDE DEF r
    <2> QED
      BY <2>1, <2>2, <2>3 DEF Attended
  <1>5. CASE Extends(q, t, x[t], r)
    <2>1. r.start = q.start /\ r.last = t /\ r.events = q.events /\ q.start # Before
      BY <1>5 DEF Extends
    <2>2. There(x, t)
      BY <1>5 DEF Extends, There
    <2>3. NoAbsence(x, q.start, t - 1) /\ q.start \in Int /\ q.start <= t
      BY <1>0, <2>1 DEF Attended
    <2>4. NoAbsence(x, q.start, t) /\ NotThereSince(x, t, t)
      BY <1>0, <1>1, <1>2, <2>2, <2>3 DEF NotThereSince
    <2> HIDE DEF r
    <2> QED
      BY <2>1, <2>2, <2>4 DEF Attended
  <1>6. CASE Closes(q, t, x[t], r)
    <2>1. q.start # Before /\ r.start = Before
      BY <1>6 DEF Closes
    <2>2. There(x, q.last) /\ NoAbsence(x, q.start, q.last)
      <3>1. NoAbsence(x, q.start, t - 1) /\ There(x, q.last)
        BY <2>1 DEF Attended
      <3>2. \A u \in q.start..q.last : u \in q.start..(t - 1)
        BY <1>0, <2>1
      <3> QED
        BY <3>1, <3>2 DEF NoAbsence
    <2>3. Leaving(x, q.last, t)
      <3>1. Left(x, t) /\ ~There(x, t) /\ t - q.last >= DepartGap
        BY <1>6 DEF Closes, Left, There
      <3>2. NotThereSince(x, q.last, t)
        BY <1>0, <2>1, <3>1 DEF Attended, NotThereSince
      <3> QED
        BY <2>2, <3>1, <3>2 DEF Leaving
    <2>4. ASSUME NEW e \in r.events PROVE EventAttended(x, e)
      <3>0. r.events = Emitted(q.events, q.start, q.last, FALSE)
        BY <1>6 DEF Closes
      <3>1. e \in Emitted(q.events, q.start, q.last, FALSE)
        BY <2>4, <3>0
      <3>2. e \in q.events \/ (e.start = q.start /\ e.end = q.last)
        BY <3>1 DEF Emitted
      <3> QED
        BY <2>2, <2>3, <3>2 DEF Attended, EventAttended
    <2> HIDE DEF r
    <2> QED
      BY <2>1, <2>4 DEF Attended
  <1> QED
    BY <1>0, <1>3, <1>4, <1>5, <1>6, ScanStepCases

\* The scan is attended at every instant.
LEMMA ScanIsAttended ==
  ASSUME ThresholdsInOrder, NEW x \in Fixes, NEW g, IsScan(g, x)
  PROVE  \A t \in Before..MaxTime : Attended(x, t, g[t])
  <1> DEFINE S == {t \in Before..MaxTime : Attended(x, t, g[t])}
  <1>1. Before \in S
    BY DEF IsScan, Attended, NoSegment, Before
  <1>2. ASSUME NEW t \in Times, t - 1 \in S PROVE t \in S
    <2>1. Attended(x, t - 1, g[t - 1]) /\ g[t] = ScanStep(g[t - 1], t, x[t])
      BY <1>2 DEF IsScan
    <2>2. t \in Before..MaxTime /\ t - 1 \in Before..MaxTime
      BY DEF Times, Before
    <2>3. Sound(x, t - 1, g[t - 1])
      BY <2>2, ScanIsSound
    <2> QED
      BY <2>1, <2>2, <2>3, AttendedStep
  <1>3. \A t \in Before..MaxTime : t \in S
    <2> HIDE DEF S
    <2> QED
      BY <1>1, <1>2, InstantInduction
  <1> QED
    BY <1>3

-----------------------------------------------------------------------------
(***************************************************************************)
(* No stay is missed.                                                      *)
(***************************************************************************)

\* The vessel was not seen departed from a to u.
Stayed(x, a, u) == \A w \in a..u : ~Left(x, w)

\* A segment open at t covers every stay that goes on at t; a stay of the dwell
\* is covered by an event or by the open segment.
Watchful(x, t, q) ==
  /\ \A a \in Times : a <= t /\ Enters(x, a) /\ Stayed(x, a, t) =>
       q.start # Before /\ q.start <= a
  /\ \A a, u \in Times :
       /\ u <= t /\ Enters(x, a) /\ Enters(x, u)
       /\ u - a >= Dwell
       /\ Stayed(x, a, u)
       => \/ \E e \in q.events : e.start <= a /\ u <= e.end
          \/ q.start # Before /\ q.start <= a /\ u <= q.last

\* An iteration keeps what Watchful says.
LEMMA WatchfulStep ==
  ASSUME NEW x \in Fixes, NEW t \in Times, NEW q,
         Sound(x, t - 1, q), Watchful(x, t - 1, q)
  PROVE  Watchful(x, t, ScanStep(q, t, x[t]))
  <1> DEFINE r == ScanStep(q, t, x[t])
  <1> SUFFICES Watchful(x, t, r)
    OBVIOUS
  <1>0. /\ t \in Int /\ 0 <= t
        /\ q \in Scanned
        /\ q.start # Before => /\ q.start \in Int /\ q.last \in Int
                               /\ q.start <= q.last /\ q.last <= t - 1
    BY DEF Sound, SegmentSound, Scanned, Times, Before
  <1>1. \/ Keeps(q, t, x[t]) /\ r = q
        \/ Opens(q, t, x[t], r)
        \/ Extends(q, t, x[t], r)
        \/ Closes(q, t, x[t], r)
    BY <1>0, ScanStepCases
  <1>2. /\ Opens(q, t, x[t], r) => r.start = t /\ r.last = t /\ r.events = q.events
        /\ Extends(q, t, x[t], r) => r.start = q.start /\ r.last = t /\ r.events = q.events
        /\ Closes(q, t, x[t], r) => r.events = Emitted(q.events, q.start, q.last, FALSE)
    <2>1. /\ Opens(q, t, x[t], r) => r.start = t /\ r.last = t /\ r.events = q.events
          /\ Extends(q, t, x[t], r) => r.start = q.start /\ r.last = t /\ r.events = q.events
      BY DEF Opens, Extends
    <2>2. ASSUME Closes(q, t, x[t], r)
          PROVE  r.events = Emitted(q.events, q.start, q.last, FALSE)
      BY <2>2 DEF Closes
    <2> QED
      BY <2>1, <2>2
  <1>3. t # Before
    BY <1>0 DEF Before
  <1> HIDE DEF r
  <1>4. ASSUME NEW a \in Times, a <= t, Enters(x, a), Stayed(x, a, t)
        PROVE  r.start # Before /\ r.start <= a
    <2>0. a \in Int /\ ~Left(x, t)
      BY <1>0, <1>4 DEF Times, Stayed
    <2>1. CASE a = t
      <3>1. ~Closes(q, t, x[t], r)
        BY <2>0 DEF Closes, Left
      <3>2. Keeps(q, t, x[t]) => q.start # Before
        BY <1>4, <2>1 DEF Keeps, Enters
      <3> QED
        BY <1>0, <1>1, <1>2, <1>3, <2>0, <2>1, <3>1, <3>2
           DEF Opens, Extends
    <2>2. CASE a # t
      <3>1. a <= t - 1 /\ Stayed(x, a, t - 1)
        BY <1>0, <1>4, <2>0, <2>2 DEF Stayed
      <3>2. q.start # Before /\ q.start <= a
        BY <1>4, <3>1 DEF Watchful
      <3>3. ~Closes(q, t, x[t], r) /\ ~Opens(q, t, x[t], r)
        BY <2>0, <3>2 DEF Closes, Opens, Left
      <3> QED
        BY <1>1, <1>2, <3>2, <3>3
    <2> QED
      BY <2>1, <2>2
  <1>5. ASSUME NEW a \in Times, NEW u \in Times,
               u <= t, Enters(x, a), Enters(x, u), u - a >= Dwell, Stayed(x, a, u)
        PROVE  \/ \E e \in r.events : e.start <= a /\ u <= e.end
               \/ r.start # Before /\ r.start <= a /\ u <= r.last
    <2>0. a \in Int /\ u \in Int /\ Dwell \in Int /\ Dwell > 0
      BY DEF Times
    <2>1. CASE u = t
      <3>1. r.start # Before /\ r.start <= a
        BY <1>4, <1>5, <2>0, <2>1
      <3>2. Enters(x, t) /\ ~Left(x, t)
        BY <1>0, <1>5, <2>0, <2>1 DEF Stayed
      <3>3. ~Closes(q, t, x[t], r) /\ ~(Keeps(q, t, x[t]) /\ r = q)
        BY <3>1, <3>2 DEF Closes, Keeps, Left, Enters
      <3>4. r.last = t
        BY <1>1, <1>2, <3>3
      <3> QED
        BY <1>0, <2>1, <3>1, <3>4
    <2>2. CASE u # t
      <3>1. u <= t - 1
        BY <1>0, <1>5, <2>0, <2>2
      <3>2. \/ \E e \in q.events : e.start <= a /\ u <= e.end
            \/ q.start # Before /\ q.start <= a /\ u <= q.last
        BY <1>5, <3>1 DEF Watchful
      <3>3. q.events \subseteq r.events
        BY <1>1, <1>2 DEF Emitted
      <3>4. CASE \E e \in q.events : e.start <= a /\ u <= e.end
        BY <3>3, <3>4
      <3>5. CASE q.start # Before /\ q.start <= a /\ u <= q.last
        <4>1. CASE Closes(q, t, x[t], r)
          <5>1. q.last - q.start >= Dwell
            BY <1>0, <1>5, <2>0, <3>5
          <5>2. [start |-> q.start, end |-> q.last, open |-> FALSE] \in r.events
            BY <1>2, <4>1, <5>1 DEF Emitted
          <5> QED
            BY <3>5, <5>2
        <4>2. CASE Extends(q, t, x[t], r)
          BY <1>0, <1>2, <1>5, <3>5, <4>2
        <4>3. CASE r = q
          BY <3>5, <4>3
        <4>4. ~Opens(q, t, x[t], r)
          BY <3>5 DEF Opens
        <4> QED
          BY <1>1, <4>1, <4>2, <4>3, <4>4
      <3> QED
        BY <3>2, <3>4, <3>5
    <2> QED
      BY <2>1, <2>2
  <1> QED
    BY <1>4, <1>5 DEF Watchful

\* The scan is watchful at every instant.
LEMMA ScanIsWatchful ==
  ASSUME NEW x \in Fixes, NEW g, IsScan(g, x)
  PROVE  \A t \in Before..MaxTime : Watchful(x, t, g[t])
  <1> DEFINE S == {t \in Before..MaxTime : Watchful(x, t, g[t])}
  <1>1. Before \in S
    BY DEF Watchful, Before, Times
  <1>2. ASSUME NEW t \in Times, t - 1 \in S PROVE t \in S
    <2>1. Watchful(x, t - 1, g[t - 1]) /\ g[t] = ScanStep(g[t - 1], t, x[t])
      BY <1>2 DEF IsScan
    <2>2. t \in Before..MaxTime /\ t - 1 \in Before..MaxTime
      BY DEF Times, Before
    <2>3. Sound(x, t - 1, g[t - 1])
      BY <2>2, ScanIsSound
    <2> QED
      BY <2>1, <2>2, <2>3, WatchfulStep
  <1>3. \A t \in Before..MaxTime : t \in S
    <2> HIDE DEF S
    <2> QED
      BY <1>1, <1>2, InstantInduction
  <1> QED
    BY <1>3

-----------------------------------------------------------------------------
(***************************************************************************)
(* The events of a track.                                                  *)
(***************************************************************************)

\* The scan of a whole track has all the above at the last instant.
LEMMA WholeScan ==
  ASSUME NEW x \in Fixes
  PROVE  /\ Sound(x, MaxTime, ScanOf(x))
         /\ Watchful(x, MaxTime, ScanOf(x))
         /\ ThresholdsInOrder => Attended(x, MaxTime, ScanOf(x))
  <1>1. PICK g : IsScan(g, x) /\ ScanOf(x) = g[MaxTime]
    BY ScanExists
  <1>2. MaxTime \in Before..MaxTime
    BY DEF Before
  <1> QED
    BY <1>1, <1>2, ScanIsSound, ScanIsWatchful, ScanIsAttended

\* The trailing segment of a scan, when it is long enough to be an event.
Trailing(q, e) ==
  /\ q.start # Before
  /\ q.last - q.start >= Dwell
  /\ e.start = q.start /\ e.end = q.last

\* Every event is a closed one of the scan or the trailing segment, which is closed
\* only when its last fix has gone stale (the end of detect_berthings).
LEMMA DetectedCases ==
  ASSUME NEW x \in Fixes, NEW asOf, NEW e \in DetectBerthings(x, asOf)
  PROVE  /\ e \in Event
         /\ \/ e \in ScanOf(x).events
            \/ /\ Trailing(ScanOf(x), e)
               /\ e.open <=> ~GoneStale(e.end, asOf)
  <1> DEFINE q == ScanOf(x)
  <1>1. /\ q.events \subseteq Event
        /\ q.start # Before => q.start \in Times /\ q.last \in Times
    BY WholeScan DEF Sound, SegmentSound, Scanned
  <1>2. CASE q.start = Before
    BY <1>1, <1>2 DEF DetectBerthings
  <1>3. CASE q.start # Before
    <2> DEFINE open == ~GoneStale(q.last, asOf)
    <2>1. open \in BOOLEAN
      BY DEF GoneStale
    <2>2. e \in Emitted(q.events, q.start, q.last, open)
      BY <1>3 DEF DetectBerthings
    <2>3. CASE e \in q.events
      BY <1>1, <2>3
    <2>4. CASE e \notin q.events
      <3>1. /\ q.last - q.start >= Dwell
            /\ e = [start |-> q.start, end |-> q.last, open |-> open]
        BY <2>2, <2>4 DEF Emitted
      <3> HIDE DEF open
      <3>2. e \in Event /\ e.start = q.start /\ e.end = q.last /\ e.open = open
        BY <1>1, <1>3, <2>1, <3>1 DEF Event
      <3> QED
        BY <1>3, <3>1, <3>2 DEF Trailing, open
    <2> QED
      BY <2>3, <2>4
  <1> QED
    BY <1>2, <1>3

\* Each closed event of the scan, and the trailing segment if it is long enough, is
\* the start and the end of an event.
LEMMA ScannedAreDetected ==
  ASSUME NEW x, NEW asOf
  PROVE  /\ ScanOf(x).events \subseteq DetectBerthings(x, asOf)
         /\ /\ ScanOf(x).start # Before
            /\ ScanOf(x).last - ScanOf(x).start >= Dwell
            => \E e \in DetectBerthings(x, asOf) :
                 e.start = ScanOf(x).start /\ e.end = ScanOf(x).last
  <1> DEFINE q == ScanOf(x)
             open == ~GoneStale(q.last, asOf)
             n == [start |-> q.start, end |-> q.last, open |-> open]
  <1>1. CASE q.start = Before
    BY <1>1 DEF DetectBerthings
  <1>2. CASE q.start # Before
    <2>1. DetectBerthings(x, asOf) = Emitted(q.events, q.start, q.last, open)
      BY <1>2 DEF DetectBerthings
    <2>2. q.events \subseteq Emitted(q.events, q.start, q.last, open)
      BY DEF Emitted
    <2>3. q.last - q.start >= Dwell => n \in Emitted(q.events, q.start, q.last, open)
      BY DEF Emitted
    <2>4. n.start = q.start /\ n.end = q.last
      OBVIOUS
    <2> HIDE DEF n, open
    <2> QED
      BY <2>1, <2>2, <2>3, <2>4
  <1> QED
    BY <1>1, <1>2

\* Of two events of a track one ended, by a departure, before the other began.
LEMMA EventsFollow ==
  ASSUME NEW x \in Fixes, NEW asOf,
         NEW e \in DetectBerthings(x, asOf), NEW f \in DetectBerthings(x, asOf)
  PROVE  \/ e = f
         \/ ~e.open /\ GoneBefore(x, e.end, f.start)
         \/ ~f.open /\ GoneBefore(x, f.end, e.start)
  <1> DEFINE q == ScanOf(x)
  <1>1. Sound(x, MaxTime, q)
    BY WholeScan
  <1>2. /\ e \in Event /\ f \in Event
        /\ \/ e \in q.events
           \/ Trailing(q, e) /\ (e.open <=> ~GoneStale(e.end, asOf))
        /\ \/ f \in q.events
           \/ Trailing(q, f) /\ (f.open <=> ~GoneStale(f.end, asOf))
    BY DetectedCases
  <1> HIDE DEF q
  <1>3. CASE e \in q.events /\ f \in q.events
    BY <1>1, <1>3 DEF Sound, EventSound, Apart
  <1>4. CASE e \in q.events /\ Trailing(q, f)
    BY <1>1, <1>4 DEF Sound, SegmentSound, EventSound, Trailing
  <1>5. CASE f \in q.events /\ Trailing(q, e)
    BY <1>1, <1>5 DEF Sound, SegmentSound, EventSound, Trailing
  <1>6. CASE /\ Trailing(q, e) /\ (e.open <=> ~GoneStale(e.end, asOf))
             /\ Trailing(q, f) /\ (f.open <=> ~GoneStale(f.end, asOf))
    <2>1. e.start = f.start /\ e.end = f.end
      BY <1>6 DEF Trailing
    <2>2. e.open = f.open
      BY <1>2, <1>6, <2>1 DEF Event
    <2> QED
      BY <1>2, <2>1, <2>2 DEF Event
  <1> QED
    BY <1>2, <1>3, <1>4, <1>5, <1>6

\* Every event is as long as the dwell and begins with a fix that would begin it.
LEMMA EventsDwell ==
  ASSUME NEW x \in Fixes, NEW asOf, NEW e \in DetectBerthings(x, asOf)
  PROVE  e.end - e.start >= Dwell /\ Enters(x, e.start)
  <1>1. Sound(x, MaxTime, ScanOf(x))
    BY WholeScan
  <1>2. e \in ScanOf(x).events \/ Trailing(ScanOf(x), e)
    BY DetectedCases
  <1> QED
    BY <1>1, <1>2 DEF Sound, SegmentSound, EventSound, Trailing

\* With the thresholds in order, it ends with a fix alongside and holds no absence
\* as long as the gap; and it is open as long as no departure and no silence ends it.
LEMMA EventsAttended ==
  ASSUME ThresholdsInOrder,
         NEW x \in Fixes, NEW asOf, NEW e \in DetectBerthings(x, asOf)
  PROVE  /\ There(x, e.end) /\ NoAbsence(x, e.start, e.end)
         /\ e.open <=> ~GoneStale(e.end, asOf) /\ \A w \in Times : ~Leaving(x, e.end, w)
  <1> DEFINE q == ScanOf(x)
  <1>1. Sound(x, MaxTime, q) /\ Attended(x, MaxTime, q)
    BY WholeScan
  <1>2. /\ e \in Event
        /\ e \in q.events \/ (Trailing(q, e) /\ (e.open <=> ~GoneStale(e.end, asOf)))
    BY DetectedCases
  <1> HIDE DEF q
  <1>3. CASE e \in q.events
    <2>1. ~e.open /\ EventAttended(x, e)
      BY <1>1, <1>3 DEF Sound, EventSound, Attended
    <2> QED
      BY <2>1 DEF EventAttended
  <1>4. CASE Trailing(q, e) /\ (e.open <=> ~GoneStale(e.end, asOf))
    <2>1. q.start # Before /\ e.start = q.start /\ e.end = q.last
      BY <1>4 DEF Trailing
    <2>2. /\ There(x, q.last) /\ NoAbsence(x, q.start, MaxTime)
          /\ NotThereSince(x, q.last, MaxTime)
      BY <1>1, <2>1 DEF Attended
    <2>3. /\ q.start \in Int /\ q.last \in Int
          /\ q.start <= q.last /\ q.last <= MaxTime
      BY <1>1, <2>1 DEF Sound, SegmentSound, Times
    <2>4. NoAbsence(x, q.start, q.last)
      BY <2>2, <2>3 DEF NoAbsence
    <2>5. ASSUME NEW w \in Times, Leaving(x, q.last, w) PROVE FALSE
      <3>1. Left(x, w) /\ w - q.last >= DepartGap
        BY <2>5 DEF Leaving
      <3>2. w \in q.start..MaxTime
        BY <2>3, <3>1 DEF Times
      <3>3. PICK v \in q.start..w : There(x, v) /\ w - v < DepartGap
        BY <2>2, <3>1, <3>2 DEF NoAbsence
      <3>4. v \in (q.last + 1)..MaxTime
        BY <2>3, <3>1, <3>2, <3>3
      <3> QED
        BY <2>2, <3>3, <3>4 DEF NotThereSince
    <2> QED
      BY <1>4, <2>1, <2>2, <2>4, <2>5
  <1> QED
    BY <1>2, <1>3, <1>4

-----------------------------------------------------------------------------
(***************************************************************************)
(* Theorems.                                                               *)
(***************************************************************************)

\* What is loaded of a track, from any bound on, is fixes.
LEMMA SinceType ==
  ASSUME TypeOK, NEW from
  PROVE  Since(from) \in Fixes
  BY DEF Since, Fixes, TypeOK

\* An upsert writes the row of an event under the key of its start, or nothing.
LEMMA UpsertedCases ==
  ASSUME NEW events, NEW t \in Times
  PROVE  \/ Upserted(events)[t] = rows[t] /\ \A e \in events : e.start # t
         \/ \E e \in events : e.start = t /\ Upserted(events)[t] = RowOf(e)
  BY DEF Upserted

\* Every variable keeps its type: every event begins and ends at instants.
THEOREM DetectionTypeOK == Spec => []TypeOK
<1>1. Init => TypeOK
  BY DEF Init, TypeOK, NoRow, Times, Before
<1>2. TypeOK /\ [Next]_vars => TypeOK'
  <2> SUFFICES ASSUME TypeOK, [Next]_vars PROVE TypeOK'
    OBVIOUS
  <2>1. CASE Tick
    BY <2>1 DEF Tick, TypeOK, Times
  <2>2. ASSUME NEW t \in Times, NEW k \in Kinds, FixLands(t, k) PROVE TypeOK'
    BY <2>2 DEF FixLands, TypeOK
  <2>3. CASE OtherVesselFix
    BY <2>3 DEF OtherVesselFix, TypeOK
  <2>4. ASSUME NEW from \in Sinces, Derive(from) PROVE TypeOK'
    <3> DEFINE events == DetectBerthings(Since(from), feed)
    <3>1. rows' = Upserted(events) /\ UNCHANGED <<clock, track, feed>>
      BY <2>4 DEF Derive
    <3>2. \A e \in events : e \in Event
      BY SinceType, DetectedCases
    <3>3. ASSUME NEW e \in events
          PROVE  RowOf(e) \in [end: Times \cup {Before, After}, open: BOOLEAN]
      <4>1. e.end \in Times /\ e.open \in BOOLEAN
        BY <3>2 DEF Event
      <4> QED
        BY <4>1 DEF RowOf
    <3> HIDE DEF events
    <3>4. ASSUME NEW t \in Times
          PROVE  Upserted(events)[t] \in [end: Times \cup {Before, After}, open: BOOLEAN]
      BY <3>3, UpsertedCases DEF TypeOK
    <3>5. rows' \in [Times -> [end: Times \cup {Before, After}, open: BOOLEAN]]
      BY <3>1, <3>4 DEF Upserted
    <3> QED
      BY <3>1, <3>5 DEF TypeOK
  <2>5. CASE UNCHANGED vars
    BY <2>5 DEF vars, TypeOK
  <2> QED
    BY <2>1, <2>2, <2>3, <2>4, <2>5 DEF Next
<1> QED
  BY <1>1, <1>2, PTL DEF Spec

\* The berthings of every track are visits of at least the dwell, in order, a
\* departure and more than the gap apart, and only the last may be open.
THEOREM BerthingsAreSeparateVisits ==
  ASSUME ThresholdsInOrder
  PROVE  Spec => []BerthingsAreVisits
<1>1. TypeOK => BerthingsAreVisits
  <2> SUFFICES ASSUME TypeOK, NEW e \in Events
               PROVE  /\ e.end - e.start >= Dwell
                      /\ WouldBerth(e.start) /\ IsThere(e.end)
                      /\ \A f \in Events \ {e} :
                           /\ e.start # f.start
                           /\ e.start < f.start =>
                                /\ e.end + DepartGap < f.start
                                /\ ~e.open
                                /\ \E t \in e.end..f.start : HasLeft(t)
    BY DEF BerthingsAreVisits
  <2>1. track \in Fixes /\ e \in DetectBerthings(track, feed)
    BY DEF TypeOK, Fixes, Events
  <2>2. \A f \in Events : /\ f.start \in Int /\ f.end \in Int
                          /\ f.end - f.start >= Dwell
    BY <2>1, DetectedCases, EventsDwell DEF Events, Event, Times
  <2>3. e.end - e.start >= Dwell /\ WouldBerth(e.start) /\ IsThere(e.end)
    <3>1. Enters(track, e.start) /\ There(track, e.end) /\ e.end - e.start >= Dwell
      BY <2>1, EventsDwell, EventsAttended
    <3> QED
      BY <3>1 DEF Enters, There, WouldBerth, IsThere, Landed
  <2>4. ASSUME NEW c \in Events, NEW d \in Events, GoneBefore(track, c.end, d.start)
        PROVE  /\ c.start < d.start
               /\ c.end + DepartGap < d.start
               /\ \E t \in c.end..d.start : HasLeft(t)
    <3>1. PICK w \in Times : /\ Left(track, w)
                             /\ c.end + DepartGap <= w /\ w < d.start
      BY <2>4 DEF GoneBefore
    <3>2. /\ c.start \in Int /\ c.end \in Int /\ d.start \in Int /\ w \in Int
          /\ c.end - c.start >= Dwell
      BY <2>2 DEF Times
    <3>3. HasLeft(w)
      BY <3>1 DEF Left, HasLeft, Landed
    <3> QED
      BY <3>1, <3>2, <3>3
  <2>5. ASSUME NEW f \in Events, f # e
        PROVE  /\ e.start # f.start
               /\ e.start < f.start =>
                    /\ e.end + DepartGap < f.start
                    /\ ~e.open
                    /\ \E t \in e.end..f.start : HasLeft(t)
    <3>1. \/ ~e.open /\ GoneBefore(track, e.end, f.start)
          \/ ~f.open /\ GoneBefore(track, f.end, e.start)
      BY <2>1, <2>5, EventsFollow DEF Events
    <3>2. CASE ~e.open /\ GoneBefore(track, e.end, f.start)
      BY <2>2, <2>4, <3>2
    <3>3. CASE GoneBefore(track, f.end, e.start)
      BY <2>2, <2>4, <3>3
    <3> QED
      BY <3>1, <3>2, <3>3
  <2> QED
    BY <2>3, <2>5
<1> QED
  BY <1>1, DetectionTypeOK, PTL

\* No stay of the dwell between two fixes still alongside is missed, whatever else
\* the track holds and whatever the thresholds.
THEOREM NoStayIsMissed == Spec => []SteadyStayIsDetected
<1>1. TypeOK => SteadyStayIsDetected
  <2> SUFFICES ASSUME TypeOK, NEW t \in Times, NEW u \in Times,
                      WouldBerth(t), WouldBerth(u), u - t >= Dwell,
                      \A w \in t..u : ~HasLeft(w)
               PROVE  \E e \in Events : e.start <= t /\ u <= e.end
    BY DEF SteadyStayIsDetected
  <2> DEFINE q == ScanOf(track)
  <2>1. track \in Fixes
    BY DEF TypeOK, Fixes
  <2>2. Sound(track, MaxTime, q) /\ Watchful(track, MaxTime, q)
    BY <2>1, WholeScan
  <2>3. /\ Enters(track, t) /\ Enters(track, u) /\ Stayed(track, t, u)
        /\ u <= MaxTime
    BY DEF Enters, WouldBerth, Landed, Stayed, Left, HasLeft, Times
  <2>4. /\ q.events \subseteq Events
        /\ q.start # Before /\ q.last - q.start >= Dwell =>
             \E e \in Events : e.start = q.start /\ e.end = q.last
    BY ScannedAreDetected DEF Events
  <2>5. q.start # Before => q.start \in Int /\ q.last \in Int
    BY <2>2 DEF Sound, SegmentSound, Times
  <2> HIDE DEF q
  <2>6. \/ \E e \in q.events : e.start <= t /\ u <= e.end
        \/ q.start # Before /\ q.start <= t /\ u <= q.last
    BY <2>2, <2>3 DEF Watchful
  <2>7. CASE \E e \in q.events : e.start <= t /\ u <= e.end
    BY <2>4, <2>7
  <2>8. CASE q.start # Before /\ q.start <= t /\ u <= q.last
    <3>1. q.last - q.start >= Dwell
      BY <2>5, <2>8 DEF Times
    <3> QED
      BY <2>4, <2>8, <3>1
  <2> QED
    BY <2>6, <2>7, <2>8
<1> QED
  BY <1>1, DetectionTypeOK, PTL

\* On every track a berthing ends at the last fix alongside before a departure seen
\* the gap or more later, and holds none; it is open until such a departure or a
\* silence the feed outlived (detect_berthings).
THEOREM BerthingsEndOnDepartures ==
  ASSUME ThresholdsInOrder
  PROVE  Spec => []DeparturesEndBerthings
<1>1. TypeOK => DeparturesEndBerthings
  <2> SUFFICES ASSUME TypeOK, NEW e \in Events
               PROVE  /\ \A u, w \in e.start..e.end : ~Leaves(u, w)
                      /\ e.open <=> /\ ~GoneStale(e.end, feed)
                                    /\ \A w \in Times : ~Leaves(e.end, w)
    BY DEF DeparturesEndBerthings
  <2>1. track \in Fixes /\ e \in DetectBerthings(track, feed)
    BY DEF TypeOK, Fixes, Events
  <2>2. \A u, w : Leaves(u, w) <=> Leaving(track, u, w)
    BY DEF Leaves, Leaving, HasLeft, Left, IsThere, There, Landed, NotThereSince
  <2>3. ASSUME NEW u \in e.start..e.end, NEW w \in e.start..e.end, Leaving(track, u, w)
        PROVE  FALSE
    <3>1. e.start \in Int /\ e.end \in Int
      BY <2>1, DetectedCases DEF Event, Times
    <3>2. Left(track, w) /\ w - u >= DepartGap /\ NotThereSince(track, u, w)
      BY <2>3 DEF Leaving
    <3>3. PICK v \in e.start..w : There(track, v) /\ w - v < DepartGap
      BY <2>1, <3>2, EventsAttended DEF NoAbsence
    <3>4. v \in (u + 1)..w
      BY <3>1, <3>2, <3>3
    <3> QED
      BY <3>2, <3>3, <3>4 DEF NotThereSince
  <2>4. e.open <=> ~GoneStale(e.end, feed) /\ \A w \in Times : ~Leaving(track, e.end, w)
    BY <2>1, EventsAttended
  <2> QED
    BY <2>2, <2>3, <2>4
<1> QED
  BY <1>1, DetectionTypeOK, PTL

\* What closes a row.
ClosingStep ==
  \A t \in Times :
    rows[t].open /\ ~rows'[t].open =>
      \/ \E u \in Times : u > rows'[t].end /\ HasLeft(u)
      \/ feed - rows'[t].end >= StaleAfter

\* However late fixes land and whatever bound a run was given, a row is closed on a
\* departure seen or a feed heard long after: silence closes nothing.
THEOREM SilenceClosesNothing == Spec => DeadFeedClosesNothing
<1>1. TypeOK /\ [Next]_vars => ClosingStep
  <2> SUFFICES ASSUME TypeOK, [Next]_vars, NEW t \in Times,
                      rows[t].open, ~rows'[t].open
               PROVE  \/ \E u \in Times : u > rows'[t].end /\ HasLeft(u)
                      \/ feed - rows'[t].end >= StaleAfter
    BY DEF ClosingStep
  <2>1. PICK from \in Sinces : Derive(from)
    BY DEF Next, vars, Tick, FixLands, OtherVesselFix
  <2> DEFINE x == Since(from)
             events == DetectBerthings(x, feed)
  <2>2. rows' = Upserted(events) /\ x \in Fixes
    BY <2>1, SinceType DEF Derive
  <2>3. PICK e \in events : rows'[t] = RowOf(e)
    <3> HIDE DEF events
    <3> QED
      BY <2>2, UpsertedCases
  <2>4. ~e.open /\ rows'[t].end = e.end
    BY <2>3 DEF RowOf
  <2>5. /\ e \in Event
        /\ \/ e \in ScanOf(x).events
           \/ e.open <=> ~GoneStale(e.end, feed)
    BY <2>2, DetectedCases
  <2>6. CASE e \in ScanOf(x).events
    <3>1. GoneBefore(x, e.end, MaxTime + 1)
      BY <2>2, <2>6, WholeScan DEF Sound, EventSound
    <3>2. PICK w \in Times : Left(x, w) /\ e.end + DepartGap <= w
      BY <3>1 DEF GoneBefore
    <3>3. HasLeft(w)
      BY <3>2 DEF Left, Since, HasLeft, Landed
    <3>4. w > e.end
      BY <2>5, <3>2 DEF Event, Times
    <3> QED
      BY <2>4, <3>3, <3>4
  <2>7. CASE e.open <=> ~GoneStale(e.end, feed)
    BY <2>4, <2>7 DEF GoneStale
  <2> QED
    BY <2>5, <2>6, <2>7
<1>2. Spec => [][ClosingStep]_vars
  BY <1>1, DetectionTypeOK, PTL DEF Spec
<1> QED
  BY <1>2 DEF DeadFeedClosesNothing, ClosingStep

-----------------------------------------------------------------------------
(***************************************************************************)
(* The rows.                                                               *)
(***************************************************************************)

\* Nothing has landed for an instant after t.
NothingAfter(t) == \A u \in Times : u > t => track[u] = NoFix

\* A fix that lands last is the next step of the scan.
LEMMA LandingSteps ==
  ASSUME TypeOK, NEW n \in Times, NothingAfter(n), NEW k \in Kinds, FixLands(n, k)
  PROVE  /\ Sound(track, n - 1, ScanOf(track))
         /\ ScanOf(track') = ScanStep(ScanOf(track), n, k)
  <1> DEFINE y == [track EXCEPT ![n] = k]
  <1>0. n \in Times /\ track \in Fixes /\ track' = y
    BY DEF TypeOK, Fixes, FixLands
  <1>1. y[n] = k /\ \A u \in Times : u # n => y[u] = track[u]
    BY <1>0 DEF Fixes
  <1>2. \A u \in Times : u > n => y[u] = NoFix /\ track[u] = NoFix
    BY <1>0, <1>1 DEF NothingAfter, Times
  <1>3. \A u \in Times : u < n => track[u] = y[u]
    BY <1>0, <1>1 DEF Times
  <1> HIDE DEF y
  <1>4. PICK g : IsScan(g, track) /\ ScanOf(track) = g[MaxTime]
    BY ScanExists
  <1>5. PICK h : IsScan(h, y) /\ ScanOf(y) = h[MaxTime]
    BY ScanExists
  <1>6. g[MaxTime] = g[n] /\ h[MaxTime] = h[n]
    BY <1>0, <1>2, <1>4, <1>5, SilentAfter
  <1>7. /\ n - 1 \in Before..(n - 1)
        /\ n - 1 \in Before..MaxTime
    BY <1>0 DEF Before, Times
  <1>8. g[n - 1] = h[n - 1]
    BY <1>0, <1>3, <1>4, <1>5, <1>7, SameUntil
  <1>9. g[n] = g[n - 1]
    BY <1>0, <1>4 DEF IsScan, ScanStep, FixLands
  <1>10. h[n] = ScanStep(h[n - 1], n, k)
    BY <1>0, <1>1, <1>5 DEF IsScan
  <1>11. Sound(track, n - 1, g[n - 1])
    BY <1>0, <1>4, <1>7, ScanIsSound
  <1> QED
    BY <1>0, <1>4, <1>5, <1>6, <1>8, <1>9, <1>10, <1>11

\* Every event of a track is still one, begun where it began and ending no earlier,
\* after a fix lands last and whatever is heard of other vessels.
LEMMA EventsGrow ==
  ASSUME TypeOK, NEW n \in Times, NothingAfter(n), NEW k \in Kinds, FixLands(n, k),
         NEW e \in Events
  PROVE  \E f \in Events' : f.start = e.start /\ e.end <= f.end
  <1> DEFINE q == ScanOf(track)
             r == ScanOf(track')
  <1>1. /\ Sound(track, n - 1, q)
        /\ r = ScanStep(q, n, k)
    BY LandingSteps
  <1>2. /\ n \in Int /\ q \in Scanned
        /\ q.start # Before => /\ q.start \in Int /\ q.last \in Int
                               /\ q.last <= n - 1
    BY <1>1 DEF Sound, SegmentSound, TypeOK, Times
  <1>3. e \in Event /\ (e \in q.events \/ Trailing(q, e))
    BY DetectedCases DEF TypeOK, Fixes, Events
  <1>4. /\ r.events \subseteq Events'
        /\ r.start # Before /\ r.last - r.start >= Dwell =>
             \E f \in Events' : f.start = r.start /\ f.end = r.last
    <2>1. Events' = DetectBerthings(track', feed')
      BY DEF Events, DetectBerthings, GoneStale
    <2> QED
      BY <2>1, ScannedAreDetected
  <1>5. \/ Keeps(q, n, k) /\ r = q
        \/ Opens(q, n, k, r)
        \/ Extends(q, n, k, r)
        \/ Closes(q, n, k, r)
    BY <1>1, <1>2, ScanStepCases
  <1> HIDE DEF q, r
  <1>6. CASE e \in q.events
    <2>1. Closes(q, n, k, r) => r.events = Emitted(q.events, q.start, q.last, FALSE)
      BY DEF Closes
    <2>2. q.events \subseteq r.events
      BY <1>5, <2>1 DEF Opens, Extends, Emitted
    <2>3. e.end <= e.end
      BY <1>3 DEF Event, Times
    <2> QED
      BY <1>4, <1>6, <2>2, <2>3
  <1>7. CASE Trailing(q, e)
    <2>1. /\ q.start # Before /\ q.last - q.start >= Dwell
          /\ e.start = q.start /\ e.end = q.last
      BY <1>7 DEF Trailing
    <2>2. CASE r = q
      <3>1. q.last <= q.last
        BY <1>2, <2>1
      <3> QED
        BY <1>4, <2>1, <2>2, <3>1
    <2>3. CASE Extends(q, n, k, r)
      <3>1. r.start = q.start /\ r.last = n
        BY <2>3 DEF Extends
      <3>2. r.last - r.start >= Dwell /\ q.last <= r.last
        BY <1>2, <2>1, <3>1
      <3> QED
        BY <1>4, <2>1, <3>1, <3>2
    <2>4. CASE Closes(q, n, k, r)
      <3> DEFINE m == [start |-> q.start, end |-> q.last, open |-> FALSE]
      <3>1. r.events = Emitted(q.events, q.start, q.last, FALSE)
        BY <2>4 DEF Closes
      <3>2. m \in r.events
        BY <2>1, <3>1 DEF Emitted
      <3>3. m.start = e.start /\ m.end = e.end /\ e.end <= e.end
        BY <1>2, <2>1
      <3> QED
        BY <1>4, <3>2, <3>3
    <2>5. ~Opens(q, n, k, r)
      BY <2>1 DEF Opens
    <2> QED
      BY <1>5, <2>2, <2>3, <2>4, <2>5
  <1> QED
    BY <1>3, <1>6, <1>7

\* An unchanged row stands as long as its event only grows.
LEMMA RowStands ==
  ASSUME TypeOK, TypeOK', NEW t \in Times, IsABerthing(rows[t], t, Events),
         \A e \in Events : \E f \in Events' : f.start = e.start /\ e.end <= f.end
  PROVE  IsABerthing(rows[t], t, Events')
  <1>1. PICK e \in Events : e.start = t /\ (rows[t].open \/ rows[t].end <= e.end)
    BY DEF IsABerthing
  <1>2. PICK f \in Events' : f.start = e.start /\ e.end <= f.end
    OBVIOUS
  <1>3. e.end \in Int
    BY DetectedCases DEF Events, Event, TypeOK, Fixes, Times
  <1>4. f.end \in Int
    <2>1. f \in DetectBerthings(track', feed')
      BY DEF Events, DetectBerthings, GoneStale
    <2> QED
      BY <2>1, DetectedCases DEF Event, TypeOK, Fixes, Times
  <1>5. rows[t].end \in Int
    BY DEF TypeOK, Times, Before, After, DetectionAssumption
  <1>6. rows[t].open \/ rows[t].end <= f.end
    BY <1>1, <1>2, <1>3, <1>4, <1>5
  <1> QED
    BY <1>1, <1>2, <1>6 DEF IsABerthing

\* The other vessels move the feed clock, which decides nothing but whether the
\* last event is still open.
LEMMA FeedMovesNoBounds ==
  ASSUME TypeOK, UNCHANGED track, NEW e \in Events
  PROVE  \E f \in Events' : f.start = e.start /\ e.end <= f.end
  <1>1. Events' = DetectBerthings(track, feed')
    BY DEF Events, DetectBerthings, GoneStale
  <1>2. e \in Event /\ (e \in ScanOf(track).events \/ Trailing(ScanOf(track), e))
    BY DetectedCases DEF Events, TypeOK, Fixes
  <1>3. e.end <= e.end
    BY <1>2 DEF Event, Times
  <1>4. CASE e \in ScanOf(track).events
    BY <1>1, <1>3, <1>4, ScannedAreDetected
  <1>5. CASE Trailing(ScanOf(track), e)
    <2>1. /\ ScanOf(track).start # Before
          /\ ScanOf(track).last - ScanOf(track).start >= Dwell
          /\ e.start = ScanOf(track).start /\ e.end = ScanOf(track).last
      BY <1>5 DEF Trailing
    <2>2. PICK f \in DetectBerthings(track, feed') :
            f.start = ScanOf(track).start /\ f.end = ScanOf(track).last
      BY <2>1, ScannedAreDetected
    <2> QED
      BY <1>1, <1>3, <2>1, <2>2
  <1> QED
    BY <1>2, <1>4, <1>5

\* A run puts under a key the event that begins there, of a track cut before or not
\* at all.
LEMMA RunsStand ==
  ASSUME TypeOK, NEW from \in Sinces, Derive(from), NEW t \in Times, from \notin 1..t,
         rows'[t] # NoRow, rows[t] # NoRow => IsABerthing(rows[t], t, Events)
  PROVE  IsABerthing(rows'[t], t, Events)
  <1> DEFINE x == Since(from)
             cut == DetectBerthings(x, feed)
  <1>1. rows' = Upserted(cut) /\ x \in Fixes
    BY SinceType DEF Derive
  <1>2. CASE rows'[t] = rows[t]
    BY <1>2
  <1>3. CASE \E e \in cut : e.start = t /\ rows'[t] = RowOf(e)
    <2>1. PICK e \in cut : e.start = t /\ rows'[t] = RowOf(e)
      BY <1>3
    <2>2. Enters(x, t)
      BY <1>1, <2>1, EventsDwell
    <2>3. t >= from
      BY <2>2 DEF Enters, Since
    <2>4. from = 0
      BY <2>3 DEF Times
    <2>5. x = track
      BY <2>4 DEF Since, TypeOK, Times
    <2>6. e \in Events
      BY <2>1, <2>5 DEF Events
    <2>7. e.end <= e.end
      BY <1>1, <2>1, DetectedCases DEF Event, Times
    <2>8. rows'[t].open \/ rows'[t].end = e.end
      BY <2>1 DEF RowOf
    <2> QED
      BY <2>1, <2>6, <2>7, <2>8 DEF IsABerthing
  <1> QED
    <2> HIDE DEF cut
    <2> QED
      BY <1>1, <1>2, <1>3, UpsertedCases

\* What strands a row.
FollowingStep ==
  \A now \in {[track |-> track', feed |-> feed']}, t \in Times :
       rows'[t] # NoRow =>
         \/ IsABerthing(rows'[t], t, DetectBerthings(now.track, now.feed))
         \/ rows[t] # NoRow /\ ~IsABerthing(rows[t], t, Events)
         \/ \E u, v \in Times : u < v /\ Landed(v) /\ ~Landed(u) /\ Landed(u)'
         \/ \E from \in Sinces : from \in 1..t /\ Derive(from)

\* However late fixes land and whatever bounds the runs are given, only a fix out of
\* order, or a run that cuts the history at or before the start of a row, leaves that
\* row no berthing of the track as it is now (derive.py).
THEOREM OnlyDisorderStrandsRows == Spec => RowsFollowTheTrack
<1>1. TypeOK /\ TypeOK' /\ [Next]_vars => FollowingStep
  <2> SUFFICES ASSUME TypeOK, TypeOK', [Next]_vars, NEW t \in Times, rows'[t] # NoRow,
                      rows[t] # NoRow => IsABerthing(rows[t], t, Events),
                      \A u, v \in Times : u < v /\ Landed(v) /\ ~Landed(u) => ~Landed(u)',
                      \A from \in Sinces : from \in 1..t => ~Derive(from)
               PROVE  IsABerthing(rows'[t], t, Events')
    <3>1. DetectBerthings(track', feed') = Events'
      BY DEF Events, DetectBerthings, GoneStale
    <3> QED
      BY <3>1 DEF FollowingStep
  <2>1. CASE UNCHANGED <<track, rows>>
    <3>1. IsABerthing(rows[t], t, Events)
      BY <2>1
    <3>2. \A e \in Events : \E f \in Events' : f.start = e.start /\ e.end <= f.end
      BY <2>1, FeedMovesNoBounds
    <3>3. IsABerthing(rows[t], t, Events')
      BY <3>1, <3>2, RowStands
    <3> QED
      BY <2>1, <3>3
  <2>2. ASSUME NEW n \in Times, NEW k \in Kinds, FixLands(n, k)
        PROVE  IsABerthing(rows'[t], t, Events')
    <3>1. UNCHANGED rows /\ ~Landed(n) /\ track' = [track EXCEPT ![n] = k]
      BY <2>2 DEF FixLands, Landed
    <3>2. Landed(n)'
      BY <3>1 DEF TypeOK, Landed, DetectionAssumption
    <3>3. NothingAfter(n)
      BY <3>1, <3>2 DEF NothingAfter, Landed
    <3>4. \A e \in Events : \E f \in Events' : f.start = e.start /\ e.end <= f.end
      BY <2>2, <3>3, EventsGrow
    <3>5. IsABerthing(rows[t], t, Events')
      BY <3>1, <3>4, RowStands
    <3> QED
      BY <3>1, <3>5
  <2>3. ASSUME NEW from \in Sinces, Derive(from)
        PROVE  IsABerthing(rows'[t], t, Events')
    <3>1. from \notin 1..t
      BY <2>3
    <3>2. IsABerthing(rows'[t], t, Events)
      BY <2>3, <3>1, RunsStand
    <3>3. Events' = Events
      BY <2>3 DEF Derive, Events, DetectBerthings, GoneStale
    <3> QED
      BY <3>2, <3>3
  <2> QED
    BY <2>1, <2>2, <2>3 DEF Next, vars, Tick, OtherVesselFix
<1>2. Spec => [][FollowingStep]_vars
  BY <1>1, DetectionTypeOK, PTL DEF Spec
<1> QED
  BY <1>2 DEF RowsFollowTheTrack, FollowingStep

-----------------------------------------------------------------------------
(***************************************************************************)
(* The worker.                                                             *)
(***************************************************************************)

\* The worker, its heartbeat and the console's chip do to the track and the rows
\* what the detection alone may do, or nothing: cycles that roll back, are killed
\* or hang take nothing from the theorems above (app/occupancy/run.py).
THEOREM WorkerDetects == WorkerSpec => Spec
<1>1. WorkerInit => Init
  BY DEF WorkerInit
<1>2. [WorkerNext]_allVars => [Next]_vars
  BY DEF WorkerNext, allVars, workerVars, TimePasses, FeedMoves, CycleStarts,
         CycleCommits, CycleRollsBack, BeatLands, NoBeat, PanelLoads, PanelFails,
         Next, vars
<1> QED
  BY <1>1, <1>2, PTL DEF WorkerSpec, Spec

\* The worker's state, the heartbeat and the chip keep their types: no age beyond
\* what classify tells apart, no status it does not know (app/workers.py).
THEOREM WorkerTypes == WorkerSpec => []WorkerTypeOK
<1> DEFINE Rest == /\ worker \in {"asleep", "working", "ok", "error"}
                   /\ beat \in [status: {"none", "ok", "error"},
                                age: 0..(MissedBeats + 1)]
                   /\ panel \in {"none", "unavailable", "offline", "ok", "error", "stale"}
<1>1. WorkerInit => Rest
  BY WorkerAssumption DEF WorkerInit
<1>2. Rest /\ [WorkerNext]_allVars => Rest'
  <2> SUFFICES ASSUME Rest, [WorkerNext]_allVars PROVE Rest'
    OBVIOUS
  <2>1. CASE TimePasses
    <3>1. \A age \in 0..(MissedBeats + 1) : Older(age) \in 0..(MissedBeats + 1)
      BY WorkerAssumption DEF Older
    <3>2. beat' \in [status: {"none", "ok", "error"}, age: 0..(MissedBeats + 1)]
      BY <2>1, <3>1, WorkerAssumption DEF TimePasses
    <3> QED
      BY <2>1, <3>2 DEF TimePasses
  <2>2. CASE PanelLoads
    <3>1. Classify(beat) \in {"offline", "ok", "error", "stale"}
      BY WorkerAssumption DEF Classify
    <3> QED
      BY <2>2, <3>1 DEF PanelLoads
  <2>3. CASE BeatLands
    BY <2>3, WorkerAssumption DEF BeatLands
  <2>4. CASE CycleStarts \/ CycleCommits \/ CycleRollsBack \/ NoBeat \/ PanelFails
    BY <2>4 DEF CycleStarts, CycleCommits, CycleRollsBack, NoBeat, PanelFails
  <2>5. CASE FeedMoves \/ UNCHANGED allVars
    BY <2>5 DEF FeedMoves, workerVars, allVars
  <2> QED
    BY <2>1, <2>2, <2>3, <2>4, <2>5 DEF WorkerNext
<1>3. TypeOK /\ Rest => WorkerTypeOK
  BY DEF WorkerTypeOK
<1> QED
  BY <1>1, <1>2, <1>3, WorkerDetects, DetectionTypeOK, PTL DEF WorkerSpec
=============================================================================
