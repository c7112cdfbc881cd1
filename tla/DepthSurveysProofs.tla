------------------------- MODULE DepthSurveysProofs -------------------------
(***************************************************************************)
(* What the draft gate is worth, for every file, bin, hull and draft: the  *)
(* bins of a survey hide no sounding from it, and a booking stands on the  *)
(* survey that passed it.                                                  *)
(***************************************************************************)
EXTENDS DepthSurveys, WellFoundedInduction, TLAPS

(***************************************************************************)
(* The shallowest of some soundings.                                       *)
(***************************************************************************)

\* A set of natural numbers has a least one.
LEMMA NaturalsHaveALeast ==
  ASSUME NEW T, T \subseteq Nat, T # {}
  PROVE  \E x \in T : \A y \in T : x <= y
  <1>1. PICK x \in T : \A y \in T : <<y, x>> \notin OpToRel(<, Nat)
    BY NatLessThanWellFounded, WFMin
  <1>2. \A y \in T : ~(y < x)
    BY <1>1, Zenon DEF OpToRel
  <1>3. \A y \in T : x <= y
    <2> SUFFICES ASSUME NEW y \in T PROVE x <= y
      OBVIOUS
    <2> QED
      BY <1>2
  <1> QED
    BY <1>3

\* So has a set of integers that is bounded below, and Least is it.
LEMMA LeastIsLeast ==
  ASSUME NEW S, S \subseteq Int, S # {}, NEW low \in Int,
         \A x \in S : low <= x
  PROVE  Least(S) \in S /\ \A y \in S : Least(S) <= y
  <1> DEFINE T == {n \in Nat : n + low \in S}
  <1>1. T # {}
    <2>1. PICK x \in S : TRUE
      OBVIOUS
    <2>2. x - low \in Nat /\ (x - low) + low = x
      BY <2>1
    <2> QED
      BY <2>2
  <1>2. PICK t \in T : \A u \in T : t <= u
    <2> HIDE DEF T
    <2> QED
      BY <1>1, NaturalsHaveALeast DEF T
  <1>3. ASSUME NEW y \in S PROVE t + low <= y
    <2>1. y - low \in T
      BY <1>3
    <2> QED
      BY <1>2, <2>1
  <1>4. \E x \in S : \A y \in S : x <= y
    BY <1>2, <1>3
  <1> QED
    BY <1>4 DEF Least

\* A set of integers that is bounded above has a greatest one.
LEMMA GreatestIsGreatest ==
  ASSUME NEW S, S \subseteq Int, S # {}, NEW high \in Int,
         \A x \in S : x <= high
  PROVE  Greatest(S) \in S /\ \A y \in S : Greatest(S) >= y
  <1> DEFINE T == {n \in Nat : high - n \in S}
  <1>1. T # {}
    <2>1. PICK x \in S : TRUE
      OBVIOUS
    <2>2. high - x \in Nat /\ high - (high - x) = x
      BY <2>1
    <2> QED
      BY <2>2
  <1>2. PICK t \in T : \A u \in T : t <= u
    <2> HIDE DEF T
    <2> QED
      BY <1>1, NaturalsHaveALeast DEF T
  <1>3. ASSUME NEW y \in S PROVE high - t >= y
    <2>1. high - y \in Nat /\ high - (high - y) = y
      BY <1>3
    <2>2. t <= high - y
      BY <1>2, <2>1
    <2> QED
      BY <2>1, <2>2
  <1>4. \E x \in S : \A y \in S : x >= y
    BY <1>2, <1>3
  <1> QED
    BY <1>4 DEF Greatest

-----------------------------------------------------------------------------
(***************************************************************************)
(* The bins of a survey.                                                   *)
(***************************************************************************)

\* A station lies in its bin, also a negative one and one on the edge.
LEMMA StationInItsBin ==
  ASSUME NEW sta \in Int
  PROVE  /\ BinLo(sta) \in Int
         /\ BinLo(sta) <= sta
         /\ sta < BinLo(sta) + Bin
  BY DepthAssumption DEF BinLo

\* What is kept of a file has the type of a sounding.
LEMMA KeptType ==
  ASSUME NEW f \in Files
  PROVE  \A s \in Kept(f) : s.sta \in -Far..Far /\ s.z \in -Far..Far
  BY DepthAssumption DEF Kept, Sounding

\* The bin of a sounding answers a depth of its own soundings, and none of them is
\* shallower (min(z) of import_survey).
LEMMA BinHoldsItsSoundings ==
  ASSUME NEW f \in Files, NEW s \in Kept(f)
  PROVE  LET depth == Least({t.z : t \in Column(f, s.sta)})
         IN  /\ depth \in Int
             /\ -Far <= depth
             /\ depth <= s.z
             /\ \E t \in Kept(f) : t.z = depth /\ BinLo(t.sta) = BinLo(s.sta)
  <1> DEFINE D == {t.z : t \in Column(f, s.sta)}
  <1>1. s \in Column(f, s.sta) /\ Column(f, s.sta) \subseteq Kept(f)
    BY DEF Column
  <1>2. D \subseteq Int /\ s.z \in D /\ \A d \in D : -Far <= d
    BY <1>1, KeptType, DepthAssumption
  <1>3. Least(D) \in D /\ \A d \in D : Least(D) <= d
    <2>1. -Far \in Int
      BY DepthAssumption
    <2> HIDE DEF D
    <2> QED
      BY <1>2, <2>1, LeastIsLeast
  <1>4. PICK t \in Column(f, s.sta) : t.z = Least(D)
    BY <1>3
  <1>5. t \in Kept(f) /\ BinLo(t.sta) = BinLo(s.sta)
    BY <1>4 DEF Column
  <1> QED
    BY <1>2, <1>3, <1>4, <1>5

\* Every sounding is in a segment no deeper than it ...
LEMMA SoundingHasASegment ==
  ASSUME NEW f \in Files, NEW s \in Kept(f)
  PROVE  \E g \in Segments(f) :
            /\ g.lo <= s.sta /\ s.sta < g.hi
            /\ g.depth <= s.z
  <1> DEFINE g == [lo |-> BinLo(s.sta), hi |-> BinLo(s.sta) + Bin,
                   depth |-> Least({t.z : t \in Column(f, s.sta)})]
  <1>1. g \in Segments(f)
    BY DEF Segments
  <1>2. s.sta \in Int
    BY KeptType, DepthAssumption
  <1>3. g.lo <= s.sta /\ s.sta < g.hi
    BY <1>2, StationInItsBin
  <1>4. g.depth <= s.z
    BY BinHoldsItsSoundings
  <1> QED
    BY <1>1, <1>3, <1>4

\* ... and every segment has the depth of a sounding in it.
LEMMA SegmentHasASounding ==
  ASSUME NEW f \in Files, NEW g \in Segments(f)
  PROVE  /\ g.lo \in Int /\ g.hi \in Int /\ g.depth \in Int
         /\ -Far <= g.depth
         /\ \E s \in Kept(f) : s.z = g.depth /\ g.lo <= s.sta /\ s.sta < g.hi
         /\ g.hi = g.lo + Bin
  <1>1. PICK s \in Kept(f) :
          g = [lo |-> BinLo(s.sta), hi |-> BinLo(s.sta) + Bin,
               depth |-> Least({t.z : t \in Column(f, s.sta)})]
    BY DEF Segments
  <1>2. PICK t \in Kept(f) : t.z = g.depth /\ BinLo(t.sta) = BinLo(s.sta)
    BY <1>1, BinHoldsItsSoundings
  <1>3. s.sta \in Int /\ t.sta \in Int
    BY KeptType, DepthAssumption
  <1>4. BinLo(s.sta) \in Int /\ g.depth \in Int /\ -Far <= g.depth
    BY <1>1, <1>3, StationInItsBin, BinHoldsItsSoundings
  <1>5. BinLo(t.sta) <= t.sta /\ t.sta < BinLo(t.sta) + Bin
    BY <1>3, StationInItsBin
  <1>6. g.lo = BinLo(s.sta) /\ g.hi = g.lo + Bin
    BY <1>1
  <1>7. t.z = g.depth /\ g.lo <= t.sta /\ t.sta < g.hi
    BY <1>2, <1>5, <1>6
  <1> QED
    BY <1>4, <1>6, <1>7, DepthAssumption

\* The extent of a survey of some soundings covers its segments.
LEMMA ExtentCoversSegments ==
  ASSUME NEW f \in Files, NEW d, Kept(f) # {}
  PROVE  LET r == Reduced(f, d)
         IN  /\ r.lo \in Int /\ r.hi \in Int
             /\ \A g \in Segments(f) : r.lo <= g.lo /\ g.hi <= r.hi
  <1> DEFINE L == {g.lo : g \in Segments(f)}
             H == {g.hi : g \in Segments(f)}
  <1>1. Segments(f) # {}
    BY SoundingHasASegment
  <1>2. \A g \in Segments(f) :
          /\ g.lo \in Int /\ -Far - Bin <= g.lo
          /\ g.hi \in Int /\ g.hi <= Far + Bin
    <2> SUFFICES ASSUME NEW g \in Segments(f)
                 PROVE  /\ g.lo \in Int /\ -Far - Bin <= g.lo
                        /\ g.hi \in Int /\ g.hi <= Far + Bin
      OBVIOUS
    <2>1. PICK s \in Kept(f) : g.lo <= s.sta /\ s.sta < g.hi
      BY SegmentHasASounding
    <2>2. s.sta \in Int /\ -Far <= s.sta /\ s.sta <= Far
      BY KeptType, DepthAssumption
    <2>3. g.lo \in Int /\ g.hi \in Int /\ g.hi = g.lo + Bin
      BY SegmentHasASounding
    <2> QED
      BY <2>1, <2>2, <2>3, DepthAssumption
  <1>3. L \subseteq Int /\ L # {} /\ \A x \in L : -Far - Bin <= x
    BY <1>1, <1>2
  <1>4. H \subseteq Int /\ H # {} /\ \A x \in H : x <= Far + Bin
    BY <1>1, <1>2
  <1>5. -Far - Bin \in Int /\ Far + Bin \in Int
    BY DepthAssumption
  <1>6. Least(L) \in L /\ \A x \in L : Least(L) <= x
    <2> HIDE DEF L
    <2> QED
      BY <1>3, <1>5, LeastIsLeast
  <1>7. Greatest(H) \in H /\ \A x \in H : Greatest(H) >= x
    <2> HIDE DEF H
    <2> QED
      BY <1>4, <1>5, GreatestIsGreatest
  <1>8. Reduced(f, d).lo = Least(L) /\ Reduced(f, d).hi = Greatest(H)
    BY DEF Reduced
  <1>9. \A g \in Segments(f) : Least(L) <= g.lo /\ g.hi <= Greatest(H)
    <2> SUFFICES ASSUME NEW g \in Segments(f)
                 PROVE  Least(L) <= g.lo /\ g.hi <= Greatest(H)
      OBVIOUS
    <2>1. g.lo \in L /\ g.hi \in H
      OBVIOUS
    <2>2. Least(L) <= g.lo /\ Greatest(H) >= g.hi
      BY <2>1, <1>6, <1>7
    <2>3. Greatest(H) \in Int /\ g.hi \in Int
      BY <1>4, <1>7, <2>1
    <2> QED
      BY <2>2, <2>3
  <1> QED
    BY <1>3, <1>4, <1>6, <1>7, <1>8, <1>9

-----------------------------------------------------------------------------
(***************************************************************************)
(* The gate, over surveys each of which is the reduction of some file.     *)
(***************************************************************************)

SurveysAreReduced ==
  \A i \in Ids : Present(i) =>
    \E f \in Files, d \in Dates : Kept(f) # {} /\ surveys[i] = Reduced(f, d)

\* Of some surveys one is the newest.
LEMMA LatestExists ==
  ASSUME SurveysAreReduced, NEW S, S \subseteq Ids, S # {},
         \A i \in S : Present(i)
  PROVE  Latest(S) \in S /\ \A j \in S : Newer(Latest(S), j)
  <1> DEFINE D == {surveys[i].date : i \in S}
  <1>1. \A i \in S : surveys[i].date \in Dates
    <2> SUFFICES ASSUME NEW i \in S PROVE surveys[i].date \in Dates
      OBVIOUS
    <2>1. PICK f \in Files, d \in Dates : surveys[i] = Reduced(f, d)
      BY DEF SurveysAreReduced
    <2> QED
      BY <2>1 DEF Reduced
  <1>2. D \subseteq Int /\ D # {} /\ \A x \in D : x <= MaxDate
    BY <1>1, DepthAssumption DEF Dates
  <1>3. Greatest(D) \in D /\ \A x \in D : Greatest(D) >= x
    <2>1. MaxDate \in Int
      BY DepthAssumption
    <2> HIDE DEF D
    <2> QED
      BY <1>2, <2>1, GreatestIsGreatest
  <1> DEFINE N == {i \in S : surveys[i].date = Greatest(D)}
  <1>4. N \subseteq Int /\ N # {} /\ \A i \in N : i <= MaxSurveys
    <2>1. \E i \in S : surveys[i].date = Greatest(D)
      BY <1>3
    <2>2. \A i \in S : i \in Int /\ i <= MaxSurveys
      BY DepthAssumption DEF Ids
    <2> QED
      BY <2>1, <2>2
  <1>5. Greatest(N) \in N /\ \A j \in N : Greatest(N) >= j
    <2>1. MaxSurveys \in Int
      BY DepthAssumption
    <2> HIDE DEF N
    <2> QED
      BY <1>4, <2>1, GreatestIsGreatest
  <1>6. ASSUME NEW j \in S PROVE Newer(Greatest(N), j)
    <2>1. surveys[Greatest(N)].date = Greatest(D) /\ Greatest(N) \in Ids
      BY <1>5
    <2>2. surveys[j].date \in D
      BY <1>6
    <2>3. Greatest(D) \in Int /\ surveys[j].date \in Int
      BY <1>2, <1>3, <2>2
    <2>4. Greatest(D) >= surveys[j].date
      BY <1>3, <2>2
    <2>5. CASE surveys[j].date = Greatest(D)
      <3>1. j \in N
        BY <1>6, <2>5
      <3>2. Greatest(N) >= j
        BY <1>5, <3>1
      <3> QED
        BY <2>1, <2>5, <3>2 DEF Newer
    <2>6. CASE surveys[j].date # Greatest(D)
      <3>1. surveys[Greatest(N)].date > surveys[j].date
        BY <2>1, <2>3, <2>4, <2>6
      <3> QED
        BY <3>1 DEF Newer
    <2> QED
      BY <2>5, <2>6
  <1>7. \E i \in S : \A j \in S : Newer(i, j)
    BY <1>5, <1>6
  <1> QED
    BY <1>7 DEF Latest

\* The governing survey is one of those that reach the stretch.
LEMMA GoverningReaches ==
  ASSUME SurveysAreReduced, NEW h, Governing(h) # None
  PROVE  Governing(h) \in Reaching(h)
  <1>1. Reaching(h) # {} /\ Governing(h) = Latest(Reaching(h))
    BY DEF Governing
  <1>2. Reaching(h) \subseteq Ids /\ \A i \in Reaching(h) : Present(i)
    BY DEF Reaching
  <1> QED
    BY <1>1, <1>2, LatestExists

\* The gate's answer under the survey that governs.
LEMMA ControllingIsASegments ==
  ASSUME SurveysAreReduced, NEW h,
         h.lo \in Int, h.hi \in Int, Governing(h) # None,
         NEW f \in Files, surveys[Governing(h)].segments = Segments(f)
  PROVE  LET bins == Under(Segments(f), h)
         IN  IF bins = {} THEN Controlling(h) = Unknown
             ELSE /\ Controlling(h) \in Int
                  /\ \E g \in bins : g.depth = Controlling(h)
                  /\ \A g \in bins : Controlling(h) <= g.depth
  <1> DEFINE bins == Under(Segments(f), h)
             D    == {g.depth : g \in bins}
  <1>1. CASE bins = {}
    BY <1>1 DEF Controlling
  <1>2. CASE bins # {}
    <2>1. bins \subseteq Segments(f)
      BY DEF Under
    <2>2. D \subseteq Int /\ D # {} /\ \A x \in D : -Far <= x
      BY <1>2, <2>1, SegmentHasASounding
    <2>3. Least(D) \in D /\ \A x \in D : Least(D) <= x
      <3>1. -Far \in Int
        BY DepthAssumption
      <3> HIDE DEF D
      <3> QED
        BY <2>2, <3>1, LeastIsLeast
    <2>4. Controlling(h) = Least(D)
      BY <1>2 DEF Controlling
    <2>5. \A g \in bins : Least(D) <= g.depth
      BY <2>3
    <2> QED
      BY <1>2, <2>2, <2>3, <2>4, <2>5
  <1> QED
    BY <1>1, <1>2

\* Hence the gate misses no shoal, the state of the uploads being what it may.
LEMMA ReducedSurveysHideNoShoal ==
  ASSUME SurveysAreReduced
  PROVE  GateMissesNoShoal
  <1> SUFFICES ASSUME NEW b \in Bookings, Governing(Hull[b]) # None
               PROVE  LET h == Hull[b]
                          g == Governing(h)
                      IN  /\ \A s \in Over(surveys[g].file, h) :
                               /\ Controlling(h) # Unknown
                               /\ Controlling(h) <= s.z
                          /\ Controlling(h) # Unknown =>
                               \E s \in Kept(surveys[g].file) :
                                 /\ s.z = Controlling(h)
                                 /\ h.lo - Bin < s.sta /\ s.sta < h.hi + Bin
    BY DEF GateMissesNoShoal
  <1> DEFINE h == Hull[b]
             g == Governing(h)
  <1>1. h.lo \in Int /\ h.hi \in Int
    BY DepthAssumption
  <1>2. g \in Ids /\ Present(g)
    BY GoverningReaches DEF Reaching
  <1>3. PICK f \in Files, d \in Dates : surveys[g] = Reduced(f, d)
    BY <1>2 DEF SurveysAreReduced
  <1>4. surveys[g].file = f /\ surveys[g].segments = Segments(f)
    BY <1>3 DEF Reduced
  <1> DEFINE bins == Under(Segments(f), h)
  <1>5. IF bins = {} THEN Controlling(h) = Unknown
        ELSE /\ Controlling(h) \in Int
             /\ \E gg \in bins : gg.depth = Controlling(h)
             /\ \A gg \in bins : Controlling(h) <= gg.depth
    BY <1>1, <1>4, ControllingIsASegments
  <1>6. ASSUME NEW s \in Over(f, h)
        PROVE  Controlling(h) # Unknown /\ Controlling(h) <= s.z
    <2>1. s \in Kept(f) /\ h.lo <= s.sta /\ s.sta <= h.hi
      BY DEF Over
    <2>2. s.sta \in Int /\ s.z \in Int
      BY <2>1, KeptType, DepthAssumption
    <2>3. PICK gg \in Segments(f) :
            gg.lo <= s.sta /\ s.sta < gg.hi /\ gg.depth <= s.z
      BY <2>1, SoundingHasASegment
    <2>4. gg.lo \in Int /\ gg.hi \in Int /\ gg.depth \in Int
      BY SegmentHasASounding
    <2>5. gg.lo <= h.hi /\ h.lo < gg.hi
      BY <1>1, <2>1, <2>2, <2>3, <2>4
    <2>6. gg \in bins
      BY <2>5 DEF Under
    <2>7. Controlling(h) \in Int /\ Controlling(h) <= gg.depth
      BY <1>5, <2>6
    <2> QED
      BY <2>2, <2>3, <2>4, <2>7, DepthAssumption
  <1>7. ASSUME Controlling(h) # Unknown
        PROVE  \E s \in Kept(f) :
                 /\ s.z = Controlling(h)
                 /\ h.lo - Bin < s.sta /\ s.sta < h.hi + Bin
    <2>1. PICK gg \in bins : gg.depth = Controlling(h)
      BY <1>5, <1>7
    <2>2. gg \in Segments(f) /\ gg.lo <= h.hi /\ h.lo < gg.hi
      BY <2>1 DEF Under
    <2>3. PICK s \in Kept(f) : s.z = gg.depth /\ gg.lo <= s.sta /\ s.sta < gg.hi
      BY <2>2, SegmentHasASounding
    <2>4. gg.lo \in Int /\ gg.hi \in Int /\ gg.hi = gg.lo + Bin
      BY <2>2, SegmentHasASounding
    <2>5. s.sta \in Int
      BY KeptType, DepthAssumption
    <2>6. h.lo - Bin < s.sta /\ s.sta < h.hi + Bin
      BY <1>1, <2>2, <2>3, <2>4, <2>5, DepthAssumption
    <2> QED
      BY <2>1, <2>3, <2>6
  <1> QED
    BY <1>4, <1>6, <1>7

-----------------------------------------------------------------------------
(***************************************************************************)
(* The invariant.  An id is drawn once: what is not yet drawn, and what an *)
(* upload still holds, is no survey and was judged by nobody.              *)
(***************************************************************************)

Functions ==
  /\ surveys = [i \in Ids |-> surveys[i]]
  /\ upload = [u \in Uploaders |-> upload[u]]
  /\ confirm = [c \in Clerks |-> confirm[c]]
  /\ judged = [b \in Bookings |-> judged[b]]
  /\ nextId \in Nat \ {0}

UploadsTyped ==
  \A u \in Uploaders : upload[u] # None =>
    /\ upload[u].id \in Ids /\ upload[u].id < nextId
    /\ upload[u].file \in Files
    /\ upload[u].date \in Dates

\* i is the id of a survey that was committed once.
Used(i) ==
  /\ i < nextId
  /\ \A u \in Uploaders : upload[u] # None => upload[u].id # i

IdsAreDrawnOnce ==
  /\ \A u, v \in Uploaders :
       upload[u] # None /\ upload[v] # None /\ upload[u].id = upload[v].id => u = v
  /\ \A i \in Ids : Present(i) => Used(i)
  /\ \A c \in Clerks : confirm[c] # None /\ confirm[c].by # None =>
       confirm[c].by \in Ids /\ Used(confirm[c].by)
  /\ \A b \in Bookings : judged[b] # None => judged[b] \in Ids /\ Used(judged[b])

\* The survey i, while it is on file, clears booking b.
Clears(i, b) ==
  Present(i) /\ Draft[b] # Unknown =>
    \A s \in Over(surveys[i].file, Hull[b]) : s.z >= Draft[b] + Clearance

JudgedClears ==
  /\ \A c \in Clerks : confirm[c] # None =>
       /\ confirm[c].booking \in Bookings
       /\ confirm[c].by # None => Clears(confirm[c].by, confirm[c].booking)
  /\ \A b \in Bookings : judged[b] # None => Clears(judged[b], b)

IInv ==
  /\ Functions
  /\ SurveysAreReduced
  /\ UploadsTyped
  /\ IdsAreDrawnOnce
  /\ JudgedClears

\* The invariant holds at the start.
LEMMA InitIInv == Init => IInv
  BY DepthAssumption DEF Init, IInv, Functions, SurveysAreReduced, UploadsTyped,
     IdsAreDrawnOnce, JudgedClears, Present

\* What does not touch the surveys, the uploads or the bookings keeps the invariant.
LEMMA StutterKeeps ==
  ASSUME IInv, UNCHANGED <<surveys, nextId, upload, confirm, judged>>
  PROVE  IInv'
  BY DEF IInv, Functions, SurveysAreReduced, UploadsTyped, IdsAreDrawnOnce,
     JudgedClears, Present, Used, Clears

\* The id drawn was nobody's.
LEMMA UploadBeginKeeps ==
  ASSUME IInv, NEW u \in Uploaders, NEW f \in Files, NEW d \in Dates,
         UploadBegin(u, f, d)
  PROVE  IInv'
  <1> USE DEF IInv
  <1>1. /\ upload' = [upload EXCEPT ![u] = [id |-> nextId, file |-> f, date |-> d]]
        /\ nextId' = nextId + 1
        /\ nextId <= MaxSurveys
        /\ UNCHANGED <<surveys, confirm, judged>>
    BY DEF UploadBegin
  <1>2. /\ upload'[u] = [id |-> nextId, file |-> f, date |-> d]
        /\ \A v \in Uploaders : v # u => upload'[v] = upload[v]
    BY <1>1 DEF Functions
  <1>3. nextId \in Ids /\ nextId \in Nat
    BY <1>1, DepthAssumption DEF Functions, Ids
  <1>4. Functions'
    BY <1>1, <1>3 DEF Functions
  <1>5. SurveysAreReduced'
    BY <1>1 DEF SurveysAreReduced, Present
  <1>6. UploadsTyped'
    <2>1. \A v \in Uploaders : v # u /\ upload[v] # None => upload[v].id < nextId + 1
      BY <1>3 DEF UploadsTyped, Ids
    <2> QED
      BY <1>1, <1>2, <1>3, <2>1 DEF UploadsTyped
  <1>7. \A i \in Ids : Used(i) => Used(i)'
    <2> SUFFICES ASSUME NEW i \in Ids, Used(i) PROVE Used(i)'
      OBVIOUS
    <2>1. i < nextId + 1 /\ i # nextId
      BY <1>3 DEF Used, Ids
    <2> QED
      BY <1>1, <1>2, <2>1 DEF Used
  <1>8. IdsAreDrawnOnce'
    <2>1. \A v \in Uploaders : v # u /\ upload[v] # None => upload[v].id # nextId
      BY <1>3 DEF UploadsTyped, Ids
    <2>2. \A v, w \in Uploaders :
            upload'[v] # None /\ upload'[w] # None /\ upload'[v].id = upload'[w].id
              => v = w
      BY <1>2, <2>1 DEF IdsAreDrawnOnce
    <2> QED
      BY <1>1, <1>7, <2>2 DEF IdsAreDrawnOnce, Present
  <1>9. JudgedClears'
    BY <1>1 DEF JudgedClears, Clears, Present
  <1> QED
    BY <1>4, <1>5, <1>6, <1>8, <1>9

\* A survey appears under an id no booking went by.
LEMMA UploadCommitKeeps ==
  ASSUME IInv, NEW u \in Uploaders, UploadCommit(u)
  PROVE  IInv'
  <1> USE DEF IInv
  <1> DEFINE up == upload[u]
  <1>1. /\ up # None
        /\ upload' = [upload EXCEPT ![u] = None]
        /\ UNCHANGED <<nextId, confirm, judged>>
        /\ \/ /\ Kept(up.file) # {}
              /\ surveys' = [surveys EXCEPT ![up.id] = Reduced(up.file, up.date)]
           \/ UNCHANGED surveys
    BY DEF UploadCommit
  <1>2. up.id \in Ids /\ up.id < nextId /\ up.file \in Files /\ up.date \in Dates
    BY <1>1 DEF UploadsTyped
  <1>0. PICK k \in Ids : k = up.id
    BY <1>2
  <1>3. upload'[u] = None /\ \A v \in Uploaders : v # u => upload'[v] = upload[v]
    BY <1>1 DEF Functions
  <1>4. /\ \A i \in Ids : i # k => surveys'[i] = surveys[i]
        /\ \/ /\ Kept(up.file) # {}
              /\ surveys'[k] = Reduced(up.file, up.date)
           \/ surveys'[k] = surveys[k]
    BY <1>1, <1>0 DEF Functions
  <1>5. Functions'
    BY <1>1 DEF Functions
  <1>6. SurveysAreReduced'
    BY <1>2, <1>0, <1>4 DEF SurveysAreReduced, Present
  <1>7. UploadsTyped'
    BY <1>1, <1>3 DEF UploadsTyped
  <1>8. \A i \in Ids : Used(i) => Used(i)' /\ i # k
    BY <1>1, <1>3, <1>0 DEF Used
  <1>9. Used(k)'
    <2>1. \A v \in Uploaders : v # u /\ upload[v] # None => upload[v].id # k
      BY <1>1, <1>0 DEF IdsAreDrawnOnce
    <2> SUFFICES /\ k < nextId'
                 /\ \A v \in Uploaders : upload'[v] # None => upload'[v].id # k
      BY <1>1, <1>3, <2>1 DEF Used
    <2> QED
      BY <1>1, <1>2, <1>0, <1>3, <2>1
  <1>10. IdsAreDrawnOnce'
    <2>1. \A v, w \in Uploaders :
            upload'[v] # None /\ upload'[w] # None /\ upload'[v].id = upload'[w].id
              => v = w
      BY <1>3 DEF IdsAreDrawnOnce
    <2>2. ASSUME NEW i \in Ids, Present(i)' PROVE Used(i)'
      <3>1. CASE i = k
        BY <1>9, <3>1 DEF Used
      <3>2. CASE i # k
        <4>1. Present(i)
          BY <1>4, <2>2, <3>2 DEF Present
        <4> QED
          BY <1>8, <4>1 DEF IdsAreDrawnOnce
      <3> QED
        BY <3>1, <3>2
    <2> QED
      BY <1>1, <1>8, <2>1, <2>2 DEF IdsAreDrawnOnce
  <1>11. \A i \in Ids, b \in Bookings : Used(i) /\ Clears(i, b) => Clears(i, b)'
    BY <1>4, <1>8 DEF Clears, Present
  <1>12. JudgedClears'
    BY <1>1, <1>11 DEF JudgedClears, IdsAreDrawnOnce
  <1> QED
    BY <1>5, <1>6, <1>7, <1>10, <1>12

\* A deleted survey's id does not come back.
LEMMA DeleteKeeps ==
  ASSUME IInv, NEW i \in Ids, Delete(i)
  PROVE  IInv'
  <1> USE DEF IInv
  <1>1. /\ surveys' = [surveys EXCEPT ![i] = None]
        /\ UNCHANGED <<nextId, upload, confirm, judged>>
    BY DEF Delete
  <1>2. \A j \in Ids : Present(j)' => Present(j) /\ surveys'[j] = surveys[j]
    BY <1>1 DEF Functions, Present
  <1>3. Functions'
    BY <1>1 DEF Functions
  <1>4. SurveysAreReduced'
    BY <1>2 DEF SurveysAreReduced
  <1>5. UploadsTyped'
    BY <1>1 DEF UploadsTyped
  <1>6. IdsAreDrawnOnce'
    BY <1>1, <1>2 DEF IdsAreDrawnOnce, Used
  <1>7. \A j \in Ids, b \in Bookings : Clears(j, b) => Clears(j, b)'
    BY <1>2 DEF Clears
  <1>8. JudgedClears'
    BY <1>1, <1>7 DEF JudgedClears, IdsAreDrawnOnce
  <1> QED
    BY <1>3, <1>4, <1>5, <1>6, <1>8

\* The gate that lets a booking pass names the survey that clears it, or none.
LEMMA PassGateKeeps ==
  ASSUME IInv, NEW c \in Clerks, NEW b \in Bookings, PassGate(c, b)
  PROVE  IInv'
  <1> USE DEF IInv
  <1> DEFINE by == IF Controlling(Hull[b]) = Unknown THEN None ELSE Governing(Hull[b])
  <1>1. /\ ~Short(Controlling(Hull[b]), Draft[b])
        /\ confirm' = [confirm EXCEPT ![c] = [booking |-> b, by |-> by]]
        /\ UNCHANGED <<surveys, nextId, upload, judged>>
    BY DEF PassGate
  <1>2. /\ confirm'[c] = [booking |-> b, by |-> by]
        /\ \A d \in Clerks : d # c => confirm'[d] = confirm[d]
    BY <1>1 DEF Functions
  <1>3. GateMissesNoShoal
    BY ReducedSurveysHideNoShoal
  <1>4. by # None => by \in Ids /\ Used(by) /\ Clears(by, b)
    <2> SUFFICES ASSUME by # None PROVE by \in Ids /\ Used(by) /\ Clears(by, b)
      OBVIOUS
    <2>1. by = Governing(Hull[b]) /\ Controlling(Hull[b]) # Unknown
      OBVIOUS
    <2>2. by \in Ids /\ Present(by)
      BY <2>1, GoverningReaches DEF Reaching
    <2>3. Used(by)
      BY <2>2 DEF IdsAreDrawnOnce
    <2>4. \A s \in Over(surveys[by].file, Hull[b]) : Controlling(Hull[b]) <= s.z
      BY <1>3, <2>1 DEF GateMissesNoShoal
    <2>5. Clears(by, b)
      <3> SUFFICES ASSUME Draft[b] # Unknown, NEW s \in Over(surveys[by].file, Hull[b])
                   PROVE  s.z >= Draft[b] + Clearance
        BY DEF Clears
      <3>1. PICK f \in Files, d \in Dates : surveys[by] = Reduced(f, d)
        BY <2>2 DEF SurveysAreReduced
      <3>2. surveys[by].file = f /\ surveys[by].segments = Segments(f)
        BY <3>1 DEF Reduced
      <3>3. s.z \in Int
        BY <3>2, KeptType, DepthAssumption DEF Over
      <3>4. Hull[b].lo \in Int /\ Hull[b].hi \in Int /\ Draft[b] \in Nat /\ Clearance \in Nat
        BY DepthAssumption
      <3>5. Controlling(Hull[b]) \in Int
        BY <2>1, <3>2, <3>4, ControllingIsASegments
      <3>6. ~(Draft[b] + Clearance > Controlling(Hull[b]))
        BY <1>1, <2>1 DEF Short
      <3>7. Controlling(Hull[b]) <= s.z
        BY <2>4
      <3> HIDE DEF by
      <3> QED
        BY <3>3, <3>4, <3>5, <3>6, <3>7
    <2> QED
      BY <2>2, <2>3, <2>5
  <1>5. Functions' /\ SurveysAreReduced' /\ UploadsTyped'
    BY <1>1 DEF Functions, SurveysAreReduced, UploadsTyped, Present
  <1>6. IdsAreDrawnOnce'
    BY <1>1, <1>2, <1>4 DEF IdsAreDrawnOnce, Present, Used
  <1>7. JudgedClears'
    BY <1>1, <1>2, <1>4 DEF JudgedClears, Clears, Present
  <1> QED
    BY <1>5, <1>6, <1>7

\* An override vouches for nothing.
LEMMA OverrideKeeps ==
  ASSUME IInv, NEW c \in Clerks, NEW b \in Bookings, Override(c, b)
  PROVE  IInv'
  <1> USE DEF IInv
  <1>1. /\ confirm' = [confirm EXCEPT ![c] = [booking |-> b, by |-> None]]
        /\ UNCHANGED <<surveys, nextId, upload, judged>>
    BY DEF Override
  <1>2. /\ confirm'[c] = [booking |-> b, by |-> None]
        /\ \A d \in Clerks : d # c => confirm'[d] = confirm[d]
    BY <1>1 DEF Functions
  <1>3. Functions' /\ SurveysAreReduced' /\ UploadsTyped'
    BY <1>1 DEF Functions, SurveysAreReduced, UploadsTyped, Present
  <1>4. IdsAreDrawnOnce'
    BY <1>1, <1>2 DEF IdsAreDrawnOnce, Present, Used
  <1>5. JudgedClears'
    BY <1>1, <1>2 DEF JudgedClears, Clears, Present
  <1> QED
    BY <1>3, <1>4, <1>5

\* The commit records what its gate went by.
LEMMA ConfirmCommitKeeps ==
  ASSUME IInv, NEW c \in Clerks, ConfirmCommit(c)
  PROVE  IInv'
  <1> USE DEF IInv
  <1> DEFINE b == confirm[c].booking
             by == confirm[c].by
  <1>1. /\ confirm[c] # None
        /\ judged' = [judged EXCEPT ![b] = by]
        /\ confirm' = [confirm EXCEPT ![c] = None]
        /\ UNCHANGED <<surveys, nextId, upload>>
    BY DEF ConfirmCommit
  <1>2. /\ b \in Bookings
        /\ by # None => by \in Ids /\ Used(by) /\ Clears(by, b)
    BY <1>1 DEF IdsAreDrawnOnce, JudgedClears
  <1>3. /\ judged'[b] = by
        /\ \A a \in Bookings : a # b => judged'[a] = judged[a]
        /\ confirm'[c] = None
        /\ \A d \in Clerks : d # c => confirm'[d] = confirm[d]
    BY <1>1, <1>2 DEF Functions
  <1> HIDE DEF b, by
  <1>4. Functions' /\ SurveysAreReduced' /\ UploadsTyped'
    BY <1>1 DEF Functions, SurveysAreReduced, UploadsTyped, Present
  <1>5. /\ \A i \in Ids : (Present(i) <=> Present(i)') /\ (Used(i) <=> Used(i)')
        /\ \A i \in Ids, a \in Bookings : Clears(i, a) <=> Clears(i, a)'
    BY <1>1 DEF Present, Used, Clears
  <1>6. \A a \in Bookings : judged'[a] # None =>
          judged'[a] \in Ids /\ Used(judged'[a]) /\ Clears(judged'[a], a)
    BY <1>2, <1>3 DEF IdsAreDrawnOnce, JudgedClears
  <1>7. \A d \in Clerks : confirm'[d] # None => confirm[d] # None /\ confirm'[d] = confirm[d]
    BY <1>3
  <1>8. IdsAreDrawnOnce'
    BY <1>1, <1>5, <1>6, <1>7 DEF IdsAreDrawnOnce
  <1>9. JudgedClears'
    BY <1>5, <1>6, <1>7 DEF JudgedClears, IdsAreDrawnOnce
  <1> QED
    BY <1>4, <1>8, <1>9

\* Every step keeps the invariant.
LEMMA NextKeeps == IInv /\ [Next]_vars => IInv'
  <1> SUFFICES ASSUME IInv, [Next]_vars PROVE IInv'
    OBVIOUS
  <1>1. CASE \E u \in Uploaders, f \in Files, d \in Dates : UploadBegin(u, f, d)
    BY <1>1, UploadBeginKeeps
  <1>2. CASE \E u \in Uploaders : UploadCommit(u)
    BY <1>2, UploadCommitKeeps
  <1>3. CASE \E i \in Ids : Delete(i)
    BY <1>3, DeleteKeeps
  <1>4. CASE \E c \in Clerks, b \in Bookings : PassGate(c, b)
    BY <1>4, PassGateKeeps
  <1>5. CASE \E c \in Clerks, b \in Bookings : Override(c, b)
    BY <1>5, OverrideKeeps
  <1>6. CASE \E c \in Clerks : ConfirmCommit(c)
    BY <1>6, ConfirmCommitKeeps
  <1>7. CASE \E v \in Viewers : ViewPick(v) \/ ViewBins(v) \/ ViewCells(v)
    <2>1. UNCHANGED <<surveys, nextId, upload, confirm, judged>>
      BY <1>7 DEF ViewPick, ViewBins, ViewCells
    <2> QED
      BY <2>1, StutterKeeps
  <1>8. CASE UNCHANGED vars
    <2>1. UNCHANGED <<surveys, nextId, upload, confirm, judged>>
      BY <1>8 DEF vars
    <2> QED
      BY <2>1, StutterKeeps
  <1> QED
    BY <1>1, <1>2, <1>3, <1>4, <1>5, <1>6, <1>7, <1>8 DEF Next

\* The invariant of every behaviour.
LEMMA Inductive == Spec => []IInv
  BY InitIInv, NextKeeps, PTL DEF Spec

\* The gate never answers deeper than a sounding of its survey over the hull, for
\* every set of files, bin width and hull, and with any number of imports at once
\* (controlling_depth_over, import_survey).
THEOREM GateNeverMisses == Spec => []GateMissesNoShoal
  <1>1. IInv => GateMissesNoShoal
    BY ReducedSurveysHideNoShoal DEF IInv
  <1> QED
    BY <1>1, Inductive, PTL

\* A booking stands in enough water as long as the survey it was confirmed by
\* governs, however its gate, its commit and the imports interleave (_depth_gate).
THEOREM BookingsStandOnTheirSurvey == Spec => []BookingStandsOnItsSurvey
  <1>1. IInv => BookingStandsOnItsSurvey
    <2> SUFFICES ASSUME IInv, NEW b \in Bookings,
                        Governing(Hull[b]) # None, judged[b] = Governing(Hull[b]),
                        Draft[b] # Unknown,
                        NEW s \in Over(surveys[Governing(Hull[b])].file, Hull[b])
                 PROVE  s.z >= Draft[b] + Clearance
      BY DEF BookingStandsOnItsSurvey
    <2>1. Present(Governing(Hull[b]))
      BY GoverningReaches DEF IInv, Reaching
    <2>2. Clears(Governing(Hull[b]), b)
      BY DEF IInv, JudgedClears
    <2> QED
      BY <2>1, <2>2 DEF Clears
  <1> QED
    BY <1>1, Inductive, PTL

-----------------------------------------------------------------------------
(***************************************************************************)
(* What does not govern decides nothing.                                   *)
(***************************************************************************)

\* If the survey that governs is still the newest of those that reach, and is what
\* it was, the gate answers what it answered.
LEMMA SameGoverningSameAnswer ==
  ASSUME IInv, NEW h, Governing(h) # None,
         NEW g \in Ids, g = Governing(h), surveys'[g] = surveys[g],
         g \in Reaching(h)',
         \A j \in Reaching(h)' : Newer(g, j)' /\ (Newer(j, g)' => j = g)
  PROVE  Controlling(h)' = Controlling(h)
  <1>1. Reaching(h)' # {}
    OBVIOUS
  <1>2. Latest(Reaching(h))' = g
    BY DEF Latest
  <1>3. Governing(h)' = g
    BY <1>1, <1>2 DEF Governing
  <1>4. surveys'[Governing(h)'].segments = surveys[Governing(h)].segments
    BY <1>3
  <1>5. Governing(h)' # None
    BY <1>3
  <1> QED
    BY <1>4, <1>5 DEF Controlling

\* Two surveys neither of which is older are one.
LEMMA NewerIsStrict ==
  ASSUME SurveysAreReduced, NEW i \in Ids, NEW j \in Ids, Present(i), Present(j),
         Newer(i, j), Newer(j, i)
  PROVE  i = j
  <1>1. surveys[i].date \in Dates /\ surveys[j].date \in Dates
    <2>1. PICK f \in Files, d \in Dates : surveys[i] = Reduced(f, d)
      BY DEF SurveysAreReduced
    <2>2. PICK e \in Files, c \in Dates : surveys[j] = Reduced(e, c)
      BY DEF SurveysAreReduced
    <2> QED
      BY <2>1, <2>2 DEF Reduced
  <1>2. surveys[i].date \in Int /\ surveys[j].date \in Int /\ i \in Int /\ j \in Int
    BY <1>1 DEF Dates, Ids
  <1> QED
    BY <1>2 DEF Newer

\* A step touches one survey.
LEMMA OneSurveyAtATime ==
  ASSUME IInv, [Next]_vars
  PROVE  \E k \in Int : \A i \in Ids : i # k => surveys'[i] = surveys[i]
  <1>1. CASE \E u \in Uploaders : UploadCommit(u)
    <2> PICK u \in Uploaders : UploadCommit(u)
      BY <1>1
    <2>1. upload[u].id \in Ids
      BY DEF UploadCommit, IInv, UploadsTyped
    <2>2. \A i \in Ids : i # upload[u].id => surveys'[i] = surveys[i]
      BY DEF UploadCommit, IInv, Functions
    <2> QED
      BY <2>1, <2>2 DEF Ids
  <1>2. CASE \E j \in Ids : Delete(j)
    <2> PICK j \in Ids : Delete(j)
      BY <1>2
    <2>1. \A i \in Ids : i # j => surveys'[i] = surveys[i]
      BY DEF Delete, IInv, Functions
    <2> QED
      BY <2>1 DEF Ids
  <1>3. CASE UNCHANGED surveys
    BY <1>3
  <1> QED
    BY <1>1, <1>2, <1>3 DEF Next, vars, UploadBegin, PassGate, Override,
       ConfirmCommit, ViewPick, ViewBins, ViewCells

\* A survey that appears under an older date, or goes while it does not govern.
LEMMA OthersDecideNothing ==
  ASSUME IInv, IInv', NEW h, NEW i \in Ids,
         \A k \in Ids : k # i => surveys'[k] = surveys[k],
         \/ /\ ~Present(i) /\ Present(i)'
            /\ \E j \in Reaching(h) : surveys[j].date > surveys'[i].date
         \/ Present(i) /\ ~Present(i)' /\ Governing(h) # i
  PROVE  Controlling(h)' = Controlling(h)
  <1> USE DEF IInv
  <1>1. \A k \in Ids : k # i => /\ Present(k)' <=> Present(k)
                               /\ k \in Reaching(h)' <=> k \in Reaching(h)
    BY DEF Present, Reaching
  <1>3. /\ \A k \in Reaching(h) : k \in Ids /\ Present(k)
        /\ \A k \in Reaching(h)' : k \in Ids /\ Present(k)'
    BY DEF Reaching
  <1>4. CASE Governing(h) = None
    <2>1. Reaching(h) = {}
      <3> SUFFICES ASSUME Reaching(h) # {} PROVE FALSE
        OBVIOUS
      <3>1. Latest(Reaching(h)) \in Ids
        BY <1>3, LatestExists
      <3> QED
        BY <1>4, <3>1, DepthAssumption DEF Governing, Ids
    <2>2. Reaching(h)' = {}
      <3>1. i \notin Reaching(h)'
        BY <2>1 DEF Reaching, Present
      <3> QED
        BY <2>1, <3>1 DEF Reaching, Present
    <2> QED
      BY <2>1, <2>2 DEF Controlling, Governing
  <1>5. CASE Governing(h) # None
    <2>1. PICK g \in Ids : g = Governing(h)
      BY <1>3, <1>5, GoverningReaches
    <2>2. g \in Reaching(h) /\ \A j \in Reaching(h) : Newer(g, j)
      <3>1. Reaching(h) # {} /\ g = Latest(Reaching(h))
        BY <1>5, <2>1 DEF Governing
      <3> QED
        BY <1>3, <3>1, LatestExists
    <2>3. g # i
      BY <1>3, <2>1, <2>2
    <2>4. g \in Reaching(h)' /\ surveys'[g] = surveys[g] /\ Present(g)'
      BY <1>1, <1>3, <2>2, <2>3
    <2>5. \A j \in Reaching(h)' : j # i => Newer(g, j)'
      <3> SUFFICES ASSUME NEW j \in Reaching(h)', j # i PROVE Newer(g, j)'
        OBVIOUS
      <3>1. j \in Ids
        BY <1>3
      <3>2. j \in Reaching(h)
        BY <3>1 DEF Reaching, Present
      <3>3. Newer(g, j)
        BY <2>2, <3>2
      <3>4. surveys'[j] = surveys[j]
        BY <3>1
      <3> QED
        BY <2>4, <3>3, <3>4 DEF Newer
    <2>6. i \in Reaching(h)' => Newer(g, i)' /\ ~Newer(i, g)'
      <3> SUFFICES ASSUME i \in Reaching(h)' PROVE Newer(g, i)' /\ ~Newer(i, g)'
        OBVIOUS
      <3>1. PICK j \in Reaching(h) : surveys[j].date > surveys'[i].date
        BY <1>3
      <3>2. Newer(g, j)
        BY <2>2
      <3>3. /\ surveys[g].date \in Int /\ surveys[j].date \in Int
            /\ surveys'[i].date \in Int
        <4>1. PICK f1 \in Files, d1 \in Dates : surveys[g] = Reduced(f1, d1)
          BY <1>3, <2>2 DEF SurveysAreReduced
        <4>2. PICK f2 \in Files, d2 \in Dates : surveys[j] = Reduced(f2, d2)
          BY <1>3, <3>1 DEF SurveysAreReduced
        <4>3. surveys'[i] # None
          BY <1>3 DEF Present
        <4>4. PICK f3 \in Files, d3 \in Dates : surveys'[i] = Reduced(f3, d3)
          BY <4>3 DEF SurveysAreReduced, Present
        <4> QED
          BY <4>1, <4>2, <4>4 DEF Reduced, Dates
      <3>4. surveys'[g].date > surveys'[i].date
        BY <2>4, <3>1, <3>2, <3>3 DEF Newer
      <3> QED
        BY <2>4, <3>3, <3>4 DEF Newer
    <2>7. \A j \in Reaching(h)' : j # i /\ Newer(j, g)' => j = g
      <3> SUFFICES ASSUME NEW j \in Reaching(h)', j # i, Newer(j, g)' PROVE j = g
        OBVIOUS
      <3>1. j \in Ids /\ Present(j) /\ Newer(j, g) /\ Newer(g, j)
        <4>1. j \in Ids
          BY <1>3
        <4>2. j \in Reaching(h)
          BY <4>1, <1>3 DEF Reaching, Present
        <4>3. surveys'[j] = surveys[j]
          BY <4>1
        <4>4. Newer(j, g)
          BY <2>4, <4>3 DEF Newer
        <4> QED
          BY <1>3, <2>2, <4>1, <4>2, <4>4
      <3> QED
        BY <1>3, <2>2, <3>1, NewerIsStrict
    <2> QED
      BY <1>5, <2>1, <2>4, <2>5, <2>6, <2>7, SameGoverningSameAnswer
  <1> QED
    BY <1>4, <1>5

\* Whatever commits late or goes away, the gate's answer is the newest survey's
\* (controlling_depth_over: ORDER BY surveyed_at DESC, id DESC).
THEOREM NewestDecides == Spec => OnlyTheNewestDecides
  <1> DEFINE A == \A b \in Bookings, i \in Ids :
                    LET h == Hull[b]
                    IN  (\/ /\ ~Present(i) /\ Present(i)'
                            /\ \E j \in Reaching(h) : surveys[j].date > surveys'[i].date
                         \/ Present(i) /\ ~Present(i)' /\ Governing(h) # i)
                        => Controlling(h)' = Controlling(h)
  <1>1. IInv /\ IInv' /\ [Next]_vars => A
    <2> SUFFICES ASSUME IInv, IInv', [Next]_vars,
                        NEW b \in Bookings, NEW i \in Ids,
                        \/ /\ ~Present(i) /\ Present(i)'
                           /\ \E j \in Reaching(Hull[b]) :
                                surveys[j].date > surveys'[i].date
                        \/ Present(i) /\ ~Present(i)' /\ Governing(Hull[b]) # i
                 PROVE  Controlling(Hull[b])' = Controlling(Hull[b])
      OBVIOUS
    <2>1. surveys'[i] # surveys[i]
      BY DEF Present
    <2>2. \A k \in Ids : k # i => surveys'[k] = surveys[k]
      BY <2>1, OneSurveyAtATime
    <2> QED
      BY <2>2, OthersDecideNothing
  <1> QED
    BY <1>1, Inductive, PTL DEF Spec, OnlyTheNewestDecides

-----------------------------------------------------------------------------
(***************************************************************************)
(* The profile of the map.  It is read in three statements; that they      *)
(* speak of one survey rests on the id picked by the first, which no later *)
(* survey ever takes.                                                      *)
(***************************************************************************)

\* A lower bound that is in the set is its least element.
LEMMA LeastIsTheBound ==
  ASSUME NEW S, S \subseteq Int, NEW m \in S, \A y \in S : m <= y
  PROVE  Least(S) = m
  <1>1. Least(S) \in S /\ \A y \in S : Least(S) <= y
    BY DEF Least
  <1>2. PICK k \in Int : k = Least(S)
    BY <1>1
  <1>3. m \in Int /\ k <= m /\ m <= k
    BY <1>1, <1>2
  <1>4. k = m
    BY <1>3
  <1> QED
    BY <1>2, <1>4

\* The cell of a sounding answers a depth of its own soundings, none of which is
\* shallower (min(z) per station bin and offset band of import_survey).
LEMMA CellHoldsItsSoundings ==
  ASSUME NEW f \in Files, NEW s \in Kept(f)
  PROVE  LET depth == Least({t.z : t \in {u \in Column(f, s.sta) :
                                            OffsetLo(u.off) = OffsetLo(s.off)}})
         IN  /\ depth \in Int
             /\ depth <= s.z
             /\ \E t \in Column(f, s.sta) : t.z = depth
  <1> DEFINE C == {u \in Column(f, s.sta) : OffsetLo(u.off) = OffsetLo(s.off)}
             D == {t.z : t \in C}
  <1>1. s \in C /\ C \subseteq Kept(f)
    BY DEF Column
  <1>2. D \subseteq Int /\ s.z \in D /\ \A d \in D : -Far <= d
    BY <1>1, KeptType, DepthAssumption
  <1>3. -Far \in Int
    BY DepthAssumption
  <1>4. Least(D) \in D /\ \A d \in D : Least(D) <= d
    <2> HIDE DEF D
    <2> QED
      BY <1>2, <1>3, LeastIsLeast
  <1>5. Least(D) \in Int /\ Least(D) <= s.z
    BY <1>2, <1>4
  <1>6. \E t \in Column(f, s.sta) : t.z = Least(D)
    BY <1>4
  <1> QED
    BY <1>5, <1>6

\* The bins and the cells of one file are of the same stations, and a bin is as
\* shallow as the shallowest of its cells (import_survey).
LEMMA BinsAndCellsAgree ==
  ASSUME NEW f \in Files
  PROVE  /\ {g.lo : g \in Segments(f)} = {c.lo : c \in Cells(f)}
         /\ \A g \in Segments(f) :
              g.depth = Least({c.depth : c \in {d \in Cells(f) : d.lo = g.lo}})
  <1> DEFINE CellOf(s) ==
               [lo |-> BinLo(s.sta), off |-> OffsetLo(s.off),
                depth |-> Least({t.z : t \in {u \in Column(f, s.sta) :
                                                OffsetLo(u.off) = OffsetLo(s.off)}})]
             BinOf(s) ==
               [lo |-> BinLo(s.sta), hi |-> BinLo(s.sta) + Bin,
                depth |-> Least({t.z : t \in Column(f, s.sta)})]
  <1>1. Segments(f) = {BinOf(s) : s \in Kept(f)} /\ Cells(f) = {CellOf(s) : s \in Kept(f)}
    BY DEF Segments, Cells
  <1>2. \A s \in Kept(f) : BinOf(s).lo = BinLo(s.sta) /\ CellOf(s).lo = BinLo(s.sta)
    OBVIOUS
  <1>3. ASSUME NEW s \in Kept(f)
        PROVE  /\ CellOf(s).depth \in Int
               /\ CellOf(s).depth <= s.z
               /\ \E t \in Column(f, s.sta) : t.z = CellOf(s).depth
    BY CellHoldsItsSoundings
  <1>4. ASSUME NEW s \in Kept(f)
        PROVE  /\ BinOf(s).depth \in Int
               /\ BinOf(s).depth <= s.z
               /\ \E t \in Kept(f) : t.z = BinOf(s).depth /\ BinLo(t.sta) = BinLo(s.sta)
    BY BinHoldsItsSoundings
  <1>5. ASSUME NEW s \in Kept(f), NEW t \in Kept(f), BinLo(s.sta) = BinLo(t.sta)
        PROVE  BinOf(s).depth = BinOf(t).depth
    BY <1>5 DEF Column
  <1> HIDE DEF BinOf, CellOf
  <1>6. {g.lo : g \in Segments(f)} = {c.lo : c \in Cells(f)}
    BY <1>1, <1>2
  <1>7. ASSUME NEW s \in Kept(f)
        PROVE  BinOf(s).depth
                 = Least({c.depth : c \in {d \in Cells(f) : d.lo = BinOf(s).lo}})
    <2> DEFINE D == {c.depth : c \in {d \in Cells(f) : d.lo = BinOf(s).lo}}
    <2>1. ASSUME NEW x \in D PROVE x \in Int /\ BinOf(s).depth <= x
      <3>1. PICK t \in Kept(f) : x = CellOf(t).depth /\ BinLo(t.sta) = BinLo(s.sta)
        BY <1>1, <1>2, <2>1
      <3>2. PICK u \in Column(f, t.sta) : u.z = x
        BY <1>3, <3>1
      <3>3. u \in Kept(f) /\ BinLo(u.sta) = BinLo(s.sta)
        BY <3>1, <3>2 DEF Column
      <3>4. BinOf(u).depth <= u.z /\ BinOf(u).depth = BinOf(s).depth
        BY <1>4, <1>5, <3>3
      <3> QED
        BY <1>3, <3>1, <3>2, <3>4
    <2>2. BinOf(s).depth \in D
      <3>1. PICK t \in Kept(f) : t.z = BinOf(s).depth /\ BinLo(t.sta) = BinLo(s.sta)
        BY <1>4
      <3>2. CellOf(t).depth \in D
        BY <1>1, <1>2, <3>1
      <3>3. CellOf(t).depth <= BinOf(s).depth /\ BinOf(s).depth <= CellOf(t).depth
        BY <1>3, <2>1, <3>1, <3>2
      <3>4. CellOf(t).depth = BinOf(s).depth
        <4>1. PICK k \in Int : k = CellOf(t).depth
          BY <1>3
        <4>2. PICK l \in Int : l = BinOf(s).depth
          BY <1>4
        <4>3. k = l
          BY <3>3, <4>1, <4>2
        <4> QED
          BY <4>1, <4>2, <4>3
      <3> QED
        BY <3>2, <3>4
    <2>3. D \subseteq Int /\ \A x \in D : BinOf(s).depth <= x
      BY <2>1
    <2> HIDE DEF D
    <2>4. Least(D) = BinOf(s).depth
      BY <2>2, <2>3, LeastIsTheBound
    <2> QED
      BY <2>4 DEF D
  <1>8. \A g \in Segments(f) :
          g.depth = Least({c.depth : c \in {d \in Cells(f) : d.lo = g.lo}})
    BY <1>1, <1>7
  <1> QED
    BY <1>6, <1>8

\* What a profile has read: bins of the survey it picked as long as that is on
\* file, and cells of the same survey as the bins.
ViewsAreOfOne ==
  /\ view = [v \in Viewers |-> view[v]]
  /\ \A v \in Viewers : view[v] # None =>
       LET r == view[v]
       IN  /\ r = [id |-> r.id, bins |-> r.bins, cells |-> r.cells]
           /\ r.id \in Ids /\ Used(r.id)
           /\ r.bins = None => r.cells = None
           /\ r.bins # None /\ Present(r.id) => r.bins = surveys[r.id].segments
           /\ r.cells \notin {None, {}} =>
                \E f \in Files : r.bins = Segments(f) /\ r.cells = Cells(f)

\* An id once on file stays spent, and shows the survey it showed or none.
LEMMA SpentIdsAreSettled ==
  ASSUME IInv, [Next]_vars, NEW i \in Ids, Used(i)
  PROVE  /\ Used(i)'
         /\ Present(i)' => Present(i) /\ surveys'[i] = surveys[i]
  <1> USE DEF IInv
  <1>1. CASE UNCHANGED <<surveys, nextId, upload>>
    BY <1>1 DEF Used, Present
  <1>2. ASSUME NEW u \in Uploaders, NEW f \in Files, NEW d \in Dates, UploadBegin(u, f, d)
        PROVE  Used(i)' /\ UNCHANGED surveys
    <2>1. /\ nextId' = nextId + 1 /\ nextId \in Nat
          /\ upload' = [upload EXCEPT ![u] = [id |-> nextId, file |-> f, date |-> d]]
          /\ UNCHANGED surveys
      BY <1>2 DEF UploadBegin, Functions
    <2>2. i < nextId + 1 /\ i # nextId
      BY <2>1 DEF Used, Ids
    <2>3. \A v \in Uploaders : upload'[v] # None => upload'[v].id # i
      BY <2>1, <2>2 DEF Used, Functions
    <2> QED
      BY <2>1, <2>2, <2>3 DEF Used
  <1>3. ASSUME NEW u \in Uploaders, UploadCommit(u)
        PROVE  Used(i)' /\ surveys'[i] = surveys[i]
    <2>1. /\ upload[u] # None
          /\ upload' = [upload EXCEPT ![u] = None]
          /\ nextId' = nextId
          /\ \/ surveys' = [surveys EXCEPT
                              ![upload[u].id] = Reduced(upload[u].file, upload[u].date)]
             \/ UNCHANGED surveys
      BY <1>3 DEF UploadCommit
    <2>2. upload[u].id # i
      BY <2>1 DEF Used
    <2> QED
      BY <2>1, <2>2 DEF Used, Functions
  <1>4. ASSUME NEW j \in Ids, Delete(j)
        PROVE  Used(i)' /\ (surveys'[i] = surveys[i] \/ surveys'[i] = None)
    BY <1>4 DEF Delete, Used, Functions
  <1> QED
    BY <1>1, <1>2, <1>3, <1>4
       DEF Next, Present, vars, PassGate, Override, ConfirmCommit, ViewPick,
           ViewBins, ViewCells

\* The statements of a profile, one by one, and the uploads and deletions between
\* them (GET /depth/profile).
LEMMA ViewsKept == IInv /\ IInv' /\ ViewsAreOfOne /\ [Next]_vars => ViewsAreOfOne'
  <1> SUFFICES ASSUME IInv, IInv', ViewsAreOfOne, [Next]_vars PROVE ViewsAreOfOne'
    OBVIOUS
  <1>1. \A i \in Ids : Used(i) => /\ Used(i)'
                                  /\ Present(i)' => /\ Present(i)
                                                    /\ surveys'[i] = surveys[i]
    BY SpentIdsAreSettled
  <1>2. CASE UNCHANGED view
    BY <1>1, <1>2 DEF ViewsAreOfOne
  <1>3. ASSUME NEW v \in Viewers, NEW r,
               view' = [view EXCEPT ![v] = r], UNCHANGED surveys,
               r # None =>
                 /\ r = [id |-> r.id, bins |-> r.bins, cells |-> r.cells]
                 /\ r.id \in Ids /\ Used(r.id)
                 /\ r.bins = None => r.cells = None
                 /\ r.bins # None /\ Present(r.id) => r.bins = surveys[r.id].segments
                 /\ r.cells \notin {None, {}} =>
                      \E f \in Files : r.bins = Segments(f) /\ r.cells = Cells(f)
        PROVE  ViewsAreOfOne'
    <2>1. /\ view' = [u \in Viewers |-> view'[u]]
          /\ view'[v] = r
          /\ \A u \in Viewers : u # v => view'[u] = view[u]
      BY <1>3 DEF ViewsAreOfOne
    <2>2. \A i \in Ids : Used(i) => Used(i)'
      BY <1>1
    <2> QED
      BY <1>3, <2>1, <2>2 DEF ViewsAreOfOne, Present
  <1>4. ASSUME NEW v \in Viewers, ViewPick(v) PROVE ViewsAreOfOne'
    <2>1. OnFile # {} => Latest(OnFile) \in OnFile
      BY LatestExists DEF OnFile, IInv
    <2>2. OnFile # {} => Latest(OnFile) \in Ids /\ Used(Latest(OnFile))
      BY <2>1 DEF OnFile, IInv, IdsAreDrawnOnce
    <2> DEFINE r == IF OnFile = {} THEN None
                    ELSE [id |-> Latest(OnFile), bins |-> None, cells |-> None]
    <2>3. view' = [view EXCEPT ![v] = r] /\ UNCHANGED surveys
      BY <1>4 DEF ViewPick
    <2>4. CASE OnFile = {}
      BY <1>3, <2>3, <2>4
    <2>5. CASE OnFile # {}
      <3>1. r = [id |-> Latest(OnFile), bins |-> None, cells |-> None]
        BY <2>5
      <3> HIDE DEF r
      <3> QED
        BY <1>3, <2>2, <2>3, <2>5, <3>1
    <2> QED
      BY <2>4, <2>5
  <1>5. ASSUME NEW v \in Viewers, ViewBins(v) PROVE ViewsAreOfOne'
    <2> DEFINE q == view[v]
               b == IF Present(q.id) THEN surveys[q.id].segments ELSE {}
               r == [id |-> q.id, bins |-> b, cells |-> q.cells]
    <2>1. q # None /\ q.bins = None
      BY <1>5 DEF ViewBins
    <2>2. /\ q = [id |-> q.id, bins |-> q.bins, cells |-> q.cells]
          /\ q.id \in Ids /\ Used(q.id) /\ q.cells = None
      BY <2>1 DEF ViewsAreOfOne
    <2>3. view' = [view EXCEPT ![v] = r] /\ UNCHANGED surveys
      <3>1. view' = [view EXCEPT ![v] = [q EXCEPT !.bins = b]] /\ UNCHANGED surveys
        BY <1>5 DEF ViewBins
      <3>2. [q EXCEPT !.bins = b] = r
        <4>1. q = [id |-> q.id, bins |-> q.bins, cells |-> q.cells]
          BY <2>2
        <4> HIDE DEF q, b
        <4> QED
          BY <4>1
      <3> QED
        BY <3>1, <3>2
    <2>4. r.id = q.id /\ r.bins = b /\ r.cells = None
      BY <2>2
    <2>5. r = [id |-> r.id, bins |-> r.bins, cells |-> r.cells]
      OBVIOUS
    <2>6. Present(q.id) => b = surveys[q.id].segments
      OBVIOUS
    <2> HIDE DEF r, b, q
    <2> QED
      BY <1>3, <2>2, <2>3, <2>4, <2>5, <2>6
  <1>6. ASSUME NEW v \in Viewers, ViewCells(v) PROVE ViewsAreOfOne'
    <2> DEFINE q == view[v]
               c == IF Present(q.id) THEN surveys[q.id].cells ELSE {}
               r == [id |-> q.id, bins |-> q.bins, cells |-> c]
    <2>1. q # None /\ q.bins # None
      BY <1>6 DEF ViewCells
    <2>2. /\ q = [id |-> q.id, bins |-> q.bins, cells |-> q.cells]
          /\ q.id \in Ids /\ Used(q.id)
          /\ Present(q.id) => q.bins = surveys[q.id].segments
      BY <2>1 DEF ViewsAreOfOne
    <2>3. view' = [view EXCEPT ![v] = r] /\ UNCHANGED surveys
      <3>1. view' = [view EXCEPT ![v] = [q EXCEPT !.cells = c]] /\ UNCHANGED surveys
        BY <1>6 DEF ViewCells
      <3>2. [q EXCEPT !.cells = c] = r
        <4>1. q = [id |-> q.id, bins |-> q.bins, cells |-> q.cells]
          BY <2>2
        <4> HIDE DEF q, c
        <4> QED
          BY <4>1
      <3> QED
        BY <3>1, <3>2
    <2>4. r.id = q.id /\ r.bins = q.bins /\ r.cells = c
      OBVIOUS
    <2>5. r = [id |-> r.id, bins |-> r.bins, cells |-> r.cells]
      OBVIOUS
    <2>6. c # {} => \E f \in Files : q.bins = Segments(f) /\ c = Cells(f)
      <3> SUFFICES ASSUME Present(q.id)
                   PROVE  \E f \in Files : q.bins = Segments(f) /\ c = Cells(f)
        OBVIOUS
      <3>1. PICK f \in Files, d \in Dates : surveys[q.id] = Reduced(f, d)
        BY <2>2 DEF IInv, SurveysAreReduced
      <3>2. surveys[q.id].segments = Segments(f) /\ surveys[q.id].cells = Cells(f)
        BY <3>1 DEF Reduced
      <3> QED
        BY <2>2, <3>2
    <2> HIDE DEF r, c, q
    <2> QED
      BY <1>3, <2>1, <2>2, <2>3, <2>4, <2>5, <2>6
  <1> QED
    BY <1>2, <1>4, <1>5, <1>6
       DEF Next, vars, UploadBegin, UploadCommit, Delete, PassGate, Override,
           ConfirmCommit

\* A profile that was read is one survey's: whatever was uploaded or deleted
\* between its statements, each bin is as shallow as the shallowest of its cells
\* (GET /depth/profile over import_survey's tables).
THEOREM ProfilesAreOfOneSurvey == Spec => []ProfileIsOneSurvey
  <1>1. Init => ViewsAreOfOne
    BY DEF Init, ViewsAreOfOne
  <1>2. Spec => []ViewsAreOfOne
    BY <1>1, Inductive, ViewsKept, PTL DEF Spec
  <1>3. ViewsAreOfOne => ProfileIsOneSurvey
    <2> SUFFICES ASSUME ViewsAreOfOne, NEW v \in Viewers, view[v] # None,
                        view[v].cells \notin {None, {}}
                 PROVE  /\ {g.lo : g \in view[v].bins} = {c.lo : c \in view[v].cells}
                        /\ \A g \in view[v].bins :
                             g.depth = Least({c.depth : c \in
                                                {d \in view[v].cells : d.lo = g.lo}})
      BY DEF ProfileIsOneSurvey
    <2>1. PICK f \in Files : view[v].bins = Segments(f) /\ view[v].cells = Cells(f)
      BY DEF ViewsAreOfOne
    <2> QED
      BY <2>1, BinsAndCellsAgree
  <1> QED
    BY <1>2, <1>3, PTL

-----------------------------------------------------------------------------
(***************************************************************************)
(* The types.                                                              *)
(***************************************************************************)

\* An offset band begins at or beyond the quay.
LEMMA OffsetBandType ==
  ASSUME NEW off \in Nat
  PROVE  OffsetLo(off) \in Nat
  <1>1. OffsetBin \in Int /\ OffsetBin > 0
    BY DepthAssumption
  <1>2. off % OffsetBin \in Int /\ off % OffsetBin <= off
    BY <1>1
  <1> QED
    BY <1>2 DEF OffsetLo

\* What an import makes of a file is a survey.
LEMMA ReducedType ==
  ASSUME NEW f \in Files, NEW d \in Dates, Kept(f) # {}
  PROVE  Reduced(f, d) \in Survey
  <1>1. Segments(f) \in SUBSET Segment
    <2> SUFFICES ASSUME NEW s \in Kept(f)
                 PROVE  [lo |-> BinLo(s.sta), hi |-> BinLo(s.sta) + Bin,
                         depth |-> Least({t.z : t \in Column(f, s.sta)})] \in Segment
      BY DEF Segments
    <2>1. s.sta \in Int
      BY KeptType, DepthAssumption
    <2>2. BinLo(s.sta) \in Int /\ BinLo(s.sta) + Bin \in Int
      BY <2>1, StationInItsBin, DepthAssumption
    <2> QED
      BY <2>2, BinHoldsItsSoundings DEF Segment
  <1>2. Cells(f) \in SUBSET Cell
    <2> SUFFICES ASSUME NEW s \in Kept(f)
                 PROVE  [lo |-> BinLo(s.sta), off |-> OffsetLo(s.off),
                         depth |-> Least({t.z : t \in
                                     {u \in Column(f, s.sta) :
                                        OffsetLo(u.off) = OffsetLo(s.off)}})] \in Cell
      BY DEF Cells
    <2>1. s.sta \in Int /\ s.off \in Nat
      BY KeptType, DepthAssumption DEF Kept, Sounding
    <2>2. BinLo(s.sta) \in Int /\ OffsetLo(s.off) \in Nat
      BY <2>1, StationInItsBin, OffsetBandType
    <2> QED
      BY <2>2, CellHoldsItsSoundings DEF Cell
  <1>3. Reduced(f, d).lo \in Int /\ Reduced(f, d).hi \in Int
    BY ExtentCoversSegments
  <1> QED
    BY <1>1, <1>2, <1>3 DEF Reduced, Survey

\* Surveys, the ids drawn, imports and confirmations keep their types, with any
\* number of imports, deletions and confirmations at once (app/depth/).
THEOREM SurveysTypeOK == Spec => []TypeOK
  <1>1. Init => TypeOK
    BY DepthAssumption DEF Init, TypeOK, Present
  <1>2. TypeOK /\ IInv /\ IInv' /\ [Next]_vars => TypeOK'
    <2> SUFFICES ASSUME TypeOK, IInv, IInv', [Next]_vars
                 PROVE  TypeOK'
      OBVIOUS
    <2>1. \A i \in Ids : Present(i)' => surveys'[i] \in Survey
      BY ReducedType DEF IInv, SurveysAreReduced, Present
    <2>2. nextId' \in 1..(MaxSurveys + 1)
      BY DepthAssumption
         DEF Next, vars, UploadBegin, UploadCommit, Delete, PassGate, Override,
             ConfirmCommit, ViewPick, ViewBins, ViewCells, TypeOK
    <2>3. upload' \in [Uploaders -> [id: Ids, file: Files, date: Dates] \cup {None}]
      <3>1. ASSUME NEW u \in Uploaders, NEW f \in Files, NEW d \in Dates, UploadBegin(u, f, d)
            PROVE  upload' \in [Uploaders -> [id: Ids, file: Files, date: Dates] \cup {None}]
        <4>1. nextId \in Ids
          BY <3>1, DepthAssumption DEF UploadBegin, TypeOK, Ids
        <4>2. [id |-> nextId, file |-> f, date |-> d] \in [id: Ids, file: Files, date: Dates]
          BY <4>1
        <4> QED
          BY <3>1, <4>2 DEF UploadBegin, TypeOK
      <3>2. ASSUME NEW u \in Uploaders, UploadCommit(u)
            PROVE  upload' \in [Uploaders -> [id: Ids, file: Files, date: Dates] \cup {None}]
        BY <3>2 DEF UploadCommit, TypeOK
      <3>3. CASE UNCHANGED upload
        BY <3>3 DEF TypeOK
      <3> QED
        BY <3>1, <3>2, <3>3
           DEF Next, vars, Delete, PassGate, Override, ConfirmCommit,
               ViewPick, ViewBins, ViewCells
    <2>4. confirm' \in [Clerks -> [booking: Bookings, by: Ids \cup {None}] \cup {None}]
      <3> DEFINE Mark == [booking: Bookings, by: Ids \cup {None}]
      <3>1. ASSUME NEW c \in Clerks, NEW b \in Bookings,
                   PassGate(c, b) \/ Override(c, b)
            PROVE  confirm' \in [Clerks -> Mark \cup {None}]
        <4>1. Governing(Hull[b]) \in Ids \cup {None}
          BY GoverningReaches DEF IInv, Reaching
        <4>2. PICK by \in Ids \cup {None} :
                confirm' = [confirm EXCEPT ![c] = [booking |-> b, by |-> by]]
          BY <3>1, <4>1 DEF PassGate, Override
        <4>3. [booking |-> b, by |-> by] \in Mark
          OBVIOUS
        <4> QED
          BY <4>2, <4>3 DEF TypeOK
      <3>2. ASSUME NEW c \in Clerks, ConfirmCommit(c)
            PROVE  confirm' \in [Clerks -> Mark \cup {None}]
        BY <3>2 DEF ConfirmCommit, TypeOK
      <3>3. CASE UNCHANGED confirm
        BY <3>3 DEF TypeOK
      <3> QED
        BY <3>1, <3>2, <3>3
           DEF Next, vars, UploadBegin, UploadCommit, Delete, ViewPick, ViewBins, ViewCells
    <2>5. judged' \in [Bookings -> Ids \cup {None}]
      <3>1. judged' = [b \in Bookings |-> judged'[b]]
        BY DEF IInv, Functions
      <3>2. \A b \in Bookings : judged'[b] \in Ids \cup {None}
        BY DEF IInv, IdsAreDrawnOnce
      <3> QED
        BY <3>1, <3>2
    <2> QED
      BY <2>1, <2>2, <2>3, <2>4, <2>5 DEF TypeOK
  <1> QED
    BY <1>1, <1>2, Inductive, PTL DEF Spec
=============================================================================
