---------------------------- MODULE DepthSurveys ----------------------------
(***************************************************************************)
(* Depth surveys and the draft gate that reads them (app/depth/ingest.py,  *)
(* app/depth/gate.py, app/routers/depth.py, _depth_gate of app/edit.py).   *)
(*                                                                         *)
(* An upload is reduced, in one transaction, from its soundings to a       *)
(* profile of station bins and a grid of cells; surveys are versioned, so  *)
(* each upload is a new dated row.  Its id is drawn from the sequence when *)
(* the transaction inserts the row and becomes visible when it commits:    *)
(* two uploads may commit out of the order of their ids, and an upload may *)
(* carry an older date than the ones before it.  The endpoint is a         *)
(* coroutine, so its imports take turns on the event loop; the command     *)
(* line's import runs beside them.                                         *)
(*                                                                         *)
(* Confirming a booking reads the gate and commits later.  The map's       *)
(* profile is read in three statements, each of which sees what is         *)
(* committed by then.                                                      *)
(*                                                                         *)
(* A sounding is its station, its offset off the quay, its depth and       *)
(* whether it lies on the apron: the projection onto the centerline is     *)
(* PostGIS's.  Every upload is active, there being no endpoint to retire   *)
(* one.                                                                    *)
(***************************************************************************)
EXTENDS Integers

CONSTANTS
  Files,      \* the sounding files operators upload: sets of soundings
  Far,        \* stations and depths the columns can hold: -Far..Far
  Bin,        \* depth_bin_ft
  OffsetBin,  \* depth_offset_bin_ft
  Toe,        \* depth_toe_offset_ft: nearer soundings are wall-toe shallows
  Reach,      \* depth_max_offset_ft: farther ones are the channel
  MaxDate,    \* survey dates are 0..MaxDate
  MaxSurveys, \* uploads ever begun (a bound)
  Uploaders,  \* concurrent imports: POST /depth/surveys, the command line's
  Bookings,   \* bookings to confirm
  Hull,       \* the closed stretch of wharf each booking takes
  Draft,      \* the draft of its vessel as the gate reads it, or Unknown
  Clearance,  \* depth_clearance_ft
  Clerks,     \* concurrent confirmations
  Viewers,    \* concurrent GET /depth/profile
  Unknown,    \* no draft on file; no depth to judge by
  None        \* no survey; nothing in progress; not yet read

Ids   == 1..MaxSurveys
Dates == 0..MaxDate

Sounding == [sta: -Far..Far, off: Nat, z: -Far..Far, apron: BOOLEAN]

ASSUME DepthAssumption ==
  /\ Far \in Nat
  /\ \A f \in Files : f \subseteq Sounding
  /\ Bin \in Nat \ {0}
  /\ OffsetBin \in Nat \ {0}
  /\ Toe \in Nat
  /\ Reach \in Nat
  /\ MaxDate \in Nat
  /\ MaxSurveys \in Nat
  /\ \A b \in Bookings :
       /\ Hull[b].lo \in Int /\ Hull[b].hi \in Int
       /\ Draft[b] \in Nat \cup {Unknown}
  /\ Clearance \in Nat
  /\ Unknown \notin Int
  /\ None \notin Int

VARIABLES
  surveys, \* depth_survey with its segments and cells, as committed
  nextId,  \* the sequence of the ids
  upload,  \* each import in its transaction
  confirm, \* each confirmation between its gate and its commit
  judged,  \* of each confirmed booking, the survey its gate went by
  view     \* each profile being read

vars == <<surveys, nextId, upload, confirm, judged, view>>

-----------------------------------------------------------------------------
(***************************************************************************)
(* The reduction of import_survey.                                         *)
(***************************************************************************)

Least(S)    == CHOOSE x \in S : \A y \in S : x <= y
Greatest(S) == CHOOSE x \in S : \A y \in S : x >= y

(***************************************************************************)
(* The berthing zone: on the apron and in the band off the quay.           *)
(***************************************************************************)
Kept(file) == {s \in file : s.apron /\ Toe <= s.off /\ s.off <= Reach}

(***************************************************************************)
(* floor(sta / bin) * bin, for negative stations too.                      *)
(***************************************************************************)
BinTruncated(sta) == IF sta < 0 THEN -((-sta) - ((-sta) % Bin)) ELSE sta - (sta % Bin)

BinLo(sta)     == sta - (sta % Bin)
OffsetLo(off)  == off - (off % OffsetBin)

Column(file, sta) == {s \in Kept(file) : BinLo(s.sta) = BinLo(sta)}

Segments(file) ==
  {[lo |-> BinLo(s.sta), hi |-> BinLo(s.sta) + Bin,
    depth |-> Least({t.z : t \in Column(file, s.sta)})] : s \in Kept(file)}

Cells(file) ==
  {[lo |-> BinLo(s.sta), off |-> OffsetLo(s.off),
    depth |-> Least({t.z : t \in {u \in Column(file, s.sta) :
                                    OffsetLo(u.off) = OffsetLo(s.off)}})]
     : s \in Kept(file)}

(***************************************************************************)
(* The survey row with its backfilled extent.  file is history: the raw    *)
(* soundings are not stored.                                               *)
(***************************************************************************)
Reduced(file, date) ==
  [date |-> date, segments |-> Segments(file), cells |-> Cells(file),
   lo |-> Least({g.lo : g \in Segments(file)}),
   hi |-> Greatest({g.hi : g \in Segments(file)}),
   file |-> file]

-----------------------------------------------------------------------------
(***************************************************************************)
(* The gate.                                                               *)
(***************************************************************************)

Present(i) == surveys[i] # None

(***************************************************************************)
(* ORDER BY surveyed_at DESC, id DESC.                                     *)
(***************************************************************************)
NewerById(i, j) == i >= j

Newer(i, j) ==
  \/ surveys[i].date > surveys[j].date
  \/ surveys[i].date = surveys[j].date /\ i >= j

Latest(S) == CHOOSE i \in S : \A j \in S : Newer(i, j)

(***************************************************************************)
(* The surveys whose closed extent touches a closed stretch; the newest of *)
(* them is the one the gate goes by, whatever bins it has there.           *)
(***************************************************************************)
Reaching(h) ==
  {i \in Ids : Present(i) /\ surveys[i].lo <= h.hi /\ h.lo <= surveys[i].hi}

Governing(h) == IF Reaching(h) = {} THEN None ELSE Latest(Reaching(h))

(***************************************************************************)
(* Bins are half-open, the stretch is closed.                              *)
(***************************************************************************)
Under(segments, h) == {g \in segments : g.lo <= h.hi /\ h.lo < g.hi}

Controlling(h) ==
  IF Governing(h) = None THEN Unknown
  ELSE LET bins == Under(surveys[Governing(h)].segments, h)
       IN  IF bins = {} THEN Unknown ELSE Least({g.depth : g \in bins})

(***************************************************************************)
(* depth_shortfall: what cannot be evaluated does not block.               *)
(***************************************************************************)
ShortOfDraftAlone(depth, draft) ==
  depth # Unknown /\ draft # Unknown /\ draft > depth

Short(depth, draft) ==
  depth # Unknown /\ draft # Unknown /\ draft + Clearance > depth

-----------------------------------------------------------------------------
Init ==
  /\ surveys = [i \in Ids |-> None]
  /\ nextId = 1
  /\ upload = [u \in Uploaders |-> None]
  /\ confirm = [c \in Clerks |-> None]
  /\ judged = [b \in Bookings |-> None]
  /\ view = [v \in Viewers |-> None]

(***************************************************************************)
(* POST /depth/surveys.  An import nothing of which lies in the berthing   *)
(* zone is rolled back (422); its id is spent.                             *)
(***************************************************************************)
UploadBegin(u, f, d) ==
  /\ upload[u] = None
  /\ nextId <= MaxSurveys
  /\ nextId' = nextId + 1
  /\ upload' = [upload EXCEPT ![u] = [id |-> nextId, file |-> f, date |-> d]]
  /\ UNCHANGED <<surveys, confirm, judged, view>>

UploadCommit(u) ==
  LET up == upload[u]
  IN  /\ up # None
      /\ upload' = [upload EXCEPT ![u] = None]
      /\ \/ /\ Kept(up.file) # {}
            /\ surveys' = [surveys EXCEPT ![up.id] = Reduced(up.file, up.date)]
         \/ /\ Kept(up.file) = {}
            /\ UNCHANGED surveys
      /\ UNCHANGED <<nextId, confirm, judged, view>>

(***************************************************************************)
(* DELETE /depth/surveys/{id} cascades to the segments and the cells.      *)
(***************************************************************************)
Delete(i) ==
  /\ Present(i)
  /\ surveys' = [surveys EXCEPT ![i] = None]
  /\ UNCHANGED <<nextId, upload, confirm, judged, view>>

(***************************************************************************)
(* Confirming a booking: the gate, then the write and its commit.  An      *)
(* override turns the block into a warning; a gate that could not judge    *)
(* only warns.                                                             *)
(***************************************************************************)
PassGate(c, b) ==
  LET depth == Controlling(Hull[b])
  IN  /\ confirm[c] = None
      /\ ~Short(depth, Draft[b])
      /\ confirm' = [confirm EXCEPT
                       ![c] = [booking |-> b,
                               by |-> IF depth = Unknown THEN None
                                      ELSE Governing(Hull[b])]]
      /\ UNCHANGED <<surveys, nextId, upload, judged, view>>

Override(c, b) ==
  /\ confirm[c] = None
  /\ Short(Controlling(Hull[b]), Draft[b])
  /\ confirm' = [confirm EXCEPT ![c] = [booking |-> b, by |-> None]]
  /\ UNCHANGED <<surveys, nextId, upload, judged, view>>

ConfirmCommit(c) ==
  /\ confirm[c] # None
  /\ judged' = [judged EXCEPT ![confirm[c].booking] = confirm[c].by]
  /\ confirm' = [confirm EXCEPT ![c] = None]
  /\ UNCHANGED <<surveys, nextId, upload, view>>

(***************************************************************************)
(* GET /depth/profile: the newest survey wherever it reaches, then its     *)
(* bins, then its cells.  A view that was read is read again later.        *)
(***************************************************************************)
OnFile == {i \in Ids : Present(i)}

ViewPick(v) ==
  /\ view[v] # None => view[v].cells # None
  /\ view' = [view EXCEPT
                ![v] = IF OnFile = {} THEN None
                       ELSE [id |-> Latest(OnFile), bins |-> None, cells |-> None]]
  /\ UNCHANGED <<surveys, nextId, upload, confirm, judged>>

ViewBins(v) ==
  /\ view[v] # None
  /\ view[v].bins = None
  /\ view' = [view EXCEPT
                ![v].bins = IF Present(view[v].id) THEN surveys[view[v].id].segments
                            ELSE {}]
  /\ UNCHANGED <<surveys, nextId, upload, confirm, judged>>

ViewCellsOfLatest(v) ==
  /\ view[v] # None
  /\ view[v].bins # None /\ view[v].cells = None
  /\ view' = [view EXCEPT
                ![v].cells = IF OnFile = {} THEN {}
                             ELSE surveys[Latest(OnFile)].cells]
  /\ UNCHANGED <<surveys, nextId, upload, confirm, judged>>

ViewCells(v) ==
  /\ view[v] # None
  /\ view[v].bins # None /\ view[v].cells = None
  /\ view' = [view EXCEPT
                ![v].cells = IF Present(view[v].id) THEN surveys[view[v].id].cells
                             ELSE {}]
  /\ UNCHANGED <<surveys, nextId, upload, confirm, judged>>

Next ==
  \/ \E u \in Uploaders, f \in Files, d \in Dates : UploadBegin(u, f, d)
  \/ \E u \in Uploaders : UploadCommit(u)
  \/ \E i \in Ids : Delete(i)
  \/ \E c \in Clerks, b \in Bookings : PassGate(c, b)
  \/ \E c \in Clerks, b \in Bookings : Override(c, b)
  \/ \E c \in Clerks : ConfirmCommit(c)
  \/ \E v \in Viewers : ViewPick(v)
  \/ \E v \in Viewers : ViewBins(v)
  \/ \E v \in Viewers : ViewCells(v)

Spec == Init /\ [][Next]_vars

-----------------------------------------------------------------------------
(***************************************************************************)
(* Properties.                                                             *)
(***************************************************************************)

Segment == [lo: Int, hi: Int, depth: Int]
Cell    == [lo: Int, off: Nat, depth: Int]
Survey  == [date: Dates, segments: SUBSET Segment, cells: SUBSET Cell,
            lo: Int, hi: Int, file: Files]

\* Every variable has its type.
TypeOK ==
  /\ \A i \in Ids : Present(i) => surveys[i] \in Survey
  /\ nextId \in 1..(MaxSurveys + 1)
  /\ upload \in [Uploaders -> [id: Ids, file: Files, date: Dates] \cup {None}]
  /\ confirm \in [Clerks -> [booking: Bookings, by: Ids \cup {None}] \cup {None}]
  /\ judged \in [Bookings -> Ids \cup {None}]

Over(file, h) == {s \in Kept(file) : h.lo <= s.sta /\ s.sta <= h.hi}

\* The gate misses no shoal: of the survey it goes by, no sounding in the
\* berthing zone over a hull is shallower than the depth it answers, on the very
\* ends of the hull and of the bins too; and its answer is a sounding within a
\* bin of the hull (controlling_depth_over against import_survey).
GateMissesNoShoal ==
  \A b \in Bookings :
    LET h == Hull[b]
        g == Governing(h)
    IN  g # None =>
          /\ \A s \in Over(surveys[g].file, h) :
               Controlling(h) # Unknown /\ Controlling(h) <= s.z
          /\ Controlling(h) # Unknown =>
               \E s \in Kept(surveys[g].file) :
                 /\ s.z = Controlling(h)
                 /\ h.lo - Bin < s.sta /\ s.sta < h.hi + Bin

\* While the survey a booking was confirmed by still governs its stretch, the
\* water under the hull is deep enough for its draft and the clearance, sounding
\* by sounding, although surveys came and went between the gate and the commit
\* and since (_depth_gate: "draft must clear controlling depth before confirm").
BookingStandsOnItsSurvey ==
  \A b \in Bookings :
    LET g == Governing(Hull[b])
    IN  g # None /\ judged[b] = g /\ Draft[b] # Unknown =>
          \A s \in Over(surveys[g].file, Hull[b]) : s.z >= Draft[b] + Clearance

\* What the map draws of a profile is one survey's: whatever was uploaded or
\* deleted between the statements, the depth of a bin is the shallowest of its
\* cells (import_survey: "they can never disagree").
ProfileIsOneSurvey ==
  \A v \in Viewers :
    view[v] # None /\ view[v].cells \notin {None, {}} =>
      /\ {g.lo : g \in view[v].bins} = {c.lo : c \in view[v].cells}
      /\ \A g \in view[v].bins :
           g.depth = Least({c.depth : c \in {d \in view[v].cells : d.lo = g.lo}})

\* An upload, however late it commits and whatever its id, changes no answer of
\* the gate where a survey of a later date reaches; and a deletion changes none
\* where the deleted survey did not govern (gate.py: "a newer survey supersedes
\* an older one wherever it reaches"; depth.js: "the next-latest active survey
\* takes over the draft gate").
OnlyTheNewestDecides ==
  [][\A b \in Bookings, i \in Ids :
       LET h == Hull[b]
       IN  (\/ /\ ~Present(i) /\ Present(i)'
               /\ \E j \in Reaching(h) : surveys[j].date > surveys'[i].date
            \/ Present(i) /\ ~Present(i)' /\ Governing(h) # i)
           => Controlling(h)' = Controlling(h)]_vars
=============================================================================
