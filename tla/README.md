# Verification of the POPA berth scheduler

TLA+ models of the berth scheduler in `src/`, TLC configurations that check
them on small instances, and TLAPS proofs of what matters most for every
instance. Paths below are relative to the repository, line numbers refer to
its files.

1. [The system](#1-the-system)
2. [Modules and code](#2-modules-and-code)
3. [Runs](#3-runs)
4. [Fairness](#4-fairness)
5. [Proofs](#5-proofs)
6. [Where code and docs disagree](#6-where-code-and-docs-disagree)
7. [What is not modelled](#7-what-is-not-modelled)
8. [Plan](#8-plan)

To check a run: `tlc -workers 2 -config MCDeskEdits.cfg MCReservationDesk`. To
check a proof: `tlapm ReservationDeskProofs.tla`.

## 1. The system

One wharf (the Port of Port Arthur), one PostgreSQL database, one FastAPI
application and three background workers. Everything of consequence is in the
database; the processes share nothing else. The application runs at READ
COMMITTED, opens one session per request, takes no explicit lock and keeps no
version column, so the only things that hold between two requests are the
database constraints.

| Component | State it keeps | Operations that change it | Hard behaviour | What makes it correct |
|---|---|---|---|---|
| Reservation desk (`app/edit.py`, `app/routers/edit.py`) | `reservation`: vessel, named berth, station range, time range, heading, status, notes | POST, PATCH (partial: read, merge, write every column), DELETE | two PATCHes, a sweep and the worker in any order; bounds omitted, empty or unbounded; promotion of derived rows | no two confirmed hulls within the gap; a confirmed row clears the depth; a partial edit writes back what it does not name |
| Exclusion constraint and ranges (`app/conflicts.py`, migrations 0001 and 0007) | `no_wharf_overlap`: confirmed rows only, stations padded by half the gap | checked by each insert or update | half-open times, closed stations, empty and unbounded ranges | the padding is the whole gap between two hulls |
| Verification sweep (`app/verification.py`) | none of its own; writes status and notes | POST `/verification/sweep` from every open browser, and once per worker cycle | decides from a snapshot, applies to what the row has become; a dead feed | archives on evidence only; never blocked by the constraint; an overdue request does not linger |
| Berthing detection and derivation (`app/occupancy/`) | observed rows of `reservation`, by `derived_key` | one cycle a minute: load all fixes, detect, upsert, sweep, commit | fixes late, missing or with no speed; silence against departure; one refused upsert rolls back the cycle | every stay detected once, a berthing ends where a departure is seen, the row follows its event |
| Find-berth oracle (`app/feasibility.py`, picker of `static/js/forms.js`) | none (a read); the picker keeps the answer | GET `/feasibility`, then the PATCH of the chosen spot | answer stale at the click; nested, touching or protruding obstacles; the menu cut at its limit | the bands are exactly the free room; a fresh offer is admitted where it was shown; no band without a slot |
| Draft gate and depth surveys (`app/depth/`) | `depth_survey` with its `depth_segment` bins and `depth_cell` grid; the gate reads the newest survey whose extent touches the placement | load or delete a survey; the gate is a read by POST and PATCH; the map reads a profile in three statements | uploads commit out of the order of ids and dates; a survey lands between a gate and its commit; soundings on the edge of a bin or of a hull | the gate misses no shoal of the survey it goes by; a booking stands on that survey; only the newest decides |
| AIS ingest (`app/ais/ingest.py`) | position reports, vessels, in-memory batch | upsert per message, commit per 50 messages or per 10 s | the timer is looked at only when a message arrives; reconnects; static data against dimensions a person locked | nothing heard is lost beyond one batch; locked dimensions stay |
| Berth-request intake (`app/intake/manual.py`) | `intake_event` (a trail), vessels, requested rows | land a form, edit, withdraw; upsert a vessel, re-project placements to its new length | dedupe on live content; two requests for one IMO; withdrawal against edit | the schedule mirrors the trail; tracked dimensions stand |
| Dataverse intake worker (`app/intake/dataverse_run.py`) | rows New or triaged in the portal, the memory of rows whose mark failed | poll, read with a model, record and commit, mark | no transaction spans the portal and the database; death between commit and mark; replies lost | nothing marked unread; a row recorded once per run; no row starves |
| LLM normaliser (`app/intake/llm.py`) | none | one call per row | junk replies | a junk reply loses nothing |
| Worker heartbeats (`app/workers.py`) | `worker_heartbeat` | one upsert per cycle in a session of its own, its errors swallowed | a cycle fails, hangs or is killed, a beat is lost | a worker that does not do its work does not look healthy for ever |
| Request form (`app/static/js/forms.js`) | the fields, two timers, look-ups in flight, the submission | typing, look-up by IMO, search by name, open or cancel an edit, record, save | replies late and out of order; an edit opened or closed, or the form cleared, while a submission waits | an edit and a new request hold nothing of each other; every submission ends |
| Conflict list and verification panel (`app/conflicts.py`, `verify` of `app/verification.py`) | none (queries at `now()`) | - | SQL of their own for what the constraint and the sweep decide too | alerts reach the present and nothing else; panel and sweep agree |
| Audit log | `audit_log` | an insert in the transaction of each write | none: read only by people | as many lines as committed writes |
| Hull projection, the other read-only views, the ranking of the vessel search, authentication, settings, migrations, seed scripts, the other browser views | none, or written once per deployment | none at run time | none of the kinds above | - |

How they interact:

- operators and browsers call the application, which writes `reservation`;
- the AIS ingest writes positions and vessels; the occupancy worker reads them
  and writes observed rows of the same `reservation` table;
- the sweep reads observed rows and the feed's liveness, and writes the status
  of planned rows, from the browser and from the worker;
- the intake writes vessels and requested rows, and re-projects placements when
  it learns a length; the Dataverse worker calls the intake;
- the oracle reads the table; the picker turns a candidate into a PATCH;
- a depth survey changes what the gate answers the next PATCH, not what was
  confirmed before;
- the request form asks the vessel look-up and sends what it has by then to the
  intake; the console's panels read the table, the heartbeats and the surveys.

`PROJECT.json` lists every component with its sources and every hazard at the
line where it bites.

## 2. Modules and code

| Module | Models | Size of its state |
|---|---|---|
| `WharfRanges` | time windows, station ranges, Dock No., overlap predicates, the constraint's padding | none (operators) |
| `ReservationDesk` | the table under operators, sweeps and the occupancy worker | clock, feed, berthings, table, PATCHes and sweeps in progress |
| `Feasibility` | the oracle's interval arithmetic, the picker, the board that changes meanwhile | board, subject, offer |
| `BerthingDetection` | the detector over one vessel's track, the keyed upserts, the worker's cycles | clock, track, feed clock, rows |
| `DataverseWorker` | portal rows, trail, processes of the worker, their death | submitted, triaged, trail, workers, a history of readings |
| `VesselRegister` | the vessel table under the AIS ingestor's open batch, edits of a vessel and berth requests | committed rows, batch, requests in progress |
| `BerthIntake` | berth requests: the trail, the bookings they are projected into, the ships they name | trail, bookings, ships, edits and withdrawals in progress |
| `DepthSurveys` | uploads in transactions, the reduction to bins and cells, the gate, the confirmation that reads it, the map's profile | surveys, id sequence, uploads, confirmations and views in progress |
| `RequestForm` | the console's form: look-ups, search, edits, submission | fields, timers, look-ups in flight, submission |
| `OccupancyWorker` | the worker's cycles and heartbeats and the console's chip, over `BerthingDetection` | worker, heartbeat row, chip |
| `Advisories` | the conflict list and the verification panel, as queries over the desk's table | none (operators over `ReservationDesk`) |
| `Wharf` | abstract specification: confirmed bookings as exclusive holds on water | the holds |
| `DeskRefinement` | the desk implements the Wharf: the refinement mapping | - |
| `...Proofs` (8 modules) | theorems, section 5 | - |
| `MC...` | small instances | - |

`PROJECT.json` "map" gives the lines behind every definition.

### WharfRanges

A range is `[lo, hi]`, empty when `lo >= hi`. Postgres forgets the bounds of an
empty range, so both constructors return the one `Empty`. An unbounded end is
the tick just outside the clock, which is also what a NULL bound becomes when a
handler passes it back to `tstzrange()`: `Lower` and `Upper` of an empty window
are therefore `Before` and `After`, as `lower()` and `upper()` return NULL for
both. Feet are integers; the constraint's half gap is exact because stations
are doubled before they are padded.

### ReservationDesk

| Action | Code |
|---|---|
| `Create` | `create_reservation`, with the insert and the constraint; a 422 or 409 leaves no row, so a refused create is no step |
| `PatchRead`, `PatchCommit` | `update_reservation`: the SELECT of the row, then the resolution, the gate, the UPDATE of every column and the commit. Any number of steps of others fit in between. A refusal ends the request and changes nothing |
| `Delete` | `delete_reservation`. Serial ids are not used again |
| `SweepRead`, `SweepCommit` | `expire_stale` called by the endpoint |
| `WorkerCycle` | `run_cycle`: derive, sweep, commit; refused as a whole when an upsert breaks the constraint, which the absence of a step stands for |
| `Tick`, `FixLands`, `VesselBerths`, `VesselLeaves` | the clock and the world |

*The sweep.* `_EXPIRE_SQL` is one `UPDATE reservation r ... FROM (SELECT ...
FROM reservation) d WHERE r.id = d.id`. Under READ COMMITTED the statement takes
a snapshot, computes `d` from it, and for a target row another transaction has
changed waits, then re-evaluates with the *new* version of `r` but the *old* row
of `d` (only the target is re-read). The WHERE clause on the target is the join
on the id alone, so the decision stands whatever the row became. That is why a
sweep is two steps: `SweepRead` keeps the snapshot, `SweepCommit` applies its
verdicts to the current rows. A row deleted meanwhile is skipped (`gone`).

*The worker* computes and applies in one step: no other sweep or edit is placed
between its derive and its commit. Its sweep statement sees its own upserts,
which is what the two orders `WorkerCycle` and the mutant `WorkerSweepsFirst`
tell apart. The interleavings this leaves out are those of the endpoint's sweep,
which is modelled with its gap.

*Abstractions.* A booked vessel berths once per behaviour. The detector's
outcome is an input here and is derived in `BerthingDetection`. Notes are kept
as the number of flag lines. The depth under the wharf is a fixed set of shoals
per vessel. What a berth request does to placements is in `BerthIntake`; a PATCH
of a vessel moves no row.

### Feasibility

`SubtractIntervals`, `FeasibleBands`, `PlacementRange`, `CandidateSlots` and
`Candidate` follow `app/feasibility.py` step by step: each loop is a recursive
function of the iterations, `sorted()` is `InOrder`, which puts each element after
as many as precede it, and the slots, which `push` keeps free of duplicates, are
a set until they are sorted. `Room` is the reference definition: the low ends from which
a hull keeps the whole gap from every obstacle. `FindBerth` is the GET,
`ConfirmCandidate` the PATCH the picker sends; between them `OthersTake` and
`OthersRelease` change the board. A candidate shown too shallow is sent with the
override the operator has just agreed to; another that the gate refuses, as shoaler
than shown, is sent again with it when the operator agrees then. So a confirmation
may carry the override whatever the menu showed, and `ConfirmCandidate` has no gate.

### BerthingDetection

`NextScan` is one iteration of the loop of `detect_berthings`; `ScanOf` runs it
over the track as a recursive function. The speeds of fixes lie on both sides of
and on each threshold. `Derive` is one cycle for one vessel: the worker keeps no
memory, so a restart between two cycles is no step at all. `Lateness` bounds how
late a fix may land, `Sinces` holds the bounds a run may be given: 1 tick, and a
run over all history or from 2, in `MCDetectRows`. The key of a row is the first fix
of its event, so a late fix and a `--since` each strand rows, and `RowsFollowTheTrack`
says that nothing else does.

### DataverseWorker

Each iteration of `process_batch` is cut where the process may die or a call
fail: `Parse`, `Record` (with its commit), `MarkSucceeds` or `MarkFails`. A mark
that raises may or may not have been applied. A commit that raises was rolled back
(`Fail`) or applied all the same, its reply lost (`CommitUnheard`): the handler takes
it for a failure, remembers nothing and leaves the row New. `Restart` is a death, or a `--once`
batch started again: nothing is remembered. Only the content hash of a request
is kept. `answer` and the `by`, `row` and `held` of an event are history: no
action reads them but to bound the mishaps. An event of a commit nobody heard of is
`Unheard` in its `by`.

### VesselRegister

| Action | Code |
|---|---|
| `StaticData`, `Position` | `Ingestor.handle`: the upsert on MMSI inside a transaction that stays open, then the commit if the batch is full or the timer is found to have run out |
| `StreamEnds`, `BatchLost` | `Ingestor.run` flushes on its way out; a death, or a commit refused, loses the batch |
| `EditRead`, `EditCommit` | `update_vessel`: the SELECT of mmsi, lock and shadow, then the UPDATE, of fields set or cleared (a NULL length or MMSI). It waits while the batch holds the row. A taken MMSI, or neither MMSI nor IMO left, is refused |
| `Resolve`, `UpsertVessel` | `_resolve_imo_vessel` or `_apply_ais_overrides` of a berth request, and later `_upsert_vessel` |

The ingestor is one process with one session, so its batch is one overlay over
the committed rows; a row in it is locked, and an UPDATE of it by a request waits
until it is committed or lost and then applies to what it finds. One length
stands for length, beam and draft, which the code treats alike. `heard` is
history: what the feed last gave for the row. The reads of a request other than
the one it decides on are taken with its write.

### BerthIntake

| Action | Code |
|---|---|
| `Create` | `record_manual_request`: nothing at all for an empty form, a name that clashes with the ship on file, or content already live; otherwise the vessel, its placements, the event, and a booking if there is an arrival date |
| `EditRead`, `CommitEdit` | `update_manual_request`: the SELECT of the event with its link, then the write of content and hash, vessel, placements, and of the booking linked *at the read* or a new one |
| `WithdrawRead`, `CommitWithdraw` | `delete_manual_request`: the same SELECT, then the soft delete and the DELETE of the booking, which clears the link (ON DELETE SET NULL) |
| `RolledBack` | `do_write` on a refusal or a failure: everything or nothing |
| `PatchRead`, `PatchCommit`, `PatchRefused` | `update_reservation`, the desk's PATCH of a booking: the SELECT of its row, then every column written back, ship and window included, named in the body or as read |
| `DeleteBooking` | `delete_reservation` |
| `LengthChanges` | PATCH of a vessel, or the feed: neither re-projects a placement |

The content hash of a request is the form it was computed from: two forms hash
alike when they are alike. One row per IMO is assumed here, and its failure
described in section 6. `raced` and `rewritten` are history: the first marks an event that
two requests wrote, the later without having seen that the earlier had withdrawn it
or given it a booking; the second a booking whose ship or window the desk changed
last, and not its request. The desk's PATCH keeps here what touches the intake; the
gate, the flags and the precedence of half-given bounds are `ReservationDesk`'s. A length the edit form shows
because the feed overrode it stands for what was entered first
(`_restore_kept_ais_prefill`). `update_manual_request` re-projects the placements
of the ship the *form* names before it gives the booking to that ship; `Edited`
keeps that order.

The theorems need three sets kept apart, so `MarksAssumption` says that the marks
for an unused id, a deleted booking and an idle clerk or operator are no records.

### DepthSurveys

| Action | Code |
|---|---|
| `UploadBegin`, `UploadCommit` | `import_survey` in its transaction: the id drawn from the sequence, the bins and cells reduced from the soundings; the commit makes them visible |
| `Delete` | `delete_survey`, whose segments and cells go with it (ON DELETE CASCADE) |
| `PassGate`, `Override`, `ConfirmCommit` | `_depth_gate` inside a POST or PATCH, and the write and commit that follow it. A blocked request without an override is no step |
| `ViewPick`, `ViewBins`, `ViewCells` | the three statements of `survey_profile`, each with a snapshot of its own |

A sounding is projected by PostGIS: its station and offset are inputs. Bins are
half open and counted from a floor division, of negative stations too; the hull
and the extent of a survey are closed. The endpoint's imports run on the event
loop and so take turns; the command line's runs beside them, which is why there
is more than one uploader. `judged` is history: the survey a booking was
confirmed by. Depths are whole, the columns' rounding to hundredths left out.

### RequestForm

A handler runs to its next `await`; each action is one such piece: what the
operator does (`TypeImo`, `TypeName`, `TypeDim`, `ImoBlur`, `NameBlur`,
`PickSuggest`, `OpenEdit`, `CancelEdit`, `Save`, `Record`), what the browser does
(`ImoTimer`, `SearchReturns`, `LookupReturns`, `LookupFails`, `BuildPayload`) and
what the server answers (`Answers`, `Fails`, `Pinned`). A field holds where its
value came from, which is what the properties tell apart: the operator, the ship
of an IMO, or the request opened. `ScheduleLookup` is `autofillFromImo` up to its
await; that a look-up for the IMO last asked about returns at once, and so
settles the promise of the one in flight, is its first disjunct. `given` is history:
the IMOs a new request has been given since it was begun. `OpenEdit` leaves the
dimensions of a tracked ship marked or, when they are locked, unmarked.

### OccupancyWorker

The worker is asleep, working, or about to beat. A cycle commits (`Derive` of
`BerthingDetection`), is rolled back, or ends with nothing (`NoBeat`: killed, or
its beat lost); hanging is the absence of a step. An age is counted in cadences
and no further than `classify` tells apart.

### Advisories

Two sets of operators over the variables of `ReservationDesk`, without state or
actions. The queries' defaults are modelled, as the live panels call them. The
harbor-craft filter of `find_conflicts` is left out, and a pair of rows of one
vessel is never a conflict.

### Wharf and DeskRefinement

`Wharf` knows holders and their holds. A step is a claim of one holder into water
clear of every other by the whole gap, a letting go, or derived holds following
their ships into clear water. `DeskRefinement` maps a confirmed row to a hold of
its station and time, every other row to none. So an edit may claim, a sweep may
only let go, and the worker may move none but derived rows that were promoted.

## 3. Runs

| Run | Module, cfg | Question | Bounds | States |
|---|---|---|---|---|
| `desk_edits` | `MCReservationDesk`, `MCDeskEdits` | do partial edits, held open under other writers, keep the gap and the depth, and write back what they do not name as they read it? | 2 bookings, 1 operator, 2 berths exactly a gap apart, a shoal under the southern one, 8 patches | 97,254 |
| `desk_sweeps` | `MCReservationDesk`, `MCDeskSweeps` | do sweeps archive on evidence only, hit no constraint and give no hold away; is an overdue request judged in the end; do alerts reach the present and nothing else, do panel and sweep agree? | 1 booking, 1 vessel, 1 operator who may promote, 1 browser, the worker, no grace | 119,256 |
| `desk_auto_cancel` | `MCReservationDesk`, `MCDeskAutoCancel` | a disagreement, section 6 | 1 booking | - |
| `find_berth` | `MCFeasibility` | are the bands the room, and are fresh offers honoured? | up to 3 rows of others, nested, touching and protruding; a menu of 1 | 293,042 |
| `detect_rows` | `MCBerthingDetection`, `MCDetectRows` | is each stay one event, ended by a departure, and what strands a row? | clock of 5, six kinds of fix, one fix may be 1 tick late, runs from 0 and from 2 | 759,951 |
| `detect_liveness` | `MCOccupancyWorker`, `MCDetectLiveness` | does a silent berthing close, and does a worker that fails to close it show? | clock of 4, two kinds of fix, 2 beats may be missed | 151,374 |
| `depth` | `MCDepthSurveys`, `MCDepth` | does the gate miss a shoal, does a booking stand on its survey, do late uploads and deletions change only what they should, is a profile one survey's? | 3 surveys of 3 files, 2 dates, 2 uploaders, 2 bookings, 1 confirmation and 1 view at a time | 218,788 |
| `request_form` | `MCRequestForm`, `MCForm` | does an edit or a new request hold or send what is not its own, does every submission end? | 2 IMOs, one on file and tracked; 1 request to open; 2 look-ups in flight | 288,020 |
| `form_race` | `MCRequestForm`, `MCFormRace` | a disagreement, section 6 | the same | - |
| `dataverse` | `MCDataverseWorker`, `MCDataverse` | does every row reach the trail once and get marked, past failures and a restart? | 3 rows, batches of 2, one row always refused, 1 mishap: a restart or a commit whose reply is lost | 14,449 |
| `register` | `MCVesselRegister`, `MCRegister` | does a pinned length stand, is the feed's restored, do races heal, is everyone answered? | 1 ship, 2 rows, 2 lengths, batches of 2, 1 batch lost, 1 edit and 1 request at a time | 77,230 |
| `intake` | `MCBerthIntake`, `MCIntake` | is the trail free of duplicates and the schedule its mirror, do bows stay and footprints follow? | 2 events, 2 bookings, 1 ship, 2 lengths, 2 forms, 2 clerks and 1 operator of whom 2 at a time, 2 patches | 1,028,875 |

Why the bounds are enough, and what they leave out:

- *Two bookings* are what the constraint relates: it is a predicate on pairs.
  One operator holds a read row while anything but another PATCH runs: creates,
  deletes and the worker's sweep. That is what `desk_edits` means by interleaved; of
  two PATCHes at once the theorems speak, which cover any number of operators.
- *Berths* are exactly the gap apart, so that an off-by-one in either direction
  changes an answer; the patches move a row by one bound, by berth and by bow.
- *Clock.* A window needs a beginning and an end, the grace a tick past it, and
  an unbounded end a tick outside. Each run uses the smallest clock that gives
  its property a case that can fail; the mutants show that it does.
- *Detector.* Five ticks hold two events separated by a gap of two; each fix
  stands to both speed thresholds in every way it can. A fix 1 tick late and a run
  from 2 are enough to strand a row in either way.
- *Dataverse.* A batch smaller than the rows, with a row always refused at its
  head, is what starvation needs; a restart after a commit before its mark is
  what forgetting needs, and one lost reply of a commit what a second recording
  needs. Two processes at once are covered by the theorems, for
  any number of them.
- *Register.* One ship is what the three writers fight over, two rows what they
  can make of it; a batch of two leaves a message uncommitted. The form's length
  differs from the one the operator pins; the bodies also take the link or the length
  away. A form under a wrong name is left out: refused it does nothing, accepted as an
  edit it reads what the right one reads.
- *Intake.* Two requests are what the hash, the constraint and a shared ship
  relate; two clerks, or a clerk and the operator, each hold what they read while the
  other commits, which is what the races of section 6 need. The forms change the
  length and the arrival date of one request; the patches put a bow, and take the
  ship away and change the end. That an edit changes the ship, and that a length kept
  from the feed is restored (`Restored`, no ship is tracked here), are left to the
  theorems, which cover any number of ships, clerks and operators. One window and
  one bow make placements collide, so that the refusals happen. The two clerks are
  interchangeable (`ClerkSymmetry`; the run checks no liveness).
- *Depth.* The files put soundings on the edges of hulls and of bins, west and
  east of station 0, at the wall toe and off the apron, and one leaves a hole
  between its ends. Three surveys with two dates let one commit late between two
  others. The two uploaders are interchangeable (`MCSymmetry`).
- *Form.* Two look-ups in flight can come back in either order; an IMO not on
  file, and one that is no IMO, are the other answers. One request to open is
  what the form can confuse with a new one; the theorem covers any number.
- *Worker.* One beat more than may be missed is what tells stale from ok.
- *Refinement.* `desk_sweeps` checks `RefinesWharf` with one operator's row and a
  derived row of the ship, against each other; the theorem covers every table.
- *Alerts.* A clock of 1 puts a plan's beginning and its end at the present moment,
  the edges `AlertsReachThePresent` names.
- *Grace.* `desk_sweeps` checks `ArchivedOnEvidence` with no grace; the theorem
  covers every grace.
- *Symmetry.* `BookingSymmetry` permutes the ids of the two operators' rows, in
  `desk_edits` only, which checks no liveness: ids are compared for equality
  only and no constant tells them apart.
- *Types.* `TypeOK` of `ReservationDesk` and `DataverseWorker` is among the
  properties of their runs; those of the other modules are stated and, like
  these, proved.

Every property of a passing run has a mutant in `PROJECT.json`: a plausible slip
in the mapped definition (a dropped guard, the half gap for the whole one, a
verdict that ignores the feed) under which TLC finds the property violated with
the same configuration. The alternatives stand next to the definitions they
mutate (`VerdictOnDeadFeed`, `WorkerSweepsFirst`, ...).

Deadlock is checked in every run.

## 4. Fairness

- `ReservationDesk!FairSpec`: weak fairness of `WorkerCycle`. The occupancy
  worker is a shell loop that starts a cycle every 60 s for ever, whatever the
  last one returned (`docker-compose.prod.yml`, `app/occupancy/run.py`). Operators, browsers, vessels and the feed
  promise nothing. `OverdueIsJudged` excuses a derivation refused by the
  constraint: that state lasts (section 6).
- `OccupancyWorker!WorkerSpec`: weak fairness of the clock (`TimePasses`) and of
  `PanelLoads`, the console's poll, which its timer repeats for ever
  (`app/static/js/panels.js`); a load that fails does not count as one. Nothing at
  all is assumed of the worker: `IdleWorkerShows` is about one that may hang.
  `SilentBerthingCloses` carries its own premise, that some cycles commit.
- `RequestForm!FairSpec`: the browser resolves or rejects every fetch and then
  runs what awaits it (weak fairness of the replies, `BuildPayload`, the server's
  answer and the pin). Timers and the operator promise nothing.
- `DataverseWorker!FairSpec`: the process keeps polling and gets through each
  batch (weak fairness), and a call to the model, the commit or the mark that is
  tried for ever succeeds in the end (strong fairness: each is enabled again and
  again, as failures put the row back). The content the pipeline refuses is
  refused for ever. The daemon polls every 300 s but has `restart: "no"`, so
  after a death someone has to start it; `Restart` stands for that.
  `RequestsAreTriaged` excuses a batch full of refused rows, which really does
  starve the others.

- `VesselRegister!FairSpec`: an update waiting for a row is granted it (strong
  fairness, the row is held and released again and again; PostgreSQL queues
  waiters), and every ship is heard, its length included, again and again (a
  class A transponder sends static data every six minutes, and `main` of
  `app/ais/run.py` reconnects for ever). Without the second nothing flushes an
  open batch, see section 6.

## 5. Proofs

| Theorem | States | Rests on |
|---|---|---|
| `ReservationDeskProofs!TypeCorrect` | `Spec => []TypeOK` | `PatchedType`, `CreatedType`, `SweptEffect`, `UpsertedType` |
| `ReservationDeskProofs!WharfIsExclusive` | `Spec => []NoWharfOverlap` | `ConstraintKept`, `HullsKeepTheGap` |
| `ReservationDeskProofs!SweepIsNeverRefused` | `Spec => []ArchivingNeverBlocked` | `SweptKeepsConstraint` |
| `ReservationDeskProofs!BookingsClearTheDepth` | no body overrides `=> (Spec => []NoShallowBooking)` | `SweptEffect`, `UpsertedType` |
| `ReservationDeskProofs!DeskImplementsWharf` | `Spec => RefinesWharf` | `ConstraintClears`, `OneClaim`, `SweepReleases`, `DerivationFollows`, the invariant of `WharfIsExclusive` |
| `ReservationDeskProofs!ArchivesOnEvidence` | `Spec => ArchivedOnEvidence` | `SnapshotsStayPast`, `WhoArchives`, `PastVerdict` |
| `ReservationDeskProofs!WorkerSweepsWhatItDerived` | `Spec => WorkerSeesArrivals` | `WhoArchives`, `VerdictEvidence`, `UpsertedType` |
| `ReservationDeskProofs!EditsKeepTheRest` | `Spec => PartialEditKeepsTheRest` | `PatchedKeeps`, which rests on `UneditedBoundStays`, `PatchedPlacement` |
| `ReservationDeskProofs!AlertsArePresent`, `SweepAndPanelAgree` | `Spec => []AlertsReachThePresent`, `Spec => []SweepAgreesWithPanel` | `TypeCorrect` |
| `FeasibilityProofs!FeasibilityTypeOK` | `Spec => []TypeOK` | `TypedIsKept` |
| `FeasibilityProofs!BandsAreRoom` | `Spec => []BandsAreTheRoom` | `SubtractLeavesTheClear`, `FeasibleBandsAreTheRoom` |
| `FeasibilityProofs!SlotsCoverBands` | `Spec => []SlotsCoverTheBands` | `SlotsCoverFittingBands` |
| `FeasibilityProofs!OfferIsHonoured` | `Spec => []FreshOfferConfirms` | the two above, `ClearIsNoConflict`, `BowRoundTrip`, `CandidateIsItsSlot` |
| `BerthingDetectionProofs!DetectionTypeOK` | `Spec => []TypeOK` | `DetectedCases` |
| `BerthingDetectionProofs!BerthingsAreSeparateVisits` | thresholds in order `=> (Spec => []BerthingsAreVisits)` | `ScanIsSound`, `EventsFollow`, `EventsAttended` |
| `BerthingDetectionProofs!BerthingsEndOnDepartures` | thresholds in order `=> (Spec => []DeparturesEndBerthings)` | `ScanIsAttended`, `EventsAttended` |
| `BerthingDetectionProofs!NoStayIsMissed` | `Spec => []SteadyStayIsDetected` | `ScanIsWatchful` |
| `BerthingDetectionProofs!SilenceClosesNothing` | `Spec => DeadFeedClosesNothing` | `DetectedCases` |
| `BerthingDetectionProofs!OnlyDisorderStrandsRows` | `Spec => RowsFollowTheTrack` | `EventsGrow`, `RowStands`, `RunsStand` |
| `BerthingDetectionProofs!WorkerDetects`, `WorkerTypes` | `WorkerSpec => Spec`, `WorkerSpec => []WorkerTypeOK` | the steps of the worker |
| `DataverseProofs!WorkerTypeCorrect` | `Spec => []TypeOK` | `Inductive` |
| `DataverseProofs!NothingMarkedUnread` | `Spec => []TriagedWasRead` | `Inductive` |
| `DataverseProofs!RecordsOnce`, `Remembers` | `Spec => []RecordedOncePerRun`, `Spec => []UnmarkedIsRemembered` | `Inductive` |
| `DepthSurveysProofs!SurveysTypeOK` | `Spec => []TypeOK` | `Inductive`, `ReducedType` |
| `DepthSurveysProofs!GateNeverMisses` | `Spec => []GateMissesNoShoal` | `ReducedSurveysHideNoShoal` |
| `DepthSurveysProofs!BookingsStandOnTheirSurvey` | `Spec => []BookingStandsOnItsSurvey` | `Inductive` |
| `DepthSurveysProofs!NewestDecides` | `Spec => OnlyTheNewestDecides` | `SameGoverningSameAnswer` |
| `DepthSurveysProofs!ProfilesAreOfOneSurvey` | `Spec => []ProfileIsOneSurvey` | `ViewsKept`, `SpentIdsAreSettled`, `BinsAndCellsAgree` |
| `RequestFormProofs!NothingEverCrossesOver`, `FormTypeOK` | `Spec => []NothingCrossesOver`, `Spec => []TypeOK` | `NextKeeps` |
| `BerthIntakeProofs!IntakeTypeOK` | `Spec => []TypeOK` | `Inductive` |
| `BerthIntakeProofs!ContentIsUnique`, `TrailAndScheduleAgree` | `Spec => []OneRequestPerContent`, `Spec => []ScheduleMirrorsTrail` | `Inductive` |
| `BerthIntakeProofs!RequestsHoldBows`, `CorrectionsReachFootprints` | `Spec => BowsAreHeld`, `Spec => FootprintsFollow` | `IntakeCorrects` |
| `VesselRegisterProofs!RegisterTypeOK` | `Spec => []TypeOK` | `AlwaysInductive` |
| `VesselRegisterProofs!PinsStand`, `RevertsRestore` | `Spec => PinStands`, `Spec => RevertRestores` | `AlwaysInductive`, `FeedKeeps`, `UpsertVesselKeeps`, `UnlockedLoa` |

Together they state every safety property of the passing runs, the invariants and
the action properties. They hold for any sets of bookings, vessels, berths,
operators, browsers, rows, processes, surveys, ships, requests and clerks, any
catalogue, gap, grace, dwell, track, bin width, file and request bodies that satisfy the named assumptions on the constants
(`...Assumption` in each module), which TLC evaluates in the runs.

*The desk.* The constraint as the database states it (`ConstraintHolds`, padded
half-open ranges) is what is inductive. A create or a PATCH checks it. A sweep
writes only status and notes and never confirms, so it keeps it, however old its
snapshot and whatever was committed since (`SweptRowEffect`). The worker's
upserts rewrite station and window, of confirmed rows too, and are kept only if
the whole cycle passes it. `HullsKeepTheGap` then turns the padding by halves
into the whole gap between closed hulls. `NoShallowBooking` is inductive for
operators' rows because the gate judges the very row that is written, not the
row as it is at the write, and because no sweep confirms and no upsert touches
an operator's id.

*The sweep's evidence.* A verdict is of a snapshot, the property of the step that
applies it: it says of the row *as the sweep read it* that its grace was over, that a
berthing of its vessel was among the rows read (completed) or none was although the
feed was alive (cancelled), and that it was not confirmed. `SnapshotsArePast` carries
the one to the other: the clock of a snapshot is not ahead, and what its feed had
heard the feed has heard still. It says nothing of the row as it is by then: the
UPDATE archives it whatever an edit made of it, which is `desk_auto_cancel`. The
worker takes no snapshot that could age: its sweep reads the table its own upserts
made, whence `WorkerSeesArrivals`.

*A partial edit.* The property compares the row written with the row the PATCH read,
not with the row in the table, which others may have written since (section 6). A
bound a body does not name comes back out of the row read as it went in, unbounded
ends included (`UneditedBoundStays`); only an empty window does not, which is the
exception the property names. The placement is by cases of what the body names
(`PatchedPlacement`), vessel, heading, status and flags are copied.

*The panels* are queries, so these theorems are about every well-typed table: what
the conflict list and the verification panel say in SQL of their own is what the
sweep's SQL says, row by row.

*The oracle.* The three properties are of every well-typed board, and the work is in
the loops. A loop is a recursive function; `LoopRuns` says that one exists, and
`LoopInduction` that what holds before and is kept by each iteration holds after
all. The library's induction takes an operator as a parameter, which the provers
cannot instantiate, so both argue about the set of the iterations that hold:
an iteration that fails would have a least one, by the well-foundedness of `<`.
`RanksTell` and `RankedSequence` do for `InOrder` what a library would for a sort:
under a total order the ranks of a finite set are distinct and fill `1..n`.
The invariant of the sweep is `Swept`: after `n` segments, a stretch within the
wharf lies in a free span, or beyond the cursor, if and only if it keeps out of the
first `n` segments. That a stretch may lie beyond the cursor is what makes nested
and touching obstacles harmless. From there `SubtractLeavesTheClear`, then the
bands as wide as the hull (`Widened`), then `Room`. The slots are `WellPlaced`
after every berth and every band, and a band is covered when a slot lies in its
placement range; a band no berth covered is filled. Last, the whole-gap padding of
the oracle implies the half-gap padding of the constraint (`ClearIsNoConflict`),
and a bow sent as a Dock No. with a heading comes back as the footprint that was
shown (`BowRoundTrip`).

*The detector.* The scan exists and is argued about in the same way, instant by
instant. `Sound` says that the open segment begins with a fix that enters and ends
with one that is there, that an event lasts the dwell, and that a departure was
seen in the gap between any two. `Attended` says that no segment holds
a departed fix the gap or more after the vessel was last seen there, `Watchful` that every
stay still going on is in the open segment and
every finished one in an event. `BerthingsAreVisits` and `DeparturesEndBerthings` assume
`ThresholdsInOrder`, `berth_enter_sog_kn <= berth_depart_sog_kn`: that is the
hysteresis the defaults of `app/config.py:126-131` describe (0.5 and 1.0), which
nothing in the code enforces; the other way round a berthing could begin with a fix
that counts as a departure. An absence is
what fixes show: departed once within the gap and then silent, a vessel that comes
back is one berthing however long it was away, and the property says no more
(section 6). `RowsFollowTheTrack` assumes nothing of the fixes or the runs. It says
which steps can strand a row, and its proof that no other does: a fix that is the
last of the track moves the end of the last event forward or starts another
(`EventsGrow`), a run over all history writes the events there are (`RunsStand`), and
the rest of the feed moves no bound of an event (`FeedMovesNoBounds`), so the start
that a row is keyed on is not lost. `WorkerDetects` gives all of it to the worker with its
failing cycles.

*The Dataverse worker.* The invariant is `Typed`, `ReadFirst` (a row triaged,
remembered, or in the mark phase was read, and its reading was blank or is on
the trail) and `Once` (an event of the current run of a process is of a row
triaged, remembered or being marked, and no two events of one run are of one
row; events nobody heard of are of no run). `UnmarkedIsRemembered` is its first half, `RecordedOncePerRun` its second:
the second rests on the first, since a process records only what it does not
remember. `TriagedWasRead` alone is not inductive: the step that triages a row
relies on what was true when it entered the mark phase or the memory.

*The Wharf.* Every step of the desk is a claim, a letting go, a following of ships,
or leaves the holds as they are. That the desk's half-gap constraint on padded
hulls gives the Wharf's whole gap is `HullsKeepTheGap` again; that a sweep,
which checks nothing, lets go and never claims is `SweptEffect`; that the worker
moves no operator's hold follows from the ids its upserts may touch.

*Depth surveys.* The invariant says that every survey on file is the reduction of
its file, that an id is drawn once, and that a booking was judged, or is about to
be, by a survey that clears it as long as it is on file. Without the second a
survey deleted between a gate and its commit could come back as another under
the same id. `ReducedSurveysHideNoShoal` carries the geometry: a sounding between
the closed ends of a hull lies in a half-open bin that the gate reads, and the
depth of the bin is no greater than its own. That a set of whole numbers bounded
below has a least element comes from the library's well-foundedness of `<`.
A profile is read in three statements; `ViewsAreOfOne` says that the bins read are
those of the survey picked as long as it is on file, and that cells are of the
file the bins are of. It rests on the id again: one once on file shows that survey
or none for ever (`SpentIdsAreSettled`). `BinsAndCellsAgree` then compares the two
reductions of one file.

*The request form.* What stands in the fields fits the mode of the form: typed, of the
request opened, or of a ship whose IMO the new request was given. What
a submission has taken fits its target and the IMOs given when it took it; the list of ships found by name is
offered to a new request only. The last part is what makes it inductive: a pick
fills the name.

*The intake.* The hash of an event is its content's; a linked booking is on the
board and belongs to the event; what a clerk has read belongs to the event it
read. With these the two properties are inductive together. `ScheduleMirrorsTrail`
has a part that holds whatever races (`LinksLead`) and a part that excuses what was
`raced` or `rewritten` (`Mirror`): a PATCH of the desk keeps both because it changes
no link and no owner, and marks the booking whose ship or window it changes. `BowsAreHeld` and `FootprintsFollow` are read off
the one re-projection that `Create` and `CommitEdit` share (`IntakeCorrects`).

*The register.* `PinStands` is about the committed table, while the feed writes to
its batch: the invariant says that the batch holds each pinned row pinned, and at
the same length, as the table does. It is kept because an edit waits while the
batch holds the row. Rows that name a ship exist (`NamedRowsExist`), so a request
that creates a row writes no pinned one. `RevertRestores` adds that the shadow is
what the feed last gave.

Model-checked only: liveness, which is beyond the prover (`OverdueIsJudged`,
`SilentBerthingCloses`, `IdleWorkerShows`, `RequestsAreTriaged`, `SubmitEnds`,
`DriftHeals`, `RequestsEnd`).

## 6. Where code and docs disagree

Two are runs that expect the violation, with the quoted claim in `PROJECT.json`
"findings":

- `desk_auto_cancel`: a row confirmed by a PATCH while a sweep waits for it is
  cancelled (`ConfirmedNeverAutoCancelled`).
- `form_race`: leaving the IMO field, as the click on Record does, starts the
  look-up; Record then finds the IMO already asked for, replaces the promise in
  flight by a settled one, and sends the form without the answer
  (`RecordWaitsForTheLookup`; `app/static/js/forms.js:1087-1089`).

Seen while modelling, without a run of their own. The desk and the sweep:

- any edit of a request whose arrival date was cleared makes its empty window
  unbounded (`app/edit.py:673`, against `app/intake/manual.py:1008-1009`);
- an observed row promoted to confirmed keeps its derived key; the next upsert can
  break the constraint, and from then on every cycle of the worker is rolled back,
  sweep included (`app/occupancy/derive.py:170`, against `:152-153`);
- two sweeps at once both append the no-show flag (`app/verification.py:398`), and
  an edit that replaces the notes makes the row flaggable again;
- once a sweep has completed the plan of a ship still alongside, the panel lists
  the ship as unplanned (`app/verification.py:163-164`);
- a PATCH writes back every column it read, so what another PATCH, a sweep, the
  worker or a berth request wrote to the row in between is undone, in fields its body
  does not name ("Fields absent from the request are left as-is", `app/edit.py:118`;
  `PartialEditKeepsTheRest` is about the row read);
- an alert is shown over a plan that ends at this very moment and not yet over one
  that begins at it, where half-open ranges would say the opposite
  (`app/conflicts.py:263`);
- the endpoint's sweep judges arrivals by rows up to a minute old against a feed
  current to the second, and may call a vessel alongside a no-show
  (`app/verification.py:102-103`);
- two rows of one vessel over one another are never shown as a conflict
  (`app/conflicts.py:245-250`).

The oracle and the gate:

- a candidate confirmed from an old answer can be refused, and one shown
  shallow goes through with an override agreed to for older water
  (`app/static/js/forms.js:561`, `app/feasibility.py:11-12`);
- a newer survey that touches a stretch by a foot, or has a hole there, hides the
  older one over all of it, and the gate then only warns
  (`app/depth/gate.py:56`).

The detector and its worker:

- a run with `--since` inside a berthing finds a later first fix and writes a
  second row over the first ("Idempotent", `app/occupancy/run.py:4`);
- one fix past the departure threshold at the gap closes a berthing even when
  the gap was silence (`app/occupancy/detect.py:12-14`);
- the other way round, a vessel seen departed only within the gap, then silent, then
  alongside again is one berthing over an absence of any length, unless a cycle ran
  and closed the row for a while by the feed's staleness;
- a fix that lands late leaves the row keyed on the first fix it had before;
- an error beat stays an error however old: a worker that failed once and then
  died is never shown stale (`classify`, `app/workers.py`), and the AIS worker
  beats `ok` before it has connected.

The register and the feed:

- the flush timer is looked at only when a message arrives: what was heard last
  before a silence stays uncommitted, and its rows locked, until the next message
  (`app/ais/ingest.py:46-49`, "they'd never reach the map"), and an edit of such a
  vessel waits as long;
- a request that found a ship untracked overwrites its length although it was
  linked to the feed in between; the next static message heals it
  (`app/intake/manual.py:699-701`, "never overwritten", "100% persistent");
- a ship entered by IMO and then heard by MMSI, or two first requests at once,
  leave two vessel rows with one IMO (`app/intake/manual.py:546-547`).

The intake and its form:

- an edit that corrects the ship of a placed booking leaves it the footprint of
  the old ship (`app/intake/manual.py:1003`, against `:1000-1001`);
- a junk reply of the model is a blank reading, skipped and marked triaged
  (`app/intake/llm.py:269-270`);
- a PATCH of the desk may give a booking another ship or window than its request
  says, or write back the ones it read before an edit of the request; the trail does
  not follow, and the next edit of the request takes both back
  (`app/edit.py:661`, `:741-762`, `app/intake/manual.py:1006-1039`);
- an edit that adds the arrival date, and a withdrawal or another edit committed
  between its read and its write: a withdrawn request stays on the schedule
  (`app/intake/manual.py:867-868`), or a request has two bookings;
- a withdrawal deletes the booking whatever it has become, confirmed included
  ("drop the `requested` reservation", `app/intake/manual.py:858`);
- a look-up reply dropped as stale leaves its IMO the one last asked for, so
  returning to it neither fills the form nor asks again; what an earlier IMO
  filled in stays when the IMO is changed, and is sent under the new one
  (`app/static/js/forms.js:917-972`; `NothingCrossesOver` allows a new request the
  ships it was itself given);
- during a submission an edit may be opened: the new request is then sent as a
  PATCH of it, and the answer clears what was typed meanwhile
  (`app/static/js/forms.js:1096-1168`);
- a row whose mark was applied but whose reply was lost stays in `recorded_ids`
  for the life of the process ("Bounded by the count of genuinely stuck rows");
- a commit that was applied but whose reply was lost is taken for a failure: the row
  is read again, and recorded a second time if its event was edited or withdrawn
  meanwhile (`app/intake/dataverse_run.py:227`, `:243-246`);
- a restart between the commit and the mark re-reads the row; if an operator has
  edited or withdrawn the event meanwhile, it is recorded again ("the dedupe is
  still the backstop").

## 7. What is not modelled

- Geometry: which fixes are alongside, where a fix or a sounding lies on the
  wharf, is an input (PostGIS predicates and great-circle arithmetic).
- Reads that change and decide nothing: the statistics, timeline, calendar and
  history panels, the exports, the list of unplanned berthings, the ranking of a
  vessel search.
- Authentication, settings, migrations, seeds, the scripts that build the
  centerline: stateless or once per deployment.
- Audit log: inserted with each write and read by nothing in the program.
- Position reports: appended per message and read by the detector, whose track is
  its own input.
- The parsing of sounding files and of the model's replies, formatting, rounding
  to hundredths.
- Columns nothing decides by: cargo, priority, type, warnings.
- The beats of the AIS and the Dataverse workers, written as the occupancy
  worker's are.

## 8. Plan

Built, in this order: `WharfRanges`, `ReservationDesk` and its proofs,
`Feasibility` and its proofs, `BerthingDetection`, `DataverseWorker` and its
proofs, `VesselRegister`, `BerthIntake`; then `Wharf` with the refinement and its
proof, `DepthSurveys`, `RequestForm`, `OccupancyWorker`, `Advisories`, and the
proofs about the surveys, the form, the intake and the register; then the proofs
about the detector and its worker, the loops of the oracle, the sweep's evidence,
partial edits, the panels and the profile.

What is left, in this order:

1. The surveys under the desk's own gate: in `ReservationDesk` the shoals are
   fixed, and `DepthSurveys` confirms without the constraint. One composition of
   the two would check that both verdicts are of the row that is written.
2. Abstract specifications of the trail (a request recorded once per content,
   withdrawn or not) and of the register (a pinned length stands), with the intake
   and the register shown to implement them as the desk implements the Wharf.
3. An intake with two rows of one IMO, the case section 6 describes.
