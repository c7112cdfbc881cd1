-------------------------- MODULE OccupancyWorker --------------------------
(***************************************************************************)
(* The occupancy worker (app/occupancy/run.py, started over and over by    *)
(* the shell loop of docker-compose.prod.yml), its heartbeat               *)
(* (app/workers.py) and the chip of the console that shows it (GET         *)
(* /workers, loadWorkers), beside the fixes and the rows of                *)
(* BerthingDetection.                                                      *)
(*                                                                         *)
(* A cycle may fail, be killed at any point, or hang; a heartbeat has a    *)
(* session of its own after the cycle's and may be lost; the console's     *)
(* reading may fail.  A tick is a cadence of the worker.                   *)
(***************************************************************************)
EXTENDS BerthingDetection

CONSTANT MissedBeats \* beats that may be missed: classify's three cadences

ASSUME WorkerAssumption == MissedBeats \in Nat

VARIABLES
  worker, \* asleep; working; its beat due: ok or error
  beat,   \* the worker_heartbeat row: no status before the first beat
  panel   \* the chip, as last loaded

workerVars == <<worker, beat, panel>>

allVars == <<clock, track, feed, rows, worker, beat, panel>>

-----------------------------------------------------------------------------
(***************************************************************************)
(* classify: an error stays one however old.                               *)
(***************************************************************************)
ClassifyByStatus(b) == IF b.status = "none" THEN "offline" ELSE b.status

Classify(b) ==
  CASE b.status = "none"                           -> "offline"
    [] b.status = "error"                          -> "error"
    [] b.status = "ok" /\ b.age > MissedBeats      -> "stale"
    [] b.status = "ok" /\ b.age <= MissedBeats     -> "ok"

\* Beyond what classify tells apart, an age is not counted.
Older(age) == IF age > MissedBeats THEN age ELSE age + 1

-----------------------------------------------------------------------------
WorkerInit ==
  /\ Init
  /\ worker = "asleep"
  /\ beat = [status |-> "none", age |-> 0]
  /\ panel = "none"

(***************************************************************************)
(* Time goes on after the last instant a fix may be of.                    *)
(***************************************************************************)
TimePasses ==
  /\ \/ Tick
     \/ /\ clock = MaxTime
        /\ UNCHANGED vars
  /\ beat' = [beat EXCEPT !.age = IF beat.status = "none" THEN 0 ELSE Older(@)]
  /\ UNCHANGED <<worker, panel>>

FeedMoves ==
  /\ \/ \E t \in Times, k \in Kinds : FixLands(t, k)
     \/ OtherVesselFix
  /\ UNCHANGED workerVars

CycleStarts ==
  /\ worker = "asleep"
  /\ worker' = "working"
  /\ UNCHANGED <<vars, beat, panel>>

CycleCommits ==
  /\ worker = "working"
  /\ \E from \in Sinces : Derive(from)
  /\ worker' = "ok"
  /\ UNCHANGED <<beat, panel>>

CycleRollsBack ==
  /\ worker = "working"
  /\ worker' = "error"
  /\ UNCHANGED <<vars, beat, panel>>

BeatLands ==
  /\ worker \in {"ok", "error"}
  /\ beat' = [status |-> worker, age |-> 0]
  /\ worker' = "asleep"
  /\ UNCHANGED <<vars, panel>>

(***************************************************************************)
(* A beat that fails is swallowed; a process killed before its beat leaves *)
(* the same behind, and one killed before its commit leaves nothing.       *)
(***************************************************************************)
NoBeat ==
  /\ worker # "asleep"
  /\ worker' = "asleep"
  /\ UNCHANGED <<vars, beat, panel>>

PanelLoads ==
  /\ panel' = Classify(beat)
  /\ UNCHANGED <<vars, worker, beat>>

PanelFails ==
  /\ panel' = "unavailable"
  /\ UNCHANGED <<vars, worker, beat>>

WorkerNext ==
  \/ TimePasses
  \/ FeedMoves
  \/ CycleStarts
  \/ CycleCommits
  \/ CycleRollsBack
  \/ BeatLands
  \/ NoBeat
  \/ PanelLoads
  \/ PanelFails

(***************************************************************************)
(* The console polls for ever, and not in vain; nothing is assumed of the  *)
(* worker.                                                                 *)
(***************************************************************************)
WorkerSpec ==
  /\ WorkerInit
  /\ [][WorkerNext]_allVars
  /\ WF_allVars(TimePasses)
  /\ WF_allVars(PanelLoads)

-----------------------------------------------------------------------------
(***************************************************************************)
(* Properties.                                                             *)
(***************************************************************************)

\* Every variable has its type.
WorkerTypeOK ==
  /\ TypeOK
  /\ worker \in {"asleep", "working", "ok", "error"}
  /\ beat \in [status: {"none", "ok", "error"}, age: 0..(MissedBeats + 1)]
  /\ panel \in {"none", "unavailable", "offline", "ok", "error", "stale"}

\* The vessel's last fix is a stale interval behind the feed.
OutOfCoverage ==
  /\ \E t \in Times : Landed(t)
  /\ \A t \in Times : Landed(t) => feed - t >= StaleAfter

LeftOpen == OutOfCoverage /\ \E t \in Times : rows[t].open

\* A vessel that sailed while out of coverage does not stay alongside for ever:
\* once others are heard a stale interval after its last fix, no row of it stays
\* open, unless it is heard again, as long as some cycles commit, whatever
\* happens to the others.
SilentBerthingCloses ==
  []<><<CycleCommits>>_allVars => (LeftOpen ~> ~LeftOpen)

\* A worker that does not do its work does not look healthy for ever: a berthing
\* that should be closed is closed, or the chip stops saying ok, whether cycles
\* fail, are killed, hang, or their beats are lost (workers.py: "an error beat
\* lands even when the cycle's transaction rolled back").
IdleWorkerShows == LeftOpen ~> (~LeftOpen \/ panel # "ok")
=============================================================================
