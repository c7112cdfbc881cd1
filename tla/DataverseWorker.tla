-------------------------- MODULE DataverseWorker --------------------------
(***************************************************************************)
(* The AI intake worker (app/intake/dataverse_run.py): it polls the portal *)
(* for the oldest rows still New, has the model read each one, records the *)
(* reading in a transaction of its own, and marks the row triaged.  The    *)
(* portal and the database share no transaction, so a process may die, or  *)
(* a call may fail, between any two of these steps.                        *)
(*                                                                         *)
(* Several processes may run: the polling daemon, a `--once` batch by hand *)
(* (a process that is started again for each batch), and operators edit    *)
(* and withdraw the recorded requests meanwhile (app/intake/manual.py).    *)
(*                                                                         *)
(* Of a request only the content hash is kept: what the recorded request   *)
(* does to the vessels and to the schedule is no part of this module.      *)
(***************************************************************************)
EXTENDS Integers, Sequences, FiniteSets

CONSTANTS
  MaxRows,      \* portal rows ever submitted (a bound)
  Limit,        \* dataverse_batch_limit
  Workers,      \* processes of the worker
  MaxMishaps,   \* restarts of a process, and commits whose reply is lost (a bound)
  Contents,     \* what a reading can say, up to its content hash
  Blank,        \* a reading with no vessel, no IMO and no arrival date
  NoReading,    \* no reading yet
  Readings,     \* the readings the model may give of each row
  Refused       \* the contents record_manual_request raises on

Rows == 1..MaxRows

ASSUME DataverseAssumption ==
  /\ MaxRows \in Nat
  /\ Limit \in Nat \ {0}
  /\ MaxMishaps \in Nat
  /\ Blank \notin Contents
  /\ NoReading \notin Contents \cup {Blank}
  /\ Readings \in [Rows -> SUBSET (Contents \cup {Blank})]
  /\ Refused \subseteq Contents

VARIABLES
  submitted,  \* rows 1..submitted are in the portal, in the order of createdon
  triaged,    \* the rows marked triaged there; the others are New
  trail,      \* intake_event, in the order of the ids
  worker,     \* each process: its run, its batch, the row in hand, its memory
  answer      \* history: the reading last acted upon for each row

vars == <<submitted, triaged, trail, worker, answer>>

(***************************************************************************)
(* An event keeps, besides its live content, three pieces of history: the  *)
(* row and the run of a process it came from, and every content it held.   *)
(* Unheard stands for the run when the process never heard of its commit.  *)
(***************************************************************************)
Unheard == -1

Event == [row: Rows, by: Workers \X (Nat \cup {Unheard}), content: Contents,
          held: SUBSET Contents, live: BOOLEAN]

(***************************************************************************)
(* recorded is recorded_ids: rows recorded whose mark failed.              *)
(***************************************************************************)
Process == [run: Nat, batch: SUBSET Rows, phase: {"next", "record", "mark"},
            reading: Contents \cup {Blank, NoReading}, recorded: SUBSET Rows]

Started(n) == [run |-> n, batch |-> {}, phase |-> "next",
               reading |-> NoReading, recorded |-> {}]

Events == 1..Len(trail)

Mishaps(w) ==
  worker[w].run + Cardinality({n \in Events : trail[n].by = <<w, Unheard>>})

HeldLive(c) == \E n \in Events : trail[n].live /\ trail[n].content = c

(***************************************************************************)
(* fetch_new: the oldest New rows, at most a batch of them.                *)
(***************************************************************************)
NewRows == (1..submitted) \ triaged

Oldest(rows) == {r \in rows : Cardinality({q \in rows : q <= r}) <= Limit}

InHand(w, r) ==
  /\ r \in worker[w].batch
  /\ \A q \in worker[w].batch : r <= q

Done(w, r) == [worker[w] EXCEPT !.batch = @ \ {r}, !.phase = "next",
                                !.reading = NoReading]

-----------------------------------------------------------------------------
Init ==
  /\ submitted = 0
  /\ triaged = {}
  /\ trail = <<>>
  /\ worker = [w \in Workers |-> Started(0)]
  /\ answer = [r \in Rows |-> NoReading]

(***************************************************************************)
(* The environment: a request is submitted; an operator edits or withdraws *)
(* a recorded one.  The content of a live event is unique (migration 0010);*)
(* an edit into another's content is refused.                              *)
(***************************************************************************)
Submit ==
  /\ submitted < MaxRows
  /\ submitted' = submitted + 1
  /\ UNCHANGED <<triaged, trail, worker, answer>>

EditEvent(n, c) ==
  /\ trail[n].live
  /\ ~HeldLive(c)
  /\ trail' = [trail EXCEPT ![n].content = c, ![n].held = @ \cup {c}]
  /\ UNCHANGED <<submitted, triaged, worker, answer>>

Withdraw(n) ==
  /\ trail[n].live
  /\ trail' = [trail EXCEPT ![n].live = FALSE]
  /\ UNCHANGED <<submitted, triaged, worker, answer>>

(***************************************************************************)
(* A poll.  One that fails or finds nothing changes nothing.               *)
(***************************************************************************)
Fetch(w) ==
  /\ worker[w].batch = {}
  /\ worker' = [worker EXCEPT ![w].batch = Oldest(NewRows)]
  /\ UNCHANGED <<submitted, triaged, trail, answer>>

(***************************************************************************)
(* The call to the model: junk comes back as a blank reading.              *)
(***************************************************************************)
Parse(w, r) ==
  /\ InHand(w, r)
  /\ worker[w].phase = "next"
  /\ r \notin worker[w].recorded
  /\ \E c \in Readings[r] :
       worker' = [worker EXCEPT ![w].phase = "record", ![w].reading = c]
  /\ UNCHANGED <<submitted, triaged, trail, answer>>

(***************************************************************************)
(* record_manual_request and the commit: a blank reading is skipped, one   *)
(* whose content a live event holds is a duplicate, any other is an event. *)
(***************************************************************************)
Landed(w, r, run) ==
  Append(trail, [row |-> r, by |-> <<w, run>>,
                 content |-> worker[w].reading,
                 held |-> {worker[w].reading}, live |-> TRUE])

OnlyDuplicatesLandNothing(c) == HeldLive(c)

LandsNothing(c) == c = Blank \/ HeldLive(c)

Record(w, r) ==
  LET c == worker[w].reading
  IN  /\ InHand(w, r)
      /\ worker[w].phase = "record"
      /\ c \notin Refused
      /\ trail' = IF LandsNothing(c) THEN trail
                                       ELSE Landed(w, r, worker[w].run)
      /\ worker' = [worker EXCEPT ![w].phase = "mark"]
      /\ answer' = [answer EXCEPT ![r] = c]
      /\ UNCHANGED <<submitted, triaged>>

(***************************************************************************)
(* The call, the recording or the commit raised: rolled back, the row is   *)
(* left New and the batch goes on.                                         *)
(***************************************************************************)
FailEndsBatch(w, r) ==
  /\ InHand(w, r)
  /\ \/ worker[w].phase = "next" /\ r \notin worker[w].recorded
     \/ worker[w].phase = "record"
  /\ worker' = [worker EXCEPT ![w] = [Done(w, r) EXCEPT !.batch = {}]]
  /\ UNCHANGED <<submitted, triaged, trail, answer>>

FailMarks(w, r) ==
  /\ InHand(w, r)
  /\ \/ worker[w].phase = "next" /\ r \notin worker[w].recorded
     \/ worker[w].phase = "record"
  /\ worker' = [worker EXCEPT ![w] = [Done(w, r) EXCEPT !.recorded = @ \cup {r}]]
  /\ UNCHANGED <<submitted, triaged, trail, answer>>

Fail(w, r) ==
  /\ InHand(w, r)
  /\ \/ worker[w].phase = "next" /\ r \notin worker[w].recorded
     \/ worker[w].phase = "record"
  /\ worker' = [worker EXCEPT ![w] = Done(w, r)]
  /\ UNCHANGED <<submitted, triaged, trail, answer>>

(***************************************************************************)
(* The commit is applied and its reply lost: session.commit() raises like  *)
(* any failure, the rollback undoes nothing, and the process takes the row *)
(* for one it has not recorded.                                            *)
(***************************************************************************)
CommitUnheard(w, r) ==
  LET c == worker[w].reading
  IN  /\ InHand(w, r)
      /\ worker[w].phase = "record"
      /\ c \notin Refused /\ ~LandsNothing(c)
      /\ Mishaps(w) < MaxMishaps
      /\ trail' = Landed(w, r, Unheard)
      /\ worker' = [worker EXCEPT ![w] = Done(w, r)]
      /\ UNCHANGED <<submitted, triaged, answer>>

(***************************************************************************)
(* mark_triaged, of the row just recorded or of one remembered from an     *)
(* earlier poll.  When the call raises, the portal may have applied it or  *)
(* not; either way the row is remembered.                                  *)
(***************************************************************************)
ToMark(w, r) ==
  /\ InHand(w, r)
  /\ \/ worker[w].phase = "mark"
     \/ worker[w].phase = "next" /\ r \in worker[w].recorded

MarkSucceeds(w, r) ==
  /\ ToMark(w, r)
  /\ triaged' = triaged \cup {r}
  /\ worker' = [worker EXCEPT ![w] = [Done(w, r) EXCEPT !.recorded = @ \ {r}]]
  /\ UNCHANGED <<submitted, trail, answer>>

MarkFailsAndForgets(w, r) ==
  /\ ToMark(w, r)
  /\ triaged' \in {triaged, triaged \cup {r}}
  /\ worker' = [worker EXCEPT ![w] = [Done(w, r) EXCEPT !.recorded = @ \ {r}]]
  /\ UNCHANGED <<submitted, trail, answer>>

MarkFails(w, r) ==
  /\ ToMark(w, r)
  /\ triaged' \in {triaged, triaged \cup {r}}
  /\ worker' = [worker EXCEPT ![w] = [Done(w, r) EXCEPT !.recorded = @ \cup {r}]]
  /\ UNCHANGED <<submitted, trail, answer>>

(***************************************************************************)
(* The process ends at any point, by a crash or after its one batch, and   *)
(* is started again with nothing remembered.                               *)
(***************************************************************************)
Restart(w) ==
  /\ Mishaps(w) < MaxMishaps
  /\ worker' = [worker EXCEPT ![w] = Started(@.run + 1)]
  /\ UNCHANGED <<submitted, triaged, trail, answer>>

WorkOn(w, r) ==
  \/ Parse(w, r)
  \/ Record(w, r)
  \/ Fail(w, r)
  \/ CommitUnheard(w, r)
  \/ MarkSucceeds(w, r)
  \/ MarkFails(w, r)

Next ==
  \/ Submit
  \/ \E n \in Events, c \in Contents : EditEvent(n, c)
  \/ \E n \in Events : Withdraw(n)
  \/ \E w \in Workers : Fetch(w)
  \/ \E w \in Workers, r \in Rows : WorkOn(w, r)
  \/ \E w \in Workers : Restart(w)

Spec == Init /\ [][Next]_vars

(***************************************************************************)
(* A process polls for ever and gets through each batch; a call that is    *)
(* tried for ever succeeds in the end.  The portal asks for no more: a row *)
(* the pipeline refuses is refused for ever.                               *)
(***************************************************************************)
FairSpec ==
  /\ Spec
  /\ \A w \in Workers :
       /\ WF_vars(Fetch(w))
       /\ \A r \in Rows :
            /\ WF_vars(WorkOn(w, r))
            /\ SF_vars(Parse(w, r))
            /\ SF_vars(Record(w, r))
            /\ SF_vars(MarkSucceeds(w, r))

-----------------------------------------------------------------------------
\* Every variable has its type.
TypeOK ==
  /\ submitted \in 0..MaxRows
  /\ triaged \subseteq Rows
  /\ trail \in Seq(Event)
  /\ worker \in [Workers -> Process]
  /\ answer \in [Rows -> Contents \cup {Blank, NoReading}]

OnFile(c) == \E n \in Events : c \in trail[n].held

\* No request is marked triaged before it was dealt with: whatever failed, died
\* or was lost on the way, the model's reading of a triaged row was blank or is
\* the content of an event on the trail, then or since (process_batch: record
\* and commit, then mark).
TriagedWasRead ==
  \A r \in triaged : answer[r] = Blank \/ OnFile(answer[r])

\* "On a later poll such a row is only re-marked, never re-parsed/re-recorded"
\* (process_batch): while a process lives it records a row once to its knowledge,
\* however often the mark fails and whatever the operators do to the event.  A
\* commit it never heard of it does not know: the row is read again, and if an
\* operator has changed or withdrawn the event by then, recorded again.
RecordedOncePerRun ==
  \A n, m \in Events :
    trail[n].row = trail[m].row /\ trail[n].by = trail[m].by =>
      n = m \/ trail[n].by[2] = Unheard

\* What a process knows it has recorded and the portal still calls New, it
\* remembers or is about to mark: no failure of the mark is forgotten.
UnmarkedIsRemembered ==
  \A n \in Events :
    LET w == trail[n].by[1]
        r == trail[n].row
    IN  trail[n].by[2] = worker[w].run /\ r \notin triaged =>
          \/ r \in worker[w].recorded
          \/ InHand(w, r) /\ worker[w].phase = "mark"

-----------------------------------------------------------------------------
Refusable(r) == Readings[r] \cap Refused # {}

\* Every request the pipeline can take is triaged in the end, past the rows it
\* keeps refusing, unless these fill a whole batch (fetch_new takes the oldest).
RequestsAreTriaged ==
  \A r \in Rows :
    r <= submitted /\ ~Refusable(r)
      ~> \/ r \in triaged
         \/ Cardinality({q \in NewRows : Refusable(q)}) >= Limit
=============================================================================
