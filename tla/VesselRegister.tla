--------------------------- MODULE VesselRegister ---------------------------
(***************************************************************************)
(* The vessel table and its three writers:                                 *)
(*                                                                         *)
(*   - the AIS ingestor (app/ais/ingest.py), whose transaction stays open  *)
(*     over a batch of messages and holds the rows it has written.  It     *)
(*     looks at its flush timer only when a message arrives;               *)
(*   - PATCH /vessels/{id} (update_vessel, app/edit.py), which reads the   *)
(*     row, decides which dimensions are the feed's, and updates it;       *)
(*   - berth requests (app/intake/manual.py), which look a ship up by IMO, *)
(*     decide whether to overwrite it, and upsert it.                      *)
(*                                                                         *)
(* An update of a row the ingestor holds waits for its commit; nothing     *)
(* else is locked.  One dimension, the length, stands for the three.       *)
(***************************************************************************)
EXTENDS Integers, FiniteSets

CONSTANTS
  Ids,       \* ids of vessel rows (a bound on their number)
  Ships,     \* real ships, each with its MMSI, IMO and name
  NoShip,    \* a column that is NULL
  Lengths,   \* lengths a message, a form or an edit may carry
  Unknown,   \* a length that is NULL
  BatchSize, \* commit_every
  MaxLosses, \* how often an open batch is lost (a bound)
  Editors,   \* concurrent PATCH /vessels requests
  Keepers,   \* concurrent berth requests
  Names,     \* names a request may give: the ships' own, and wrong ones
  Forms,     \* berth requests: [imo, name, loa]
  Edits,     \* bodies of PATCH /vessels: fields set, or cleared, of loa, locked, mmsi
  Idle       \* no request in progress

ASSUME RegisterAssumption ==
  /\ NoShip \notin Names
  /\ Ships \subseteq Names
  /\ Unknown \notin Lengths
  /\ BatchSize \in Nat \ {0}
  /\ MaxLosses \in Nat
  /\ Forms \subseteq [imo: Ships, name: Names \cup {NoShip},
                      loa: Lengths \cup {Unknown}]
  /\ \A e \in Edits :
       /\ DOMAIN e \subseteq {"loa", "locked", "mmsi"}
       /\ "loa" \in DOMAIN e => e["loa"] \in Lengths \cup {Unknown}
       /\ "locked" \in DOMAIN e => e["locked"] \in BOOLEAN
       /\ "mmsi" \in DOMAIN e => e["mmsi"] \in Ships \cup {NoShip}

Clerks == Editors \cup Keepers

VARIABLES
  table,   \* the committed rows
  batch,   \* the rows the ingestor's open transaction has written
  pending, \* how many messages it has handled since its last commit
  losses,  \* how many batches were lost
  session  \* what each request in progress has read

vars == <<table, batch, pending, losses, session>>

(***************************************************************************)
(* A row.  heard is history: the last length the feed gave for it.         *)
(***************************************************************************)
Length == Lengths \cup {Unknown}
Key    == Ships \cup {NoShip}

Row == [exists: BOOLEAN, mmsi: Key, imo: Key, name: Names \cup {NoShip}, loa: Length,
        locked: BOOLEAN, shadow: Length, heard: Length]

Absent == [exists |-> FALSE, mmsi |-> NoShip, imo |-> NoShip, name |-> NoShip,
           loa |-> Unknown, locked |-> FALSE, shadow |-> Unknown,
           heard |-> Unknown]

Held(i) == batch[i].exists

\* The table as the ingestor's transaction sees it.
Seen(i) == IF Held(i) THEN batch[i] ELSE table[i]

Overlaid == [i \in Ids |-> Seen(i)]

Free == {i \in Ids : ~Seen(i).exists}

(***************************************************************************)
(* The row an upsert on a unique key writes: the one with the key, or a    *)
(* fresh one.                                                              *)
(***************************************************************************)
Tracked(s)  == {i \in Ids : Seen(i).mmsi = s}
UpsertId(s) == IF Tracked(s) # {} THEN Tracked(s) ELSE Free

Coalesce(new, old, null) == IF new # null THEN new ELSE old

-----------------------------------------------------------------------------
Init ==
  /\ table = [i \in Ids |-> Absent]
  /\ batch = [i \in Ids |-> Absent]
  /\ pending = 0
  /\ losses = 0
  /\ session = [c \in Clerks |-> Idle]

(***************************************************************************)
(* _upsert_vessel_static: detail merges over what is known, but a locked   *)
(* row keeps its length; the shadow follows the feed all the same.         *)
(***************************************************************************)
MergedFreezingShadow(row, s, l) ==
  [row EXCEPT !.exists = TRUE, !.mmsi = s, !.imo = s, !.name = s,
              !.loa = IF row.locked THEN @ ELSE Coalesce(l, @, Unknown),
              !.shadow = IF row.locked THEN @ ELSE Coalesce(l, @, Unknown),
              !.heard = Coalesce(l, @, Unknown)]

MergedFillingOnly(row, s, l) ==
  [row EXCEPT !.exists = TRUE, !.mmsi = s, !.imo = s, !.name = s,
              !.loa = Coalesce(@, l, Unknown),
              !.shadow = Coalesce(l, @, Unknown),
              !.heard = Coalesce(l, @, Unknown)]

Merged(row, s, l) ==
  [row EXCEPT !.exists = TRUE, !.mmsi = s, !.imo = s, !.name = s,
              !.loa = IF row.locked THEN @ ELSE Coalesce(l, @, Unknown),
              !.shadow = Coalesce(l, @, Unknown),
              !.heard = Coalesce(l, @, Unknown)]

(***************************************************************************)
(* handle: the write, then a commit when the batch is full or the timer is *)
(* found to have run out.                                                  *)
(***************************************************************************)
HandledWithoutFlush(i, row) ==
  /\ batch' = [batch EXCEPT ![i] = row]
  /\ pending' = IF pending + 1 < BatchSize THEN pending + 1 ELSE pending
  /\ UNCHANGED table

Handled(i, row) ==
  \/ /\ pending + 1 < BatchSize
     /\ batch' = [batch EXCEPT ![i] = row]
     /\ pending' = pending + 1
     /\ UNCHANGED table
  \/ /\ table' = [Overlaid EXCEPT ![i] = row]
     /\ batch' = [j \in Ids |-> Absent]
     /\ pending' = 0

StaticData(s, l) ==
  /\ \E i \in UpsertId(s) : Handled(i, Merged(Seen(i), s, l))
  /\ UNCHANGED <<losses, session>>

\* _ensure_vessel: a vessel first heard by position has nothing but its MMSI.
Position(s) ==
  /\ \E i \in UpsertId(s) :
       Handled(i, [Seen(i) EXCEPT !.exists = TRUE, !.mmsi = s])
  /\ UNCHANGED <<losses, session>>

(***************************************************************************)
(* The stream ends or drops: run commits what is pending on the way out.   *)
(* A death of the process, or a refused commit, loses it.                  *)
(***************************************************************************)
StreamEnds ==
  /\ pending > 0
  /\ table' = Overlaid
  /\ batch' = [i \in Ids |-> Absent]
  /\ pending' = 0
  /\ UNCHANGED <<losses, session>>

BatchLost ==
  /\ pending > 0
  /\ losses < MaxLosses
  /\ losses' = losses + 1
  /\ batch' = [i \in Ids |-> Absent]
  /\ pending' = 0
  /\ UNCHANGED <<table, session>>

(***************************************************************************)
(* PATCH /vessels/{id}.  A row is tracked when the edit leaves it an MMSI. *)
(* Unless locked, a tracked row keeps its length; clearing the lock of a   *)
(* row that had an MMSI restores the shadow, over a length in the body.    *)
(***************************************************************************)
AsRead(row) == [mmsi |-> row.mmsi, locked |-> row.locked, shadow |-> row.shadow]

EditRead(c, i) ==
  /\ session[c] = Idle
  /\ table[i].exists
  /\ session' = [session EXCEPT ![c] = [kind |-> "edit", id |-> i,
                                        read |-> AsRead(table[i])]]
  /\ UNCHANGED <<table, batch, pending, losses>>

Field(e, f, default) == IF f \in DOMAIN e THEN e[f] ELSE default

EditedLoa(e, read, cur) ==
  LET mmsi   == Field(e, "mmsi", read.mmsi)
      locked == Field(e, "locked", read.locked)
      loa    == IF locked \/ mmsi = NoShip THEN Field(e, "loa", cur) ELSE cur
  IN  IF ~locked /\ read.locked /\ read.mmsi # NoShip
      THEN Coalesce(read.shadow, loa, Unknown)
      ELSE loa

EditedRow(e, read, row) ==
  [row EXCEPT !.mmsi = Field(e, "mmsi", @),
              !.locked = Field(e, "locked", @),
              !.loa = EditedLoa(e, read, @)]

\* The MMSI an edit sets, if it sets one.
NewMmsi(e) == Field(e, "mmsi", NoShip)

\* The unique index waits for the ingestor's row of that MMSI.
MmsiFree(e) == NewMmsi(e) # NoShip => \A j \in Ids : Held(j) => batch[j].mmsi # NewMmsi(e)

\* Another row has the MMSI, or the row would keep neither MMSI nor IMO
\* (vessel_requires_mmsi_or_imo): the edit is refused.
EditRefused(e, i) ==
  \/ NewMmsi(e) # NoShip /\ \E j \in Ids \ {i} : table[j].mmsi = NewMmsi(e)
  \/ Field(e, "mmsi", table[i].mmsi) = NoShip /\ table[i].imo = NoShip

EditCommit(c, e) ==
  /\ session[c] # Idle
  /\ session[c].kind = "edit"
  /\ MmsiFree(e)
  /\ LET i == session[c].id
         r == session[c].read
     IN  /\ ~Held(i)
         /\ table' = IF EditRefused(e, i) THEN table
                     ELSE [table EXCEPT ![i] = EditedRow(e, r, @)]
  /\ session' = [session EXCEPT ![c] = Idle]
  /\ UNCHANGED <<batch, pending, losses>>

(***************************************************************************)
(* A berth request: a new one, refused when the IMO is on file under       *)
(* another name, or an edit of one.  Only a vessel without an MMSI may be  *)
(* overwritten.  Nothing makes the IMO unique, and any row of it may be    *)
(* the one read (LIMIT 1).  A refusal, and a request whose content is       *)
(* already on the trail, change no vessel and are no step.                 *)
(***************************************************************************)
OnFile(imo) == {i \in Ids : table[i].exists /\ table[i].imo = imo}

OtherShip(row, f) ==
  /\ row.name # NoShip
  /\ f.name # NoShip
  /\ row.name # f.name

Resolve(c, f, edits) ==
  /\ session[c] = Idle
  /\ \E overwrite \in
       IF OnFile(f.imo) = {} THEN {edits}
       ELSE {table[i].mmsi = NoShip :
               i \in {j \in OnFile(f.imo) : edits \/ ~OtherShip(table[j], f)}} :
       session' = [session EXCEPT
                     ![c] = [kind |-> "request", form |-> f, overwrite |-> overwrite]]
  /\ UNCHANGED <<table, batch, pending, losses>>

UpsertedAlways(row, f, overwrite) ==
  [row EXCEPT !.name = Coalesce(f.name, @, NoShip),
              !.loa = Coalesce(f.loa, @, Unknown)]

UpsertedRow(row, f, overwrite) ==
  IF overwrite
  THEN [row EXCEPT !.name = Coalesce(f.name, @, NoShip),
                   !.loa = Coalesce(f.loa, @, Unknown)]
  ELSE [row EXCEPT !.name = Coalesce(@, f.name, NoShip),
                   !.loa = Coalesce(@, f.loa, Unknown)]

UpsertVessel(c) ==
  /\ session[c] # Idle
  /\ session[c].kind = "request"
  /\ LET f == session[c].form
     IN  \/ \E i \in OnFile(f.imo) :
              /\ ~Held(i)
              /\ table' = [table EXCEPT ![i] = UpsertedRow(@, f, session[c].overwrite)]
         \/ /\ OnFile(f.imo) = {}
            /\ \E i \in Free :
                 table' = [table EXCEPT
                             ![i] = [Absent EXCEPT !.exists = TRUE, !.imo = f.imo,
                                                   !.name = f.name, !.loa = f.loa]]
  /\ session' = [session EXCEPT ![c] = Idle]
  /\ UNCHANGED <<batch, pending, losses>>

Answer(c) == UpsertVessel(c) \/ \E e \in Edits : EditCommit(c, e)

Next ==
  \/ \E s \in Ships, l \in Length : StaticData(s, l)
  \/ \E s \in Ships : Position(s)
  \/ StreamEnds
  \/ BatchLost
  \/ \E c \in Editors, i \in Ids : EditRead(c, i)
  \/ \E c \in Editors, e \in Edits : EditCommit(c, e)
  \/ \E c \in Keepers, f \in Forms, edits \in BOOLEAN : Resolve(c, f, edits)
  \/ \E c \in Keepers : UpsertVessel(c)

Spec == Init /\ [][Next]_vars

(***************************************************************************)
(* A request whose rows are free is answered.                              *)
(***************************************************************************)
RequestsAnswered == \A c \in Clerks : SF_vars(Answer(c))

\* The feed goes on: every ship is heard, its length included, again and again.
FeedGoesOn == \A s \in Ships : WF_vars(\E l \in Lengths : StaticData(s, l))

FairSpec == Spec /\ RequestsAnswered /\ FeedGoesOn

-----------------------------------------------------------------------------
\* Every variable has its type.
TypeOK ==
  /\ table \in [Ids -> Row]
  /\ batch \in [Ids -> Row]
  /\ pending \in 0..BatchSize - 1
  /\ losses \in 0..MaxLosses
  /\ session \in [Clerks ->
       [kind: {"edit"}, id: Ids,
        read: [mmsi: Key, locked: BOOLEAN, shadow: Length]]
         \cup [kind: {"request"}, form: Forms, overwrite: BOOLEAN]
         \cup {Idle}]

Pinned(i) == table[i].mmsi # NoShip /\ table[i].locked

\* A length an operator pinned stands against the feed and against every berth
\* request, however long the ingestor's batch was open: it changes only by an
\* edit of the vessel, or by a request that found the ship untracked
\* (_LOCKED_DIMS: "when locked, the ingestor keeps the stored value").
PinStands ==
  [][\A i \in Ids :
       Pinned(i) /\ Pinned(i)' /\ table[i].loa # Unknown
         /\ table'[i].loa # table[i].loa
       => \E c \in Clerks :
            /\ session[c] # Idle
            /\ session'[c] = Idle
            /\ session[c].kind = "request" => session[c].overwrite]_vars

\* Clearing the lock puts back the length the feed last gave, also one it gave
\* while the row was pinned, when nothing of the row landed since the edit read it
\* (_restore_ais_dims: "the dimensions match AIS at once").
RevertRestores ==
  [][\A i \in Ids :
       /\ Pinned(i)
       /\ table'[i].mmsi = table[i].mmsi
       /\ ~table'[i].locked
       /\ table[i].heard # Unknown
       /\ \E c \in Clerks :
            /\ session[c] # Idle
            /\ session'[c] = Idle
            /\ session[c].kind = "edit" /\ session[c].id = i
            /\ session[c].read = AsRead(table[i])
       => table'[i].loa = table[i].heard]_vars

\* A row two writers fought over comes right: the length of a tracked row nobody
\* pinned is, sooner or later, the one the feed gives, as long as the ship is
\* heard (the ingestor overwrites it with every ShipStaticData).
Drifted(i) ==
  /\ table[i].mmsi # NoShip
  /\ ~table[i].locked
  /\ table[i].shadow # Unknown
  /\ table[i].loa # table[i].shadow

DriftHeals == \A i \in Ids : Drifted(i) ~> ~Drifted(i)

\* No request waits for ever for a row the ingestor holds, as long as the feed
\* goes on.
RequestsEnd == \A c \in Clerks : session[c] # Idle ~> session[c] = Idle
=============================================================================
