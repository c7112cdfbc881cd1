------------------------ MODULE VesselRegisterProofs ------------------------
(***************************************************************************)
(* Proofs about the vessel table: for any ships, batch and requests, a     *)
(* pin stands against the feed, and clearing it restores what the feed     *)
(* gave.                                                                   *)
(***************************************************************************)
EXTENDS VesselRegister, TLAPS

Rows == [Ids -> Row]

Sessions ==
  [kind: {"edit"}, id: Ids, read: [mmsi: Key, locked: BOOLEAN, shadow: Length]]
    \cup [kind: {"request"}, form: Forms, overwrite: BOOLEAN]
    \cup {Idle}

(***************************************************************************)
(* A row the batch holds was pinned as the table has it, since nobody else *)
(* writes it; and the shadow is what the feed gave.                        *)
(***************************************************************************)
KeepsPin(b, t) == b.exists /\ t.locked /\ t.loa # Unknown => b.locked /\ b.loa = t.loa

BatchKeepsPins == \A i \in Ids : KeepsPin(batch[i], table[i])

ShadowsAreHeard ==
  \A i \in Ids : table[i].shadow = table[i].heard /\ batch[i].shadow = batch[i].heard

IInv == TypeOK /\ BatchKeepsPins /\ ShadowsAreHeard

\* The types as sets.
LEMMA TypesOfIInv ==
  ASSUME IInv
  PROVE  /\ table \in Rows /\ batch \in Rows
         /\ pending \in 0..BatchSize - 1 /\ losses \in 0..MaxLosses
         /\ session \in [Clerks -> Sessions]
         /\ \A i \in Ids : table[i] \in Row /\ batch[i] \in Row /\ Seen(i) \in Row
  BY DEF IInv, TypeOK, Rows, Sessions, Seen

\* No row has the type of a row.
LEMMA AbsentIsARow ==
  Absent \in Row /\ ~Absent.exists /\ Absent.shadow = Absent.heard
  BY DEF Absent, Row, Key, Length

\* The row as the ingestor sees it: pinned as in the table, its shadow heard.
LEMMA SeenIsPinned ==
  ASSUME IInv, NEW i \in Ids
  PROVE  /\ Seen(i).shadow = Seen(i).heard
         /\ table[i].locked /\ table[i].loa # Unknown =>
              Seen(i).locked /\ Seen(i).loa = table[i].loa
  BY DEF IInv, BatchKeepsPins, KeepsPin, ShadowsAreHeard, Seen, Held

\* What a message of the feed makes of the row: it stays pinned.
LEMMA MessageKeepsPin ==
  ASSUME NEW row \in Row, row.shadow = row.heard, NEW s \in Ships, NEW l \in Length
  PROVE  /\ Merged(row, s, l) \in Row
         /\ Merged(row, s, l).shadow = Merged(row, s, l).heard
         /\ Merged(row, s, l).locked = row.locked
         /\ row.locked => Merged(row, s, l).loa = row.loa
  <1> DEFINE loa == IF row.locked THEN row.loa ELSE Coalesce(l, row.loa, Unknown)
             sh  == Coalesce(l, row.shadow, Unknown)
             q   == [row EXCEPT !.exists = TRUE, !.mmsi = s, !.imo = s, !.name = s,
                                !.loa = loa, !.shadow = sh, !.heard = sh]
  <1>1. Merged(row, s, l) = q
    BY DEF Merged
  <1>2. loa \in Length /\ sh \in Length
    BY DEF Coalesce, Row
  <1>3. s \in Key /\ s \in Names
    BY RegisterAssumption DEF Key
  <1>4. row.locked => loa = row.loa
    OBVIOUS
  <1> HIDE DEF loa, sh
  <1>5. q \in Row /\ q.shadow = q.heard /\ q.locked = row.locked /\ q.loa = loa
    BY <1>2, <1>3 DEF Row
  <1> QED
    BY <1>1, <1>4, <1>5

\* So does a position of a ship.
LEMMA PositionKeepsPin ==
  ASSUME NEW row \in Row, row.shadow = row.heard, NEW s \in Ships
  PROVE  LET q == [row EXCEPT !.exists = TRUE, !.mmsi = s]
         IN  /\ q \in Row /\ q.shadow = q.heard
             /\ q.locked = row.locked /\ q.loa = row.loa
  BY DEF Row, Key

\* Nothing is pinned at first.
LEMMA InitIInv == Init => IInv
  <1> SUFFICES ASSUME Init PROVE IInv
    OBVIOUS
  <1>1. table \in Rows /\ batch \in Rows /\ \A i \in Ids : table[i] = Absent /\ batch[i] = Absent
    BY AbsentIsARow DEF Init, Rows
  <1>2. TypeOK
    BY <1>1, RegisterAssumption DEF Init, TypeOK, Rows
  <1> QED
    BY <1>1, <1>2, AbsentIsARow DEF IInv, BatchKeepsPins, KeepsPin, ShadowsAreHeard

\* A message written to the batch, or flushed with it.
LEMMA HandledKeeps ==
  ASSUME IInv, NEW i \in Ids, NEW row \in Row, Handled(i, row),
         row.shadow = row.heard, row.locked = Seen(i).locked,
         row.locked => row.loa = Seen(i).loa,
         UNCHANGED <<losses, session>>
  PROVE  /\ IInv'
         /\ \A j \in Ids : table[j].locked /\ table[j].loa # Unknown
              => table'[j].locked /\ table'[j].loa = table[j].loa
  <1>1. /\ \A j \in Ids : Seen(j) \in Row /\ Seen(j).shadow = Seen(j).heard
        /\ \A j \in Ids : table[j].locked /\ table[j].loa # Unknown
             => Seen(j).locked /\ Seen(j).loa = table[j].loa
    BY SeenIsPinned, TypesOfIInv
  <1>2. CASE /\ pending + 1 < BatchSize
             /\ batch' = [batch EXCEPT ![i] = row]
             /\ pending' = pending + 1
             /\ UNCHANGED table
    <2>1. /\ batch' \in Rows /\ batch'[i] = row
          /\ \A j \in Ids : j # i => batch'[j] = batch[j]
      BY <1>2, TypesOfIInv DEF Rows
    <2>2. pending' \in 0..BatchSize - 1
      BY <1>2, TypesOfIInv, RegisterAssumption
    <2>3. TypeOK'
      BY <1>2, <2>1, <2>2, TypesOfIInv DEF TypeOK, Rows, Sessions
    <2>4. BatchKeepsPins'
      BY <1>1, <1>2, <2>1 DEF IInv, BatchKeepsPins, KeepsPin
    <2>5. ShadowsAreHeard'
      BY <1>2, <2>1 DEF IInv, ShadowsAreHeard
    <2> QED
      BY <1>2, <2>3, <2>4, <2>5 DEF IInv
  <1>3. CASE /\ table' = [Overlaid EXCEPT ![i] = row]
             /\ batch' = [j \in Ids |-> Absent]
             /\ pending' = 0
    <2>1. /\ table' \in Rows /\ table'[i] = row
          /\ \A j \in Ids : j # i => table'[j] = Seen(j)
      BY <1>1, <1>3 DEF Overlaid, Rows
    <2>2. batch' \in Rows /\ \A j \in Ids : batch'[j] = Absent
      BY <1>3, AbsentIsARow DEF Rows
    <2>3. TypeOK'
      BY <1>3, <2>1, <2>2, TypesOfIInv, RegisterAssumption DEF TypeOK, Rows, Sessions
    <2>4. BatchKeepsPins'
      BY <2>2, AbsentIsARow DEF BatchKeepsPins, KeepsPin
    <2>5. ShadowsAreHeard'
      BY <1>1, <2>1, <2>2, AbsentIsARow DEF ShadowsAreHeard
    <2> QED
      BY <1>1, <2>1, <2>3, <2>4, <2>5 DEF IInv
  <1> QED
    BY <1>2, <1>3 DEF Handled

\* The feed leaves what is pinned as it is.
FeedStep ==
  \/ \E s \in Ships, l \in Length : StaticData(s, l)
  \/ \E s \in Ships : Position(s)
  \/ StreamEnds
  \/ BatchLost

\* A message of the feed keeps the invariant.
LEMMA FeedKeeps ==
  ASSUME IInv, FeedStep
  PROVE  /\ IInv' /\ session' = session
         /\ \A j \in Ids : table[j].locked /\ table[j].loa # Unknown
              => table'[j].locked /\ table'[j].loa = table[j].loa
  <1>0. \A s \in Ships : UpsertId(s) \subseteq Ids
    BY DEF UpsertId, Tracked, Free
  <1>1. ASSUME NEW s \in Ships, NEW l \in Length, StaticData(s, l)
        PROVE  /\ IInv' /\ session' = session
               /\ \A j \in Ids : table[j].locked /\ table[j].loa # Unknown
                    => table'[j].locked /\ table'[j].loa = table[j].loa
    <2>1. PICK i \in Ids : Handled(i, Merged(Seen(i), s, l))
      BY <1>0, <1>1 DEF StaticData
    <2>2. Seen(i) \in Row /\ Seen(i).shadow = Seen(i).heard
      BY TypesOfIInv, SeenIsPinned
    <2> PICK row \in Row : row = Merged(Seen(i), s, l)
      BY <2>2, MessageKeepsPin
    <2>3. /\ row.shadow = row.heard /\ row.locked = Seen(i).locked
          /\ row.locked => row.loa = Seen(i).loa
      BY <2>2, MessageKeepsPin
    <2>4. UNCHANGED <<losses, session>>
      BY <1>1 DEF StaticData
    <2> QED
      BY <2>1, <2>3, <2>4, HandledKeeps
  <1>2. ASSUME NEW s \in Ships, Position(s)
        PROVE  /\ IInv' /\ session' = session
               /\ \A j \in Ids : table[j].locked /\ table[j].loa # Unknown
                    => table'[j].locked /\ table'[j].loa = table[j].loa
    <2>1. PICK i \in Ids : Handled(i, [Seen(i) EXCEPT !.exists = TRUE, !.mmsi = s])
      BY <1>0, <1>2 DEF Position
    <2>2. Seen(i) \in Row /\ Seen(i).shadow = Seen(i).heard
      BY TypesOfIInv, SeenIsPinned
    <2> PICK row \in Row : row = [Seen(i) EXCEPT !.exists = TRUE, !.mmsi = s]
      BY <2>2, PositionKeepsPin
    <2>3. /\ row.shadow = row.heard /\ row.locked = Seen(i).locked
          /\ row.loa = Seen(i).loa
      BY <2>2, PositionKeepsPin
    <2>4. UNCHANGED <<losses, session>>
      BY <1>2 DEF Position
    <2> QED
      BY <2>1, <2>3, <2>4, HandledKeeps
  <1>3. CASE StreamEnds \/ BatchLost
    <2>1. /\ table' \in {table, Overlaid} /\ session' = session
          /\ batch' = [i \in Ids |-> Absent]
          /\ pending' = 0 /\ losses' \in 0..MaxLosses
      BY <1>3, TypesOfIInv, RegisterAssumption DEF StreamEnds, BatchLost
    <2>2. /\ \A j \in Ids : Seen(j) \in Row /\ Seen(j).shadow = Seen(j).heard
          /\ \A j \in Ids : table[j].locked /\ table[j].loa # Unknown
               => Seen(j).locked /\ Seen(j).loa = table[j].loa
      BY SeenIsPinned, TypesOfIInv
    <2>3. table' \in Rows /\ \A j \in Ids : table'[j] \in {table[j], Seen(j)}
      BY <2>1, <2>2, TypesOfIInv DEF Overlaid, Rows
    <2>4. batch' \in Rows /\ \A j \in Ids : batch'[j] = Absent
      BY <2>1, AbsentIsARow DEF Rows
    <2>5. TypeOK'
      BY <2>1, <2>3, <2>4, TypesOfIInv, RegisterAssumption DEF TypeOK, Rows, Sessions
    <2>6. BatchKeepsPins'
      BY <2>4, AbsentIsARow DEF BatchKeepsPins, KeepsPin
    <2>7. ShadowsAreHeard'
      BY <2>2, <2>3, <2>4, AbsentIsARow DEF IInv, ShadowsAreHeard
    <2> QED
      BY <2>1, <2>2, <2>3, <2>5, <2>6, <2>7 DEF IInv
  <1> QED
    BY <1>1, <1>2, <1>3 DEF FeedStep

-----------------------------------------------------------------------------
(***************************************************************************)
(* The requests.                                                           *)
(***************************************************************************)

\* A request writes a row the batch does not hold, or none.
LEMMA RowWrittenKeeps ==
  ASSUME IInv, NEW i \in Ids, ~Held(i), NEW row \in Row, row.shadow = row.heard,
         table' = [table EXCEPT ![i] = row], UNCHANGED <<batch, pending, losses>>,
         session' \in [Clerks -> Sessions]
  PROVE  IInv'
  <1>1. /\ table' \in Rows /\ table'[i] = row
        /\ \A j \in Ids : j # i => table'[j] = table[j]
    BY TypesOfIInv DEF Rows
  <1>2. TypeOK'
    BY <1>1, TypesOfIInv DEF TypeOK, Rows, Sessions
  <1>3. BatchKeepsPins'
    BY <1>1 DEF IInv, BatchKeepsPins, KeepsPin, Held
  <1>4. ShadowsAreHeard'
    BY <1>1 DEF IInv, ShadowsAreHeard
  <1> QED
    BY <1>2, <1>3, <1>4 DEF IInv

\* What only reads.
LEMMA NothingWrittenKeeps ==
  ASSUME IInv, UNCHANGED <<table, batch, pending, losses>>,
         session' \in [Clerks -> Sessions]
  PROVE  IInv'
  BY DEF IInv, TypeOK, BatchKeepsPins, KeepsPin, ShadowsAreHeard, Sessions

\* An edit's row.
LEMMA EditedRowIs ==
  ASSUME NEW e \in Edits, NEW row \in Row,
         NEW read \in [mmsi: Key, locked: BOOLEAN, shadow: Length]
  PROVE  LET q == EditedRow(e, read, row)
         IN  /\ q \in Row
             /\ q.shadow = row.shadow /\ q.heard = row.heard
             /\ q.mmsi = Field(e, "mmsi", row.mmsi)
             /\ q.locked = Field(e, "locked", row.locked)
             /\ q.loa = EditedLoa(e, read, row.loa)
  <1> DEFINE m == Field(e, "mmsi", row.mmsi)
             k == Field(e, "locked", row.locked)
             l == EditedLoa(e, read, row.loa)
  <1>1. m \in Key
    BY RegisterAssumption DEF Field, Key, Row
  <1>2. k \in BOOLEAN
    BY RegisterAssumption DEF Field, Row
  <1>3. l \in Length
    <2>1. Field(e, "loa", row.loa) \in Length
      BY RegisterAssumption DEF Field, Length, Row
    <2>2. Coalesce(read.shadow, row.loa, Unknown) \in Length
      BY DEF Coalesce, Row
    <2>3. row.loa \in Length
      BY DEF Row
    <2>4. Coalesce(read.shadow, Field(e, "loa", row.loa), Unknown) \in Length
      BY <2>1 DEF Coalesce
    <2>5. l \in {Field(e, "loa", row.loa), row.loa,
                 Coalesce(read.shadow, row.loa, Unknown),
                 Coalesce(read.shadow, Field(e, "loa", row.loa), Unknown)}
      BY DEF EditedLoa
    <2> QED
      BY <2>1, <2>2, <2>3, <2>4, <2>5
  <1>4. EditedRow(e, read, row) = [row EXCEPT !.mmsi = m, !.locked = k, !.loa = l]
    BY DEF EditedRow
  <1> HIDE DEF m, k, l
  <1>5. LET q == [row EXCEPT !.mmsi = m, !.locked = k, !.loa = l]
        IN  /\ q \in Row /\ q.shadow = row.shadow /\ q.heard = row.heard
            /\ q.mmsi = m /\ q.locked = k /\ q.loa = l
    BY <1>1, <1>2, <1>3 DEF Row
  <1> QED
    BY <1>4, <1>5 DEF m, k, l

\* An upsert's row: without leave to overwrite, a known length stays.
LEMMA UpsertedRowIs ==
  ASSUME NEW f \in Forms, NEW row \in Row, NEW overwrite \in BOOLEAN
  PROVE  LET q == UpsertedRow(row, f, overwrite)
         IN  /\ q \in Row
             /\ q.shadow = row.shadow /\ q.heard = row.heard
             /\ q.locked = row.locked
             /\ ~overwrite /\ row.loa # Unknown => q.loa = row.loa
  <1>1. f.name \in Names \cup {NoShip} /\ f.loa \in Length
    BY RegisterAssumption DEF Length
  <1>2. row.name \in Names \cup {NoShip} /\ row.loa \in Length
    BY DEF Row
  <1>3. \E n \in Names \cup {NoShip}, l \in Length :
          /\ UpsertedRow(row, f, overwrite) = [row EXCEPT !.name = n, !.loa = l]
          /\ ~overwrite /\ row.loa # Unknown => l = row.loa
    <2>1. CASE overwrite
      <3> DEFINE n == Coalesce(f.name, row.name, NoShip)
                 l == Coalesce(f.loa, row.loa, Unknown)
      <3>1. n \in Names \cup {NoShip} /\ l \in Length
        BY <1>1, <1>2 DEF Coalesce
      <3>2. UpsertedRow(row, f, overwrite) = [row EXCEPT !.name = n, !.loa = l]
        BY <2>1 DEF UpsertedRow
      <3> QED
        BY <2>1, <3>1, <3>2
    <2>2. CASE ~overwrite
      <3> DEFINE n == Coalesce(row.name, f.name, NoShip)
                 l == Coalesce(row.loa, f.loa, Unknown)
      <3>1. n \in Names \cup {NoShip} /\ l \in Length
        BY <1>1, <1>2 DEF Coalesce
      <3>2. UpsertedRow(row, f, overwrite) = [row EXCEPT !.name = n, !.loa = l]
        BY <2>2 DEF UpsertedRow
      <3>3. row.loa # Unknown => l = row.loa
        BY DEF Coalesce
      <3> QED
        BY <3>1, <3>2, <3>3
    <2> QED
      BY <2>1, <2>2
  <1>4. PICK n \in Names \cup {NoShip}, l \in Length :
          /\ UpsertedRow(row, f, overwrite) = [row EXCEPT !.name = n, !.loa = l]
          /\ ~overwrite /\ row.loa # Unknown => l = row.loa
    BY <1>3
  <1> QED
    BY <1>4 DEF Row

\* The session a request reads into.
LEMMA RequestsReadKeep ==
  ASSUME IInv,
         \/ \E c \in Editors, i \in Ids : EditRead(c, i)
         \/ \E c \in Keepers, f \in Forms, edits \in BOOLEAN : Resolve(c, f, edits)
  PROVE  IInv' /\ table' = table
  <1>1. ASSUME NEW c \in Clerks, NEW z \in Sessions, session' = [session EXCEPT ![c] = z],
               UNCHANGED <<table, batch, pending, losses>>
        PROVE  IInv' /\ table' = table
    BY <1>1, TypesOfIInv, NothingWrittenKeeps
  <1>2. ASSUME NEW c \in Editors, NEW i \in Ids, EditRead(c, i)
        PROVE  IInv' /\ table' = table
    <2> DEFINE z == [kind |-> "edit", id |-> i, read |-> AsRead(table[i])]
    <2>1. AsRead(table[i]) \in [mmsi: Key, locked: BOOLEAN, shadow: Length]
      BY TypesOfIInv DEF AsRead, Row
    <2>2. z \in Sessions
      BY <2>1 DEF Sessions
    <2>3. session' = [session EXCEPT ![c] = z] /\ UNCHANGED <<table, batch, pending, losses>>
      BY <1>2 DEF EditRead
    <2> HIDE DEF z
    <2> QED
      BY <1>1, <2>2, <2>3 DEF Clerks
  <1>3. ASSUME NEW c \in Keepers, NEW f \in Forms, NEW edits \in BOOLEAN,
               Resolve(c, f, edits)
        PROVE  IInv' /\ table' = table
    <2>1. PICK overwrite \in BOOLEAN :
            session' = [session EXCEPT
                          ![c] = [kind |-> "request", form |-> f, overwrite |-> overwrite]]
      <3>1. {table[i].mmsi = NoShip :
               i \in {j \in OnFile(f.imo) : edits \/ ~OtherShip(table[j], f)}}
              \subseteq BOOLEAN
        OBVIOUS
      <3> QED
        BY <1>3, <3>1 DEF Resolve
    <2> DEFINE z == [kind |-> "request", form |-> f, overwrite |-> overwrite]
    <2>2. z \in Sessions
      BY DEF Sessions
    <2>3. session' = [session EXCEPT ![c] = z] /\ UNCHANGED <<table, batch, pending, losses>>
      BY <1>3, <2>1 DEF Resolve
    <2> HIDE DEF z
    <2> QED
      BY <1>1, <2>2, <2>3 DEF Clerks
  <1> QED
    BY <1>2, <1>3

\* An edit commits.
LEMMA EditCommitKeeps ==
  ASSUME IInv, NEW c \in Editors, NEW e \in Edits, EditCommit(c, e)
  PROVE  /\ IInv'
         /\ session[c] # Idle /\ session'[c] = Idle
         /\ session[c].kind = "edit" /\ session[c].id \in Ids
         /\ session[c].read \in [mmsi: Key, locked: BOOLEAN, shadow: Length]
         /\ table' \in {table,
                        [table EXCEPT ![session[c].id] =
                           EditedRow(e, session[c].read, table[session[c].id])]}
  <1>1. c \in Clerks /\ session[c] # Idle /\ session[c].kind = "edit"
        /\ session' = [session EXCEPT ![c] = Idle]
        /\ UNCHANGED <<batch, pending, losses>>
    BY DEF EditCommit, Clerks
  <1>2. session[c] \in [kind: {"edit"}, id: Ids,
                        read: [mmsi: Key, locked: BOOLEAN, shadow: Length]]
    BY <1>1, TypesOfIInv DEF Sessions
  <1> PICK i \in Ids, r \in [mmsi: Key, locked: BOOLEAN, shadow: Length] :
        i = session[c].id /\ r = session[c].read
    BY <1>2
  <1>3. /\ ~Held(i)
        /\ table' = table \/ table' = [table EXCEPT ![i] = EditedRow(e, r, table[i])]
    BY DEF EditCommit
  <1>4. session' \in [Clerks -> Sessions] /\ session'[c] = Idle
    BY <1>1, TypesOfIInv DEF Sessions
  <1>5. EditedRow(e, r, table[i]) \in Row
        /\ EditedRow(e, r, table[i]).shadow = EditedRow(e, r, table[i]).heard
    BY EditedRowIs, TypesOfIInv DEF IInv, ShadowsAreHeard
  <1>6. IInv'
    BY <1>1, <1>3, <1>4, <1>5, RowWrittenKeeps, NothingWrittenKeeps
  <1> QED
    BY <1>1, <1>2, <1>3, <1>4, <1>6

\* A berth request writes its ship.
LEMMA UpsertVesselKeeps ==
  ASSUME IInv, NEW c \in Keepers, UpsertVessel(c)
  PROVE  /\ IInv'
         /\ session[c] # Idle /\ session'[c] = Idle
         /\ session[c].kind = "request" /\ session[c].overwrite \in BOOLEAN
         /\ \A i \in Ids : table[i].exists /\ ~session[c].overwrite /\ table[i].loa # Unknown
              => table'[i].loa = table[i].loa
  <1>1. c \in Clerks /\ session[c] # Idle /\ session[c].kind = "request"
        /\ session' = [session EXCEPT ![c] = Idle]
        /\ UNCHANGED <<batch, pending, losses>>
    BY DEF UpsertVessel, Clerks
  <1>2. session[c] \in [kind: {"request"}, form: Forms, overwrite: BOOLEAN]
    BY <1>1, TypesOfIInv DEF Sessions
  <1> PICK f \in Forms, w \in BOOLEAN : f = session[c].form /\ w = session[c].overwrite
    BY <1>2
  <1>3. session' \in [Clerks -> Sessions] /\ session'[c] = Idle
    BY <1>1, TypesOfIInv DEF Sessions
  <1>4. ASSUME NEW i \in OnFile(f.imo), ~Held(i),
               table' = [table EXCEPT ![i] = UpsertedRow(table[i], f, w)]
        PROVE  /\ IInv'
               /\ \A j \in Ids : ~w /\ table[j].loa # Unknown => table'[j].loa = table[j].loa
    <2>1. i \in Ids
      BY DEF OnFile
    <2>2. /\ UpsertedRow(table[i], f, w) \in Row
          /\ UpsertedRow(table[i], f, w).shadow = UpsertedRow(table[i], f, w).heard
          /\ ~w /\ table[i].loa # Unknown => UpsertedRow(table[i], f, w).loa = table[i].loa
      BY <2>1, UpsertedRowIs, TypesOfIInv DEF IInv, ShadowsAreHeard
    <2>3. IInv'
      BY <1>1, <1>3, <1>4, <2>1, <2>2, RowWrittenKeeps
    <2> QED
      BY <1>4, <2>1, <2>2, <2>3, TypesOfIInv DEF Rows
  <1>5. ASSUME NEW i \in Free,
               table' = [table EXCEPT
                           ![i] = [Absent EXCEPT !.exists = TRUE, !.imo = f.imo,
                                                 !.name = f.name, !.loa = f.loa]]
        PROVE  IInv' /\ \A j \in Ids : table[j].exists => table'[j] = table[j]
    <2> DEFINE q == [Absent EXCEPT !.exists = TRUE, !.imo = f.imo,
                                   !.name = f.name, !.loa = f.loa]
    <2>1. i \in Ids /\ ~Held(i) /\ ~table[i].exists
      BY DEF Free, Seen, Held
    <2>2. f.imo \in Key /\ f.name \in Names \cup {NoShip} /\ f.loa \in Length
      BY RegisterAssumption DEF Key, Length
    <2>3. q \in Row /\ q.shadow = q.heard
      BY <2>2, AbsentIsARow DEF Row, Absent
    <2> HIDE DEF q
    <2>4. table' = [table EXCEPT ![i] = q]
      BY <1>5 DEF q
    <2>5. IInv'
      BY <1>1, <1>3, <2>1, <2>3, <2>4, RowWrittenKeeps
    <2> QED
      BY <2>1, <2>4, <2>5, TypesOfIInv DEF Rows
  <1>6. \/ \E i \in OnFile(f.imo) :
             ~Held(i) /\ table' = [table EXCEPT ![i] = UpsertedRow(table[i], f, w)]
        \/ \E i \in Free :
             table' = [table EXCEPT
                         ![i] = [Absent EXCEPT !.exists = TRUE, !.imo = f.imo,
                                               !.name = f.name, !.loa = f.loa]]
    BY DEF UpsertVessel
  <1> QED
    BY <1>1, <1>3, <1>4, <1>5, <1>6

-----------------------------------------------------------------------------
(***************************************************************************)
(* The rows that name a ship, or are being edited, exist.                  *)
(***************************************************************************)
NamedRowsExist ==
  /\ \A i \in Ids : table[i].mmsi # NoShip => table[i].exists
  /\ \A c \in Clerks : session[c] # Idle /\ session[c].kind = "edit"
                        => table[session[c].id].exists

Inductive == IInv /\ NamedRowsExist

\* What the feed writes exists.
LEMMA FeedBringsRows ==
  ASSUME IInv, FeedStep, NEW j \in Ids
  PROVE  table'[j] = table[j] \/ table'[j].exists
  <1>1. ASSUME NEW i \in Ids, NEW row \in Row, row.exists, Handled(i, row)
        PROVE  table'[j] = table[j] \/ table'[j].exists
    <2>1. CASE table' = [Overlaid EXCEPT ![i] = row]
      BY <1>1, <2>1 DEF Overlaid, Seen, Held
    <2>2. CASE table' = table
      BY <2>2
    <2> QED
      BY <1>1, <2>1, <2>2 DEF Handled
  <1>2. ASSUME NEW s \in Ships, NEW l \in Length, StaticData(s, l)
        PROVE  table'[j] = table[j] \/ table'[j].exists
    <2>1. PICK i \in Ids : Handled(i, Merged(Seen(i), s, l))
      BY <1>2 DEF StaticData, UpsertId, Tracked, Free
    <2>2. Merged(Seen(i), s, l) \in Row
      BY TypesOfIInv, SeenIsPinned, MessageKeepsPin
    <2>3. Merged(Seen(i), s, l).exists
      BY TypesOfIInv DEF Merged, Row
    <2> QED
      BY <1>1, <2>1, <2>2, <2>3
  <1>3. ASSUME NEW s \in Ships, Position(s)
        PROVE  table'[j] = table[j] \/ table'[j].exists
    <2>1. PICK i \in Ids : Handled(i, [Seen(i) EXCEPT !.exists = TRUE, !.mmsi = s])
      BY <1>3 DEF Position, UpsertId, Tracked, Free
    <2> PICK row \in Row : row = [Seen(i) EXCEPT !.exists = TRUE, !.mmsi = s]
      BY TypesOfIInv, SeenIsPinned, PositionKeepsPin
    <2>2. row.exists
      BY TypesOfIInv DEF Row
    <2> QED
      BY <1>1, <2>1, <2>2
  <1>4. CASE StreamEnds \/ BatchLost
    BY <1>4 DEF StreamEnds, BatchLost, Overlaid, Seen, Held
  <1> QED
    BY <1>2, <1>3, <1>4 DEF FeedStep

\* A request reads an existing row, or none.
LEMMA ReadsOfExistingRows ==
  ASSUME Inductive,
         \/ \E c \in Editors, i \in Ids : EditRead(c, i)
         \/ \E c \in Keepers, f \in Forms, edits \in BOOLEAN : Resolve(c, f, edits)
  PROVE  NamedRowsExist'
  <1>1. IInv' /\ table' = table
    BY RequestsReadKeep DEF Inductive
  <1>2. ASSUME NEW c \in Editors, NEW i \in Ids, EditRead(c, i)
        PROVE  \A d \in Clerks : session'[d] # Idle /\ session'[d].kind = "edit"
                                => table[session'[d].id].exists
    <2>1. /\ table[i].exists
          /\ session' = [session EXCEPT ![c] = [kind |-> "edit", id |-> i,
                                                read |-> AsRead(table[i])]]
      BY <1>2 DEF EditRead
    <2>2. session \in [Clerks -> Sessions]
      BY TypesOfIInv DEF Inductive
    <2> QED
      BY <2>1, <2>2 DEF Inductive, NamedRowsExist
  <1>3. ASSUME NEW c \in Keepers, NEW f \in Forms, NEW edits \in BOOLEAN,
               Resolve(c, f, edits)
        PROVE  \A d \in Clerks : session'[d] # Idle /\ session'[d].kind = "edit"
                                => table[session'[d].id].exists
    <2>1. PICK w : session' = [session EXCEPT
                        ![c] = [kind |-> "request", form |-> f, overwrite |-> w]]
      BY <1>3 DEF Resolve
    <2>2. session \in [Clerks -> Sessions]
      BY TypesOfIInv DEF Inductive
    <2> QED
      BY <2>1, <2>2 DEF Inductive, NamedRowsExist
  <1> QED
    BY <1>1, <1>2, <1>3 DEF Inductive, NamedRowsExist

\* An edit leaves the rows that exist, and no other has been read.
LEMMA EditOfExistingRow ==
  ASSUME Inductive, NEW c \in Editors, NEW e \in Edits, EditCommit(c, e)
  PROVE  NamedRowsExist'
  <1> PICK i \in Ids, r \in [mmsi: Key, locked: BOOLEAN, shadow: Length] :
        i = session[c].id /\ r = session[c].read
    BY EditCommitKeeps DEF Inductive
  <1> DEFINE q == EditedRow(e, r, table[i])
  <1>1. /\ table[i].exists /\ table \in Rows /\ session \in [Clerks -> Sessions]
        /\ session' = [session EXCEPT ![c] = Idle]
        /\ table' = table \/ table' = [table EXCEPT ![i] = q]
    BY EditCommitKeeps, TypesOfIInv DEF Inductive, NamedRowsExist, EditCommit, Clerks
  <1>2. q.exists
    BY <1>1 DEF EditedRow, Rows, Row
  <1> HIDE DEF q
  <1>3. \A j \in Ids : table'[j] = table[j] \/ table'[j].exists
    BY <1>1, <1>2 DEF Rows
  <1>4. \A d \in Clerks : session'[d] # Idle => session'[d] = session[d]
    BY <1>1
  <1>5. \A d \in Clerks : session[d] # Idle /\ session[d].kind = "edit"
                         => session[d].id \in Ids
    BY <1>1 DEF Sessions
  <1> QED
    BY <1>3, <1>4, <1>5 DEF Inductive, NamedRowsExist

\* So does a berth request, which may bring a row of its own.
LEMMA UpsertOfExistingRow ==
  ASSUME Inductive, NEW c \in Keepers, UpsertVessel(c)
  PROVE  NamedRowsExist'
  <1>1. /\ table \in Rows /\ session \in [Clerks -> Sessions]
        /\ session' = [session EXCEPT ![c] = Idle]
    BY TypesOfIInv DEF Inductive, UpsertVessel
  <1>2. \A j \in Ids : table'[j] = table[j] \/ table'[j].exists
    <2>1. CASE \E i \in OnFile(session[c].form.imo) :
                 table' = [table EXCEPT ![i] =
                             UpsertedRow(@, session[c].form, session[c].overwrite)]
      <3>1. PICK i \in OnFile(session[c].form.imo) :
              table' = [table EXCEPT ![i] =
                          UpsertedRow(table[i], session[c].form, session[c].overwrite)]
        BY <2>1
      <3>2. i \in Ids /\ table[i].exists
        BY DEF OnFile
      <3>3. UpsertedRow(table[i], session[c].form, session[c].overwrite).exists
        BY <1>1, <3>2 DEF UpsertedRow, Rows, Row
      <3> QED
        BY <1>1, <3>1, <3>2, <3>3 DEF Rows
    <2>2. CASE \E i \in Free :
                 table' = [table EXCEPT
                             ![i] = [Absent EXCEPT !.exists = TRUE,
                                       !.imo = session[c].form.imo,
                                       !.name = session[c].form.name,
                                       !.loa = session[c].form.loa]]
      BY <1>1, <2>2 DEF Rows, Absent
    <2> QED
      BY <2>1, <2>2 DEF UpsertVessel
  <1>3. \A d \in Clerks : session'[d] # Idle => session'[d] = session[d]
    BY <1>1
  <1>4. \A d \in Clerks : session[d] # Idle /\ session[d].kind = "edit"
                         => session[d].id \in Ids
    BY <1>1 DEF Sessions
  <1> QED
    BY <1>2, <1>3, <1>4 DEF Inductive, NamedRowsExist

\* Every step keeps the invariant.
LEMMA NextKeeps == Inductive /\ [Next]_vars => Inductive'
  <1> SUFFICES ASSUME Inductive, [Next]_vars PROVE Inductive'
    OBVIOUS
  <1>1. CASE FeedStep
    <2>1. IInv' /\ session' = session
      BY <1>1, FeedKeeps DEF Inductive
    <2>2. \A j \in Ids : table'[j] = table[j] \/ table'[j].exists
      BY <1>1, FeedBringsRows DEF Inductive
    <2>3. \A d \in Clerks : session[d] # Idle /\ session[d].kind = "edit"
                           => session[d].id \in Ids
      BY TypesOfIInv DEF Inductive, Sessions
    <2> QED
      BY <2>1, <2>2, <2>3 DEF Inductive, NamedRowsExist
  <1>2. CASE \/ \E c \in Editors, i \in Ids : EditRead(c, i)
             \/ \E c \in Keepers, f \in Forms, edits \in BOOLEAN : Resolve(c, f, edits)
    BY <1>2, RequestsReadKeep, ReadsOfExistingRows DEF Inductive
  <1>3. CASE \E c \in Editors, e \in Edits : EditCommit(c, e)
    BY <1>3, EditCommitKeeps, EditOfExistingRow DEF Inductive
  <1>4. CASE \E c \in Keepers : UpsertVessel(c)
    BY <1>4, UpsertVesselKeeps, UpsertOfExistingRow DEF Inductive
  <1>5. CASE UNCHANGED vars
    BY <1>5 DEF vars, Inductive, IInv, TypeOK, BatchKeepsPins, KeepsPin,
                ShadowsAreHeard, NamedRowsExist
  <1> QED
    BY <1>1, <1>2, <1>3, <1>4, <1>5 DEF Next, FeedStep

\* The invariant holds at the start.
LEMMA InitInductive == Init => Inductive
  <1> SUFFICES ASSUME Init PROVE Inductive
    OBVIOUS
  <1>1. \A i \in Ids : table[i].mmsi = NoShip
    BY DEF Init, Absent
  <1>2. \A c \in Clerks : session[c] = Idle
    BY DEF Init
  <1> QED
    BY <1>1, <1>2, InitIInv DEF Inductive, NamedRowsExist

\* The invariant holds in every reachable state.
LEMMA AlwaysInductive == Spec => []Inductive
  <1>1. Init => Inductive
    BY InitInductive
  <1>2. Inductive /\ [Next]_vars => Inductive'
    BY NextKeeps
  <1> QED
    BY <1>1, <1>2, PTL DEF Spec

-----------------------------------------------------------------------------
(***************************************************************************)
(* What the project promises of the table.                                 *)
(***************************************************************************)

\* The rows, the open batch and the requests in progress keep their types,
\* whatever the feed, the operators and the agents send (app/ais/ingest.py,
\* app/edit.py, app/intake/manual.py).
THEOREM RegisterTypeOK == Spec => []TypeOK
  <1>1. Inductive => TypeOK
    BY DEF Inductive, IInv
  <1> QED
    BY <1>1, AlwaysInductive, PTL

StandsStep ==
  \A i \in Ids :
    Pinned(i) /\ Pinned(i)' /\ table[i].loa # Unknown
      /\ table'[i].loa # table[i].loa
    => \E c \in Clerks :
         /\ session[c] # Idle
         /\ session'[c] = Idle
         /\ session[c].kind = "request" => session[c].overwrite

\* A step keeps what is pinned, or answers an edit or an overwriting request.
LEMMA StepStands == Inductive /\ [Next]_vars => StandsStep
  <1> SUFFICES ASSUME Inductive, [Next]_vars, NEW i \in Ids,
                      table[i].mmsi # NoShip, table[i].locked, table[i].loa # Unknown,
                      table'[i].loa # table[i].loa
               PROVE  \E c \in Clerks :
                        /\ session[c] # Idle
                        /\ session'[c] = Idle
                        /\ session[c].kind = "request" => session[c].overwrite
    BY DEF StandsStep, Pinned
  <1>1. CASE FeedStep
    BY <1>1, FeedKeeps DEF Inductive
  <1>2. CASE \/ \E c \in Editors, j \in Ids : EditRead(c, j)
             \/ \E c \in Keepers, f \in Forms, edits \in BOOLEAN : Resolve(c, f, edits)
    BY <1>2, RequestsReadKeep DEF Inductive
  <1>3. ASSUME NEW c \in Editors, NEW e \in Edits, EditCommit(c, e)
        PROVE  /\ c \in Clerks /\ session[c] # Idle /\ session'[c] = Idle
               /\ session[c].kind = "edit"
    BY <1>3, EditCommitKeeps DEF Inductive, Clerks
  <1>4. ASSUME NEW c \in Keepers, UpsertVessel(c)
        PROVE  /\ c \in Clerks /\ session[c] # Idle /\ session'[c] = Idle
               /\ session[c].overwrite
    <2>1. table[i].exists
      BY DEF Inductive, NamedRowsExist
    <2> QED
      BY <1>4, <2>1, UpsertVesselKeeps DEF Inductive, Clerks
  <1>5. CASE UNCHANGED vars
    BY <1>5 DEF vars
  <1> QED
    BY <1>1, <1>2, <1>3, <1>4, <1>5 DEF Next, FeedStep

\* A length an operator pinned stands against the feed, however its messages are
\* batched, flushed or lost, and against every berth request that may not
\* overwrite (_LOCKED_DIMS in app/ais/ingest.py, the COALESCE order of
\* app/intake/manual.py).
THEOREM PinsStand == Spec => PinStands
  <1>1. Inductive /\ [Next]_vars => StandsStep
    BY StepStands
  <1>2. Spec => [][StandsStep]_vars
    BY <1>1, AlwaysInductive, PTL DEF Spec
  <1> QED
    BY <1>2 DEF PinStands, StandsStep

RestoresStep ==
  \A i \in Ids :
    /\ Pinned(i)
    /\ table'[i].mmsi = table[i].mmsi
    /\ ~table'[i].locked
    /\ table[i].heard # Unknown
    /\ \E c \in Clerks :
         /\ session[c] # Idle
         /\ session'[c] = Idle
         /\ session[c].kind = "edit" /\ session[c].id = i
         /\ session[c].read = AsRead(table[i])
    => table'[i].loa = table[i].heard

\* The length an edit gives a tracked row it unlocks.
LEMMA UnlockedLoa ==
  ASSUME NEW row \in Row, row.mmsi # NoShip, row.locked, row.shadow # Unknown,
         NEW e \in Edits, ~Field(e, "locked", row.locked)
  PROVE  EditedLoa(e, AsRead(row), row.loa) = row.shadow
  <1>1. /\ AsRead(row).mmsi = row.mmsi /\ AsRead(row).locked = row.locked
        /\ AsRead(row).shadow = row.shadow
    BY DEF AsRead
  <1>2. \A loa : Coalesce(row.shadow, loa, Unknown) = row.shadow
    BY DEF Coalesce
  <1> QED
    BY <1>1, <1>2 DEF EditedLoa

\* Only an edit of the row unlocks it.
LEMMA StepRestores == Inductive /\ [Next]_vars => RestoresStep
  <1> SUFFICES ASSUME Inductive, [Next]_vars, NEW i \in Ids,
                      table[i].mmsi # NoShip, table[i].locked,
                      table'[i].mmsi = table[i].mmsi, ~table'[i].locked,
                      table[i].heard # Unknown,
                      NEW c \in Clerks, session[c] # Idle, session'[c] = Idle,
                      session[c].kind = "edit", session[c].id = i,
                      session[c].read = AsRead(table[i])
               PROVE  table'[i].loa = table[i].heard
    BY DEF RestoresStep, Pinned
  <1>0. /\ table \in Rows /\ table[i] \in Row /\ session \in [Clerks -> Sessions]
        /\ table[i].shadow = table[i].heard
    BY TypesOfIInv DEF Inductive, IInv, ShadowsAreHeard
  <1>1. CASE FeedStep
    BY <1>1, FeedKeeps DEF Inductive
  <1>2. CASE \/ \E d \in Editors, j \in Ids : EditRead(d, j)
             \/ \E d \in Keepers, f \in Forms, edits \in BOOLEAN : Resolve(d, f, edits)
    BY <1>2, RequestsReadKeep DEF Inductive
  <1>3. ASSUME NEW d \in Editors, NEW e \in Edits, EditCommit(d, e)
        PROVE  table'[i].loa = table[i].heard
    <2>1. session' = [session EXCEPT ![d] = Idle]
      BY <1>3 DEF EditCommit
    <2>2. d = c
      BY <1>0, <2>1
    <2> PICK r \in [mmsi: Key, locked: BOOLEAN, shadow: Length] : r = AsRead(table[i])
      BY <1>0 DEF AsRead, Row
    <2>3. table' \in {table, [table EXCEPT ![i] = EditedRow(e, r, table[i])]}
      BY <1>3, <2>2, EditCommitKeeps DEF Inductive
    <2>4. table'[i] = EditedRow(e, r, table[i])
      BY <1>0, <2>3 DEF Rows
    <2>5. /\ table'[i].mmsi = Field(e, "mmsi", table[i].mmsi)
          /\ table'[i].locked = Field(e, "locked", table[i].locked)
          /\ table'[i].loa = EditedLoa(e, r, table[i].loa)
      <3> PICK row \in Row : row = table[i]
        BY <1>0
      <3> DEFINE q == EditedRow(e, r, row)
      <3>1. /\ q.mmsi = Field(e, "mmsi", row.mmsi)
            /\ q.locked = Field(e, "locked", row.locked)
            /\ q.loa = EditedLoa(e, r, row.loa)
        BY EditedRowIs
      <3> HIDE DEF q
      <3>2. table'[i] = q
        BY <2>4 DEF q
      <3> QED
        BY <3>1, <3>2
    <2> QED
      BY <1>0, <2>5, UnlockedLoa
  <1>4. ASSUME NEW d \in Keepers, UpsertVessel(d)
        PROVE  FALSE
    <2>1. session' = [session EXCEPT ![d] = Idle] /\ session[d].kind = "request"
      BY <1>4 DEF UpsertVessel
    <2> QED
      BY <1>0, <2>1
  <1>5. CASE UNCHANGED vars
    BY <1>5 DEF vars
  <1> QED
    BY <1>1, <1>2, <1>3, <1>4, <1>5 DEF Next, FeedStep

\* Clearing a pin puts back the length the feed last gave, also when it gave it
\* while the row was pinned (_restore_ais_dims in app/edit.py).
THEOREM RevertsRestore == Spec => RevertRestores
  <1>1. Inductive /\ [Next]_vars => RestoresStep
    BY StepRestores
  <1>2. Spec => [][RestoresStep]_vars
    BY <1>1, AlwaysInductive, PTL DEF Spec
  <1> QED
    BY <1>2 DEF RevertRestores, RestoresStep

=============================================================================
