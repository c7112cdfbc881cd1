---------------------------- MODULE RequestForm ----------------------------
(***************************************************************************)
(* The berth-request form of the console (app/static/js/forms.js): one     *)
(* form that records a new request or edits one on file, with the look-up  *)
(* of a ship by its IMO, the search by its name and the submission.        *)
(*                                                                         *)
(* The browser runs one handler at a time and a handler runs up to its     *)
(* next await; timers, replies and the operator come in between.           *)
(*                                                                         *)
(* The name and the dimensions (dim stands for the three) are modelled by  *)
(* where they come from: typed, a ship on file, or the request opened.     *)
(***************************************************************************)
EXTENDS Naturals

CONSTANTS
  Imos,     \* valid IMO numbers
  Bad,      \* what is not one: too short, or a wrong check digit
  OnFile,   \* the ships GET /vessels/lookup finds
  Tracked,  \* those of them AIS reports, whose dimensions it owns
  Edits,    \* the requests on file that can be opened
  ImoOf,    \* the IMO each of them gives
  Lookups,  \* slots for look-ups in flight (a bound)
  Typed,    \* the operator's own entry
  Blank,    \* an empty field
  None      \* no edit, look-up, mark or submission

ASSUME FormAssumption ==
  /\ Tracked \subseteq OnFile
  /\ OnFile \subseteq Imos
  /\ ImoOf \in [Edits -> Imos]
  /\ \A x \in {Bad, Typed, Blank, None} : x \notin Imos \cup Edits
  /\ Imos \cap Edits = {}
  /\ Bad # Blank /\ Typed # Blank /\ None \notin {Bad, Blank, Typed}
  /\ None \notin Lookups

VARIABLES
  form,    \* the fields, with what the script knows of them
  armed,   \* the timer of the IMO field runs
  asked,   \* a search by name: its timer runs, or it is in flight
  calls,   \* the look-ups in flight
  pending, \* pendingLookup: the look-up whose promise it is, None once settled
  submit   \* the submission: awaiting a look-up, the server, or the pin

vars == <<form, armed, asked, calls, pending, submit>>

-----------------------------------------------------------------------------
(***************************************************************************)
(* resetForm; the timer of the IMO field and the calls live on.  given is  *)
(* history: the IMOs a new request has been given since it was begun.      *)
(***************************************************************************)
EmptyForm ==
  [imo |-> Blank, name |-> Blank, dim |-> Blank,
   mark    |-> None,     \* aisFt: the AIS value shown, by its source
   editing |-> None,     \* editingId
   last    |-> None,     \* lastLookup
   given   |-> {},
   list    |-> FALSE]    \* the ships found by name are offered

Given(f, imo) ==
  IF f.editing = None /\ imo \in Imos THEN f.given \cup {imo} ELSE f.given

Unmarked(f) == [f EXCEPT !.mark = None, !.last = None]

Closed(f) == [f EXCEPT !.list = FALSE]

Unedited(f) == f.mark = None \/ f.dim = f.mark

(***************************************************************************)
(* scheduleLookup on the form f: autofillFromImo up to its await.  The new *)
(* promise is settled at once unless a look-up starts.                     *)
(***************************************************************************)
ScheduleLookup(f) ==
  \/ /\ f.editing # None \/ f.imo = f.last
     /\ form' = f
     /\ pending' = None
     /\ UNCHANGED calls
  \/ /\ f.editing = None /\ f.imo \notin Imos
     /\ form' = Unmarked(f)
     /\ pending' = None
     /\ UNCHANGED calls
  \/ /\ f.editing = None /\ f.imo \in Imos /\ f.imo # f.last
     /\ \E c \in Lookups :
          /\ calls[c] = None
          /\ \A d \in Lookups : calls[d] = None => c <= d
          /\ calls' = [calls EXCEPT ![c] = f.imo]
          /\ pending' = c
     /\ form' = [f EXCEPT !.last = f.imo]

StaleByImo(c) == form.imo # calls[c]

Stale(c) == form.editing # None \/ form.imo # calls[c]

(***************************************************************************)
(* A ship on file fills a blank name and blank dimensions; dimensions AIS  *)
(* reports overwrite what is there and are marked.                         *)
(***************************************************************************)
Filled(f, imo) ==
  [f EXCEPT
     !.name = IF @ = Blank THEN imo ELSE @,
     !.dim  = IF imo \in Tracked \/ @ = Blank THEN imo ELSE @,
     !.mark = IF imo \in Tracked THEN imo ELSE None]

-----------------------------------------------------------------------------
(***************************************************************************)
(* closeSuggest clears the timer of a search, not one in flight.           *)
(***************************************************************************)
CloseSuggest == asked' \in {asked, FALSE}

Init ==
  /\ form = EmptyForm
  /\ armed = FALSE
  /\ asked = FALSE
  /\ calls = [c \in Lookups |-> None]
  /\ pending = None
  /\ submit = None

(***************************************************************************)
(* What the operator types.  No field is disabled during a submission.     *)
(***************************************************************************)
TypeImo(x) ==
  /\ x # form.imo
  /\ form' = Closed([form EXCEPT !.imo = x, !.given = Given(form, x)])
  /\ armed' = TRUE
  /\ CloseSuggest
  /\ UNCHANGED <<calls, pending, submit>>

TypeName(x) ==
  /\ form' = [form EXCEPT !.name = x]
  /\ asked' = TRUE
  /\ UNCHANGED <<armed, calls, pending, submit>>

TypeDim(x) ==
  /\ form' = [form EXCEPT !.dim = x]
  /\ UNCHANGED <<armed, asked, calls, pending, submit>>

(***************************************************************************)
(* The timer of the IMO field, or leaving it.                              *)
(***************************************************************************)
ImoTimer ==
  /\ armed
  /\ armed' = FALSE
  /\ ScheduleLookup(form)
  /\ UNCHANGED <<asked, submit>>

ImoBlur ==
  /\ ScheduleLookup(form)
  /\ UNCHANGED <<armed, asked, submit>>

(***************************************************************************)
(* A look-up comes back, or fails, and settles its promise.                *)
(***************************************************************************)
Settled(c) ==
  /\ calls' = [calls EXCEPT ![c] = None]
  /\ pending' = IF pending = c THEN None ELSE pending

Released(c) ==
  IF submit # None /\ submit.on = c THEN [submit EXCEPT !.on = None] ELSE submit

LookupReturns(c) ==
  /\ calls[c] # None
  /\ \/ /\ Stale(c)
        /\ UNCHANGED form
     \/ /\ ~Stale(c) /\ calls[c] \notin OnFile
        /\ form' = [Unmarked(form) EXCEPT !.last = calls[c]]
     \/ /\ ~Stale(c) /\ calls[c] \in OnFile
        /\ form' = Filled(form, calls[c])
  /\ Settled(c)
  /\ submit' = Released(c)
  /\ UNCHANGED <<armed, asked>>

LookupThrows(c) ==
  /\ calls[c] # None
  /\ form' = [form EXCEPT !.last = None]
  /\ Settled(c)
  /\ UNCHANGED <<submit, armed, asked>>

LookupFails(c) ==
  /\ calls[c] # None
  /\ form' = [form EXCEPT !.last = None]
  /\ Settled(c)
  /\ submit' = Released(c)
  /\ UNCHANGED <<armed, asked>>

(***************************************************************************)
(* The search by name while the IMO is blank, judged when it returns, and  *)
(* the pick of a ship.                                                     *)
(***************************************************************************)
Searchable == form.editing = None /\ form.imo = Blank /\ form.name # Blank

SearchReturns ==
  /\ asked
  /\ asked' = FALSE
  /\ \/ /\ Searchable
        /\ form' = [form EXCEPT !.list = TRUE]
     \/ /\ ~Searchable
        /\ form' = Closed(form)
     \/ UNCHANGED form
  /\ UNCHANGED <<armed, calls, pending, submit>>

PickSuggest(i) ==
  /\ form.list
  /\ ScheduleLookup([Closed(form) EXCEPT !.imo = i, !.name = i, !.last = None,
                                          !.given = Given(form, i)])
  /\ CloseSuggest
  /\ UNCHANGED <<armed, submit>>

NameBlur ==
  /\ form' = Closed(form)
  /\ CloseSuggest
  /\ UNCHANGED <<armed, calls, pending, submit>>

(***************************************************************************)
(* Opening a request on file, and the cancel button of an edit.            *)
(***************************************************************************)
OpenEdit(e) ==
  /\ \E mark \in IF ImoOf[e] \in Tracked THEN {e, None} ELSE {None} :
       form' = [EmptyForm EXCEPT !.imo = ImoOf[e], !.name = e, !.dim = e,
                                 !.mark = mark, !.editing = e]
  /\ CloseSuggest
  /\ UNCHANGED <<armed, calls, pending, submit>>

CancelEdit ==
  /\ form.editing # None
  /\ form' = EmptyForm
  /\ CloseSuggest
  /\ UNCHANGED <<armed, calls, pending, submit>>

(***************************************************************************)
(* The submission.  The button is disabled from the click until the        *)
(* submission ends, and the IMO field is required.  What is sent, and to   *)
(* which request, is read from the form in one go.                         *)
(***************************************************************************)
Send(f) ==
  submit' =
    IF f.imo = Bad \/ (f.editing = None /\ f.imo = Blank /\ f.name = Blank)
    THEN None
    ELSE [stage |-> "sending", on |-> None, target |-> f.editing, given |-> f.given,
          origins |-> {f.name, f.dim} \ {Typed, Blank}]

Save ==
  /\ submit = None
  /\ form.editing # None
  /\ form.imo # Blank
  /\ Send(form)
  /\ UNCHANGED <<form, armed, asked, calls, pending>>

Record ==
  /\ submit = None
  /\ form.editing = None
  /\ form.imo # Blank
  /\ armed' = FALSE
  /\ \/ /\ form.imo \in Imos
        /\ ScheduleLookup(form)
     \/ /\ form.imo \notin Imos
        /\ UNCHANGED <<form, calls, pending>>
  /\ submit' = [stage |-> "waiting", on |-> pending']
  /\ UNCHANGED asked

BuildPayload ==
  /\ submit # None
  /\ submit.stage = "waiting"
  /\ submit.on = None
  /\ Send(form)
  /\ UNCHANGED <<form, armed, asked, calls, pending>>

(***************************************************************************)
(* The server's answer.  A failure keeps the form; an answer to edited AIS *)
(* dimensions first offers the pin; a request that was saved or recorded   *)
(* clears the form, one that was a duplicate does not.                     *)
(***************************************************************************)
Fails ==
  /\ submit # None
  /\ submit.stage = "sending"
  /\ submit' = None
  /\ UNCHANGED <<form, armed, asked, calls, pending>>

Finish(clear) ==
  /\ submit' = None
  /\ \/ /\ clear
        /\ form' = EmptyForm
        /\ CloseSuggest
     \/ /\ ~clear
        /\ UNCHANGED <<form, asked>>

Answers(recorded) ==
  LET clear == submit.target # None \/ recorded
  IN  /\ submit # None
      /\ submit.stage = "sending"
      /\ \/ /\ Unedited(form)
            /\ Finish(clear)
         \/ /\ ~Unedited(form)
            /\ submit' = [stage |-> "pinning", on |-> None, clear |-> clear]
            /\ UNCHANGED <<form, asked>>
      /\ UNCHANGED <<armed, calls, pending>>

Pinned ==
  /\ submit # None
  /\ submit.stage = "pinning"
  /\ Finish(submit.clear)
  /\ UNCHANGED <<armed, calls, pending>>

Next ==
  \/ \E x \in Imos \cup {Bad, Blank} : TypeImo(x)
  \/ \E x \in {Typed, Blank} : TypeName(x)
  \/ \E x \in {Typed, Blank} : TypeDim(x)
  \/ ImoTimer
  \/ ImoBlur
  \/ \E c \in Lookups : LookupReturns(c)
  \/ \E c \in Lookups : LookupFails(c)
  \/ SearchReturns
  \/ \E i \in OnFile : PickSuggest(i)
  \/ NameBlur
  \/ \E e \in Edits : OpenEdit(e)
  \/ CancelEdit
  \/ Save
  \/ Record
  \/ BuildPayload
  \/ Fails
  \/ \E recorded \in BOOLEAN : Answers(recorded)
  \/ Pinned

Spec == Init /\ [][Next]_vars

\* The browser resolves or rejects every fetch and runs what awaits it.
FairSpec ==
  /\ Spec
  /\ \A c \in Lookups : WF_vars(LookupReturns(c) \/ LookupFails(c))
  /\ WF_vars(BuildPayload)
  /\ WF_vars(Fails \/ \E recorded \in BOOLEAN : Answers(recorded))
  /\ WF_vars(Pinned)

-----------------------------------------------------------------------------
(***************************************************************************)
(* Properties.                                                             *)
(***************************************************************************)

Origins == {Typed, Blank} \cup Imos \cup Edits

\* Every variable has its type.
TypeOK ==
  /\ form \in [imo: Imos \cup {Bad, Blank}, name: Origins, dim: Origins,
               mark: Imos \cup Edits \cup {None}, editing: Edits \cup {None},
               last: Imos \cup {None}, given: SUBSET Imos, list: BOOLEAN]
  /\ armed \in BOOLEAN
  /\ asked \in BOOLEAN
  /\ calls \in [Lookups -> Imos \cup {None}]
  /\ pending \in Lookups \cup {None}
  /\ submit \in
       {None} \cup [stage: {"waiting"}, on: Lookups \cup {None}]
       \cup [stage: {"sending"}, on: {None}, target: Edits \cup {None},
             given: SUBSET Imos, origins: SUBSET Origins]
       \cup [stage: {"pinning"}, on: {None}, clear: BOOLEAN]

\* What may stand in the fields of an edit, or of a new request given these IMOs.
OriginsFor(target, given) ==
  {Typed, Blank} \cup IF target = None THEN given ELSE {target}

\* An edit holds, and saves, only what its request says and what the operator
\* typed; a new request holds, and records, only what the operator typed and what
\* is on file of a ship whose IMO it was itself given.  Replies of look-ups,
\* searches and submissions come late, and edits are opened and closed and other
\* requests recorded while they are awaited (autofillFromImo: "create mode only";
\* "Drop a stale result if the operator moved on or opened an edit meanwhile").
\* Within one new request the IMO may change: what the look-up of the first brought
\* then stays in the form and is sent with the second.
NothingCrossesOver ==
  /\ {form.name, form.dim} \subseteq OriginsFor(form.editing, form.given)
  /\ submit # None /\ submit.stage = "sending" =>
       submit.origins \subseteq OriginsFor(submit.target, submit.given)

\* The submit button comes back: a submission ends whatever becomes of the
\* look-up it awaits and of the request itself (the finally of the handler, and
\* the catch of autofillFromImo, without which the await would throw).
SubmitEnds == submit # None ~> submit = None

\* A new request is built only once the look-up of its ship has come back (forms.js
\* on the submission: "or while it's still in flight ... run/await it now so the
\* auto-filled name + dims are in the form before we build the payload").
RecordWaitsForTheLookup ==
  [][submit # None /\ submit.stage = "waiting" /\ submit' # submit
     /\ submit' # None /\ submit'.stage = "sending" /\ submit'.target = None
     => \A c \in Lookups : calls[c] = None \/ calls[c] # form.imo]_vars
=============================================================================
