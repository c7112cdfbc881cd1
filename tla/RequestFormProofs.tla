------------------------- MODULE RequestFormProofs -------------------------
(***************************************************************************)
(* Proofs about the request form: whatever the order of the operator's     *)
(* actions and of the late answers, nothing of one request gets into       *)
(* another, for any ships, requests and number of look-ups.                *)
(***************************************************************************)
EXTENDS RequestForm, TLAPS

Form == [imo: Imos \cup {Bad, Blank}, name: Origins, dim: Origins,
         mark: Imos \cup Edits \cup {None}, editing: Edits \cup {None},
         last: Imos \cup {None}, given: SUBSET Imos, list: BOOLEAN]

Calls == [Lookups -> Imos \cup {None}]

Submits ==
  {None} \cup [stage: {"waiting"}, on: Lookups \cup {None}]
  \cup [stage: {"sending"}, on: {None}, target: Edits \cup {None},
        given: SUBSET Imos, origins: SUBSET Origins]
  \cup [stage: {"pinning"}, on: {None}, clear: BOOLEAN]

\* What of a form must not cross over: the reply that fills it is of an IMO it still
\* shows, and so was given; the list of ships found by name is offered to a new
\* request only, as a pick fills the name.
Apart(f) ==
  /\ {f.name, f.dim} \subseteq OriginsFor(f.editing, f.given)
  /\ f.editing = None => {f.imo} \cap Imos \subseteq f.given
  /\ f.list => f.editing = None

SentApart(s) ==
  s # None /\ s.stage = "sending" => s.origins \subseteq OriginsFor(s.target, s.given)

IInv == TypeOK /\ Apart(form) /\ SentApart(submit)

\* What a look-up's start does to a form and to the calls.
LEMMA ScheduleLookupKeeps ==
  ASSUME NEW f \in Form, calls \in Calls, ScheduleLookup(f)
  PROVE  /\ form' \in Form
         /\ form'.name = f.name /\ form'.dim = f.dim
         /\ form'.imo = f.imo /\ form'.given = f.given
         /\ form'.editing = f.editing /\ form'.list = f.list
         /\ calls' \in Calls
         /\ pending' \in Lookups \cup {None}
  <1>1. CASE form' = f /\ pending' = None /\ UNCHANGED calls
    BY <1>1
  <1>2. CASE form' = Unmarked(f) /\ pending' = None /\ UNCHANGED calls
    BY <1>2 DEF Unmarked, Form
  <1>3. CASE /\ f.imo \in Imos
             /\ \E c \in Lookups : calls' = [calls EXCEPT ![c] = f.imo] /\ pending' = c
             /\ form' = [f EXCEPT !.last = f.imo]
    BY <1>3 DEF Form, Calls
  <1> QED
    BY <1>1, <1>2, <1>3 DEF ScheduleLookup

\* An empty form holds nothing of anybody.
LEMMA EmptyFormIsApart == EmptyForm \in Form /\ Apart(EmptyForm)
  BY FormAssumption DEF EmptyForm, Form, Origins, Apart, OriginsFor

\* What is sent is what stands in the form.
LEMMA SendKeeps ==
  ASSUME form \in Form, Apart(form), Send(form)
  PROVE  submit' \in Submits /\ SentApart(submit')
  <1>1. CASE submit' = None
    BY <1>1 DEF Submits, SentApart
  <1>2. CASE submit' = [stage |-> "sending", on |-> None, target |-> form.editing,
                        given |-> form.given,
                        origins |-> {form.name, form.dim} \ {Typed, Blank}]
    <2>1. /\ {form.name, form.dim} \subseteq Origins
          /\ form.editing \in Edits \cup {None} /\ form.given \in SUBSET Imos
      BY DEF Form
    <2>2. submit' \in [stage: {"sending"}, on: {None}, target: Edits \cup {None},
                       given: SUBSET Imos, origins: SUBSET Origins]
      BY <1>2, <2>1
    <2>3. SentApart(submit')
      BY <1>2 DEF SentApart, Apart
    <2> QED
      BY <2>2, <2>3 DEF Submits
  <1> QED
    BY <1>1, <1>2 DEF Send

\* The invariant holds at the start.
LEMMA InitIInv == Init => IInv
  <1> SUFFICES ASSUME Init PROVE IInv
    OBVIOUS
  <1>1. form \in Form /\ Apart(form)
    BY EmptyFormIsApart DEF Init
  <1>2. calls \in Calls
    BY DEF Init, Calls
  <1> QED
    BY <1>1, <1>2 DEF Init, IInv, TypeOK, Form, Calls, SentApart

\* It holds again when its parts do.
LEMMA PartsMakeIInv ==
  ASSUME form' \in Form, Apart(form'), armed' \in BOOLEAN, asked' \in BOOLEAN,
         calls' \in Calls, pending' \in Lookups \cup {None},
         submit' \in Submits, SentApart(submit')
  PROVE  IInv'
  <1>1. TypeOK'
    BY DEF TypeOK, Form, Calls, Submits
  <1>2. Apart(form)' /\ SentApart(submit)'
    BY DEF Apart, SentApart
  <1> QED
    BY <1>1, <1>2 DEF IInv

\* The parts it is made of.
LEMMA IInvParts ==
  ASSUME IInv
  PROVE  /\ form \in Form /\ Apart(form)
         /\ armed \in BOOLEAN /\ asked \in BOOLEAN
         /\ calls \in Calls /\ pending \in Lookups \cup {None}
         /\ submit \in Submits /\ SentApart(submit)
  BY DEF IInv, TypeOK, Form, Calls, Submits

\* The operator's typing.
LEMMA TypingKeeps ==
  ASSUME IInv,
         \/ \E x \in Imos \cup {Bad, Blank} : TypeImo(x)
         \/ \E x \in {Typed, Blank} : TypeName(x)
         \/ \E x \in {Typed, Blank} : TypeDim(x)
  PROVE  IInv'
  <1>1. form' \in Form /\ Apart(form')
    <2>1. CASE \E x \in Imos \cup {Bad, Blank} : TypeImo(x)
      <3>1. PICK x \in Imos \cup {Bad, Blank} :
              form' = Closed([form EXCEPT !.imo = x, !.given = Given(form, x)])
        BY <2>1 DEF TypeImo
      <3>5. /\ Given(form, x) \in SUBSET Imos /\ form.given \subseteq Given(form, x)
            /\ form.editing = None => {x} \cap Imos \subseteq Given(form, x)
        BY IInvParts DEF Form, Given
      <3> PICK G \in SUBSET Imos :
            /\ G = Given(form, x) /\ form.given \subseteq G
            /\ form.editing = None => {x} \cap Imos \subseteq G
        BY <3>5
      <3>2. form' = [form EXCEPT !.imo = x, !.given = G, !.list = FALSE]
        BY <3>1 DEF Closed
      <3>3. form' \in Form
        BY <3>2, IInvParts DEF Form
      <3>4. /\ form'.imo = x /\ form'.given = G /\ form'.list = FALSE
            /\ form'.name = form.name /\ form'.dim = form.dim
            /\ form'.editing = form.editing
        BY <3>2, IInvParts DEF Form
      <3> QED
        BY <3>3, <3>4, IInvParts DEF Apart, OriginsFor
    <2>2. CASE \E x \in {Typed, Blank} : TypeName(x)
      BY <2>2, IInvParts DEF TypeName, Form, Apart, OriginsFor, Origins
    <2>3. CASE \E x \in {Typed, Blank} : TypeDim(x)
      BY <2>3, IInvParts DEF TypeDim, Form, Apart, OriginsFor, Origins
    <2> QED
      BY <2>1, <2>2, <2>3
  <1>2. /\ armed' \in BOOLEAN /\ asked' \in BOOLEAN
        /\ UNCHANGED <<calls, pending, submit>>
    BY IInvParts DEF TypeImo, TypeName, TypeDim, CloseSuggest
  <1> QED
    BY <1>1, <1>2, IInvParts, PartsMakeIInv

\* The look-up starts, from the timer, on leaving the field or by a pick.
LEMMA LookupStartsKeep ==
  ASSUME IInv, ImoTimer \/ ImoBlur \/ \E i \in OnFile : PickSuggest(i)
  PROVE  IInv'
  <1>1. CASE ImoTimer \/ ImoBlur
    <2>1. ScheduleLookup(form) /\ UNCHANGED <<asked, submit>> /\ armed' \in BOOLEAN
      BY <1>1, IInvParts DEF ImoTimer, ImoBlur
    <2>2. /\ form' \in Form /\ calls' \in Calls /\ pending' \in Lookups \cup {None}
          /\ Apart(form')
      BY <2>1, IInvParts, ScheduleLookupKeeps DEF Apart
    <2> QED
      BY <2>1, <2>2, IInvParts, PartsMakeIInv
  <1>2. CASE \E i \in OnFile : PickSuggest(i)
    <2> PICK i \in OnFile : PickSuggest(i)
      BY <1>2
    <2> DEFINE f == [Closed(form) EXCEPT !.imo = i, !.name = i, !.last = None,
                                         !.given = Given(form, i)]
    <2>1. /\ form.list /\ ScheduleLookup(f)
          /\ UNCHANGED <<armed, submit>> /\ asked' \in BOOLEAN
      BY IInvParts DEF PickSuggest, CloseSuggest
    <2>2. i \in Imos
      BY FormAssumption
    <2>8. /\ Given(form, i) \in SUBSET Imos /\ form.given \subseteq Given(form, i)
          /\ form.editing = None => i \in Given(form, i)
      BY <2>2, IInvParts DEF Form, Given
    <2> PICK G \in SUBSET Imos :
          G = Given(form, i) /\ form.given \subseteq G /\ (form.editing = None => i \in G)
      BY <2>8
    <2>5. f = [form EXCEPT !.imo = i, !.name = i, !.last = None, !.given = G,
                           !.list = FALSE]
      BY DEF Closed
    <2>6. f \in Form
      BY <2>2, <2>5, IInvParts DEF Form, Origins
    <2>7. /\ f.imo = i /\ f.name = i /\ f.given = G /\ f.list = FALSE
          /\ f.dim = form.dim /\ f.editing = form.editing
      BY <2>5, IInvParts DEF Form
    <2>3. f \in Form /\ Apart(f)
      BY <2>1, <2>2, <2>6, <2>7, IInvParts DEF Apart, OriginsFor
    <2> HIDE DEF f
    <2>4. /\ form' \in Form /\ calls' \in Calls /\ pending' \in Lookups \cup {None}
          /\ Apart(form')
      BY <2>1, <2>3, IInvParts, ScheduleLookupKeeps DEF Apart
    <2> QED
      BY <2>1, <2>4, IInvParts, PartsMakeIInv
  <1> QED
    BY <1>1, <1>2

\* A look-up comes back, in its time or too late, or fails.
LEMMA LookupEndsKeep ==
  ASSUME IInv, NEW c \in Lookups, LookupReturns(c) \/ LookupFails(c)
  PROVE  IInv'
  <1>1. /\ calls[c] # None /\ Settled(c) /\ submit' = Released(c)
        /\ UNCHANGED <<armed, asked>>
    BY DEF LookupReturns, LookupFails
  <1>2. calls[c] \in Imos
    BY <1>1, IInvParts DEF Calls
  <1>3. calls' \in Calls /\ pending' \in Lookups \cup {None}
    BY <1>1, IInvParts DEF Settled, Calls
  <1>4. submit' \in Submits /\ SentApart(submit')
    <2>1. CASE submit' = submit
      BY <2>1, IInvParts
    <2>2. CASE submit # None /\ submit.on = c /\ submit' = [submit EXCEPT !.on = None]
      <3>1. c # None
        BY FormAssumption
      <3>2. submit \in [stage: {"waiting"}, on: Lookups \cup {None}]
        BY <2>2, <3>1, IInvParts DEF Submits
      <3> QED
        BY <2>2, <3>2 DEF Submits, SentApart
    <2> QED
      BY <1>1, <2>1, <2>2 DEF Released
  <1>5. form' \in Form /\ Apart(form')
    <2>1. CASE form' = form
      BY <2>1, IInvParts
    <2>2. CASE form' = [form EXCEPT !.last = None]
      BY <2>2, IInvParts DEF Form, Apart
    <2>3. CASE form' = [Unmarked(form) EXCEPT !.last = calls[c]]
      BY <1>2, <2>3, IInvParts DEF Unmarked, Form, Apart
    <2>4. CASE /\ form.editing = None /\ form.imo = calls[c]
               /\ form' = Filled(form, calls[c])
      <3>1. form' \in Form
        <4> DEFINE i == calls[c]
                   n == IF form.name = Blank THEN i ELSE form.name
                   d == IF i \in Tracked \/ form.dim = Blank THEN i ELSE form.dim
                   m == IF i \in Tracked THEN i ELSE None
        <4>1. form' = [form EXCEPT !.name = n, !.dim = d, !.mark = m]
          BY <2>4 DEF Filled
        <4>2. form.name \in Origins /\ form.dim \in Origins /\ i \in Origins
          BY <1>2, IInvParts DEF Form, Origins
        <4>3. n \in Origins /\ d \in Origins /\ m \in Imos \cup Edits \cup {None}
          BY <1>2, <4>2
        <4> HIDE DEF i, n, d, m
        <4> QED
          BY <4>1, <4>3, IInvParts DEF Form
      <3>2. /\ form'.name \in {form.name, calls[c]} /\ form'.dim \in {form.dim, calls[c]}
            /\ form'.editing = form.editing /\ form'.list = form.list
            /\ form'.imo = form.imo /\ form'.given = form.given
        BY <2>4, IInvParts DEF Filled, Form
      <3> QED
        BY <1>2, <2>4, <3>1, <3>2, IInvParts DEF Apart, OriginsFor
    <2> QED
      BY <2>1, <2>2, <2>3, <2>4 DEF LookupReturns, LookupFails, Stale
  <1> QED
    BY <1>1, <1>3, <1>4, <1>5, IInvParts, PartsMakeIInv

\* The search by name, and the edits opened and closed.
LEMMA SearchAndEditsKeep ==
  ASSUME IInv, \/ SearchReturns \/ NameBlur \/ CancelEdit
               \/ \E e \in Edits : OpenEdit(e)
  PROVE  IInv'
  <1>1. /\ armed' = armed /\ asked' \in BOOLEAN /\ UNCHANGED <<calls, pending, submit>>
    BY IInvParts DEF SearchReturns, NameBlur, CancelEdit, OpenEdit, CloseSuggest
  <1>2. form' \in Form /\ Apart(form')
    <2>1. CASE form' \in {form, Closed(form), EmptyForm}
      BY <2>1, IInvParts, EmptyFormIsApart DEF Closed, Form, Apart
    <2>2. CASE Searchable /\ form' = [form EXCEPT !.list = TRUE]
      BY <2>2, IInvParts DEF Searchable, Form, Apart
    <2>3. CASE \E e \in Edits : OpenEdit(e)
      <3> PICK e \in Edits : OpenEdit(e)
        BY <2>3
      <3>1. PICK m \in IF ImoOf[e] \in Tracked THEN {e, None} ELSE {None} :
              form' = [EmptyForm EXCEPT !.imo = ImoOf[e], !.name = e, !.dim = e,
                                        !.mark = m, !.editing = e]
        BY DEF OpenEdit
      <3>2. ImoOf[e] \in Imos
        BY FormAssumption
      <3>3. form' = [imo |-> ImoOf[e], name |-> e, dim |-> e, mark |-> m,
                     editing |-> e, last |-> None, given |-> {}, list |-> FALSE]
        BY <3>1 DEF EmptyForm
      <3>4. m \in Imos \cup Edits \cup {None} /\ e \in Origins
        BY DEF Origins
      <3>5. form' \in Form
        BY <3>2, <3>3, <3>4 DEF Form
      <3>6. Apart(form')
        BY <3>3, FormAssumption DEF Apart, OriginsFor
      <3> QED
        BY <3>5, <3>6
    <2> QED
      BY <2>1, <2>2, <2>3 DEF SearchReturns, NameBlur, CancelEdit
  <1> QED
    BY <1>1, <1>2, IInvParts, PartsMakeIInv

\* The submission, up to what is sent.
LEMMA SubmissionKeeps ==
  ASSUME IInv, Save \/ Record \/ BuildPayload
  PROVE  IInv'
  <1>1. CASE Save \/ BuildPayload
    <2>1. Send(form) /\ UNCHANGED <<form, armed, asked, calls, pending>>
      BY <1>1 DEF Save, BuildPayload
    <2>2. submit' \in Submits /\ SentApart(submit')
      BY <2>1, IInvParts, SendKeeps
    <2> QED
      BY <2>1, <2>2, IInvParts, PartsMakeIInv
  <1>2. CASE Record
    <2>1. /\ armed' = FALSE /\ asked' = asked
          /\ submit' = [stage |-> "waiting", on |-> pending']
          /\ ScheduleLookup(form) \/ UNCHANGED <<form, calls, pending>>
      BY <1>2 DEF Record
    <2>2. /\ form' \in Form /\ calls' \in Calls /\ pending' \in Lookups \cup {None}
          /\ Apart(form')
      BY <2>1, IInvParts, ScheduleLookupKeeps DEF Apart
    <2>3. submit' \in Submits /\ SentApart(submit')
      BY <2>1, <2>2 DEF Submits, SentApart
    <2> QED
      BY <2>1, <2>2, <2>3, IInvParts, PartsMakeIInv
  <1> QED
    BY <1>1, <1>2

\* The server's answer and the pin.
LEMMA AnswerKeeps ==
  ASSUME IInv, Fails \/ (\E recorded \in BOOLEAN : Answers(recorded)) \/ Pinned
  PROVE  IInv'
  <1>1. UNCHANGED <<armed, calls, pending>> /\ asked' \in BOOLEAN
    BY IInvParts DEF Fails, Answers, Pinned, Finish, CloseSuggest
  <1>2. form' \in {form, EmptyForm}
    BY DEF Fails, Answers, Pinned, Finish
  <1>3. form' \in Form /\ Apart(form')
    BY <1>2, IInvParts, EmptyFormIsApart
  <1>4. \/ submit' = None
        \/ \E clear \in BOOLEAN :
             submit' = [stage |-> "pinning", on |-> None, clear |-> clear]
    <2>1. CASE \E recorded \in BOOLEAN : Answers(recorded)
      <3> PICK recorded \in BOOLEAN : Answers(recorded)
        BY <2>1
      <3>1. (submit.target # None \/ recorded) \in BOOLEAN
        OBVIOUS
      <3> QED
        BY <3>1 DEF Answers, Finish
    <2> QED
      BY <2>1 DEF Fails, Pinned, Finish
  <1>5. submit' \in Submits /\ SentApart(submit')
    BY <1>4 DEF Submits, SentApart
  <1> QED
    BY <1>1, <1>3, <1>5, IInvParts, PartsMakeIInv

\* Every step keeps the invariant.
LEMMA NextKeeps == IInv /\ [Next]_vars => IInv'
  <1> SUFFICES ASSUME IInv, [Next]_vars PROVE IInv'
    OBVIOUS
  <1>1. CASE UNCHANGED vars
    BY <1>1, IInvParts, PartsMakeIInv DEF vars
  <1>2. CASE Next
    BY <1>2, TypingKeeps, LookupStartsKeep, LookupEndsKeep, SearchAndEditsKeep,
       SubmissionKeeps, AnswerKeeps DEF Next
  <1> QED
    BY <1>1, <1>2

\* Whatever the operator does and however late the answers, what the form shows and
\* what is submitted is of one request: typed, on file of the opened request, or of
\* a ship whose IMO the new request was given (autofillFromImo, fetchSuggestions, openEdit,
\* resetForm).
THEOREM NothingEverCrossesOver == Spec => []NothingCrossesOver
  <1>1. IInv => NothingCrossesOver
    BY DEF IInv, Apart, SentApart, NothingCrossesOver
  <1> QED
    BY <1>1, InitIInv, NextKeeps, PTL DEF Spec

\* The form's type correctness.
THEOREM FormTypeOK == Spec => []TypeOK
  <1>1. IInv => TypeOK
    BY DEF IInv
  <1> QED
    BY <1>1, InitIInv, NextKeeps, PTL DEF Spec
=============================================================================
