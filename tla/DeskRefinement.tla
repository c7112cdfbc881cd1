-------------------------- MODULE DeskRefinement ---------------------------
(***************************************************************************)
(* The reservation desk implements the Wharf: a row holds its water while  *)
(* it is confirmed.                                                        *)
(***************************************************************************)
EXTENDS ReservationDesk

HeldIn(tbl) ==
  [i \in Ids |->
     IF tbl[i].status = "confirmed"
     THEN [given |-> TRUE, station |-> tbl[i].station, time |-> tbl[i].time]
     ELSE [given |-> FALSE, station |-> Empty, time |-> Empty]]

Held == HeldIn(table)

W == INSTANCE Wharf WITH Holders <- Ids, Ships <- Vessels, held <- Held

\* A hold is given by an operator's request and by nothing else, one at a time
\* and only into clear water; the sweeps, which check nothing, only ever let
\* holds go; the worker moves no booking's hold and none but the holds of derived
\* rows an operator confirmed (edit.py, verification.py and derive.py together).
RefinesWharf == W!Spec
=============================================================================
