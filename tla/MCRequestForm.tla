--------------------------- MODULE MCRequestForm ---------------------------
(***************************************************************************)
(* Two ships, one of them on file and tracked, and a request of that one;  *)
(* two look-ups may be in flight.                                          *)
(***************************************************************************)
EXTENDS RequestForm

CONSTANTS a, b

MCImoOf == [e \in Edits |-> CHOOSE i \in Tracked : TRUE]
=============================================================================
