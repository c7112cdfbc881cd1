------------------------------- MODULE Wharf -------------------------------
(***************************************************************************)
(* What the reservation desk promises of the wharf, whatever the table     *)
(* behind it looks like: confirmed bookings are exclusive holds on water   *)
(* (README.md: "overlapping confirmed reservations rejected by the         *)
(* database").  A hold is a window and a stretch of wharf.                 *)
(*                                                                         *)
(* Holds change in three ways only.  One holder at a time claims water, or *)
(* moves its claim, and only where the whole mooring gap is clear.  Any    *)
(* holders let go.  And the holds of derived rows that an operator has     *)
(* confirmed follow their ships, again only into clear water; nobody       *)
(* else's hold moves then.                                                 *)
(***************************************************************************)
EXTENDS WharfRanges

CONSTANTS
  Holders, \* who may hold water
  Ships    \* the holders that follow a ship's position reports

VARIABLE held  \* the hold of each holder

Hold   == [given: {TRUE}, station: Stations, time: Windows]
NoHold == [given |-> FALSE, station |-> Empty, time |-> Empty]

(***************************************************************************)
(* Two holds are compatible when they share no time, when one of them has  *)
(* no place yet, or when the gap is clear between them.                    *)
(***************************************************************************)
Clear(h, k) ==
  \/ ~TimeOverlaps(h.time, k.time)
  \/ IsEmpty(h.station)
  \/ IsEmpty(k.station)
  \/ h.station.hi + MooringGap <= k.station.lo
  \/ k.station.hi + MooringGap <= h.station.lo

AllClear(holds) ==
  \A i, j \in Holders : i # j => Clear(holds[i], holds[j])

Init == held = [i \in Holders |-> NoHold]

Claim(i) ==
  /\ held'[i] \in Hold
  /\ held' = [held EXCEPT ![i] = held'[i]]
  /\ AllClear(held')

LetGo ==
  \E gone \in SUBSET Holders :
    held' = [i \in Holders |-> IF i \in gone THEN NoHold ELSE held[i]]

FollowShips ==
  /\ held' \in [Holders -> Hold \cup {NoHold}]
  /\ \A i \in Holders :
       \/ held'[i] \in {held[i], NoHold}
       \/ i \in Ships /\ held[i].given
  /\ AllClear(held')

Next ==
  \/ \E i \in Holders : Claim(i)
  \/ LetGo
  \/ FollowShips

Spec == Init /\ [][Next]_held
=============================================================================
