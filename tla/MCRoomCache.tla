---------------------------- MODULE MCRoomCache ----------------------------
(* Instances of RoomCache for TLC.                                         *)
EXTENDS RoomCache

CONSTANTS r1, b1, b2, w1, w2, c1, v1

\* Every booking is for the one room there is.
SameRoom == [b \in BookingId |-> r1]
=============================================================================
