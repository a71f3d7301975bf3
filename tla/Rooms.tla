------------------------------- MODULE Rooms -------------------------------
(***************************************************************************)
(* Housekeeping (domains/rooms/service.py): marking a room clean.          *)
(***************************************************************************)
EXTENDS HotelDb

\* PATCH /rooms/{room_id}/clean asks nothing of the room: a replay succeeds, and
\* so does cleaning a room a guest is staying in.
RequestClean(s, r) ==
  /\ Begin(s, [op |-> "clean", room |-> r, seen |-> rooms[r]])
  /\ UNCHANGED <<now, tables, sent, sweeps>>

CommitClean(s) ==
  /\ txn[s].op = "clean"
  /\ rooms' = [rooms EXCEPT ![txn[s].room] =
                 Patch(@, txn[s].seen, Cleaned)]
  /\ End(s)
  /\ UNCHANGED <<now, holds, bookings, roomNights, payments, processedEvents,
                 sent, sweeps>>

RoomRequest(s) == \E r \in Room : RequestClean(s, r)
=============================================================================
