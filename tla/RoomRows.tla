------------------------------ MODULE RoomRows -----------------------------
(***************************************************************************)
(* A row of table rooms (domains/rooms/models.py), and how a handler that  *)
(* has read one writes it back.                                            *)
(***************************************************************************)

RoomRow == [available : BOOLEAN, state : {"clean", "dirty"}]

\* What check_out_guest and mark_room_clean make of a room.
CheckedOut == [available |-> FALSE, state |-> "dirty"]
Cleaned    == [available |-> TRUE, state |-> "clean"]

\* The ORM writes the columns whose value differs from the one it loaded.
Patch(current, seen, new) ==
  [available |-> IF new.available = seen.available
                   THEN current.available ELSE new.available,
   state |-> IF new.state = seen.state THEN current.state ELSE new.state]
=============================================================================
