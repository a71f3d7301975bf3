---------------------------- MODULE Availability ---------------------------
(***************************************************************************)
(* The questions guests and managers ask (domains/rooms/service.py): which *)
(* rooms are free for these dates, which tonight, and how full the hotel   *)
(* is.  Each answer is one query over committed rows, read while requests  *)
(* and sweeps go on; here each is set against what is really sold.  The    *)
(* type of room asked for only narrows an answer and is left out.          *)
(***************************************************************************)
EXTENDS Hotel

\* The router refuses dates the other way round with 422.
Askable == {stay \in [checkIn : Day, checkOut : Day] :
              stay.checkIn < stay.checkOut}

ActivelyHeld(r) == holds[r] # NoHold /\ ~Dead(holds[r])

\* Mutant: a stay that ends on the day the other begins counts as a conflict.
ConflictingRoomsTouching(stay) ==
  {r \in Room : \E b \in BookingId :
     /\ Exists(b) /\ bookings[b].status # "cancelled"
     /\ bookings[b].room = r
     /\ bookings[b].checkIn < stay.checkOut
     /\ bookings[b].checkOut >= stay.checkIn}

ConflictingRooms(stay) ==
  {r \in Room : \E b \in BookingId :
     /\ Exists(b) /\ bookings[b].status # "cancelled"
     /\ bookings[b].room = r
     /\ bookings[b].checkIn < stay.checkOut
     /\ bookings[b].checkOut > stay.checkIn}

SearchAvailableRooms(stay) ==
  {r \in Room : /\ rooms[r].available
                /\ r \notin ConflictingRooms(stay)
                /\ ~ActivelyHeld(r)}

InHouse(b, day) ==
  Exists(b) /\ bookings[b].checkIn <= day /\ bookings[b].checkOut > day

\* Mutant: the query for a day overlooks the first night of a stay.
AvailableRoomsAfterFirst(day) ==
  {r \in Room : /\ rooms[r].available
                /\ ~ActivelyHeld(r)
                /\ \A b \in BookingId :
                     InHouse(b, day) /\ bookings[b].room = r
                       /\ bookings[b].checkIn # day =>
                     bookings[b].status = "cancelled"}

AvailableRooms(day) ==
  {r \in Room : /\ rooms[r].available
                /\ ~ActivelyHeld(r)
                /\ \A b \in BookingId :
                     InHouse(b, day) /\ bookings[b].room = r =>
                       bookings[b].status = "cancelled"}

\* The rooms the occupancy report counts.
OccupiedRooms(day) ==
  {bookings[b].room : b \in {c \in BookingId :
                               InHouse(c, day) /\ HasStatus(c, "checked_in")}}

----------------------------------------------------------------------------
\* A search and a request to book read different rows, and agree all the same.
\* A room the search keeps back for other bookings cannot be booked, also when
\* the booking in the way is completed, which create_booking itself leaves out:
\* its nights still refuse.  And a room the search offers can be booked, unless
\* its nights belong to a booking that was paid for and then cancelled by a
\* sweep: those the search does not look at.
SearchAgreesWithBooking ==
  \A stay \in Askable, r \in Room, g \in Guest :
    LET refused == Taken(NewBooking(g, r, stay)) IN
      /\ r \in ConflictingRooms(stay) => refused
      /\ r \in SearchAvailableRooms(stay) /\ refused =>
           \E n \in {r} \X (stay.checkIn .. stay.checkOut - 1) :
             /\ roomNights[n] # NoBooking
             /\ HasStatus(roomNights[n], "cancelled")
             /\ Paid(roomNights[n])

\* The report counts rooms, not guests: today's is right about those who stay the
\* night, one room for each of them and no other room, whenever the day changed
\* between reading and checking in; and tonight's list offers none of their
\* rooms, although housekeeping may have made one available during the stay.
\* Guests who are still in on the day they should leave, or later, are not among
\* them: the report leaves them out.
GuestsAccountedFor ==
  LET staying == {b \in BookingId :
                    HasStatus(b, "checked_in") /\ bookings[b].checkOut > Today}
  IN /\ OccupiedRooms(Today) = {bookings[b].room : b \in staying}
     /\ \A b, c \in staying : bookings[b].room = bookings[c].room => b = c
     /\ \A b \in staying : bookings[b].room \notin AvailableRooms(Today)
=============================================================================
