----------------------------- MODULE Bookings ------------------------------
(***************************************************************************)
(* Holding a room, booking it, checking in and checking out                *)
(* (domains/bookings/router.py and service.py).  Each handler is the step  *)
(* that reads and decides, and the step that commits.                      *)
(***************************************************************************)
EXTENDS HotelDb

NewHold(r, g) ==
  [room |-> r, guest |-> g, expires |-> now + HoldTime, consumed |-> FALSE]

\* POST /holds/{room_id}.  Any row in holds refuses the request, expired or not.
RequestHold(s, r, g) ==
  /\ rooms[r].available
  /\ holds[r] = NoHold
  /\ Begin(s, [op |-> "hold", row |-> NewHold(r, g)])
  /\ UNCHANGED <<now, tables, sent, sweeps>>

\* Mutant: the hold is merged into the table instead of inserted.
MergeHold(s) ==
  /\ txn[s].op = "hold"
  /\ holds' = [holds EXCEPT ![txn[s].row.room] = txn[s].row]
  /\ End(s)
  /\ UNCHANGED <<now, rooms, bookings, roomNights, payments,
                 processedEvents, sent, sweeps>>

\* The insert; a clash on the primary key rolls back and answers 409.
CommitHold(s) ==
  /\ txn[s].op = "hold"
  /\ LET row == txn[s].row IN
       \/ /\ holds[row.room] = NoHold
          /\ holds' = [holds EXCEPT ![row.room] = row]
       \/ /\ holds[row.room] # NoHold
          /\ UNCHANGED holds
  /\ End(s)
  /\ UNCHANGED <<now, rooms, bookings, roomNights, payments,
                 processedEvents, sent, sweeps>>

ValidDates(stay) == stay.checkIn < stay.checkOut /\ stay.checkIn >= Today

\* Bound: no more requests to book than unused booking ids.
IdsLeft ==
  Cardinality({b \in BookingId : ~Exists(b)}) >
    Cardinality({s \in Session : txn[s].op \in {"held", "book"}})

\* POST /bookings/, up to the read of the hold: the guest g, or a receptionist
\* booking for g, asks for room r.  A dead hold is deleted on the way out.
RequestBooking(s, g, r, stay) ==
  /\ IdsLeft
  /\ ValidDates(stay)
  /\ rooms[r].available
  /\ holds[r] # NoHold
  /\ holds[r].guest = g
  /\ IF Dead(holds[r])
       THEN Begin(s, [op |-> "dropHold", room |-> r])
       ELSE Begin(s, [op |-> "held", guest |-> g, room |-> r, stay |-> stay])
  /\ UNCHANGED <<now, tables, sent, sweeps>>

\* The DELETE names the room alone, and takes whatever hold is there by now.
DropDeadHold(s) ==
  /\ txn[s].op = "dropHold"
  /\ holds' = [holds EXCEPT ![txn[s].room] = NoHold]
  /\ End(s)
  /\ UNCHANGED <<now, rooms, bookings, roomNights, payments,
                 processedEvents, sent, sweeps>>

\* Mutant: a new booking starts in the enum's unused status.
NewBookingOnHold(g, r, stay) ==
  [guest |-> g, room |-> r, checkIn |-> stay.checkIn,
   checkOut |-> stay.checkOut, status |-> "hold", created |-> now]

NewBooking(g, r, stay) ==
  [guest |-> g, room |-> r, checkIn |-> stay.checkIn,
   checkOut |-> stay.checkOut, status |-> "processing", created |-> now]

\* Another live booking that overlaps, or a room night already sold.
Taken(row) ==
  \/ \E b \in BookingId :
       /\ Exists(b)
       /\ bookings[b].status \notin {"cancelled", "completed"}
       /\ Overlap(bookings[b], row)
  \/ ~NightsFree(row)

CheckOverlap(s) ==
  /\ txn[s].op = "held"
  /\ LET row == NewBooking(txn[s].guest, txn[s].room, txn[s].stay) IN
       IF Taken(row) THEN End(s) ELSE Become(s, [op |-> "book", row |-> row])
  /\ UNCHANGED <<now, tables, sent, sweeps>>

\* The insert takes a fresh id.  Nothing is checked again, and the hold stays.
InsertBooking(s) ==
  /\ txn[s].op = "book"
  /\ \E b \in BookingId :
       /\ ~Exists(b)
       /\ bookings' = [bookings EXCEPT ![b] = txn[s].row]
  /\ End(s)
  /\ UNCHANGED <<now, rooms, holds, roomNights, payments, processedEvents,
                 sent, sweeps>>

----------------------------------------------------------------------------
\* Mutant: an unpaid booking may check in.
RequestCheckInUnpaid(s, b) ==
  /\ HasStatus(b, "confirmed") \/ HasStatus(b, "processing")
  /\ bookings[b].checkIn = Today
  /\ rooms[bookings[b].room].available
  /\ Begin(s, [op |-> "checkIn", booking |-> b])
  /\ UNCHANGED <<now, tables, sent, sweeps>>

\* Mutant: the check-in day is not looked at.
RequestCheckInAnyDay(s, b) ==
  /\ HasStatus(b, "confirmed")
  /\ rooms[bookings[b].room].available
  /\ Begin(s, [op |-> "checkIn", booking |-> b])
  /\ UNCHANGED <<now, tables, sent, sweeps>>

\* POST /bookings/{id}/check-in
RequestCheckIn(s, b) ==
  /\ HasStatus(b, "confirmed")
  /\ bookings[b].checkIn = Today
  /\ rooms[bookings[b].room].available
  /\ Begin(s, [op |-> "checkIn", booking |-> b])
  /\ UNCHANGED <<now, tables, sent, sweeps>>

CommitCheckIn(s) ==
  /\ txn[s].op = "checkIn"
  /\ LET b == txn[s].booking IN
       /\ Unlocked(b)
       /\ SetStatus(b, "checked_in")
       /\ rooms' = [rooms EXCEPT ![bookings[b].room].available = FALSE]
  /\ End(s)
  /\ UNCHANGED <<now, holds, roomNights, payments, processedEvents, sent,
                 sweeps>>

\* Mutant: the check-out day is not looked at.
RequestCheckOutAnyDay(s, b) ==
  /\ HasStatus(b, "checked_in")
  /\ Begin(s, [op |-> "checkOut", booking |-> b,
               seen |-> rooms[bookings[b].room]])
  /\ UNCHANGED <<now, tables, sent, sweeps>>

\* POST /bookings/{id}/check-out.  A completed booking is a replay: no write.
RequestCheckOut(s, b) ==
  /\ HasStatus(b, "checked_in")
  /\ bookings[b].checkOut = Today
  /\ Begin(s, [op |-> "checkOut", booking |-> b,
               seen |-> rooms[bookings[b].room]])
  /\ UNCHANGED <<now, tables, sent, sweeps>>

CommitCheckOut(s) ==
  /\ txn[s].op = "checkOut"
  /\ LET b    == txn[s].booking
         room == bookings[b].room
     IN /\ Unlocked(b)
        /\ SetStatus(b, "completed")
        /\ rooms' = [rooms EXCEPT ![room] =
                       Patch(@, txn[s].seen, CheckedOut)]
  /\ End(s)
  /\ UNCHANGED <<now, holds, roomNights, payments, processedEvents, sent,
                 sweeps>>

BookingRequest(s) ==
  \/ \E r \in Room, g \in Guest : RequestHold(s, r, g)
  \/ \E g \in Guest, r \in Room, stay \in Stay : RequestBooking(s, g, r, stay)

BookingProgress(s) ==
  \/ CommitHold(s)
  \/ DropDeadHold(s)
  \/ CheckOverlap(s)
  \/ InsertBooking(s)

DeskRequest(s) ==
  \E b \in BookingId : RequestCheckIn(s, b) \/ RequestCheckOut(s, b)

DeskProgress(s) == CommitCheckIn(s) \/ CommitCheckOut(s)
=============================================================================
