------------------------------ MODULE Sweeps -------------------------------
(***************************************************************************)
(* The two jobs of the scheduler (domains/bookings/sweeps.py, started by   *)
(* core/utils.py with max_instances=1): each selects its rows, works       *)
(* through them and commits once at the end.                               *)
(***************************************************************************)
EXTENDS HotelDb

\* Mutant: only consumed holds are selected.
ConsumedHolds == {r \in Room : holds[r] # NoHold /\ holds[r].consumed}

DeadHolds == {r \in Room : holds[r] # NoHold /\ Dead(holds[r])}

\* delete_expired_holds
FindExpiredHolds ==
  /\ holdSweep = {}
  /\ DeadHolds # {}
  /\ holdSweep' = DeadHolds
  /\ UNCHANGED <<now, tables, sent, txn, staleSweep>>

\* Each DELETE names a room, and takes whatever hold the room has by now.
DeleteExpiredHolds ==
  /\ holdSweep # {}
  /\ holds' = [r \in Room |-> IF r \in holdSweep THEN NoHold ELSE holds[r]]
  /\ holdSweep' = {}
  /\ UNCHANGED <<now, rooms, bookings, roomNights, payments, processedEvents,
                 sent, txn, staleSweep>>

----------------------------------------------------------------------------
\* Mutant: only bookings whose room is still held are selected.
StaleHeld(b) ==
  /\ HasStatus(b, "processing")
  /\ holds[bookings[b].room] # NoHold
  /\ \/ bookings[b].created + Grace + HoldTime <= now
     \/ bookings[b].checkIn < Today

\* cancel_stale_processing: abandoned, or its check-in day has gone by.
Stale(b) ==
  /\ HasStatus(b, "processing")
  /\ \/ bookings[b].created + Grace + HoldTime <= now
     \/ bookings[b].checkIn < Today

FindStaleBookings ==
  /\ staleSweep = NoSweep
  /\ {b \in BookingId : Stale(b)} # {}
  /\ staleSweep' = [NoSweep EXCEPT !.todo = {b \in BookingId : Stale(b)}]
  /\ UNCHANGED <<now, tables, sent, txn, holdSweep>>

\* Mutant: whoever holds the room of a cancelled booking loses the hold.
FreesAny(hold, b) == hold # NoHold

\* The hold was made for the booking: it is its guest's.
Frees(hold, b) == hold # NoHold /\ hold.guest = bookings[b].guest

\* One turn of the loop: the status is set in memory and the room's hold read.
\* The hold of the previous turn is still in the session, and a second booking of
\* its room gets it without a query; a query first flushes the pending UPDATEs,
\* which wait for their rows and lock them, and the pending DELETEs.
VisitStale(b) ==
  LET room  == bookings[b].room
      known == staleSweep.seen # NoHold /\ staleSweep.seen.room = room
      hold  == IF known THEN staleSweep.seen
               ELSE IF room \in staleSweep.drop THEN NoHold ELSE holds[room]
      batch == staleSweep.done \cup {b}
  IN /\ b \in staleSweep.todo
     /\ known \/ \A c \in batch : ~LockedBySession(c)
     /\ staleSweep' =
          [todo    |-> staleSweep.todo \ {b},
           done    |-> batch,
           flushed |-> IF known THEN staleSweep.flushed ELSE batch,
           seen    |-> hold,
           drop    |-> staleSweep.drop
                         \cup {r \in {room} : Frees(hold, b)}]
     /\ UNCHANGED <<now, tables, sent, txn, holdSweep>>

\* The UPDATEs name the bookings alone: their status is not looked at again.
CommitStaleSweep ==
  /\ staleSweep.todo = {}
  /\ staleSweep.done # {}
  /\ \A b \in staleSweep.done : ~LockedBySession(b)
  /\ bookings' = [b \in BookingId |->
                    IF b \in staleSweep.done
                      THEN [bookings[b] EXCEPT !.status = "cancelled"]
                      ELSE bookings[b]]
  /\ holds' = [r \in Room |-> IF r \in staleSweep.drop THEN NoHold ELSE holds[r]]
  /\ staleSweep' = NoSweep
  /\ UNCHANGED <<now, rooms, roomNights, payments, processedEvents, sent, txn,
                 holdSweep>>

\* A job that dies rolls back; the next interval starts it afresh.
LoseHoldSweep ==
  /\ holdSweep # {}
  /\ holdSweep' = {}
  /\ UNCHANGED <<now, tables, sent, txn, staleSweep>>

LoseStaleSweep ==
  /\ staleSweep # NoSweep
  /\ staleSweep' = NoSweep
  /\ UNCHANGED <<now, tables, sent, txn, holdSweep>>

LoseSweep == LoseHoldSweep \/ LoseStaleSweep

SweepStep ==
  \/ FindExpiredHolds
  \/ DeleteExpiredHolds
  \/ FindStaleBookings
  \/ \E b \in BookingId : VisitStale(b)
  \/ CommitStaleSweep
=============================================================================
