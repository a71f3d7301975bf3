------------------------------ MODULE HotelDb ------------------------------
(***************************************************************************)
(* The state every part of NaijaStay works on: the clock, the PostgreSQL   *)
(* tables, what the payment provider has sent, and what each request in    *)
(* flight has read from the database and not yet written back.             *)
(*                                                                         *)
(* A request owns one database session, and a session one connection       *)
(* (db/session.py).  PostgreSQL runs READ COMMITTED: a handler reads       *)
(* committed rows, decides, and commits later; between the two every other *)
(* request and both sweepers may run.  txn[s] remembers what the handler   *)
(* on session s decided; a commit is one atomic step.                      *)
(***************************************************************************)
EXTENDS Integers, FiniteSets, RoomRows

CONSTANTS
  Room, Guest, BookingId,
  Event,          \* event ids of the payment provider
  Session,        \* database connections, hence requests in flight at once
  EventKind,      \* what an event says: see Kind
  Stay,           \* the date ranges guests ask for
  SeedHold,       \* rows of table holds before the first request
  SeedRoom,       \* rows a room may start with
  HoldTime, Grace,
  DayLength,      \* clock units in a day
  LastDay,        \* bound on the calendar
  MaxNow,         \* bound on the clock
  NoHold, NoBooking, NoPayment, Offline, UnknownRef

Day  == 0 .. LastDay
Time == 0 .. MaxNow
Kind == {"succeeded", "mismatch", "failed"}

Hold == [room : Room, guest : Guest, expires : 0 .. MaxNow + HoldTime,
         consumed : BOOLEAN]

Status == {"processing", "confirmed", "checked_in", "completed", "cancelled"}

Booking == [guest : Guest, room : Room, checkIn : Day, checkOut : Day,
            status : Status, created : Time]

ASSUME TimeAssumption ==
  /\ HoldTime \in Nat \ {0} /\ Grace \in Nat
  /\ DayLength \in Nat \ {0} /\ LastDay \in Nat /\ MaxNow \in Nat

ASSUME InputAssumption ==
  /\ EventKind \in [Event -> Kind]
  /\ Stay \subseteq [checkIn : Day, checkOut : Day]
  /\ SeedHold \subseteq Hold
  /\ SeedRoom \subseteq RoomRow

ASSUME SentinelAssumption ==
  /\ NoHold \notin Hold
  /\ NoBooking \notin Booking \cup BookingId
  /\ UnknownRef \notin BookingId \cup {NoBooking}
  /\ NoPayment \notin Event \cup {Offline}
  /\ Offline \notin Event

VARIABLES
  now,
  rooms,            \* table rooms
  holds,            \* table holds, whose primary key is the room
  bookings,         \* table bookings
  roomNights,       \* table room_nights: <<room, night>> -> booking
  payments,         \* table payments: booking -> event id, or Offline
  processedEvents,  \* table processed_events
  sent,             \* event -> the reference the provider put in it
  txn,              \* what the request on each session is about to write
  holdSweep,        \* rooms whose hold delete_expired_holds has selected
  staleSweep        \* the run of cancel_stale_processing

tables  == <<rooms, holds, bookings, roomNights, payments, processedEvents>>
sweeps  == <<holdSweep, staleSweep>>
vars    == <<now, tables, sent, txn, sweeps>>

----------------------------------------------------------------------------
(* Requests in flight.                                                     *)

Idle == [op |-> "idle"]

\* The requests that own the row lock of their event's booking.
LockingOps == {"duplicate", "cancel", "confirm"}
EventOps   == {"pay", "webhook", "record", "error"} \cup LockingOps

Txn ==
  {Idle}
    \cup [op : {"hold"}, row : Hold]
    \cup [op : {"dropHold"}, room : Room]
    \cup [op : {"held"}, guest : Guest, room : Room, stay : Stay]
    \cup [op : {"book"}, row : Booking]
    \cup [op : {"offline", "checkIn"}, booking : BookingId]
    \cup [op : {"checkOut"}, booking : BookingId, seen : RoomRow]
    \cup [op : {"clean"}, room : Room, seen : RoomRow]
    \cup [op : EventOps, event : Event]

NoSweep == [todo |-> {}, done |-> {}, flushed |-> {}, seen |-> NoHold,
            drop |-> {}]

StaleSweep == [todo : SUBSET BookingId, done : SUBSET BookingId,
               flushed : SUBSET BookingId, seen : Hold \cup {NoHold},
               drop : SUBSET Room]

Begin(s, t) == txn[s] = Idle /\ txn' = [txn EXCEPT ![s] = t]
Become(s, t) == txn' = [txn EXCEPT ![s] = t]
End(s) == Become(s, Idle)

----------------------------------------------------------------------------
(* Row locks.  SELECT ... FOR UPDATE locks a booking row until the webhook *)
(* commits; an UPDATE the stale sweeper has flushed locks it until the     *)
(* sweep commits.  Another writer of the row waits.                        *)
(*                                                                         *)
(* Left out are the locks on rows of holds, which the sweep's flushed      *)
(* DELETE (sweeps.py) and the webhook's DELETE of a hold take: here nobody *)
(* waits for them, and the steps that would wait may come earlier as well. *)
(* With them two transactions can wait for each other's rows; PostgreSQL   *)
(* then fails one of them, which LoseRequest and LoseSweep may do anyway.  *)

LockedBySession(b) ==
  \E s \in Session : txn[s].op \in LockingOps /\ sent[txn[s].event] = b

Unlocked(b) == ~LockedBySession(b) /\ b \notin staleSweep.flushed

----------------------------------------------------------------------------
(* Rows and what the code asks of them.                                    *)

Today == now \div DayLength

Exists(b) == bookings[b] # NoBooking
HasStatus(b, status) == Exists(b) /\ bookings[b].status = status

Expired(hold) == hold.expires <= now
Dead(hold) == hold.consumed \/ Expired(hold)

Nights(row) == {row.room} \X (row.checkIn .. row.checkOut - 1)

Overlap(row, other) ==
  /\ row.room = other.room
  /\ row.checkIn < other.checkOut
  /\ row.checkOut > other.checkIn

NightsFree(row) == \A n \in Nights(row) : roomNights[n] = NoBooking

SetStatus(b, status) ==
  bookings' = [bookings EXCEPT ![b].status = status]

\* Mutant: the nights of a stay counted from the day after check-in.
AddRoomNightsLate(b) ==
  roomNights' = [n \in Room \X Day |->
                   IF <<n[1], n[2] - 1>> \in Nights(bookings[b]) THEN b
                   ELSE roomNights[n]]

\* Confirming a booking: its status, one room night per night, its payment.
AddRoomNights(b) ==
  roomNights' = [n \in Room \X Day |->
                   IF n \in Nights(bookings[b]) THEN b ELSE roomNights[n]]

\* Mutant: room_nights without its primary key.
CanConfirmOverNights(b) == payments[b] = NoPayment

\* Mutant: nights merged when they are the booking's own, payments not unique.
CanConfirmAgain(b) ==
  \A n \in Nights(bookings[b]) : roomNights[n] \in {NoBooking, b}

\* The unique keys the commit that confirms b must satisfy.
CanConfirm(b) == NightsFree(bookings[b]) /\ payments[b] = NoPayment

Confirm(b, means) ==
  /\ SetStatus(b, "confirmed")
  /\ AddRoomNights(b)
  /\ payments' = [payments EXCEPT ![b] = means]

----------------------------------------------------------------------------
TypeOK ==
  /\ now \in Time
  /\ rooms \in [Room -> RoomRow]
  /\ holds \in [Room -> Hold \cup {NoHold}]
  /\ bookings \in [BookingId -> Booking \cup {NoBooking}]
  /\ roomNights \in [Room \X Day -> BookingId \cup {NoBooking}]
  /\ payments \in [BookingId -> Event \cup {Offline, NoPayment}]
  /\ processedEvents \subseteq Event
  /\ sent \in [Event -> BookingId \cup {NoBooking, UnknownRef}]
  /\ txn \in [Session -> Txn]
  /\ holdSweep \subseteq Room
  /\ staleSweep \in StaleSweep

Init ==
  /\ now = 0
  /\ rooms \in [Room -> SeedRoom]
  /\ holds \in [Room -> SeedHold \cup {NoHold}]
  /\ \A r \in Room : holds[r] # NoHold => holds[r].room = r
  /\ bookings = [b \in BookingId |-> NoBooking]
  /\ roomNights = [n \in Room \X Day |-> NoBooking]
  /\ payments = [b \in BookingId |-> NoPayment]
  /\ processedEvents = {}
  /\ sent = [e \in Event |-> NoBooking]
  /\ txn = [s \in Session |-> Idle]
  /\ holdSweep = {}
  /\ staleSweep = NoSweep

\* A request dies before it commits: a deadlock victim, a lost connection, a
\* client that hangs up, a restart of the process.  Its transaction rolls back.
LoseRequest(s) ==
  /\ txn[s] # Idle
  /\ End(s)
  /\ UNCHANGED <<now, tables, sent, sweeps>>

Tick ==
  /\ now < MaxNow
  /\ now' = now + 1
  /\ UNCHANGED <<tables, sent, txn, sweeps>>
=============================================================================
