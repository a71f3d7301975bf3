----------------------------- MODULE GuestProofs ----------------------------
(***************************************************************************)
(* What a guest can count on, for every value of Hotel's constants: a hold *)
(* is not written over, and a stay keeps to its dates.                     *)
(***************************************************************************)
EXTENDS HotelProofs

LEMMA HoldWriters ==
  ASSUME [Next]_vars
  PROVE  \/ UNCHANGED holds
         \/ DeleteExpiredHolds \/ CommitStaleSweep
         \/ \E s \in Session : CommitHold(s) \/ DropDeadHold(s) \/ ConfirmOnline(s)
<1>1. CASE UNCHANGED vars
  BY <1>1 DEF vars, tables
<1>2. ASSUME NEW s \in Session, Request(s)
      PROVE  UNCHANGED holds
  BY <1>2 DEF Request, SalesRequest, BookingRequest, WebhookRequest, OfflineRequest,
     PayRequest, DeskRequest, RoomRequest, RequestHold, RequestBooking,
     ReceiveEvent, RequestOffline, Pay, RequestCheckIn, RequestCheckOut,
     RequestClean, tables
<1>3. ASSUME NEW s \in Session, Progress(s)
      PROVE  \/ UNCHANGED holds
             \/ CommitHold(s) \/ DropDeadHold(s) \/ ConfirmOnline(s)
  BY <1>3 DEF Progress, BookingProgress, DeskProgress, WebhookProgress, CheckOverlap,
     InsertBooking, CommitCheckIn, CommitCheckOut, PayReturns, SetAside,
     LockSettled, LockMismatch, LockPayable, RecordEvent, CancelUnheld, FlushClash,
     AnswerServerError, CommitOffline, CommitClean, tables
<1>4. CASE SystemStep \/ Failure
  BY <1>4 DEF SystemStep, Failure, LoseRequest, LoseSweep, LoseHoldSweep,
     LoseStaleSweep, SweepStep, ProviderStep, ProviderSends, Tick,
     FindExpiredHolds, FindStaleBookings, VisitStale, tables
<1> QED BY <1>1, <1>2, <1>3, <1>4 DEF Next, SteadyNext

\* Two guests never hold a room one over the other: only an insert makes a hold,
\* and its primary key is the room.
THEOREM HoldsNotReplaced == Spec => HoldNeverReplaced
<1>1. ASSUME TypeInv, [Next]_vars, NEW r \in Room, holds[r] # NoHold
      PROVE  holds'[r] \in {holds[r], NoHold}
  <2>1. holds \in [Room -> Hold \cup {NoHold}]
    BY <1>1 DEF TypeInv, TypeOK
  <2>2. CASE DeleteExpiredHolds \/ CommitStaleSweep
    BY <2>2 DEF DeleteExpiredHolds, CommitStaleSweep
  <2>3. ASSUME NEW s \in Session, CommitHold(s)
        PROVE  holds'[r] \in {holds[r], NoHold}
    BY <1>1, <2>1, <2>3 DEF CommitHold
  <2>4. ASSUME NEW s \in Session, DropDeadHold(s) \/ ConfirmOnline(s)
        PROVE  holds'[r] \in {holds[r], NoHold}
    BY <2>1, <2>4 DEF DropDeadHold, ConfirmOnline
  <2> QED BY <1>1, <2>2, <2>3, <2>4, HoldWriters
<1>2. TypeInv /\ [Next]_vars =>
        [\A r \in Room : holds[r] # NoHold => holds'[r] \in {holds[r], NoHold}]_vars
  BY <1>1
<1> QED BY <1>2, TypeInvariant, PTL DEF Spec, HoldNeverReplaced

----------------------------------------------------------------------------
(* Dates.  The day is read with the booking, and may change before the     *)
(* commit, but only to a later one.                                        *)

LEMMA DaysPass ==
  ASSUME NEW m \in Nat, NEW n \in Nat, NEW d \in Nat \ {0}, m <= n
  PROVE  m \div d <= n \div d
OBVIOUS

LEMMA DayKept ==
  ASSUME TypeInv, [Next]_vars
  PROVE  /\ Today \in Int /\ Today' \in Int
         /\ Today <= Today'
         /\ now <= now'
<1>1. now' \in {now, now + 1}
  BY DEF Next, SteadyNext, Request, SalesRequest, BookingRequest, WebhookRequest,
     OfflineRequest, PayRequest, DeskRequest, RoomRequest, RequestHold,
     RequestBooking, ReceiveEvent, RequestOffline, Pay, RequestCheckIn,
     RequestCheckOut, RequestClean, Progress, BookingProgress, DeskProgress,
     WebhookProgress, CommitHold, DropDeadHold, CheckOverlap, InsertBooking,
     CommitCheckIn, CommitCheckOut, PayReturns, SetAside, LockSettled, LockMismatch,
     LockPayable, RecordEvent, CancelUnheld, ConfirmOnline, FlushClash,
     AnswerServerError, CommitOffline, CommitClean, SystemStep, Failure, LoseRequest,
     LoseSweep, LoseHoldSweep, LoseStaleSweep, SweepStep, ProviderStep,
     ProviderSends, Tick, FindExpiredHolds, DeleteExpiredHolds, FindStaleBookings,
     VisitStale, CommitStaleSweep, vars
<1>2. now \in Nat /\ DayLength \in Nat \ {0}
  BY TimeAssumption DEF TypeInv, TypeOK, Time
<1>3. now \in Nat /\ now' \in Nat /\ now <= now'
  BY <1>1, <1>2
<1>4. Today \in Int /\ Today' \in Int
  BY <1>2, <1>3 DEF Today
<1>5. now \div DayLength <= now' \div DayLength
  BY <1>2, <1>3, DaysPass
<1> QED BY <1>3, <1>4, <1>5 DEF Today

CarriesDates ==
  \A s \in Session :
    /\ txn[s].op = "checkIn" => bookings[txn[s].booking].checkIn <= Today
    /\ txn[s].op = "checkOut" => bookings[txn[s].booking].checkOut <= Today

DateInv == StayDatesRespected /\ CarriesDates

\* How a booking comes to be checked in or completed.
LEMMA DeskStep ==
  ASSUME TypeInv, [Next]_vars, NEW b \in BookingId,
         Exists(b)', bookings'[b].status \in {"checked_in", "completed"}
  PROVE  \/ Exists(b) /\ bookings[b].status = bookings'[b].status
         \/ \E s \in Session :
              /\ txn[s].booking = b
              /\ \/ txn[s].op = "checkIn" /\ bookings'[b].status = "checked_in"
                 \/ txn[s].op = "checkOut" /\ bookings'[b].status = "completed"
<1>1. TypeOK /\ References
  BY DEF TypeInv
<1>2. CASE UNCHANGED <<bookings, roomNights, payments>>
  BY <1>2 DEF Exists
<1>3. CASE CommitStaleSweep
  BY <1>3, SweepFrame DEF Exists
<1>4. ASSUME NEW s \in Session, InsertBooking(s)
      PROVE  Exists(b) /\ bookings[b].status = bookings'[b].status
  <2>1. txn[s].op = "book" /\ txn[s].row.status = "processing"
    BY <1>1, <1>4 DEF InsertBooking, References, TxnRefers
  <2> QED BY <1>1, <1>4, <2>1 DEF InsertBooking, Exists, TypeOK
<1>5. ASSUME NEW s \in Session, NEW c \in BookingId, NEW status \in Status,
             Exists(c), SetStatus(c, status)
      PROVE  \/ c = b /\ bookings'[b].status = status
             \/ Exists(b) /\ bookings[b].status = bookings'[b].status
  BY <1>1, <1>5, SetStatusFrame DEF Exists
<1>6. ASSUME NEW s \in Session, CommitCheckIn(s)
      PROVE  \/ Exists(b) /\ bookings[b].status = bookings'[b].status
             \/ /\ txn[s].booking = b /\ txn[s].op = "checkIn"
                /\ bookings'[b].status = "checked_in"
  BY <1>5, <1>6, Written DEF CommitCheckIn, Status
<1>7. ASSUME NEW s \in Session, CommitCheckOut(s)
      PROVE  \/ Exists(b) /\ bookings[b].status = bookings'[b].status
             \/ /\ txn[s].booking = b /\ txn[s].op = "checkOut"
                /\ bookings'[b].status = "completed"
  BY <1>5, <1>7, Written DEF CommitCheckOut, Status
<1>8. ASSUME NEW s \in Session, CancelUnheld(s)
      PROVE  Exists(b) /\ bookings[b].status = bookings'[b].status
  BY <1>5, <1>8, Written DEF CancelUnheld, Status, LockingOps
<1>9. ASSUME NEW s \in Session, ConfirmOnline(s)
      PROVE  Exists(b) /\ bookings[b].status = bookings'[b].status
  BY <1>5, <1>9, Written DEF ConfirmOnline, Confirm, Status, LockingOps
<1>10. ASSUME NEW s \in Session, CommitOffline(s)
       PROVE  Exists(b) /\ bookings[b].status = bookings'[b].status
  BY <1>5, <1>10, Written DEF CommitOffline, Confirm, Status, Exists
<1> QED
  BY <1>2, <1>3, <1>4, <1>6, <1>7, <1>8, <1>9, <1>10, BookingWriters

\* Only the desk asks for a check-in, a check-out or a payment at the counter.
LEMMA NothingElseAsked ==
  ASSUME NEW x \in Session,
         \/ Request(x) /\ ~DeskRequest(x) /\ ~OfflineRequest(x)
         \/ Progress(x) \/ LoseRequest(x)
  PROVE  \E t : t.op \notin {"offline", "checkIn", "checkOut"} /\ Become(x, t)
<1>1. CASE Request(x) /\ ~DeskRequest(x) /\ ~OfflineRequest(x)
  BY <1>1 DEF Request, SalesRequest, BookingRequest, WebhookRequest, PayRequest,
     RoomRequest, RequestHold, RequestBooking, ReceiveEvent, Pay, RequestClean,
     Begin, Become
<1>2. CASE Progress(x) \/ LoseRequest(x)
  <2>1. Idle.op \notin {"offline", "checkIn", "checkOut"}
    BY DEF Idle
  <2> QED
    BY <1>2, <2>1
    DEF Progress, BookingProgress, DeskProgress, WebhookProgress, CommitHold,
       DropDeadHold, CheckOverlap, InsertBooking, CommitCheckIn, CommitCheckOut,
       PayReturns, SetAside, LockSettled, LockMismatch, LockPayable, RecordEvent,
       CancelUnheld, ConfirmOnline, FlushClash, AnswerServerError, CommitOffline,
       CommitClean, LoseRequest, End
<1> QED BY <1>1, <1>2

\* What was in order when a request was made.
InOrder(t) ==
  /\ t.op = "offline" => HasStatus(t.booking, "processing")
  /\ t.op = "checkIn" =>
       HasStatus(t.booking, "confirmed") /\ bookings[t.booking].checkIn = Today
  /\ t.op = "checkOut" =>
       HasStatus(t.booking, "checked_in") /\ bookings[t.booking].checkOut = Today

LEMMA AskedInOrder ==
  ASSUME TypeInv, [Next]_vars, NEW s \in Session, txn'[s] # txn[s]
  PROVE  \E t : t = txn'[s] /\ InOrder(t)
<1>1. txn \in [Session -> Txn]
  BY DEF TypeInv, TypeOK
<1>2. ASSUME NEW x \in Session, NEW b \in BookingId, RequestCheckIn(x, b)
      PROVE  \E t : Become(x, t) /\ InOrder(t)
  <2> DEFINE t == [op |-> "checkIn", booking |-> b]
  <2>1. Become(x, t) /\ InOrder(t)
    BY <1>2 DEF RequestCheckIn, Begin, Become, InOrder
  <2> HIDE DEF t
  <2> QED BY <2>1
<1>3. ASSUME NEW x \in Session, NEW b \in BookingId, RequestCheckOut(x, b)
      PROVE  \E t : Become(x, t) /\ InOrder(t)
  <2> DEFINE t == [op |-> "checkOut", booking |-> b,
                   seen |-> rooms[bookings[b].room]]
  <2>1. Become(x, t) /\ InOrder(t)
    BY <1>3 DEF RequestCheckOut, Begin, Become, InOrder
  <2> HIDE DEF t
  <2> QED BY <2>1
<1>4. ASSUME NEW x \in Session, NEW b \in BookingId, RequestOffline(x, b)
      PROVE  \E t : Become(x, t) /\ InOrder(t)
  <2> DEFINE t == [op |-> "offline", booking |-> b]
  <2>1. Become(x, t) /\ InOrder(t)
    BY <1>4 DEF RequestOffline, Begin, Become, InOrder
  <2> HIDE DEF t
  <2> QED BY <2>1
<1>5. ASSUME NEW x \in Session, DeskRequest(x) \/ OfflineRequest(x)
      PROVE  \E t : Become(x, t) /\ InOrder(t)
  BY <1>2, <1>3, <1>4, <1>5 DEF DeskRequest, OfflineRequest
<1>6. ASSUME NEW x \in Session,
             \/ Request(x) /\ ~DeskRequest(x) /\ ~OfflineRequest(x)
             \/ Progress(x) \/ LoseRequest(x)
      PROVE  \E t : Become(x, t) /\ InOrder(t)
  BY <1>6, NothingElseAsked DEF InOrder
<1>7. PICK x \in Session : \E t : Become(x, t) /\ InOrder(t)
  BY <1>5, <1>6, TxnWriters
<1> QED BY <1>1, <1>7 DEF Become

LEMMA DateStep ==
  ASSUME TypeInv, DateInv, [Next]_vars
  PROVE  DateInv'
<1>1. StaysKept /\ Today \in Int /\ Today' \in Int /\ Today <= Today'
  BY SaleFrame, DayKept
<1>2. \A b \in BookingId : Exists(b) =>
        /\ bookings[b].checkIn \in Int /\ bookings[b].checkOut \in Int
        /\ bookings'[b].checkIn = bookings[b].checkIn
        /\ bookings'[b].checkOut = bookings[b].checkOut
  BY <1>1 DEF StaysKept, TypeInv, TypeOK, Exists, Booking, Day
<1>3. StayDatesRespected'
  <2> SUFFICES ASSUME NEW b \in BookingId, Exists(b)',
                      bookings'[b].status \in {"checked_in", "completed"}
               PROVE  /\ bookings'[b].status = "checked_in" =>
                            bookings'[b].checkIn <= Today'
                      /\ bookings'[b].status = "completed" =>
                            bookings'[b].checkOut <= Today'
    BY DEF StayDatesRespected, HasStatus
  <2>1. CASE Exists(b) /\ bookings[b].status = bookings'[b].status
    BY <1>1, <1>2, <2>1 DEF DateInv, StayDatesRespected, HasStatus
  <2>2. ASSUME NEW s \in Session, txn[s].booking = b,
               \/ txn[s].op = "checkIn" /\ bookings'[b].status = "checked_in"
               \/ txn[s].op = "checkOut" /\ bookings'[b].status = "completed"
        PROVE  /\ bookings'[b].status = "checked_in" =>
                     bookings'[b].checkIn <= Today'
               /\ bookings'[b].status = "completed" =>
                     bookings'[b].checkOut <= Today'
    BY <1>1, <1>2, <2>2, Written DEF DateInv, CarriesDates
  <2> QED BY <2>1, <2>2, DeskStep
<1>4. CarriesDates'
  <2> SUFFICES ASSUME NEW s \in Session, txn'[s].op \in {"checkIn", "checkOut"}
               PROVE  /\ txn'[s].op = "checkIn" =>
                            bookings'[txn'[s].booking].checkIn <= Today'
                      /\ txn'[s].op = "checkOut" =>
                            bookings'[txn'[s].booking].checkOut <= Today'
    BY DEF CarriesDates
  <2>1. CASE txn'[s] = txn[s]
    BY <1>1, <1>2, <2>1, Written DEF DateInv, CarriesDates
  <2>2. CASE txn'[s] # txn[s]
    <3>1. txn'[s].booking \in BookingId /\ Exists(txn'[s].booking)
      BY <2>2, CarriedStep
    <3> QED BY <1>1, <1>2, <2>2, <3>1, AskedInOrder DEF InOrder
  <2> QED BY <2>1, <2>2
<1> QED BY <1>3, <1>4 DEF DateInv

LEMMA DateInvariant == Spec => []DateInv
<1>1. Init => DateInv
  BY DEF Init, DateInv, StayDatesRespected, CarriesDates, HasStatus, Exists, Idle
<1> QED BY <1>1, DateStep, TypeInvariant, PTL DEF Spec

\* Nobody is checked in before the first day of the stay or out before its last,
\* although the day may change between the check and the commit.
THEOREM DatesRespected == Spec => []StayDatesRespected
<1>1. DateInv => StayDatesRespected
  BY DEF DateInv
<1> QED BY <1>1, DateInvariant, PTL

\* Two guests are in one room only when one of them was due to leave: their nights
\* are disjoint, and both stays have begun.
THEOREM OverdueOnly == Spec => []OneGuestUnlessOverdue
<1>1. TypeInv /\ StayBacked /\ PaidStaysDisjoint /\ StayDatesRespected
        => OneGuestUnlessOverdue
  <2> SUFFICES ASSUME TypeInv, StayBacked, PaidStaysDisjoint, StayDatesRespected,
                      NEW b \in BookingId, NEW c \in BookingId, b # c,
                      HasStatus(b, "checked_in"), HasStatus(c, "checked_in"),
                      bookings[b].room = bookings[c].room
               PROVE  bookings[b].checkOut <= Today \/ bookings[c].checkOut <= Today
    BY DEF OneGuestUnlessOverdue
  <2>1. ~Overlap(bookings[b], bookings[c])
    BY DEF StayBacked, PaidStaysDisjoint, HasStatus, SoldStatus, Sold
  <2>2. bookings[b].checkIn <= Today /\ bookings[c].checkIn <= Today
    BY DEF StayDatesRespected
  <2>3. /\ bookings[b] \in Booking /\ bookings[c] \in Booking
        /\ Today \in Int
    BY TimeAssumption DEF TypeInv, TypeOK, Time, Today, HasStatus, Exists
  <2>4. \A x \in Booking : x.checkIn \in Int /\ x.checkOut \in Int
    BY TimeAssumption DEF Booking, Day
  <2> QED BY <2>1, <2>2, <2>3, <2>4 DEF Overlap
<1> QED BY <1>1, TypeInvariant, StaysBacked, NoDoubleSale, DatesRespected, PTL
=============================================================================
