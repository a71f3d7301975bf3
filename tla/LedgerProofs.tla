---------------------------- MODULE LedgerProofs ----------------------------
(***************************************************************************)
(* Hotel implements NightLedger, for every value of its constants.         *)
(***************************************************************************)
EXTENDS HotelProofs

\* An event that paid for a booking is recorded, and carries its reference.
PaidByOwnEvent ==
  \A b \in BookingId : payments[b] \in Event =>
    payments[b] \in processedEvents /\ sent[payments[b]] = b

\* Recorded events and references stay.
LEMMA EventsKept ==
  ASSUME TypeInv, [Next]_vars
  PROVE  /\ processedEvents \subseteq processedEvents'
         /\ \A e \in Event : sent[e] # NoBooking => sent'[e] = sent[e]
<1>1. CASE UNCHANGED vars
  BY <1>1 DEF vars, tables
<1>2. ASSUME NEW s \in Session, RecordEvent(s) \/ ConfirmOnline(s)
      PROVE  processedEvents \subseteq processedEvents' /\ UNCHANGED sent
  BY <1>2 DEF RecordEvent, ConfirmOnline
<1>3. ASSUME NEW b \in BookingId \cup {UnknownRef}, NEW e \in Event,
             ProviderSends(e, b)
      PROVE  /\ UNCHANGED processedEvents
             /\ \A x \in Event : sent[x] # NoBooking => sent'[x] = sent[x]
  BY <1>3 DEF ProviderSends, tables, TypeInv, TypeOK
<1>4. ASSUME NEW s \in Session, NEW b \in BookingId, NEW e \in Event, Pay(s, b, e)
      PROVE  /\ UNCHANGED processedEvents
             /\ \A x \in Event : sent[x] # NoBooking => sent'[x] = sent[x]
  BY <1>4 DEF Pay, tables, TypeInv, TypeOK
<1>5. ASSUME NEW s \in Session, Request(s), ~PayRequest(s)
      PROVE  UNCHANGED <<processedEvents, sent>>
  BY <1>5 DEF Request, SalesRequest, BookingRequest, WebhookRequest,
     OfflineRequest, DeskRequest, RoomRequest, RequestHold, RequestBooking,
     ReceiveEvent, RequestOffline, RequestCheckIn, RequestCheckOut, RequestClean,
     tables
<1>6. ASSUME NEW s \in Session, Progress(s), ~RecordEvent(s), ~ConfirmOnline(s)
      PROVE  UNCHANGED <<processedEvents, sent>>
  BY <1>6 DEF Progress, BookingProgress, DeskProgress, WebhookProgress, CommitHold,
     DropDeadHold, CheckOverlap, InsertBooking, CommitCheckIn, CommitCheckOut,
     PayReturns, SetAside, LockSettled, LockMismatch, LockPayable, CancelUnheld,
     FlushClash, AnswerServerError, CommitOffline, CommitClean, tables
<1>7. CASE SweepStep \/ Tick \/ Failure
  BY <1>7 DEF Failure, LoseRequest, LoseSweep, LoseHoldSweep, LoseStaleSweep,
     SweepStep, Tick, FindExpiredHolds, DeleteExpiredHolds, FindStaleBookings,
     VisitStale, CommitStaleSweep, tables
<1> QED
  BY <1>1, <1>2, <1>3, <1>4, <1>5, <1>6, <1>7
  DEF Next, SteadyNext, SystemStep, ProviderStep, PayRequest

LEMMA PaidByOwnEventStep ==
  ASSUME TypeInv, PaidByOwnEvent, [Next]_vars
  PROVE  PaidByOwnEvent'
<1>1. SUFFICES ASSUME NEW b \in BookingId, payments'[b] \in Event
               PROVE  payments'[b] \in processedEvents' /\ sent'[payments'[b]] = b
  BY DEF PaidByOwnEvent
<1>2. ASSUME payments'[b] = payments[b]
      PROVE  payments'[b] \in processedEvents' /\ sent'[payments'[b]] = b
  <2>1. payments[b] \in processedEvents /\ sent[payments[b]] = b /\ b # NoBooking
    BY <1>1, <1>2, SentinelAssumption DEF PaidByOwnEvent
  <2> QED BY <1>1, <1>2, <2>1, EventsKept
<1>3. ASSUME NEW c \in BookingId, NEW means \in Event \cup {Offline}, Sale(c, means)
      PROVE  payments'[b] \in processedEvents' /\ sent'[payments'[b]] = b
  <2>1. payments' = [payments EXCEPT ![c] = means]
    BY <1>3 DEF Sale, Confirm
  <2>2. CASE b # c
    BY <1>2, <2>1, <2>2 DEF TypeInv, TypeOK
  <2>3. CASE b = c
    <3>1. payments'[b] = means /\ means \in Event
      BY <1>1, <2>1, <2>3 DEF TypeInv, TypeOK
    <3>2. means \in processedEvents' /\ sent[means] = b /\ b # NoBooking
      BY <1>3, <2>3, <3>1, SentinelAssumption DEF Sale
    <3> QED BY <3>1, <3>2, EventsKept
  <2> QED BY <2>2, <2>3
<1> QED BY <1>2, <1>3, SaleFrame DEF SomeSale

LEMMA PaidByOwnEventInvariant == Spec => []PaidByOwnEvent
<1>1. Init => PaidByOwnEvent
  BY SentinelAssumption DEF Init, PaidByOwnEvent
<1> QED BY <1>1, PaidByOwnEventStep, TypeInvariant, PTL DEF Spec

----------------------------------------------------------------------------
(* The refinement.                                                         *)

LEMMA SaleIsSale ==
  ASSUME TypeInv, PaidByOwnEvent,
         NEW b \in BookingId, NEW means \in Event \cup {Offline}, Sale(b, means)
  PROVE  Ledger!SomeStay(b, means)
<1> DEFINE row   == bookings[b]
           stay  == Nights(row)
           final == row.checkOut - 1
<1>1. /\ Exists(b) /\ CanConfirm(b) /\ Confirm(b, means)
      /\ means \in Event => means \notin processedEvents
  BY DEF Sale
<1>2. /\ row \in Booking /\ row.checkIn < row.checkOut
  BY <1>1 DEF TypeInv, TypeOK, References, Exists
<1>3. /\ row.room \in Room
      /\ row.checkIn \in 0 .. LastDay
      /\ final \in 0 .. LastDay
      /\ row.checkIn <= final
  BY <1>2, TimeAssumption DEF Booking, Day
<1>4. <<row.room, row.checkIn>> \in stay
  BY <1>3 DEF Nights
<1>5. means = Offline \/ Ledger!Unspent(means)
  BY <1>1 DEF PaidByOwnEvent, Ledger!Unspent
<1>6. Ledger!Sell(b, means, stay)
  <2>1. roomNights' = [n \in Ledger!Night |-> IF n \in stay THEN b ELSE roomNights[n]]
    BY <1>1 DEF Confirm, AddRoomNights, Ledger!Night, Day
  <2> QED
    BY <1>1, <1>4, <1>5, <2>1
    DEF CanConfirm, NightsFree, Confirm, Ledger!Sell
<1> QED BY <1>3, <1>6 DEF Nights, Ledger!SomeStay

\* Every step of the service is a sale of the ledger or leaves it alone: whatever
\* holds, locks, sweeps and failures do, stays are sold once, whole, for one
\* receipt, and stay sold.
THEOREM ImplementsLedger == Spec => LedgerSpec
<1>1. Init => Ledger!Init
  BY DEF Init, Ledger!Init, Ledger!Night, Day
<1>2. TypeInv /\ PaidByOwnEvent /\ [Next]_vars
        => [Ledger!Next]_<<roomNights, payments>>
  BY SaleFrame, SaleIsSale DEF SomeSale, Ledger!Next
<1> QED
  BY <1>1, <1>2, TypeInvariant, PaidByOwnEventInvariant, PTL
  DEF Spec, LedgerSpec, Ledger!Spec
=============================================================================
