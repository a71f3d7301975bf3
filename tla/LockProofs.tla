----------------------------- MODULE LockProofs -----------------------------
(***************************************************************************)
(* The webhook's row lock, the events it records, and the life of a booking *)
(* between those who lock and those who do not, for every value of Hotel's *)
(* constants.                                                              *)
(***************************************************************************)
EXTENDS LedgerProofs, GuestProofs

\* Nothing is left for the event to confirm.
Settled(e) ==
  \/ EventKind[e] = "failed" \/ sent[e] = UnknownRef
  \/ ~HasStatus(sent[e], "processing")

\* A booking has one lock owner, and a flushed sweep is an owner too.
LockExclusive ==
  \A s \in Session : txn[s].op \in LockingOps =>
    /\ sent[txn[s].event] \notin staleSweep.flushed
    /\ \A t \in Session \ {s} :
         txn[t].op \in LockingOps => sent[txn[t].event] # sent[txn[s].event]

\* What a webhook has decided under the lock.
DecisionStands ==
  \A s \in Session : txn[s].op \in {"confirm", "cancel"} =>
    /\ EventKind[txn[s].event] = "succeeded"
    /\ HasStatus(sent[txn[s].event], "processing")
    /\ txn[s].event \notin processedEvents

\* What is recorded, or about to be, is settled.
RecordsSettled ==
  /\ \A s \in Session :
       txn[s].op \in {"record", "duplicate"} => Settled(txn[s].event)
  /\ \A e \in processedEvents : sent[e] # NoBooking /\ Settled(e)

ProcessingUnpaid ==
  \A b \in BookingId : HasStatus(b, "processing") => ~Paid(b)

LockInv ==
  LockExclusive /\ DecisionStands /\ RecordsSettled /\ ProcessingUnpaid

----------------------------------------------------------------------------
(* How bookings change.                                                    *)

\* No step reopens a booking.
LEMMA NotReopened ==
  ASSUME TypeInv, [Next]_vars, NEW b \in BookingId, Exists(b),
         HasStatus(b, "processing")'
  PROVE  HasStatus(b, "processing")
<1>1. TypeOK /\ References
  BY DEF TypeInv
<1>2. CASE UNCHANGED <<bookings, roomNights, payments>>
  BY <1>2 DEF HasStatus, Exists
<1>3. CASE CommitStaleSweep
  BY <1>3, SweepFrame DEF HasStatus, Exists
<1>4. ASSUME NEW s \in Session, InsertBooking(s)
      PROVE  HasStatus(b, "processing")
  BY <1>1, <1>4 DEF InsertBooking, HasStatus, Exists, TypeOK
<1>5. ASSUME NEW c \in BookingId, NEW status \in Status,
             Exists(c), SetStatus(c, status), status # "processing"
      PROVE  HasStatus(b, "processing")
  BY <1>1, <1>5, SetStatusFrame DEF HasStatus, Exists
<1>6. ASSUME NEW s \in Session,
             CommitCheckIn(s) \/ CommitCheckOut(s) \/ CommitOffline(s)
      PROVE  HasStatus(b, "processing")
  BY <1>2, <1>5, <1>6, Written
  DEF CommitCheckIn, CommitCheckOut, CommitOffline, Confirm, Status
<1>7. ASSUME NEW s \in Session, CancelUnheld(s) \/ ConfirmOnline(s)
      PROVE  HasStatus(b, "processing")
  BY <1>5, <1>7, Written DEF CancelUnheld, ConfirmOnline, Confirm, Status, LockingOps
<1> QED BY <1>2, <1>3, <1>4, <1>6, <1>7, BookingWriters

\* Only the owner of the lock changes a locked booking.
LEMMA LockedKept ==
  ASSUME TypeInv, LockExclusive, [Next]_vars, NEW s \in Session,
         txn[s].op \in LockingOps, ~CancelUnheld(s), ~ConfirmOnline(s)
  PROVE  bookings'[sent[txn[s].event]] = bookings[sent[txn[s].event]]
<1> DEFINE b == sent[txn[s].event]
<1>1. TypeOK /\ References
  BY DEF TypeInv
<1>2. b \in BookingId /\ Exists(b) /\ LockedBySession(b)
  BY Written DEF LockedBySession
<1>3. ASSUME NEW c \in BookingId, NEW status \in Status, c # b, SetStatus(c, status)
      PROVE  bookings'[b] = bookings[b]
  BY <1>1, <1>2, <1>3 DEF SetStatus, TypeOK
<1>4. CASE UNCHANGED <<bookings, roomNights, payments>>
  BY <1>4
<1>5. CASE CommitStaleSweep
  BY <1>2, <1>5 DEF CommitStaleSweep
<1>6. ASSUME NEW t \in Session, InsertBooking(t)
      PROVE  bookings'[b] = bookings[b]
  BY <1>1, <1>2, <1>6 DEF InsertBooking, Exists, TypeOK
<1>7. ASSUME NEW t \in Session,
             CommitCheckIn(t) \/ CommitCheckOut(t) \/ CommitOffline(t)
      PROVE  bookings'[b] = bookings[b]
  BY <1>2, <1>3, <1>4, <1>7, Written
  DEF CommitCheckIn, CommitCheckOut, CommitOffline, Confirm, Status, Unlocked
<1>8. ASSUME NEW t \in Session, CancelUnheld(t) \/ ConfirmOnline(t)
      PROVE  bookings'[b] = bookings[b]
  <2>1. t # s /\ txn[t].op \in LockingOps
    BY <1>8 DEF CancelUnheld, ConfirmOnline, LockingOps
  <2>2. sent[txn[t].event] # b
    BY <2>1 DEF LockExclusive
  <2> QED
    BY <1>3, <1>8, <2>1, <2>2, Written DEF CancelUnheld, ConfirmOnline, Confirm, Status
<1> QED BY <1>4, <1>5, <1>6, <1>7, <1>8, BookingWriters

----------------------------------------------------------------------------
(* How requests come to hold a lock or to record an event.                 *)

LEMMA EventTxnStep ==
  ASSUME TypeInv, [Next]_vars, NEW s \in Session, txn'[s] # txn[s],
         txn'[s].op \in LockingOps \cup {"record"}
  PROVE  /\ SetAside(s) \/ LockSettled(s) \/ LockPayable(s) \/ CancelUnheld(s)
         /\ txn'[s].event = txn[s].event
         /\ \A t \in Session \ {s} : txn'[t] = txn[t]
<1>1. txn \in [Session -> Txn]
  BY DEF TypeInv, TypeOK
<1>2. Idle.op \notin LockingOps \cup {"record"}
  BY DEF Idle, LockingOps
<1>3. ASSUME NEW x \in Session, Request(x)
      PROVE  \E t : t.op \notin LockingOps \cup {"record"} /\ Become(x, t)
  BY <1>3 DEF Request, SalesRequest, BookingRequest, WebhookRequest, OfflineRequest,
     PayRequest, DeskRequest, RoomRequest, RequestHold, RequestBooking,
     ReceiveEvent, RequestOffline, Pay, RequestCheckIn, RequestCheckOut,
     RequestClean, Begin, Become, LockingOps
<1>4. ASSUME NEW x \in Session, Progress(x) \/ LoseRequest(x),
             ~SetAside(x), ~LockSettled(x), ~LockPayable(x), ~CancelUnheld(x)
      PROVE  \E t : t.op \notin LockingOps \cup {"record"} /\ Become(x, t)
  BY <1>2, <1>4
  DEF Progress, BookingProgress, DeskProgress, WebhookProgress, CommitHold,
     DropDeadHold, CheckOverlap, InsertBooking, CommitCheckIn, CommitCheckOut,
     PayReturns, LockMismatch, RecordEvent, ConfirmOnline, FlushClash,
     AnswerServerError, CommitOffline, CommitClean, LoseRequest, End, LockingOps
<1>5. ASSUME NEW x \in Session,
             SetAside(x) \/ LockSettled(x) \/ LockPayable(x) \/ CancelUnheld(x)
      PROVE  \E t : t.event = txn[x].event /\ Become(x, t)
  BY <1>5 DEF SetAside, LockSettled, LockPayable, CancelUnheld
<1> QED BY <1>1, <1>3, <1>4, <1>5, TxnWriters DEF Become

LEMMA RequestsLeaveSweeps ==
  ASSUME NEW s \in Session, Request(s) \/ Progress(s) \/ LoseRequest(s)
  PROVE  UNCHANGED staleSweep
BY DEF Request, SalesRequest, BookingRequest, WebhookRequest, OfflineRequest,
   PayRequest, DeskRequest, RoomRequest, RequestHold, RequestBooking,
   ReceiveEvent, RequestOffline, Pay, RequestCheckIn, RequestCheckOut,
   RequestClean, Progress, BookingProgress, DeskProgress, WebhookProgress,
   CommitHold, DropDeadHold, CheckOverlap, InsertBooking, CommitCheckIn,
   CommitCheckOut, PayReturns, SetAside, LockSettled, LockMismatch, LockPayable,
   RecordEvent, CancelUnheld, ConfirmOnline, FlushClash, AnswerServerError,
   CommitOffline, CommitClean, LoseRequest, sweeps

\* The sweep flushes no booking a webhook has locked.
LEMMA FlushedStep ==
  ASSUME TypeInv, [Next]_vars, NEW b \in staleSweep'.flushed
  PROVE  b \in staleSweep.flushed \/ (~LockedBySession(b) /\ UNCHANGED <<txn, sent>>)
<1>1. CASE UNCHANGED staleSweep
  BY <1>1
<1>2. ASSUME NEW c \in BookingId, VisitStale(c)
      PROVE  b \in staleSweep.flushed \/ (~LockedBySession(b) /\ UNCHANGED <<txn, sent>>)
  BY <1>2 DEF VisitStale
<1>3. CASE staleSweep'.flushed = {}
  BY <1>3
<1>4. CASE FindStaleBookings \/ CommitStaleSweep \/ LoseStaleSweep
  BY <1>3, <1>4 DEF FindStaleBookings, CommitStaleSweep, LoseStaleSweep, NoSweep
<1>5. ASSUME NEW s \in Session, Request(s) \/ Progress(s) \/ LoseRequest(s)
      PROVE  UNCHANGED staleSweep
  BY <1>5, RequestsLeaveSweeps
<1> QED
  BY <1>1, <1>2, <1>4, <1>5
  DEF Next, SteadyNext, SystemStep, Failure, LoseSweep, LoseHoldSweep, SweepStep,
      ProviderStep, ProviderSends, Tick, FindExpiredHolds, DeleteExpiredHolds,
      vars, sweeps

----------------------------------------------------------------------------
(* The invariant.                                                          *)

\* The reference of an event that is there does not change.
LEMMA EventOfTxn ==
  ASSUME TypeInv, [Next]_vars, NEW s \in Session, txn[s].op \in EventOps
  PROVE  /\ txn[s].event \in Event
         /\ sent[txn[s].event] # NoBooking
         /\ sent'[txn[s].event] = sent[txn[s].event]
<1>1. txn[s] \in Txn /\ TxnRefers(txn[s])
  BY DEF TypeInv, TypeOK, References
<1> QED BY <1>1, TxnFields, EventsKept DEF TxnRefers

LEMMA SettledStays ==
  ASSUME TypeInv, [Next]_vars, NEW e \in Event, sent[e] # NoBooking, Settled(e)
  PROVE  Settled(e)'
<1>1. sent'[e] = sent[e]
  BY EventsKept
<1>2. CASE sent[e] \in BookingId
  <2>1. Exists(sent[e])
    BY <1>2 DEF TypeInv, References
  <2> QED BY <1>1, <1>2, <2>1, NotReopened DEF Settled, HasStatus
<1>3. CASE sent[e] = UnknownRef
  BY <1>1, <1>3 DEF Settled
<1> QED BY <1>2, <1>3 DEF TypeInv, TypeOK

LEMMA LockExclusiveStep ==
  ASSUME TypeInv, LockExclusive, [Next]_vars
  PROVE  LockExclusive'
<1> DEFINE ref(s) == sent[txn[s].event]
           Locking(s) == txn[s].op \in LockingOps
<1>1. ASSUME NEW s \in Session, Locking(s)', txn'[s] = txn[s]
      PROVE  Locking(s) /\ ref(s)' = ref(s)
  BY <1>1, EventOfTxn DEF EventOps
<1>2. ASSUME NEW s \in Session, Locking(s)', txn'[s] # txn[s]
      PROVE  /\ Unlocked(ref(s)) /\ ref(s)' = ref(s)
             /\ UNCHANGED <<sent, staleSweep>>
             /\ \A t \in Session \ {s} : txn'[t] = txn[t]
  <2>1. /\ LockSettled(s) \/ LockPayable(s)
        /\ txn'[s].event = txn[s].event
        /\ \A t \in Session \ {s} : txn'[t] = txn[t]
    <3>1. ~SetAside(s) /\ ~CancelUnheld(s)
      BY <1>2 DEF SetAside, CancelUnheld, LockingOps, Become, TypeInv, TypeOK
    <3> QED BY <1>2, <3>1, EventTxnStep
  <2> QED BY <2>1 DEF LockSettled, LockPayable, CanLock, sweeps
<1>3. ASSUME NEW s \in Session, Locking(s)'
      PROVE  ref(s)' \notin staleSweep'.flushed
  <2>1. CASE txn'[s] = txn[s]
    BY <1>1, <1>3, <2>1, FlushedStep DEF LockExclusive, LockedBySession
  <2>2. CASE txn'[s] # txn[s]
    BY <1>2, <1>3, <2>2 DEF Unlocked
  <2> QED BY <2>1, <2>2
<1>4. ASSUME NEW s \in Session, NEW t \in Session \ {s}, Locking(s)', Locking(t)'
      PROVE  ref(t)' # ref(s)'
  <2>1. CASE txn'[s] = txn[s] /\ txn'[t] = txn[t]
    BY <1>1, <1>4, <2>1 DEF LockExclusive
  <2>2. CASE txn'[s] # txn[s]
    BY <1>1, <1>2, <1>4, <2>2 DEF Unlocked, LockedBySession
  <2>3. CASE txn'[t] # txn[t]
    BY <1>1, <1>2, <1>4, <2>3 DEF Unlocked, LockedBySession
  <2> QED BY <2>1, <2>2, <2>3
<1> QED BY <1>3, <1>4 DEF LockExclusive

\* Where a step records an event.
LEMMA NewlyProcessed ==
  ASSUME [Next]_vars, NEW e \in processedEvents', e \notin processedEvents
  PROVE  \E s \in Session : /\ RecordEvent(s) \/ ConfirmOnline(s)
                            /\ txn[s].event = e
<1>1. CASE UNCHANGED processedEvents
  BY <1>1
<1>2. ASSUME NEW s \in Session, Request(s) \/ LoseRequest(s)
      PROVE  UNCHANGED processedEvents
  BY <1>2 DEF Request, SalesRequest, BookingRequest, WebhookRequest, OfflineRequest,
     PayRequest, DeskRequest, RoomRequest, RequestHold, RequestBooking,
     ReceiveEvent, RequestOffline, Pay, RequestCheckIn, RequestCheckOut,
     RequestClean, LoseRequest, tables
<1>3. ASSUME NEW s \in Session, Progress(s), ~RecordEvent(s), ~ConfirmOnline(s)
      PROVE  UNCHANGED processedEvents
  BY <1>3 DEF Progress, BookingProgress, DeskProgress, WebhookProgress, CommitHold,
     DropDeadHold, CheckOverlap, InsertBooking, CommitCheckIn, CommitCheckOut,
     PayReturns, SetAside, LockSettled, LockMismatch, LockPayable, CancelUnheld,
     FlushClash, AnswerServerError, CommitOffline, CommitClean, tables
<1>4. ASSUME NEW s \in Session, RecordEvent(s) \/ ConfirmOnline(s)
      PROVE  txn[s].event = e
  BY <1>4 DEF RecordEvent, ConfirmOnline
<1>5. CASE SystemStep \/ LoseSweep
  BY <1>5 DEF SystemStep, LoseSweep, LoseHoldSweep, LoseStaleSweep, SweepStep,
     ProviderStep, ProviderSends, Tick, FindExpiredHolds, DeleteExpiredHolds,
     FindStaleBookings, VisitStale, CommitStaleSweep, tables
<1> QED
  BY <1>1, <1>2, <1>3, <1>4, <1>5 DEF Next, SteadyNext, Failure, vars, tables

LEMMA DecisionStep ==
  ASSUME TypeInv, LockInv, [Next]_vars
  PROVE  DecisionStands'
<1> SUFFICES ASSUME NEW s \in Session, txn'[s].op \in {"confirm", "cancel"},
                    NEW e, e = txn'[s].event, NEW b, b = sent'[e]
             PROVE  /\ EventKind[e] = "succeeded"
                    /\ HasStatus(b, "processing")'
                    /\ e \notin processedEvents'
  BY DEF DecisionStands, HasStatus, Exists
<1>1. CASE txn'[s] = txn[s]
  <2>1. txn[s].op \in LockingOps /\ txn[s].op \in EventOps /\ txn[s].event = e
    BY <1>1 DEF LockingOps, EventOps
  <2>2. e \in Event /\ sent[e] = b /\ b \in BookingId
    BY <2>1, EventOfTxn, Written
  <2>3. /\ EventKind[e] = "succeeded"
        /\ HasStatus(b, "processing")
        /\ e \notin processedEvents
    BY <1>1, <2>1, <2>2 DEF LockInv, DecisionStands
  <2>4. ~CancelUnheld(s) /\ ~ConfirmOnline(s)
    BY <1>1 DEF CancelUnheld, ConfirmOnline, End, Become, Idle, TypeInv, TypeOK
  <2>5. HasStatus(b, "processing")'
    BY <2>1, <2>2, <2>3, <2>4, LockedKept DEF LockInv, HasStatus, Exists
  <2>6. e \notin processedEvents'
    <3>1. ASSUME NEW t \in Session, RecordEvent(t)
          PROVE  txn[t].event # e
      <4>1. Settled(txn[t].event)
        BY <3>1 DEF RecordEvent, LockInv, RecordsSettled
      <4> QED BY <2>2, <2>3, <4>1, SentinelAssumption DEF Settled
    <3>2. ASSUME NEW t \in Session, ConfirmOnline(t)
          PROVE  txn[t].event # e
      <4>1. t # s /\ txn[t].op \in LockingOps
        BY <2>4, <3>2 DEF ConfirmOnline, LockingOps
      <4> QED BY <2>1, <4>1 DEF LockInv, LockExclusive
    <3> QED BY <2>3, <3>1, <3>2, NewlyProcessed
  <2> QED BY <2>3, <2>5, <2>6
<1>2. CASE txn'[s] # txn[s]
  <2>1. LockPayable(s) /\ txn[s].event = e
    <3>1. ~SetAside(s) /\ ~LockSettled(s) /\ ~CancelUnheld(s)
      BY DEF SetAside, LockSettled, CancelUnheld, Become, TypeInv, TypeOK
    <3> QED BY <1>2, <3>1, EventTxnStep DEF LockingOps
  <2>2. /\ EventKind[e] = "succeeded"
        /\ HasStatus(b, "processing")
        /\ sent[e] = b /\ sent[e] # UnknownRef
        /\ UNCHANGED <<bookings, processedEvents>>
    BY <2>1 DEF LockPayable, CanLock, tables
  <2>3. e \notin processedEvents
    BY <2>2 DEF LockInv, RecordsSettled, Settled
  <2> QED BY <2>2, <2>3 DEF HasStatus, Exists
<1> QED BY <1>1, <1>2

\* After a booking is cancelled or confirmed, its events are settled.
LEMMA ClosedSettles ==
  ASSUME TypeInv, NEW e, UNCHANGED sent, sent[e] \in BookingId, Exists(sent[e]),
         NEW status \in Status \ {"processing"}, SetStatus(sent[e], status)
  PROVE  Settled(e)'
<1>1. bookings'[sent[e]].status = status
  BY SetStatusFrame DEF TypeInv
<1> QED BY <1>1 DEF Settled, HasStatus

LEMMA RecordsStep ==
  ASSUME TypeInv, LockInv, [Next]_vars
  PROVE  RecordsSettled'
<1>1. ASSUME NEW s \in Session, txn'[s].op \in {"record", "duplicate"},
             NEW e, e = txn'[s].event
      PROVE  Settled(e)'
  <2>1. CASE txn'[s] = txn[s]
    <3>1. /\ txn[s].event = e /\ txn[s].op \in EventOps
          /\ txn[s].op \in {"record", "duplicate"}
      BY <1>1, <2>1 DEF EventOps, LockingOps
    <3>2. Settled(e)
      BY <3>1 DEF LockInv, RecordsSettled
    <3> QED BY <3>1, <3>2, EventOfTxn, SettledStays
  <2>2. CASE txn'[s] # txn[s]
    <3>1. /\ SetAside(s) \/ LockSettled(s) \/ LockPayable(s) \/ CancelUnheld(s)
          /\ txn[s].event = e
      BY <1>1, <2>2, EventTxnStep DEF LockingOps
    <3>2. CASE SetAside(s) \/ LockSettled(s)
      <4>1. Settled(e) /\ UNCHANGED <<sent, bookings>>
        BY <3>1, <3>2 DEF SetAside, LockSettled, Settled, tables
      <4> QED BY <4>1 DEF Settled, HasStatus, Exists
    <3>3. CASE LockPayable(s)
      BY <1>1, <3>3 DEF LockPayable, Become, TypeInv, TypeOK
    <3>4. CASE CancelUnheld(s)
      <4>1. /\ sent[e] \in BookingId /\ Exists(sent[e])
            /\ "cancelled" \in Status \ {"processing"}
            /\ SetStatus(sent[e], "cancelled")
            /\ UNCHANGED sent
        BY <3>1, <3>4, Written DEF CancelUnheld, Status, LockingOps
      <4> QED BY <4>1, ClosedSettles
    <3> QED BY <3>1, <3>2, <3>3, <3>4
  <2> QED BY <2>1, <2>2
<1>2. ASSUME NEW e \in processedEvents'
      PROVE  sent'[e] # NoBooking /\ Settled(e)'
  <2>1. CASE e \in processedEvents
    <3>1. e \in Event /\ sent[e] # NoBooking /\ Settled(e)
      BY <2>1 DEF LockInv, RecordsSettled, TypeInv, TypeOK
    <3> QED BY <3>1, SettledStays, EventsKept
  <2>2. ASSUME NEW s \in Session, RecordEvent(s), txn[s].event = e
        PROVE  sent'[e] # NoBooking /\ Settled(e)'
    <3>1. /\ txn[s].op \in EventOps
          /\ Settled(txn[s].event)
      BY <2>2 DEF RecordEvent, EventOps, LockingOps, LockInv, RecordsSettled
    <3>2. Settled(e)
      BY <2>2, <3>1 DEF Settled
    <3> QED BY <2>2, <3>1, <3>2, EventOfTxn, SettledStays
  <2>3. ASSUME NEW s \in Session, ConfirmOnline(s), txn[s].event = e
        PROVE  sent'[e] # NoBooking /\ Settled(e)'
    <3>1. /\ sent[e] \in BookingId /\ Exists(sent[e])
          /\ "confirmed" \in Status \ {"processing"}
          /\ SetStatus(sent[e], "confirmed")
          /\ UNCHANGED sent
      BY <2>3, Written DEF ConfirmOnline, Confirm, Status, LockingOps
    <3> QED BY <3>1, ClosedSettles, SentinelAssumption
  <2> QED BY <2>1, <2>2, <2>3, NewlyProcessed
<1>3. \A s \in Session : txn'[s].op \in {"record", "duplicate"} =>
        Settled(txn[s].event)'
  BY <1>1 DEF Settled, HasStatus, Exists
<1> QED BY <1>2, <1>3 DEF RecordsSettled

\* A sale leaves no booking processing, and nothing else takes money.
LEMMA UnpaidStep ==
  ASSUME TypeInv, MoneyMatchesNights, LockInv, [Next]_vars
  PROVE  ProcessingUnpaid'
<1> SUFFICES ASSUME NEW b \in BookingId, HasStatus(b, "processing")'
             PROVE  ~Paid(b)'
  BY DEF ProcessingUnpaid
<1>1. ~Paid(b)
  <2>1. CASE Exists(b)
    BY <2>1, NotReopened DEF LockInv, ProcessingUnpaid
  <2>2. CASE ~Exists(b)
    BY <2>2 DEF MoneyMatchesNights, Sold
  <2> QED BY <2>1, <2>2
<1>2. CASE UNCHANGED payments
  BY <1>1, <1>2 DEF Paid
<1>3. ASSUME NEW c \in BookingId, NEW means \in Event \cup {Offline}, Sale(c, means)
      PROVE  ~Paid(b)'
  <2>1. CASE b = c
    <3>1. "confirmed" \in Status /\ Exists(c) /\ SetStatus(c, "confirmed")
      BY <1>3 DEF Sale, Confirm, Status
    <3>2. bookings'[c].status = "confirmed"
      BY <3>1, SetStatusFrame DEF TypeInv
    <3> QED BY <2>1, <3>2 DEF HasStatus
  <2>2. CASE b # c
    BY <1>1, <1>3, <2>2 DEF Sale, Confirm, Paid, TypeInv, TypeOK
  <2> QED BY <2>1, <2>2
<1> QED BY <1>2, <1>3, SaleFrame DEF SomeSale

LEMMA LockInvariant == Spec => []LockInv
<1>1. Init => LockInv
  BY DEF Init, LockInv, LockExclusive, DecisionStands, RecordsSettled,
         ProcessingUnpaid, HasStatus, Exists, Idle, LockingOps
<1>2. TypeInv /\ MoneyMatchesNights /\ LockInv /\ [Next]_vars => LockInv'
  BY LockExclusiveStep, DecisionStep, RecordsStep, UnpaidStep DEF LockInv
<1> QED BY <1>1, <1>2, TypeInvariant, MoneyBacked, PTL DEF Spec

\* Deciding under SELECT ... FOR UPDATE is sound: until the webhook commits, its
\* booking awaits payment, its event is unrecorded, and nobody else owns the row.
THEOREM LockedDecisions == Spec => []LockedDecisionStands
<1>1. TypeInv /\ LockInv => LockedDecisionStands
  <2> SUFFICES ASSUME TypeInv, LockInv, NEW s \in Session,
                      txn[s].op \in {"confirm", "cancel"}
               PROVE  LET e == txn[s].event
                          b == sent[e]
                      IN /\ HasStatus(b, "processing")
                         /\ ~Paid(b)
                         /\ e \notin processedEvents
                         /\ b \notin staleSweep.flushed
                         /\ \A t \in Session \ {s} :
                              txn[t].op \in LockingOps => sent[txn[t].event] # b
    BY DEF LockedDecisionStands
  <2>1. txn[s].op \in LockingOps
    BY DEF LockingOps
  <2>2. sent[txn[s].event] \in BookingId
    BY <2>1, Written
  <2> QED
    BY <2>1, <2>2 DEF LockInv, LockExclusive, DecisionStands, ProcessingUnpaid
<1> QED BY <1>1, TypeInvariant, LockInvariant, PTL

\* However often, late or at once an event is delivered, it is recorded only when
\* it cannot confirm its booking any more, and the event that paid is recorded.
THEOREM RecordedSettled == Spec => []RecordedEventsSettled
<1>1. LockInv /\ PaidByOwnEvent => RecordedEventsSettled
  BY DEF LockInv, RecordsSettled, Settled, PaidByOwnEvent, RecordedEventsSettled
<1> QED BY <1>1, LockInvariant, PaidByOwnEventInvariant, PTL

----------------------------------------------------------------------------
(* The life of a booking.  What a request or the sweep asks for was in order *)
(* when it was asked; what has become of the booking by the time it is     *)
(* written is bounded by what the request carries.                         *)

\* Whoever is to be checked out has been checked in, and is not confirmed again.
CheckOutsArrived ==
  \A s \in Session : txn[s].op = "checkOut" =>
    bookings[txn[s].booking].status \in {"checked_in", "completed", "cancelled"}

LifeInv ==
  /\ TypeInv /\ MoneyMatchesNights
  /\ StayInv /\ DateInv /\ LockInv
  /\ CheckOutsArrived

\* A stay that is paid for is not confirmed a second time.
LEMMA NotReconfirmed ==
  ASSUME LifeInv, [Next]_vars, NEW b \in BookingId, Sold(b),
         HasStatus(b, "confirmed")'
  PROVE  HasStatus(b, "confirmed")
<1>1. TypeInv /\ TypeOK /\ References /\ Exists(b)
  BY DEF LifeInv, TypeInv, Sold
<1>2. CASE UNCHANGED <<bookings, roomNights, payments>>
  BY <1>2 DEF HasStatus, Exists
<1>3. CASE CommitStaleSweep
  BY <1>1, <1>3, SweepFrame DEF HasStatus, Exists
<1>4. ASSUME NEW s \in Session, InsertBooking(s)
      PROVE  HasStatus(b, "confirmed")
  BY <1>1, <1>4 DEF InsertBooking, HasStatus, Exists, TypeOK
<1>5. ASSUME NEW c \in BookingId, NEW status \in Status,
             Exists(c), SetStatus(c, status), status # "confirmed" \/ c # b
      PROVE  HasStatus(b, "confirmed")
  BY <1>1, <1>5, SetStatusFrame DEF HasStatus, Exists
<1>6. ASSUME NEW s \in Session,
             CommitCheckIn(s) \/ CommitCheckOut(s) \/ CancelUnheld(s)
      PROVE  HasStatus(b, "confirmed")
  BY <1>1, <1>5, <1>6, Written
  DEF CommitCheckIn, CommitCheckOut, CancelUnheld, Status, LockingOps
<1>7. ASSUME NEW s \in Session, ConfirmOnline(s)
      PROVE  HasStatus(b, "confirmed")
  BY <1>1, <1>5, <1>7, Written
  DEF ConfirmOnline, Confirm, CanConfirm, Status, LockingOps, Sold, Paid
<1>8. ASSUME NEW s \in Session, CommitOffline(s)
      PROVE  HasStatus(b, "confirmed")
  BY <1>1, <1>2, <1>5, <1>8, Written
  DEF CommitOffline, Confirm, CanConfirm, Status, Sold, Paid
<1> QED BY <1>2, <1>3, <1>4, <1>6, <1>7, <1>8, BookingWriters

\* The sweep is asked only for what awaits payment, and visits only that.
LEMMA SweptAsked ==
  ASSUME [Next]_vars, NEW b \in staleSweep'.todo \cup staleSweep'.done
  PROVE  b \in staleSweep.todo \cup staleSweep.done \/ HasStatus(b, "processing")
<1>1. CASE UNCHANGED staleSweep
  BY <1>1
<1>2. ASSUME NEW c \in BookingId, VisitStale(c)
      PROVE  b \in staleSweep.todo \cup staleSweep.done
  BY <1>2 DEF VisitStale
<1>3. CASE FindStaleBookings
  <2>1. staleSweep'.todo = {c \in BookingId : Stale(c)} /\ staleSweep'.done = {}
    BY <1>3 DEF FindStaleBookings, NoSweep
  <2> QED BY <2>1 DEF Stale
<1>4. CASE CommitStaleSweep \/ LoseStaleSweep
  BY <1>4 DEF CommitStaleSweep, LoseStaleSweep, NoSweep
<1>5. ASSUME NEW s \in Session, Request(s) \/ Progress(s) \/ LoseRequest(s)
      PROVE  UNCHANGED staleSweep
  BY <1>5, RequestsLeaveSweeps
<1> QED
  BY <1>1, <1>2, <1>3, <1>4, <1>5
  DEF Next, SteadyNext, SystemStep, Failure, LoseSweep, LoseHoldSweep, SweepStep,
      ProviderStep, ProviderSends, Tick, FindExpiredHolds, DeleteExpiredHolds,
      vars, sweeps

\* A step is asked for while the booking is in order for it, and on its day.
LEMMA AskedStep ==
  ASSUME TypeInv, [Next]_vars, NEW b \in BookingId
  PROVE  AskedFor(b)' \subseteq AskedFor(b) \cup Life(b)!MayAsk
<1> SUFFICES ASSUME NEW op \in AskedFor(b)'
             PROVE  op \in AskedFor(b) \cup Life(b)!MayAsk
  OBVIOUS
<1>1. ASSUME NEW s \in Session, txn'[s].op = op, txn'[s].booking = b,
             op \in {"offline", "checkIn", "checkOut"}
      PROVE  op \in AskedFor(b) \cup Life(b)!MayAsk
  <2>1. CASE txn'[s] = txn[s]
    BY <1>1, <2>1 DEF AskedFor
  <2>2. CASE txn'[s] # txn[s]
    BY <1>1, <2>2, AskedInOrder DEF InOrder, HasStatus, Life!MayAsk
  <2> QED BY <2>1, <2>2
<1>2. ASSUME op = "sweep", b \in staleSweep'.todo \cup staleSweep'.done
      PROVE  op \in AskedFor(b) \cup Life(b)!MayAsk
  BY <1>2, SweptAsked DEF AskedFor, HasStatus, Life!MayAsk
<1> QED BY <1>1, <1>2 DEF AskedFor

LEMMA ArrivedStep ==
  ASSUME LifeInv, [Next]_vars
  PROVE  CheckOutsArrived'
<1> SUFFICES ASSUME NEW s \in Session, txn'[s].op = "checkOut",
                    NEW b, b = txn'[s].booking
             PROVE  bookings'[b].status \in {"checked_in", "completed", "cancelled"}
  BY DEF CheckOutsArrived
<1>1. TypeInv /\ StaysKept
  BY SaleFrame DEF LifeInv
<1>2. b \in BookingId /\ Sold(b) /\ ~HasStatus(b, "confirmed")
  <2>1. CASE txn'[s] = txn[s]
    BY <1>1, <2>1, Written
    DEF LifeInv, StayInv, CarriesSold, CheckOutsArrived, HasStatus
  <2>2. CASE txn'[s] # txn[s]
    <3>1. b \in BookingId /\ HasStatus(b, "checked_in")
      BY <1>1, <2>2, CarriedStep, AskedInOrder DEF InOrder
    <3> QED BY <3>1 DEF LifeInv, StayInv, StayBacked, SoldStatus, HasStatus
  <2> QED BY <2>1, <2>2
<1>3. ~HasStatus(b, "processing") /\ Exists(b) /\ Exists(b)'
  BY <1>1, <1>2 DEF LifeInv, LockInv, ProcessingUnpaid, Sold, StaysKept
<1>4. ~HasStatus(b, "processing")' /\ ~HasStatus(b, "confirmed")'
  BY <1>1, <1>2, <1>3, NotReopened, NotReconfirmed
<1>5. TypeOK'
  BY <1>1, StepType DEF TypeInv
<1> QED BY <1>2, <1>3, <1>4, <1>5 DEF HasStatus, Exists, TypeOK, Booking, Status

LEMMA LifeInvariant == Spec => []LifeInv
<1>1. Init => CheckOutsArrived
  BY DEF Init, CheckOutsArrived, Idle
<1>2. /\ TypeInv /\ MoneyMatchesNights /\ StayInv /\ DateInv /\ LockInv
      /\ CheckOutsArrived /\ [Next]_vars
      => CheckOutsArrived'
  BY ArrivedStep DEF LifeInv
<1>3. Spec => []CheckOutsArrived
  BY <1>1, <1>2, TypeInvariant, MoneyBacked, StayInvariant, DateInvariant,
     LockInvariant, PTL DEF Spec
<1>4. /\ TypeInv /\ MoneyMatchesNights /\ StayInv /\ DateInv /\ LockInv
      /\ CheckOutsArrived
      => LifeInv
  BY DEF LifeInv
<1> QED BY <1>3, <1>4, TypeInvariant, MoneyBacked, StayInvariant, DateInvariant,
           LockInvariant, PTL

----------------------------------------------------------------------------
(* The steps of a life.                                                    *)

LEMMA LeftAlone ==
  ASSUME NEW b \in BookingId, bookings'[b] = bookings[b], payments'[b] = payments[b]
  PROVE  Life(b)!Bide
BY DEF Life!Bide, Exists, Paid

\* A status that is written changes nothing else of its booking.
LEMMA Rewritten ==
  ASSUME TypeOK, NEW b \in BookingId, Exists(b), NEW status \in Status,
         SetStatus(b, status)
  PROVE  /\ Exists(b)'
         /\ bookings'[b].status = status
         /\ bookings'[b].checkIn = bookings[b].checkIn
         /\ bookings'[b].checkOut = bookings[b].checkOut
         /\ \A c \in BookingId \ {b} : bookings'[c] = bookings[c]
BY SetStatusFrame DEF StaysKept

LEMMA SaleIsPay ==
  ASSUME LifeInv, NEW b \in BookingId, Exists(b), CanConfirm(b),
         NEW means \in Event \cup {Offline}, Confirm(b, means),
         \/ HasStatus(b, "processing")
         \/ "offline" \in AskedFor(b)
  PROVE  /\ Life(b)!Pay
         /\ \A c \in BookingId \ {b} : Life(c)!Bide
<1>1. TypeOK /\ "confirmed" \in Status /\ SetStatus(b, "confirmed")
  BY DEF LifeInv, TypeInv, Confirm, Status
<1>2. payments' = [payments EXCEPT ![b] = means] /\ means # NoPayment
  BY SentinelAssumption DEF Confirm
<1>3. ~Paid(b) /\ Paid(b)' /\ \A c \in BookingId \ {b} : payments'[c] = payments[c]
  BY <1>1, <1>2 DEF CanConfirm, Paid, TypeOK
<1>4. bookings[b].status \in {"processing", "cancelled"}
  <2>1. bookings[b].status \notin SoldStatus
    BY <1>3 DEF LifeInv, StayInv, StayBacked, Sold
  <2> QED BY <1>1, <2>1 DEF SoldStatus, TypeOK, Exists, Booking, Status
<1>5. Life(b)!Pay
  BY <1>1, <1>3, <1>4, Rewritten DEF Life!Pay, Exists, HasStatus
<1>6. \A c \in BookingId \ {b} : Life(c)!Bide
  BY <1>1, <1>3, Rewritten, LeftAlone
<1> QED BY <1>5, <1>6

LEMMA LifeMoves ==
  ASSUME LifeInv, [Next]_vars, NEW b \in BookingId
  PROVE  \/ Life(b)!Make \/ Life(b)!Pay \/ Life(b)!Cancel
         \/ Life(b)!CheckIn \/ Life(b)!CheckOut \/ Life(b)!Bide
<1>1. TypeInv /\ TypeOK /\ References
  BY DEF LifeInv, TypeInv
<1>2. CASE UNCHANGED <<bookings, roomNights, payments>>
  BY <1>2, LeftAlone
<1>3. CASE CommitStaleSweep
  <2>1. UNCHANGED payments
    BY <1>3 DEF CommitStaleSweep
  <2>2. CASE b \in staleSweep.done
    <3>1. Exists(b) /\ Exists(b)' /\ "sweep" \in AskedFor(b)
      BY <1>1, <1>3, <2>2, SweepFrame DEF AskedFor, References
    <3>2. /\ bookings'[b].status = "cancelled"
          /\ bookings'[b].checkIn = bookings[b].checkIn
          /\ bookings'[b].checkOut = bookings[b].checkOut
          /\ bookings[b].status # "none"
      BY <1>1, <1>3, <2>2, <3>1, SweepFrame
      DEF StaysKept, TypeOK, Exists, Booking, Status
    <3>3. Life(b)!Cancel
      BY <2>1, <3>1, <3>2 DEF Life!Cancel, Exists, Paid
    <3> QED BY <3>3
  <2>3. CASE b \notin staleSweep.done
    BY <1>1, <1>3, <2>1, <2>3, SweepFrame, LeftAlone
  <2> QED BY <2>2, <2>3
<1>4. ASSUME NEW s \in Session, InsertBooking(s)
      PROVE  Life(b)!Make \/ Life(b)!Bide
  <2>1. /\ UNCHANGED payments
        /\ txn[s].row \in Booking /\ txn[s].row.status = "processing"
        /\ txn[s].row.checkIn < txn[s].row.checkOut
    BY <1>1, <1>4, TxnFields DEF InsertBooking, References, TxnRefers, TypeOK
  <2>2. PICK c \in BookingId :
          ~Exists(c) /\ bookings' = [bookings EXCEPT ![c] = txn[s].row]
    BY <1>4 DEF InsertBooking
  <2>3. CASE c = b
    <3>1. ~Paid(b) /\ ~Paid(b)'
      BY <2>1, <2>2, <2>3 DEF LifeInv, MoneyMatchesNights, Sold, Paid
    <3>2. bookings'[b] = txn[s].row /\ Exists(b)'
      BY <1>1, <2>1, <2>2, <2>3, SentinelAssumption DEF TypeOK, Exists
    <3>3. Life(b)!Make
      BY <2>1, <2>2, <2>3, <3>1, <3>2 DEF Life!Make, Exists, Paid
    <3> QED BY <3>3
  <2>4. CASE c # b
    BY <1>1, <2>1, <2>2, <2>4, LeftAlone DEF TypeOK
  <2> QED BY <2>3, <2>4
<1>5. ASSUME NEW s \in Session, CommitCheckIn(s)
      PROVE  Life(b)!CheckIn \/ Life(b)!Bide
  <2> DEFINE c == txn[s].booking
  <2>1. /\ c \in BookingId /\ Exists(c) /\ UNCHANGED payments
        /\ "checked_in" \in Status /\ SetStatus(c, "checked_in")
    BY <1>1, <1>5, Written DEF CommitCheckIn, Status
  <2>2. CASE c # b
    BY <1>1, <2>1, <2>2, Rewritten, LeftAlone
  <2>3. CASE c = b
    <3>1. "checkIn" \in AskedFor(b)
      BY <1>5, <2>3 DEF CommitCheckIn, AskedFor
    <3>2. Paid(b) /\ bookings[b].checkIn <= Today /\ ~HasStatus(b, "processing")
      BY <1>5, <2>3
      DEF CommitCheckIn, LifeInv, StayInv, CarriesSold, Sold, DateInv, CarriesDates,
          LockInv, ProcessingUnpaid
    <3>3. bookings[b].status \in {"confirmed", "checked_in", "completed", "cancelled"}
      BY <1>1, <2>1, <2>3, <3>2 DEF TypeOK, HasStatus, Exists, Booking, Status
    <3>4. /\ Exists(b) /\ Exists(b)' /\ bookings'[b].status = "checked_in"
          /\ bookings'[b].checkIn = bookings[b].checkIn
          /\ bookings'[b].checkOut = bookings[b].checkOut
      BY <1>1, <2>1, <2>3, Rewritten
    <3> QED
      BY <2>1, <3>1, <3>2, <3>3, <3>4 DEF Life!CheckIn, Life!Bide, Exists, Paid
  <2> QED BY <2>2, <2>3
<1>6. ASSUME NEW s \in Session, CommitCheckOut(s)
      PROVE  Life(b)!CheckOut \/ Life(b)!Bide
  <2> DEFINE c == txn[s].booking
  <2>1. /\ c \in BookingId /\ Exists(c) /\ UNCHANGED payments
        /\ "completed" \in Status /\ SetStatus(c, "completed")
    BY <1>1, <1>6, Written DEF CommitCheckOut, Status
  <2>2. CASE c # b
    BY <1>1, <2>1, <2>2, Rewritten, LeftAlone
  <2>3. CASE c = b
    <3>1. "checkOut" \in AskedFor(b)
      BY <1>6, <2>3 DEF CommitCheckOut, AskedFor
    <3>2. /\ Paid(b) /\ bookings[b].checkOut <= Today
          /\ bookings[b].status \in {"checked_in", "completed", "cancelled"}
      BY <1>6, <2>3
      DEF CommitCheckOut, LifeInv, StayInv, CarriesSold, Sold, DateInv, CarriesDates,
          CheckOutsArrived
    <3>3. /\ Exists(b) /\ Exists(b)' /\ bookings'[b].status = "completed"
          /\ bookings'[b].checkIn = bookings[b].checkIn
          /\ bookings'[b].checkOut = bookings[b].checkOut
      BY <1>1, <2>1, <2>3, Rewritten
    <3> QED BY <2>1, <3>1, <3>2, <3>3 DEF Life!CheckOut, Life!Bide, Exists, Paid
  <2> QED BY <2>2, <2>3
<1>7. ASSUME NEW s \in Session, CancelUnheld(s)
      PROVE  Life(b)!Cancel \/ Life(b)!Bide
  <2> DEFINE c == sent[txn[s].event]
  <2>1. /\ c \in BookingId /\ Exists(c) /\ UNCHANGED payments
        /\ "cancelled" \in Status /\ SetStatus(c, "cancelled")
    BY <1>1, <1>7, Written DEF CancelUnheld, Status, LockingOps
  <2>2. CASE c # b
    BY <1>1, <2>1, <2>2, Rewritten, LeftAlone
  <2>3. CASE c = b
    <3>1. HasStatus(b, "processing") /\ ~Paid(b)
      BY <1>7, <2>1, <2>3
      DEF CancelUnheld, LifeInv, LockInv, DecisionStands, ProcessingUnpaid
    <3>2. /\ Exists(b)' /\ bookings'[b].status = "cancelled"
          /\ bookings'[b].checkIn = bookings[b].checkIn
          /\ bookings'[b].checkOut = bookings[b].checkOut
      BY <1>1, <2>1, <2>3, Rewritten
    <3> QED BY <2>1, <3>1, <3>2 DEF Life!Cancel, HasStatus, Exists, Paid
  <2> QED BY <2>2, <2>3
<1>8. ASSUME NEW s \in Session, ConfirmOnline(s)
      PROVE  Life(b)!Pay \/ Life(b)!Bide
  <2> DEFINE e == txn[s].event
             c == sent[e]
  <2>1. e \in Event /\ c \in BookingId /\ Exists(c)
    BY <1>1, <1>8, Written DEF ConfirmOnline, LockingOps
  <2>2. CanConfirm(c) /\ Confirm(c, e) /\ HasStatus(c, "processing")
    BY <1>8 DEF ConfirmOnline, LifeInv, LockInv, DecisionStands
  <2> QED BY <2>1, <2>2, SaleIsPay
<1>9. ASSUME NEW s \in Session, CommitOffline(s)
      PROVE  Life(b)!Pay \/ Life(b)!Bide
  <2> DEFINE c == txn[s].booking
  <2>1. c \in BookingId /\ Exists(c) /\ "offline" \in AskedFor(c)
    BY <1>1, <1>9, Written DEF CommitOffline, AskedFor
  <2>2. CASE CanConfirm(c) /\ Confirm(c, Offline)
    BY <2>1, <2>2, SaleIsPay
  <2> QED BY <1>9, <2>2, LeftAlone DEF CommitOffline
<1> QED BY <1>2, <1>3, <1>4, <1>5, <1>6, <1>7, <1>8, <1>9, BookingWriters

\* Every booking lives the life of a stay, whatever races it: it leaves the order
\* only where a request or the sweep that read it in order writes late.
THEOREM ImplementsLife == Spec => LifeSpec
<1>1. Init => \A b \in BookingId : Life(b)!Init
  <2>1. now = 0 /\ DayLength \in Nat \ {0} => Today = 0
    BY DEF Today
  <2> QED
    BY <2>1, TimeAssumption
    DEF Init, Life!Init, Exists, Paid, AskedFor, Idle, NoSweep
<1>2. LifeInv /\ [Next]_vars => [\A b \in BookingId : Life(b)!Step]_vars
  <2> SUFFICES ASSUME LifeInv, [Next]_vars, NEW b \in BookingId
               PROVE  Life(b)!Step
    OBVIOUS
  <2>1. TypeInv
    BY DEF LifeInv
  <2> QED
    BY <2>1, LifeMoves, AskedStep, DayKept DEF Life!Step, Life!Next
<1> QED BY <1>1, <1>2, LifeInvariant, PTL DEF Spec, LifeSpec

----------------------------------------------------------------------------
(* The life of a hold.                                                      *)

\* The key of a hold is its room.
HoldsPlaced == \A r \in Room : holds[r] # NoHold => holds[r].room = r

LEMMA NothingElseHolds ==
  ASSUME NEW x \in Session,
         (Request(x) /\ ~BookingRequest(x)) \/ Progress(x) \/ LoseRequest(x)
  PROVE  \E t : t.op \notin {"hold", "dropHold"} /\ Become(x, t)
<1>1. CASE Request(x) /\ ~BookingRequest(x)
  BY <1>1 DEF Request, SalesRequest, WebhookRequest, OfflineRequest, PayRequest,
     DeskRequest, RoomRequest, ReceiveEvent, RequestOffline, Pay, RequestCheckIn,
     RequestCheckOut, RequestClean, Begin, Become
<1>2. CASE Progress(x) \/ LoseRequest(x)
  <2>1. Idle.op \notin {"hold", "dropHold"}
    BY DEF Idle
  <2> QED
    BY <1>2, <2>1
    DEF Progress, BookingProgress, DeskProgress, WebhookProgress, CommitHold,
       DropDeadHold, CheckOverlap, InsertBooking, CommitCheckIn, CommitCheckOut,
       PayReturns, SetAside, LockSettled, LockMismatch, LockPayable, RecordEvent,
       CancelUnheld, ConfirmOnline, FlushClash, AnswerServerError, CommitOffline,
       CommitClean, LoseRequest, End
<1> QED BY <1>1, <1>2

\* What a request that makes or deletes a hold has seen when it begins.
LEMMA HoldAsked ==
  ASSUME TypeInv, [Next]_vars, NEW s \in Session, txn'[s] # txn[s],
         txn'[s].op \in {"hold", "dropHold"}
  PROVE  \/ /\ txn'[s].op = "hold"
            /\ \E r \in Room, g \in Guest :
                 holds[r] = NoHold /\ txn'[s].row = NewHold(r, g)
         \/ /\ txn'[s].op = "dropHold"
            /\ \E r \in Room :
                 holds[r] # NoHold /\ Dead(holds[r]) /\ txn'[s].room = r
<1>1. txn \in [Session -> Txn]
  BY DEF TypeInv, TypeOK
<1>2. BookingRequest(s)
  <2>1. PICK x \in Session : Request(x) \/ Progress(x) \/ LoseRequest(x)
    BY TxnWriters
  <2>2. CASE ~BookingRequest(x)
    <3>1. PICK t : t.op \notin {"hold", "dropHold"} /\ Become(x, t)
      BY <2>1, <2>2, NothingElseHolds
    <3> QED BY <1>1, <3>1 DEF Become
  <2>3. CASE BookingRequest(x)
    <3>1. \E t : Become(x, t)
      BY <2>3 DEF BookingRequest, RequestHold, RequestBooking, Begin, Become
    <3> QED BY <1>1, <2>3, <3>1 DEF Become
  <2> QED BY <2>2, <2>3
<1>3. ASSUME NEW r \in Room, NEW g \in Guest, RequestHold(s, r, g)
      PROVE  /\ txn'[s].op = "hold" /\ holds[r] = NoHold
             /\ txn'[s].row = NewHold(r, g)
  BY <1>1, <1>3 DEF RequestHold, Begin
<1>4. ASSUME NEW g \in Guest, NEW r \in Room, NEW stay \in Stay,
             RequestBooking(s, g, r, stay)
      PROVE  /\ txn'[s].op = "dropHold" /\ txn'[s].room = r
             /\ holds[r] # NoHold /\ Dead(holds[r])
  BY <1>1, <1>4 DEF RequestBooking, Begin
<1> QED BY <1>2, <1>3, <1>4 DEF BookingRequest

LEMMA WantedStep ==
  ASSUME TypeInv, [Next]_vars, NEW r \in Room
  PROVE  Wanted(r)' \subseteq Wanted(r) \cup Held(r)!MayWant
<1> SUFFICES ASSUME NEW s \in Session, txn'[s].op = "hold", txn'[s].row.room = r
             PROVE  txn'[s].row \in Wanted(r) \cup Held(r)!MayWant
  BY DEF Wanted
<1>1. CASE txn'[s] = txn[s]
  BY <1>1 DEF Wanted
<1>2. CASE txn'[s] # txn[s]
  <2>1. PICK q \in Room, g \in Guest : holds[q] = NoHold /\ txn'[s].row = NewHold(q, g)
    BY <1>2, HoldAsked
  <2>2. q = r
    BY <2>1 DEF NewHold
  <2> QED BY <2>1, <2>2 DEF NewHold, Held!MayWant
<1> QED BY <1>1, <1>2

\* A payment is confirmed on the hold its webhook saw.
LEMMA PayersStep ==
  ASSUME TypeInv, [Next]_vars, NEW r \in Room
  PROVE  Payers(r)' \subseteq Payers(r) \cup Held(r)!MayPay
<1> SUFFICES ASSUME NEW b \in BookingId, Exists(b)', bookings'[b].room = r,
                    NEW s \in Session, txn'[s].op = "confirm",
                    sent'[txn'[s].event] = b
             PROVE  bookings'[b].guest \in Payers(r) \cup Held(r)!MayPay
  BY DEF Payers, Exists
<1>1. TypeOK /\ References
  BY DEF TypeInv
<1>2. CASE txn'[s] = txn[s]
  <2>1. txn[s].op \in LockingOps /\ txn[s].op \in EventOps
    BY <1>2 DEF LockingOps, EventOps
  <2>2. sent[txn[s].event] = b /\ Exists(b)
    BY <1>2, <2>1, EventOfTxn, Written
  <2>3. bookings[b].guest = bookings'[b].guest /\ bookings[b].room = r
    BY <2>2, SaleFrame DEF StaysKept
  <2> QED BY <1>2, <2>2, <2>3 DEF Payers
<1>3. CASE txn'[s] # txn[s]
  <2>1. LockPayable(s) /\ txn[s].event = txn'[s].event
    <3>1. ~SetAside(s) /\ ~LockSettled(s) /\ ~CancelUnheld(s)
      BY <1>1 DEF SetAside, LockSettled, CancelUnheld, Become, TypeOK
    <3> QED BY <1>3, <3>1, EventTxnStep DEF LockingOps
  <2>2. UNCHANGED <<bookings, sent>> /\ HoldCovers(bookings[b])
    BY <1>1, <2>1 DEF LockPayable, Become, TypeOK, tables
  <2>3. bookings[b].guest \in Guest
    BY <1>1, <2>2 DEF Exists, TypeOK, Booking
  <2> QED BY <2>2, <2>3 DEF HoldCovers, Dead, Expired, Held!MayPay, Held!Dead
<1> QED BY <1>2, <1>3

\* The sweeps select the holds they see.
LEMMA SelectedDead ==
  ASSUME [Next]_vars, NEW r \in holdSweep'
  PROVE  r \in holdSweep \/ (holds[r] # NoHold /\ Dead(holds[r]))
<1>1. CASE UNCHANGED holdSweep
  BY <1>1
<1>2. CASE FindExpiredHolds
  BY <1>2 DEF FindExpiredHolds, DeadHolds
<1>3. CASE DeleteExpiredHolds \/ LoseHoldSweep
  BY <1>3 DEF DeleteExpiredHolds, LoseHoldSweep
<1>4. ASSUME NEW s \in Session, Request(s) \/ Progress(s) \/ LoseRequest(s)
      PROVE  UNCHANGED holdSweep
  BY <1>4
  DEF Request, SalesRequest, BookingRequest, WebhookRequest, OfflineRequest,
      PayRequest, DeskRequest, RoomRequest, RequestHold, RequestBooking,
      ReceiveEvent, RequestOffline, Pay, RequestCheckIn, RequestCheckOut,
      RequestClean, Progress, BookingProgress, DeskProgress, WebhookProgress,
      CommitHold, DropDeadHold, CheckOverlap, InsertBooking, CommitCheckIn,
      CommitCheckOut, PayReturns, SetAside, LockSettled, LockMismatch, LockPayable,
      RecordEvent, CancelUnheld, ConfirmOnline, FlushClash, AnswerServerError,
      CommitOffline, CommitClean, LoseRequest, sweeps
<1> QED
  BY <1>1, <1>2, <1>3, <1>4
  DEF Next, SteadyNext, SystemStep, Failure, LoseSweep, LoseStaleSweep, SweepStep,
      ProviderStep, ProviderSends, Tick, FindStaleBookings, VisitStale,
      CommitStaleSweep, vars, sweeps

\* What the sweep remembers of a room it has read there, and it deletes a hold
\* that it remembers or has just read, of the guest whose booking it cancels.
LEMMA SweptSeen ==
  ASSUME TypeInv, HoldsPlaced, [Next]_vars, NEW r \in Room
  PROVE  /\ Recalled(r)' \subseteq Recalled(r) \cup Held(r)!MayRecall
         /\ r \in staleSweep'.drop =>
              \/ r \in staleSweep.drop
              \/ \E h \in Recalled(r) \cup Held(r)!MayRecall :
                   h.guest \in Abandoned(r)
<1> DEFINE Kept ==
      /\ Recalled(r)' \subseteq Recalled(r) \cup Held(r)!MayRecall
      /\ r \in staleSweep'.drop =>
           \/ r \in staleSweep.drop
           \/ \E h \in Recalled(r) \cup Held(r)!MayRecall :
                h.guest \in Abandoned(r)
<1>1. CASE UNCHANGED staleSweep
  BY <1>1 DEF Recalled
<1>2. ASSUME NEW b \in BookingId, VisitStale(b)
      PROVE  Kept
  <2> DEFINE room  == bookings[b].room
             known == staleSweep.seen # NoHold /\ staleSweep.seen.room = room
             hold  == IF known THEN staleSweep.seen
                      ELSE IF room \in staleSweep.drop THEN NoHold ELSE holds[room]
  <2>1. /\ b \in staleSweep.todo
        /\ staleSweep'.seen = hold
        /\ staleSweep'.drop = staleSweep.drop \cup {q \in {room} : Frees(hold, b)}
    BY <1>2 DEF VisitStale
  <2>2. room \in Room
    BY <2>1 DEF TypeInv, TypeOK, References, Exists, Booking
  <2>3. hold = NoHold \/ hold.room = room
    BY <2>2 DEF HoldsPlaced
  <2>4. hold \in Recalled(room) \cup Held(room)!MayRecall \/ hold = NoHold
    BY DEF Recalled, Held!MayRecall
  <2>5. Recalled(r)' \subseteq Recalled(r) \cup Held(r)!MayRecall
    <3> SUFFICES ASSUME NEW h \in Recalled(r)'
                 PROVE  h \in Recalled(r) \cup Held(r)!MayRecall
      OBVIOUS
    <3>1. h = hold /\ h # NoHold /\ h.room = r
      BY <2>1 DEF Recalled
    <3> HIDE DEF hold
    <3> QED BY <2>3, <2>4, <3>1
  <2>6. ASSUME r \in staleSweep'.drop, r \notin staleSweep.drop
        PROVE  \E h \in Recalled(r) \cup Held(r)!MayRecall : h.guest \in Abandoned(r)
    <3>1. r = room /\ Frees(hold, b)
      BY <2>1, <2>6
    <3> HIDE DEF hold
    <3>2. hold # NoHold /\ hold.guest = bookings[b].guest
      BY <3>1 DEF Frees
    <3>3. bookings[b].guest \in Abandoned(r)
      BY <2>1, <3>1 DEF Abandoned
    <3> QED BY <2>4, <3>1, <3>2, <3>3
  <2> QED BY <2>5, <2>6
<1>3. CASE FindStaleBookings \/ CommitStaleSweep \/ LoseStaleSweep
  BY <1>3 DEF FindStaleBookings, CommitStaleSweep, LoseStaleSweep, NoSweep, Recalled
<1>4. ASSUME NEW s \in Session, Request(s) \/ Progress(s) \/ LoseRequest(s)
      PROVE  UNCHANGED staleSweep
  BY <1>4, RequestsLeaveSweeps
<1> QED
  BY <1>1, <1>2, <1>3, <1>4
  DEF Next, SteadyNext, SystemStep, Failure, LoseSweep, LoseHoldSweep, SweepStep,
      ProviderStep, ProviderSends, Tick, FindExpiredHolds, DeleteExpiredHolds,
      vars, sweeps

LEMMA RemovingStep ==
  ASSUME TypeInv, HoldsPlaced, [Next]_vars, NEW r \in Room
  PROVE  Removing(r)' \subseteq Removing(r) \cup Held(r)!MayRemove
<1>1. ASSUME r \in holdSweep'
      PROVE  "dead" \in Removing(r) \cup Held(r)!MayRemove
  BY <1>1, SelectedDead DEF Removing, Dead, Expired, Held!MayRemove, Held!Dead
<1>2. ASSUME NEW s \in Session, txn'[s].op = "dropHold", txn'[s].room = r
      PROVE  "dead" \in Removing(r) \cup Held(r)!MayRemove
  <2>1. CASE txn'[s] = txn[s]
    BY <1>2, <2>1 DEF Removing
  <2>2. CASE txn'[s] # txn[s]
    <3>1. holds[r] # NoHold /\ Dead(holds[r])
      BY <1>2, <2>2, HoldAsked
    <3> QED BY <3>1 DEF Dead, Expired, Held!MayRemove, Held!Dead
  <2> QED BY <2>1, <2>2
<1>3. ASSUME r \in staleSweep'.drop
      PROVE  "swept" \in Removing(r) \cup Held(r)!MayRemove
  BY <1>3, SweptSeen DEF Removing, Held!MayRemove
<1> QED BY <1>1, <1>2, <1>3 DEF Removing

LEMMA HoldMoves ==
  ASSUME TypeInv, [Next]_vars, NEW r \in Room
  PROVE  Held(r)!Take \/ Held(r)!End \/ Held(r)!Remove \/ Held(r)!Bide
<1>1. TypeOK /\ holds \in [Room -> Hold \cup {NoHold}] /\ txn \in [Session -> Txn]
  BY DEF TypeInv, TypeOK
<1>2. CASE UNCHANGED holds
  BY <1>2 DEF Held!Bide
<1>3. CASE DeleteExpiredHolds
  BY <1>3 DEF DeleteExpiredHolds, Removing, Held!Remove, Held!Bide
<1>4. CASE CommitStaleSweep
  BY <1>4 DEF CommitStaleSweep, Removing, Held!Remove, Held!Bide
<1>5. ASSUME NEW s \in Session, CommitHold(s)
      PROVE  Held(r)!Take \/ Held(r)!Bide
  <2>1. txn[s].op = "hold" /\ txn[s].row \in Hold
    BY <1>1, <1>5, TxnFields DEF CommitHold
  <2>2. txn[s].row.room \in Room
    BY <2>1 DEF Hold
  <2>3. CASE txn[s].row.room = r
    <3>1. txn[s].row \in Wanted(r)
      BY <2>1, <2>3 DEF Wanted
    <3> QED BY <1>1, <1>5, <2>3, <3>1 DEF CommitHold, Held!Take, Held!Bide
  <2>4. CASE txn[s].row.room # r
    BY <1>1, <1>5, <2>2, <2>4 DEF CommitHold, Held!Bide
  <2> QED BY <2>3, <2>4
<1>6. ASSUME NEW s \in Session, DropDeadHold(s)
      PROVE  Held(r)!Remove \/ Held(r)!Bide
  BY <1>1, <1>6 DEF DropDeadHold, Removing, Held!Remove, Held!Bide
<1>7. ASSUME NEW s \in Session, ConfirmOnline(s)
      PROVE  Held(r)!End \/ Held(r)!Bide
  <2> DEFINE b == sent[txn[s].event]
  <2>1. b \in BookingId /\ Exists(b)
    BY <1>7, Written DEF ConfirmOnline, LockingOps
  <2>2. CASE bookings[b].room = r
    <3>1. bookings[b].guest \in Payers(r)
      BY <1>7, <2>1, <2>2 DEF ConfirmOnline, Payers
    <3> QED BY <1>1, <1>7, <2>2, <3>1 DEF ConfirmOnline, Held!End
  <2>3. CASE bookings[b].room # r
    BY <1>1, <1>7, <2>3 DEF ConfirmOnline, Held!Bide
  <2> QED BY <2>2, <2>3
<1> QED BY <1>2, <1>3, <1>4, <1>5, <1>6, <1>7, HoldWriters

LEMMA PlacedInvariant == Spec => []HoldsPlaced
<1>1. Init => HoldsPlaced
  BY DEF Init, HoldsPlaced
<1>2. ASSUME TypeInv, HoldsPlaced, [Next]_vars
      PROVE  HoldsPlaced'
  <2>1. ASSUME NEW r \in Room, holds'[r] # NoHold
        PROVE  holds'[r].room = r
    BY <1>2, <2>1, HoldMoves
    DEF HoldsPlaced, Held!Take, Held!End, Held!Remove, Held!Bide, Wanted
  <2> QED BY <2>1 DEF HoldsPlaced
<1> QED BY <1>1, <1>2, TypeInvariant, PTL DEF Spec

\* A guest loses the hold of a room only to a payment, a request or a sweep that
\* found the hold of the room as it says it did (bookings, payments, sweeps).
THEOREM ImplementsHold == Spec => HoldSpec
<1>1. Init => \A r \in Room : Held(r)!Init
  BY DEF Init, Held!Init, Wanted, Payers, Recalled, Removing, Idle, NoSweep
<1>2. TypeInv /\ HoldsPlaced /\ [Next]_vars => [\A r \in Room : Held(r)!Step]_vars
  <2> SUFFICES ASSUME TypeInv, HoldsPlaced, [Next]_vars, NEW r \in Room
               PROVE  Held(r)!Step
    OBVIOUS
  <2> QED
    BY HoldMoves, WantedStep, PayersStep, SweptSeen, RemovingStep, DayKept
    DEF Held!Step, Held!Next
<1> QED BY <1>1, <1>2, TypeInvariant, PlacedInvariant, PTL DEF Spec, HoldSpec
=============================================================================
