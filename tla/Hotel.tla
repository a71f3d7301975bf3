------------------------------- MODULE Hotel -------------------------------
(***************************************************************************)
(* The whole service: every request on every session, both sweepers, the   *)
(* provider and the clock, over one database; and what must stay true of   *)
(* the stays it sells.                                                     *)
(***************************************************************************)
EXTENDS Bookings, Payments, Rooms, Sweeps

\* The request on session s goes on: nothing it waits for is a client's.
Progress(s) ==
  \/ BookingProgress(s)
  \/ DeskProgress(s)
  \/ PayReturns(s)
  \/ WebhookProgress(s)
  \/ CommitOffline(s)
  \/ CommitClean(s)

\* Selling: holds, bookings and payments, without the front desk.
SalesRequest(s) == BookingRequest(s) \/ WebhookRequest(s) \/ OfflineRequest(s)

Request(s) ==
  \/ SalesRequest(s)
  \/ PayRequest(s)
  \/ DeskRequest(s)
  \/ RoomRequest(s)

SystemStep == SweepStep \/ ProviderStep \/ Tick

Failure == (\E s \in Session : LoseRequest(s)) \/ LoseSweep

SteadyNext ==
  \/ \E s \in Session : Request(s) \/ Progress(s)
  \/ SystemStep

Next == SteadyNext \/ Failure

Spec == Init /\ [][Next]_vars

SalesNext ==
  \/ \E s \in Session : SalesRequest(s) \/ Progress(s)
  \/ SystemStep
  \/ Failure

SalesSpec == Init /\ [][SalesNext]_vars

----------------------------------------------------------------------------
(* Fairness.  The clock runs, the scheduler starts a job that is idle and  *)
(* has work, and a handler or a job that can go on does; after some time   *)
(* none is lost any more.  No client, guest or provider is obliged to do   *)
(* anything.                                                               *)

Fairness ==
  /\ WF_vars(Tick)
  /\ WF_vars(FindExpiredHolds)
  /\ WF_vars(DeleteExpiredHolds)
  /\ WF_vars(FindStaleBookings)
  /\ \A b \in BookingId : WF_vars(VisitStale(b))
  /\ WF_vars(CommitStaleSweep)
  /\ \A s \in Session : WF_vars(Progress(s))
  /\ <>[][SteadyNext]_vars

FairSpec == Spec /\ Fairness

----------------------------------------------------------------------------
(* Safety.                                                                 *)

SoldStatus == {"confirmed", "checked_in", "completed"}

Paid(b) == payments[b] # NoPayment
OwnsNights(b) == \A n \in Nights(bookings[b]) : roomNights[n] = b
Sold(b) == Exists(b) /\ Paid(b) /\ OwnsNights(b)

\* A guest who is confirmed, in the room or gone home has paid and owns every
\* night of the stay, whatever was written over the booking in between.
StayBacked ==
  \A b \in BookingId :
    Exists(b) /\ bookings[b].status \in SoldStatus => Sold(b)

\* Two stays that were paid for never share a night of a room, by the overlap
\* test create_booking uses, although that test and the insert can race.
PaidStaysDisjoint ==
  \A b, c \in BookingId :
    b # c /\ Paid(b) /\ Paid(c) => ~Overlap(bookings[b], bookings[c])

\* Money taken is never without its nights and a night never without its money,
\* also when a sweep cancels the booking afterwards.
MoneyMatchesNights ==
  /\ \A b \in BookingId : Paid(b) => Sold(b)
  /\ \A n \in Room \X Day : roomNights[n] # NoBooking =>
       Paid(roomNights[n]) /\ n \in Nights(bookings[roomNights[n]])

\* Deciding under the row lock is sound: while a webhook is about to confirm or
\* cancel, its booking still awaits payment, its event is still unrecorded, and
\* no other webhook or flushed sweep holds the booking.
LockedDecisionStands ==
  \A s \in Session :
    LET e == txn[s].event
        b == sent[e]
    IN txn[s].op \in {"confirm", "cancel"} =>
         /\ HasStatus(b, "processing")
         /\ ~Paid(b)
         /\ e \notin processedEvents
         /\ b \notin staleSweep.flushed
         /\ \A t \in Session \ {s} :
              txn[t].op \in LockingOps => sent[txn[t].event] # b

\* An event is recorded, and so never looked at again, only when it cannot still
\* confirm its booking; and the event on a payment is recorded and is its own.
RecordedEventsSettled ==
  /\ \A e \in processedEvents :
       \/ EventKind[e] = "failed" \/ sent[e] = UnknownRef
       \/ ~HasStatus(sent[e], "processing")
  /\ \A b \in BookingId :
       payments[b] \in Event =>
         payments[b] \in processedEvents /\ sent[payments[b]] = b

\* Nobody is in a room before the first day of the stay, and no stay is closed
\* before its last, although the day may change between read and commit.
StayDatesRespected ==
  \A b \in BookingId :
    /\ HasStatus(b, "checked_in") => bookings[b].checkIn <= Today
    /\ HasStatus(b, "completed") => bookings[b].checkOut <= Today

\* Two guests are in one room only when one of them was due to leave: check-in
\* asks whether the room is available, never who is in it, and housekeeping can
\* make an occupied room available.
OneGuestUnlessOverdue ==
  \A b, c \in BookingId :
    /\ b # c /\ HasStatus(b, "checked_in") /\ HasStatus(c, "checked_in")
    /\ bookings[b].room = bookings[c].room
    => bookings[b].checkOut <= Today \/ bookings[c].checkOut <= Today

----------------------------------------------------------------------------
(* What a step may never do.                                               *)

\* A hold is never written over: two guests racing for a room cannot both win.
HoldNeverReplaced ==
  [][\A r \in Room : holds[r] # NoHold => holds'[r] \in {holds[r], NoHold}]_vars

\* What requests in flight and the sweeps are about to do to the hold of room r.
Wanted(r) ==
  {txn[s].row : s \in {t \in Session : txn[t].op = "hold" /\ txn[t].row.room = r}}
Payers(r) ==
  {bookings[b].guest :
     b \in {c \in BookingId :
             /\ Exists(c) /\ bookings[c].room = r
             /\ \E s \in Session :
                  txn[s].op = "confirm" /\ sent[txn[s].event] = c}}
Recalled(r) == {h \in {staleSweep.seen} : h # NoHold /\ h.room = r}
Abandoned(r) ==
  {bookings[b].guest :
     b \in {c \in staleSweep.todo \cup staleSweep.done : bookings[c].room = r}}
Removing(r) ==
  (IF \/ r \in holdSweep
      \/ \E s \in Session : txn[s].op = "dropHold" /\ txn[s].room = r
     THEN {"dead"} ELSE {})
    \cup (IF r \in staleSweep.drop THEN {"swept"} ELSE {})

\* A guest loses the hold of a room only to one who found the hold of the room
\* paid for, run out, or of a guest whose booking is being cancelled; but late
\* deletions name the room alone, and may take a later hold.
Held(r) == INSTANCE HoldLife WITH
  room      <- r,
  hold      <- holds[r],
  wanted    <- Wanted(r),
  payers    <- Payers(r),
  recalled  <- Recalled(r),
  abandoned <- Abandoned(r),
  removing  <- Removing(r)
HoldSpec ==
  /\ \A r \in Room : Held(r)!Init
  /\ [][\A r \in Room : Held(r)!Step]_vars

\* Every step is a sale of the ledger or invisible to it.
Ledger == INSTANCE NightLedger WITH owner <- roomNights, receipt <- payments
LedgerSpec == Ledger!Spec

\* The steps asked for booking b, by a request in flight or by the stale sweep.
AskedFor(b) ==
  {txn[s].op : s \in {t \in Session :
                        /\ txn[t].op \in {"offline", "checkIn", "checkOut"}
                        /\ txn[t].booking = b}}
    \cup (IF b \in staleSweep.todo \cup staleSweep.done THEN {"sweep"} ELSE {})

\* Every booking lives the life of a stay: it leaves the order processing,
\* confirmed, checked in, completed only where a request or the sweep that read
\* it earlier writes late; a webhook, which locks, never does that.
Life(b) == INSTANCE StayLife WITH
  status <- IF Exists(b) THEN bookings[b].status ELSE "none",
  paid   <- Paid(b),
  first  <- IF Exists(b) THEN bookings[b].checkIn ELSE 0,
  last   <- IF Exists(b) THEN bookings[b].checkOut ELSE 0,
  asked  <- AskedFor(b),
  day    <- Today
LifeSpec ==
  /\ \A b \in BookingId : Life(b)!Init
  /\ [][\A b \in BookingId : Life(b)!Step]_vars

----------------------------------------------------------------------------
(* Liveness.  MaxNow ends the calendar of the model, not the hotel's: what  *)
(* falls due after it is left out.                                         *)

\* A booking nobody pays for does not block its room for ever: it is paid or the
\* sweep cancels it, whatever locks, lost jobs and late webhooks come between.
AbandonedBookingEnds ==
  \A b \in BookingId :
    HasStatus(b, "processing") /\ bookings[b].created + Grace + HoldTime <= MaxNow
      ~> ~HasStatus(b, "processing")

\* A hold does not block its room for ever, although nobody consumes it.
ExpiredHoldGoes ==
  \A r \in Room :
    holds[r] # NoHold /\ holds[r].expires <= MaxNow ~> holds[r] = NoHold

----------------------------------------------------------------------------
(* What the code, its tests and its documents say and the service breaks.  *)

\* tests/test_sweeper.py: the sweep of abandoned bookings leaves a confirmed one
\* alone, and never touches another guest's hold.
SweepSparesOthers ==
  [][CommitStaleSweep =>
       /\ \A b \in BookingId : HasStatus(b, "confirmed") =>
            bookings'[b] = bookings[b]
       /\ \A r \in Room : holds[r] # NoHold /\ holds'[r] = NoHold =>
            \E b \in staleSweep.done : bookings[b].guest = holds[r].guest]_vars

\* payments/service.py: CANCELLED stays cancelled.
CancelledStaysCancelled ==
  [][\A b \in BookingId : HasStatus(b, "cancelled") =>
       bookings'[b] = bookings[b]]_vars

\* payments/service.py, process_payment_event: a night clash is answered, 409.
NoServerError == \A s \in Session : txn[s].op # "error"

\* project.md: only cleaning after check-out makes a room sellable again; and
\* bookings/service.py, check_in_guest: nobody is let into an occupied room.  So
\* an available room is clean, and two guests are never in one room.
RoomsSoldReady ==
  /\ \A r \in Room : rooms[r].available => rooms[r].state = "clean"
  /\ \A b, c \in BookingId :
       HasStatus(b, "checked_in") /\ HasStatus(c, "checked_in")
         /\ bookings[b].room = bookings[c].room => b = c
=============================================================================
