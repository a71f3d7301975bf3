----------------------------- MODULE Payments ------------------------------
(***************************************************************************)
(* Taking money for a booking (domains/payments): POST /payments/pay runs  *)
(* the mock provider, the provider's webhook confirms, and the front desk  *)
(* may record an offline payment instead.                                  *)
(***************************************************************************)
EXTENDS HotelDb

\* POST /payments/pay/{booking_id}.  The provider script makes a new event and
\* delivers it; the handler waits for the script, keeping its connection.  An
\* event is a "mismatch" when the rounded total is not the total.
Pay(s, b, e) ==
  /\ HasStatus(b, "processing")
  /\ sent[e] = NoBooking
  /\ EventKind[e] # "failed"
  /\ sent' = [sent EXCEPT ![e] = b]
  /\ Begin(s, [op |-> "pay", event |-> e])
  /\ UNCHANGED <<now, tables, sweeps>>

\* The script has ended, on the webhook's answer or on its own timeout; the
\* handler answers from the booking as it then is and writes nothing.
PayReturns(s) ==
  /\ txn[s].op = "pay"
  /\ End(s)
  /\ UNCHANGED <<now, tables, sent, sweeps>>

\* The provider may also send events nobody here asked for.
ProviderSends(e, ref) ==
  /\ sent[e] = NoBooking
  /\ ref = UnknownRef \/ (ref \in BookingId /\ Exists(ref))
  /\ sent' = [sent EXCEPT ![e] = ref]
  /\ UNCHANGED <<now, tables, txn, sweeps>>

----------------------------------------------------------------------------
(* POST /api/v1/webhooks/payment.  A sent event may arrive any number of   *)
(* times, late, and on several sessions at once.                           *)

ReceiveEvent(s, e) ==
  /\ sent[e] # NoBooking
  /\ e \notin processedEvents
  /\ Begin(s, [op |-> "webhook", event |-> e])
  /\ UNCHANGED <<now, tables, sent, sweeps>>

\* Nothing to confirm: another type of event, or an unknown reference.
SetAside(s) ==
  /\ txn[s].op = "webhook"
  /\ LET e == txn[s].event IN
       /\ EventKind[e] = "failed" \/ sent[e] = UnknownRef
       /\ Become(s, [op |-> "record", event |-> e])
  /\ UNCHANGED <<now, tables, sent, sweeps>>

\* Mutant: a plain SELECT, which waits for nobody.
CanLockUnlocked(s) ==
  /\ txn[s].op = "webhook"
  /\ EventKind[txn[s].event] # "failed"
  /\ sent[txn[s].event] # UnknownRef

\* SELECT ... FOR UPDATE of the booking, which waits for its lock; then the read
\* of the hold.  The lock is kept while the handler acts on what it has read.
CanLock(s) ==
  /\ txn[s].op = "webhook"
  /\ EventKind[txn[s].event] # "failed"
  /\ sent[txn[s].event] # UnknownRef
  /\ Unlocked(sent[txn[s].event])

HoldCovers(row) ==
  LET hold == holds[row.room] IN
    hold # NoHold /\ ~Dead(hold) /\ hold.guest = row.guest

LockSettled(s) ==
  /\ CanLock(s)
  /\ ~HasStatus(sent[txn[s].event], "processing")
  /\ Become(s, [op |-> "duplicate", event |-> txn[s].event])
  /\ UNCHANGED <<now, tables, sent, sweeps>>

\* Mutant: an event with the wrong money is recorded before it is refused.
LockMismatchRecorded(s) ==
  /\ CanLock(s)
  /\ HasStatus(sent[txn[s].event], "processing")
  /\ EventKind[txn[s].event] = "mismatch"
  /\ Become(s, [op |-> "duplicate", event |-> txn[s].event])
  /\ UNCHANGED <<now, tables, sent, sweeps>>

\* Wrong money: 422, and the event is not recorded.
LockMismatch(s) ==
  /\ CanLock(s)
  /\ HasStatus(sent[txn[s].event], "processing")
  /\ EventKind[txn[s].event] = "mismatch"
  /\ End(s)
  /\ UNCHANGED <<now, tables, sent, sweeps>>

\* What the handler does with the lock on a booking that awaits this payment.
LockPayable(s) ==
  /\ CanLock(s)
  /\ HasStatus(sent[txn[s].event], "processing")
  /\ EventKind[txn[s].event] = "succeeded"
  /\ Become(s, [op |-> IF HoldCovers(bookings[sent[txn[s].event]])
                         THEN "confirm" ELSE "cancel",
                event |-> txn[s].event])
  /\ UNCHANGED <<now, tables, sent, sweeps>>

\* _record_event: the primary key decides between concurrent deliveries.
RecordEvent(s) ==
  /\ txn[s].op \in {"record", "duplicate"}
  /\ processedEvents' = processedEvents \cup {txn[s].event}
  /\ End(s)
  /\ UNCHANGED <<now, rooms, holds, bookings, roomNights, payments, sent,
                 sweeps>>

\* The hold is gone: the cancellation commits alone and frees the row lock; the
\* event is recorded by a second transaction.
CancelUnheld(s) ==
  /\ txn[s].op = "cancel"
  /\ SetStatus(sent[txn[s].event], "cancelled")
  /\ Become(s, [op |-> "record", event |-> txn[s].event])
  /\ UNCHANGED <<now, rooms, holds, roomNights, payments, processedEvents,
                 sent, sweeps>>

\* One commit: status, nights, payment and event, and the room's hold deleted.
ConfirmOnline(s) ==
  /\ txn[s].op = "confirm"
  /\ LET e == txn[s].event
         b == sent[e]
     IN /\ CanConfirm(b)
        /\ e \notin processedEvents
        /\ Confirm(b, e)
        /\ holds' = [holds EXCEPT ![bookings[b].room] = NoHold]
        /\ processedEvents' = processedEvents \cup {e}
  /\ End(s)
  /\ UNCHANGED <<now, rooms, sent, sweeps>>

\* The flush that inserts the nights is outside the try: a clash on a unique key
\* leaves the handler as an unhandled IntegrityError.
FlushClash(s) ==
  /\ txn[s].op = "confirm"
  /\ ~CanConfirm(sent[txn[s].event]) \/ txn[s].event \in processedEvents
  /\ Become(s, [op |-> "error", event |-> txn[s].event])
  /\ UNCHANGED <<now, tables, sent, sweeps>>

AnswerServerError(s) ==
  /\ txn[s].op = "error"
  /\ End(s)
  /\ UNCHANGED <<now, tables, sent, sweeps>>

----------------------------------------------------------------------------
\* POST /payments/offline/{booking_id}: a plain read, no lock, no hold needed.
RequestOffline(s, b) ==
  /\ HasStatus(b, "processing")
  /\ Begin(s, [op |-> "offline", booking |-> b])
  /\ UNCHANGED <<now, tables, sent, sweeps>>

\* The UPDATE names the booking alone; a clash on a key rolls back with 409.
CommitOffline(s) ==
  /\ txn[s].op = "offline"
  /\ LET b == txn[s].booking IN
       /\ Unlocked(b)
       /\ \/ CanConfirm(b) /\ Confirm(b, Offline)
          \/ ~CanConfirm(b) /\ UNCHANGED <<bookings, roomNights, payments>>
  /\ End(s)
  /\ UNCHANGED <<now, rooms, holds, processedEvents, sent, sweeps>>

PayRequest(s) == \E b \in BookingId, e \in Event : Pay(s, b, e)

WebhookRequest(s) == \E e \in Event : ReceiveEvent(s, e)

WebhookProgress(s) ==
  \/ SetAside(s)
  \/ LockSettled(s)
  \/ LockMismatch(s)
  \/ LockPayable(s)
  \/ RecordEvent(s)
  \/ CancelUnheld(s)
  \/ ConfirmOnline(s)
  \/ FlushClash(s)
  \/ AnswerServerError(s)

OfflineRequest(s) == \E b \in BookingId : RequestOffline(s, b)

ProviderStep ==
  \E e \in Event, ref \in BookingId \cup {UnknownRef} : ProviderSends(e, ref)
=============================================================================
