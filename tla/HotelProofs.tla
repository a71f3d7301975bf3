---------------------------- MODULE HotelProofs ----------------------------
(***************************************************************************)
(* Theorems about Hotel, for every value of its constants.                 *)
(***************************************************************************)
EXTENDS Hotel, TLAPS

(* What every row and every request in flight refers to is there, and every *)
(* stay has a night.                                                       *)
TxnRefers(t) ==
  /\ t.op = "held" => t.stay.checkIn < t.stay.checkOut
  /\ t.op = "book" =>
       t.row.checkIn < t.row.checkOut /\ t.row.status = "processing"
  /\ t.op \in {"offline", "checkIn", "checkOut"} => Exists(t.booking)
  /\ t.op \in EventOps => sent[t.event] # NoBooking
  /\ t.op \in LockingOps => sent[t.event] \in BookingId

References ==
  /\ \A b \in BookingId : Exists(b) => bookings[b].checkIn < bookings[b].checkOut
  /\ \A e \in Event : sent[e] \in BookingId => Exists(sent[e])
  /\ \A s \in Session : TxnRefers(txn[s])
  /\ \A b \in staleSweep.todo \cup staleSweep.done : Exists(b)

TypeInv == TypeOK /\ References

----------------------------------------------------------------------------
(* What a request in flight carries.                                       *)

LEMMA TxnFields ==
  ASSUME NEW t \in Txn
  PROVE  /\ t.op = "hold" => t.row \in Hold
         /\ t.op = "dropHold" => t.room \in Room
         /\ t.op = "held" => t.guest \in Guest /\ t.room \in Room /\ t.stay \in Stay
         /\ t.op = "book" => t.row \in Booking
         /\ t.op \in {"offline", "checkIn", "checkOut"} => t.booking \in BookingId
         /\ t.op = "checkOut" => t.seen \in RoomRow
         /\ t.op = "clean" => t.room \in Room /\ t.seen \in RoomRow
         /\ t.op \in EventOps => t.event \in Event
<1>1. CASE t = Idle  BY <1>1 DEF Idle, EventOps, LockingOps
<1>2. CASE t \in [op : {"hold"}, row : Hold]  BY <1>2 DEF EventOps, LockingOps
<1>3. CASE t \in [op : {"dropHold"}, room : Room]  BY <1>3 DEF EventOps, LockingOps
<1>4. CASE t \in [op : {"held"}, guest : Guest, room : Room, stay : Stay]
  BY <1>4 DEF EventOps, LockingOps
<1>5. CASE t \in [op : {"book"}, row : Booking]  BY <1>5 DEF EventOps, LockingOps
<1>6. CASE t \in [op : {"offline", "checkIn"}, booking : BookingId]
  BY <1>6 DEF EventOps, LockingOps
<1>7. CASE t \in [op : {"checkOut"}, booking : BookingId, seen : RoomRow]
  BY <1>7 DEF EventOps, LockingOps
<1>8. CASE t \in [op : {"clean"}, room : Room, seen : RoomRow]
  BY <1>8 DEF EventOps, LockingOps
<1>9. CASE t \in [op : EventOps, event : Event]  BY <1>9 DEF EventOps, LockingOps
<1> QED BY <1>1, <1>2, <1>3, <1>4, <1>5, <1>6, <1>7, <1>8, <1>9 DEF Txn

LEMMA TxnMembers ==
  /\ Idle \in Txn
  /\ \A row \in Hold : [op |-> "hold", row |-> row] \in Txn
  /\ \A r \in Room : [op |-> "dropHold", room |-> r] \in Txn
  /\ \A g \in Guest, r \in Room, stay \in Stay :
       [op |-> "held", guest |-> g, room |-> r, stay |-> stay] \in Txn
  /\ \A row \in Booking : [op |-> "book", row |-> row] \in Txn
  /\ \A b \in BookingId, op \in {"offline", "checkIn"} :
       [op |-> op, booking |-> b] \in Txn
  /\ \A b \in BookingId, row \in RoomRow :
       [op |-> "checkOut", booking |-> b, seen |-> row] \in Txn
  /\ \A r \in Room, row \in RoomRow :
       [op |-> "clean", room |-> r, seen |-> row] \in Txn
  /\ \A e \in Event, op \in EventOps : [op |-> op, event |-> e] \in Txn
BY DEF Txn

----------------------------------------------------------------------------
(* Type correctness.                                                       *)

LEMMA InitType == Init => TypeInv
<1> SUFFICES ASSUME Init PROVE TypeInv
  OBVIOUS
<1> USE TimeAssumption, InputAssumption, SentinelAssumption DEF Init
<1>1. TypeOK
  <2>1. now \in Time  BY DEF Time
  <2>2. rooms \in [Room -> RoomRow] /\ holds \in [Room -> Hold \cup {NoHold}]
    OBVIOUS
  <2>3. staleSweep \in StaleSweep  BY DEF NoSweep, StaleSweep
  <2>4. txn \in [Session -> Txn]  BY TxnMembers
  <2> QED BY <2>1, <2>2, <2>3, <2>4 DEF TypeOK
<1>2. References
  BY DEF References, TxnRefers, Exists, Idle, EventOps, LockingOps, NoSweep
<1> QED BY <1>1, <1>2 DEF TypeInv

\* A step that only changes what one request carries.
LEMMA TxnStepType ==
  ASSUME TypeInv, NEW s \in Session, NEW t \in Txn, TxnRefers(t), Become(s, t),
         UNCHANGED <<now, tables, sent, sweeps>>
  PROVE  TypeInv'
<1>1. TypeOK'
  BY DEF TypeInv, TypeOK, Become, tables, sweeps, StaleSweep, Time
<1>2. References'
  <2>1. \A x \in Session : TxnRefers(txn'[x])
    BY DEF TypeInv, TypeOK, References, Become
  <2>2. \A x \in Session : TxnRefers(txn[x])'
    BY <2>1 DEF TxnRefers, Exists, tables
  <2> QED BY <2>2 DEF TypeInv, References, Exists, tables, sweeps
<1> QED BY <1>1, <1>2 DEF TypeInv

\* Requests that read and decide.
LEMMA ReadStepType ==
  ASSUME TypeInv, NEW s \in Session,
         \/ \E r \in Room, g \in Guest : RequestHold(s, r, g)
         \/ \E g \in Guest, r \in Room, stay \in Stay : RequestBooking(s, g, r, stay)
         \/ CheckOverlap(s)
         \/ DeskRequest(s)
         \/ OfflineRequest(s)
         \/ RoomRequest(s)
         \/ LoseRequest(s)
  PROVE  TypeInv'
<1> USE TxnMembers DEF TypeInv
<1>1. ASSUME NEW r \in Room, NEW g \in Guest, RequestHold(s, r, g)
      PROVE  TypeInv'
  <2>1. NewHold(r, g) \in Hold
    BY TimeAssumption DEF NewHold, Hold, TypeOK, Time
  <2>2. TxnRefers([op |-> "hold", row |-> NewHold(r, g)])
    BY DEF TxnRefers, EventOps, LockingOps
  <2> QED BY <1>1, <2>1, <2>2, TxnStepType DEF RequestHold, Begin, Become
<1>2. ASSUME NEW g \in Guest, NEW r \in Room, NEW stay \in Stay,
             RequestBooking(s, g, r, stay)
      PROVE  TypeInv'
  <2>1. TxnRefers([op |-> "dropHold", room |-> r])
    BY DEF TxnRefers, EventOps, LockingOps
  <2>2. TxnRefers([op |-> "held", guest |-> g, room |-> r, stay |-> stay])
    BY <1>2 DEF TxnRefers, EventOps, LockingOps, RequestBooking, ValidDates
  <2>3. \E t \in Txn : TxnRefers(t) /\ Become(s, t)
    BY <1>2, <2>1, <2>2 DEF RequestBooking, Begin, Become
  <2> QED BY <1>2, <2>3, TxnStepType DEF RequestBooking
<1>3. CASE CheckOverlap(s)
  <2> DEFINE row == NewBooking(txn[s].guest, txn[s].room, txn[s].stay)
  <2>1. txn[s] \in Txn /\ TxnRefers(txn[s]) /\ txn[s].op = "held"
    BY <1>3 DEF TypeOK, References, CheckOverlap
  <2>2. txn[s].guest \in Guest /\ txn[s].room \in Room /\ txn[s].stay \in Stay
    BY <2>1, TxnFields
  <2>3. row \in Booking
    BY <2>2, InputAssumption DEF NewBooking, Booking, Status, TypeOK
  <2>4. TxnRefers([op |-> "book", row |-> row])
    BY <2>1 DEF TxnRefers, EventOps, LockingOps, NewBooking
  <2>5. TxnRefers(Idle)
    BY DEF TxnRefers, EventOps, LockingOps, Idle
  <2>6. \E t \in Txn : TxnRefers(t) /\ Become(s, t)
    BY <1>3, <2>3, <2>4, <2>5 DEF CheckOverlap, End
  <2> QED BY <1>3, <2>6, TxnStepType DEF CheckOverlap
<1>4. ASSUME NEW b \in BookingId, RequestCheckIn(s, b)
      PROVE  TypeInv'
  <2>1. TxnRefers([op |-> "checkIn", booking |-> b])
    BY <1>4 DEF TxnRefers, EventOps, LockingOps, RequestCheckIn, HasStatus
  <2> QED BY <1>4, <2>1, TxnStepType DEF RequestCheckIn, Begin, Become
<1>5. ASSUME NEW b \in BookingId, RequestCheckOut(s, b)
      PROVE  TypeInv'
  <2> DEFINE t == [op |-> "checkOut", booking |-> b,
                   seen |-> rooms[bookings[b].room]]
  <2>1. bookings[b] \in Booking
    BY <1>5 DEF RequestCheckOut, HasStatus, Exists, TypeOK
  <2>2. t \in Txn
    BY <2>1 DEF TypeOK, Booking
  <2>3. TxnRefers(t)
    BY <1>5 DEF TxnRefers, EventOps, LockingOps, RequestCheckOut, HasStatus
  <2> QED BY <1>5, <2>2, <2>3, TxnStepType DEF RequestCheckOut, Begin, Become
<1>6. ASSUME NEW b \in BookingId, RequestOffline(s, b)
      PROVE  TypeInv'
  <2>1. TxnRefers([op |-> "offline", booking |-> b])
    BY <1>6 DEF TxnRefers, EventOps, LockingOps, RequestOffline, HasStatus
  <2> QED BY <1>6, <2>1, TxnStepType DEF RequestOffline, Begin, Become
<1>7. ASSUME NEW r \in Room, RequestClean(s, r)
      PROVE  TypeInv'
  <2>1. rooms[r] \in RoomRow
    BY DEF TypeOK
  <2>2. TxnRefers([op |-> "clean", room |-> r, seen |-> rooms[r]])
    BY DEF TxnRefers, EventOps, LockingOps
  <2> QED BY <1>7, <2>1, <2>2, TxnStepType DEF RequestClean, Begin, Become
<1>8. CASE LoseRequest(s)
  <2>1. TxnRefers(Idle)
    BY DEF TxnRefers, EventOps, LockingOps, Idle
  <2> QED BY <1>8, <2>1, TxnStepType DEF LoseRequest, End
<1> QED
  BY <1>1, <1>2, <1>3, <1>4, <1>5, <1>6, <1>7, <1>8
  DEF DeskRequest, OfflineRequest, RoomRequest

\* What the webhook and the payment request do before they write anything.
LEMMA EventReadStepType ==
  ASSUME TypeInv, NEW s \in Session,
         \/ WebhookRequest(s)
         \/ SetAside(s) \/ LockSettled(s) \/ LockMismatch(s) \/ LockPayable(s)
         \/ FlushClash(s) \/ AnswerServerError(s) \/ PayReturns(s)
  PROVE  TypeInv'
<1> USE TxnMembers DEF TypeInv
<1>1. \A e \in Event : sent[e] # NoBooking =>
         \A op \in EventOps \ LockingOps : TxnRefers([op |-> op, event |-> e])
  BY DEF TxnRefers, EventOps, LockingOps
<1>2. \A e \in Event : sent[e] \in BookingId =>
         \A op \in EventOps : TxnRefers([op |-> op, event |-> e])
  BY SentinelAssumption DEF TxnRefers, EventOps, LockingOps, References, Exists
<1>3. TxnRefers(Idle)
  BY DEF TxnRefers, EventOps, LockingOps, Idle
<1>4. ASSUME txn[s].op \in EventOps
      PROVE  /\ txn[s].event \in Event
             /\ sent[txn[s].event] \in BookingId \cup {UnknownRef}
             /\ txn[s].op \in LockingOps => sent[txn[s].event] \in BookingId
  <2>1. txn[s] \in Txn /\ TxnRefers(txn[s])
    BY DEF TypeOK, References
  <2> QED BY <1>4, <2>1, TxnFields DEF TypeOK, TxnRefers
<1>5. \E t \in Txn : TxnRefers(t) /\ Become(s, t)
  <2>1. CASE WebhookRequest(s)
    BY <2>1, <1>1 DEF WebhookRequest, ReceiveEvent, Begin, Become, EventOps, LockingOps
  <2>2. CASE SetAside(s)
    BY <2>2, <1>1, <1>4, SentinelAssumption
    DEF SetAside, EventOps, LockingOps, TypeOK
  <2>3. CASE LockSettled(s) \/ LockPayable(s)
    BY <2>3, <1>2, <1>4 DEF LockSettled, LockPayable, CanLock, EventOps, LockingOps
  <2>4. CASE LockMismatch(s) \/ AnswerServerError(s) \/ PayReturns(s)
    BY <2>4, <1>3 DEF LockMismatch, AnswerServerError, PayReturns, End
  <2>5. CASE FlushClash(s)
    BY <2>5, <1>2, <1>4 DEF FlushClash, EventOps, LockingOps
  <2> QED BY <2>1, <2>2, <2>3, <2>4, <2>5
<1>6. UNCHANGED <<now, tables, sent, sweeps>>
  BY DEF WebhookRequest, ReceiveEvent, SetAside, LockSettled, LockMismatch,
         LockPayable, FlushClash, AnswerServerError, PayReturns
<1> QED BY <1>5, <1>6, TxnStepType

----------------------------------------------------------------------------
\* A booking, once made, keeps its guest, its room and its dates.
StaysKept ==
  \A b \in BookingId : Exists(b) =>
    /\ Exists(b)'
    /\ bookings'[b].guest = bookings[b].guest
    /\ bookings'[b].room = bookings[b].room
    /\ bookings'[b].checkIn = bookings[b].checkIn
    /\ bookings'[b].checkOut = bookings[b].checkOut

LEMMA SetStatusFrame ==
  ASSUME TypeOK, NEW b \in BookingId, Exists(b), NEW status \in Status,
         SetStatus(b, status)
  PROVE  /\ bookings' \in [BookingId -> Booking \cup {NoBooking}]
         /\ StaysKept
         /\ \A c \in BookingId : Exists(c)' <=> Exists(c)
         /\ bookings'[b].status = status
         /\ \A c \in BookingId \ {b} : bookings'[c] = bookings[c]
<1>1. bookings[b] \in Booking
  BY DEF TypeOK, Exists
<1>2. bookings' = [bookings EXCEPT ![b] = [bookings[b] EXCEPT !.status = status]]
  BY DEF SetStatus
<1>3. /\ [bookings[b] EXCEPT !.status = status] \in Booking
      /\ [bookings[b] EXCEPT !.status = status].status = status
      /\ [bookings[b] EXCEPT !.status = status].guest = bookings[b].guest
      /\ [bookings[b] EXCEPT !.status = status].room = bookings[b].room
      /\ [bookings[b] EXCEPT !.status = status].checkIn = bookings[b].checkIn
      /\ [bookings[b] EXCEPT !.status = status].checkOut = bookings[b].checkOut
  BY <1>1 DEF Booking
<1> QED BY <1>1, <1>2, <1>3, SentinelAssumption DEF TypeOK, StaysKept, Exists

\* What a request refers to stays there.
LEMMA RefersKept ==
  ASSUME TypeInv, StaysKept, NEW t \in Txn, TxnRefers(t),
         \A e \in Event : sent[e] # NoBooking => sent'[e] = sent[e]
  PROVE  TxnRefers(t)'
<1>1. /\ t.op \in {"offline", "checkIn", "checkOut"} => t.booking \in BookingId
      /\ t.op \in EventOps => t.event \in Event
      /\ t.op \in LockingOps => t.op \in EventOps
  BY TxnFields DEF EventOps
<1> QED BY <1>1 DEF TxnRefers, StaysKept

\* A request that writes and then carries t.
LEMMA WriteStepRefers ==
  ASSUME TypeInv, StaysKept, NEW s \in Session, NEW t \in Txn, TxnRefers(t),
         Become(s, t), UNCHANGED <<sent, sweeps>>,
         \A b \in BookingId : Exists(b)' =>
           bookings'[b].checkIn < bookings'[b].checkOut
  PROVE  References'
<1>1. \A x \in Session : txn'[x] \in Txn /\ TxnRefers(txn'[x])
  BY DEF TypeInv, TypeOK, References, Become
<1>2. \A x \in Session : TxnRefers(txn[x])'
  <2>1. TAKE x \in Session
  <2>2. TxnRefers(txn'[x])
    BY <1>1
  <2> DEFINE u == txn'[x]
  <2>3. u \in Txn
    BY <1>1
  <2>4. /\ u.op \in {"offline", "checkIn", "checkOut"} => u.booking \in BookingId
        /\ u.op \in EventOps => u.event \in Event
        /\ u.op \in LockingOps => u.op \in EventOps
    BY <2>3, TxnFields DEF EventOps
  <2> QED BY <2>2, <2>4 DEF TxnRefers, StaysKept
<1>3. \A b \in BookingId : Exists(b) => Exists(b)'
  BY DEF StaysKept
<1> QED BY <1>2, <1>3 DEF TypeInv, TypeOK, References, sweeps, StaleSweep

\* The same when no booking is written.
LEMMA OtherWriteRefers ==
  ASSUME TypeInv, NEW s \in Session, NEW t \in Txn, TxnRefers(t),
         Become(s, t), UNCHANGED <<bookings, sent, sweeps>>
  PROVE  References'
<1>1. StaysKept
  BY DEF StaysKept, Exists
<1>2. \A b \in BookingId : Exists(b)' =>
        bookings'[b].checkIn < bookings'[b].checkOut
  BY DEF TypeInv, References, Exists
<1> QED BY <1>1, <1>2, WriteStepRefers

LEMMA IdleRefers == Idle \in Txn /\ TxnRefers(Idle)
BY TxnMembers DEF TxnRefers, EventOps, LockingOps, Idle

LEMMA BecomeType ==
  ASSUME TypeOK, NEW s \in Session, NEW t \in Txn, Become(s, t)
  PROVE  /\ txn' \in [Session -> Txn]
         /\ txn'[s] = t
         /\ \A x \in Session \ {s} : txn'[x] = txn[x]
BY DEF TypeOK, Become

----------------------------------------------------------------------------
\* Confirming a booking.
LEMMA ConfirmFrame ==
  ASSUME TypeOK, NEW b \in BookingId, Exists(b),
         NEW means \in Event \cup {Offline}, Confirm(b, means)
  PROVE  /\ bookings' \in [BookingId -> Booking \cup {NoBooking}]
         /\ roomNights' \in [Room \X Day -> BookingId \cup {NoBooking}]
         /\ payments' \in [BookingId -> Event \cup {Offline, NoPayment}]
         /\ StaysKept
         /\ \A c \in BookingId : Exists(c)' <=> Exists(c)
         /\ bookings'[b].status = "confirmed"
         /\ \A c \in BookingId \ {b} : bookings'[c] = bookings[c]
<1>1. SetStatus(b, "confirmed") /\ "confirmed" \in Status
  BY DEF Confirm, Status
<1>2. roomNights' \in [Room \X Day -> BookingId \cup {NoBooking}]
  BY DEF Confirm, AddRoomNights, TypeOK
<1>3. payments' \in [BookingId -> Event \cup {Offline, NoPayment}]
  BY DEF Confirm, TypeOK
<1> QED BY <1>1, <1>2, <1>3, SetStatusFrame

\* Requests that write holds, rooms or bookings.
LEMMA BookingWriteType ==
  ASSUME TypeInv, NEW s \in Session,
         \/ CommitHold(s) \/ DropDeadHold(s) \/ InsertBooking(s)
         \/ CommitCheckIn(s) \/ CommitCheckOut(s) \/ CommitClean(s)
  PROVE  TypeInv'
<1>1. txn[s] \in Txn /\ TxnRefers(txn[s]) /\ TypeOK /\ References
  BY DEF TypeInv, TypeOK, References
<1>2. Become(s, Idle)
  BY DEF CommitHold, DropDeadHold, InsertBooking, CommitCheckIn, CommitCheckOut,
         CommitClean, End
<1>3. txn' \in [Session -> Txn]
  BY <1>1, <1>2, BecomeType, IdleRefers
<1>4. CASE CommitHold(s)
  <2>1. txn[s].row \in Hold
    BY <1>1, <1>4, TxnFields DEF CommitHold
  <2>2. holds' \in [Room -> Hold \cup {NoHold}]
    BY <1>1, <1>4, <2>1 DEF CommitHold, TypeOK, Hold
  <2>3. TypeOK'
    BY <1>1, <1>3, <1>4, <2>2 DEF TypeOK, CommitHold, sweeps, StaleSweep, Time
  <2>4. References'
    BY <1>2, <1>4, IdleRefers, OtherWriteRefers DEF CommitHold
  <2> QED BY <2>3, <2>4 DEF TypeInv
<1>5. CASE DropDeadHold(s)
  <2>1. TypeOK'
    BY <1>1, <1>3, <1>5 DEF TypeOK, DropDeadHold, sweeps, StaleSweep, Time
  <2>2. References'
    BY <1>2, <1>5, IdleRefers, OtherWriteRefers DEF DropDeadHold
  <2> QED BY <2>1, <2>2 DEF TypeInv
<1>6. CASE InsertBooking(s)
  <2>1. PICK b \in BookingId :
          ~Exists(b) /\ bookings' = [bookings EXCEPT ![b] = txn[s].row]
    BY <1>6 DEF InsertBooking
  <2>2. txn[s].row \in Booking /\ txn[s].row.checkIn < txn[s].row.checkOut
    BY <1>1, <1>6, TxnFields DEF InsertBooking, TxnRefers
  <2>3. TypeOK'
    BY <1>1, <1>3, <1>6, <2>1, <2>2
    DEF TypeOK, InsertBooking, sweeps, StaleSweep, Time
  <2>4. StaysKept
    BY <1>1, <2>1 DEF StaysKept, Exists, TypeOK
  <2>5. \A c \in BookingId : Exists(c)' =>
          bookings'[c].checkIn < bookings'[c].checkOut
    BY <1>1, <2>1, <2>2 DEF Exists, TypeOK, References
  <2>6. References'
    BY <1>2, <1>6, <2>4, <2>5, IdleRefers, WriteStepRefers DEF InsertBooking
  <2> QED BY <2>3, <2>6 DEF TypeInv
<1>7. CASE CommitCheckIn(s) \/ CommitCheckOut(s)
  <2> DEFINE b == txn[s].booking
  <2>1. b \in BookingId /\ Exists(b) /\ bookings[b] \in Booking
    BY <1>1, <1>7, TxnFields
    DEF CommitCheckIn, CommitCheckOut, TxnRefers, Exists, TypeOK
  <2>2. \E status \in Status : SetStatus(b, status)
    BY <1>7 DEF CommitCheckIn, CommitCheckOut, Status
  <2>3. /\ bookings' \in [BookingId -> Booking \cup {NoBooking}]
        /\ StaysKept
        /\ \A c \in BookingId : Exists(c)' <=> Exists(c)
    BY <1>1, <2>1, <2>2, SetStatusFrame
  <2>4. rooms' \in [Room -> RoomRow]
    <3>1. CASE CommitCheckIn(s)
      BY <1>1, <2>1, <3>1 DEF CommitCheckIn, TypeOK, RoomRow
    <3>2. CASE CommitCheckOut(s)
      BY <1>1, <2>1, <3>2 DEF CommitCheckOut, TypeOK, RoomRow, Patch, CheckedOut
    <3> QED BY <1>7, <3>1, <3>2
  <2>5. TypeOK'
    BY <1>1, <1>3, <1>7, <2>3, <2>4
    DEF TypeOK, CommitCheckIn, CommitCheckOut, sweeps, StaleSweep, Time
  <2>6. \A c \in BookingId : Exists(c)' =>
          bookings'[c].checkIn < bookings'[c].checkOut
    BY <1>1, <2>3 DEF StaysKept, References
  <2>7. References'
    BY <1>2, <1>7, <2>3, <2>6, IdleRefers, WriteStepRefers
    DEF CommitCheckIn, CommitCheckOut
  <2> QED BY <2>5, <2>7 DEF TypeInv
<1>8. CASE CommitClean(s)
  <2>1. rooms' \in [Room -> RoomRow]
    BY <1>1, <1>8 DEF CommitClean, TypeOK, RoomRow, Patch, Cleaned
  <2>2. TypeOK'
    BY <1>1, <1>3, <1>8, <2>1 DEF TypeOK, CommitClean, sweeps, StaleSweep, Time
  <2>3. References'
    BY <1>2, <1>8, IdleRefers, OtherWriteRefers DEF CommitClean
  <2> QED BY <2>2, <2>3 DEF TypeInv
<1> QED BY <1>4, <1>5, <1>6, <1>7, <1>8

\* Requests that write payments or events.
LEMMA PaymentWriteType ==
  ASSUME TypeInv, NEW s \in Session,
         \/ RecordEvent(s) \/ CancelUnheld(s) \/ ConfirmOnline(s) \/ CommitOffline(s)
  PROVE  TypeInv'
<1>1. txn[s] \in Txn /\ TxnRefers(txn[s]) /\ TypeOK /\ References
  BY DEF TypeInv, TypeOK, References
<1>2. CASE RecordEvent(s)
  <2>1. txn[s].event \in Event
    BY <1>1, <1>2, TxnFields DEF RecordEvent, EventOps, LockingOps
  <2>2. Become(s, Idle) /\ txn' \in [Session -> Txn]
    BY <1>1, <1>2, BecomeType, IdleRefers DEF RecordEvent, End
  <2>3. TypeOK'
    BY <1>1, <1>2, <2>1, <2>2 DEF TypeOK, RecordEvent, sweeps, StaleSweep, Time
  <2>4. References'
    BY <1>2, <2>2, IdleRefers, OtherWriteRefers DEF RecordEvent
  <2> QED BY <2>3, <2>4 DEF TypeInv
<1>3. CASE CancelUnheld(s)
  <2> DEFINE b == sent[txn[s].event]
             t == [op |-> "record", event |-> txn[s].event]
  <2>1. txn[s].event \in Event /\ b \in BookingId /\ Exists(b)
    BY <1>1, <1>3, TxnFields
    DEF CancelUnheld, EventOps, LockingOps, TxnRefers, References
  <2>2. t \in Txn /\ TxnRefers(t)
    BY <2>1, TxnMembers, SentinelAssumption DEF TxnRefers, EventOps, LockingOps
  <2>3. SetStatus(b, "cancelled") /\ "cancelled" \in Status /\ Become(s, t)
    BY <1>3 DEF CancelUnheld, Status
  <2>4. /\ bookings' \in [BookingId -> Booking \cup {NoBooking}]
        /\ StaysKept
        /\ \A c \in BookingId : Exists(c)' <=> Exists(c)
    BY <1>1, <2>1, <2>3, SetStatusFrame
  <2>5. TypeOK'
    BY <1>1, <1>3, <2>2, <2>3, <2>4, BecomeType
    DEF TypeOK, CancelUnheld, sweeps, StaleSweep, Time
  <2>6. \A c \in BookingId : Exists(c)' =>
          bookings'[c].checkIn < bookings'[c].checkOut
    BY <1>1, <2>4 DEF StaysKept, References
  <2>7. References'
    BY <1>3, <2>2, <2>3, <2>4, <2>6, WriteStepRefers DEF CancelUnheld
  <2> QED BY <2>5, <2>7 DEF TypeInv
<1>4. CASE ConfirmOnline(s)
  <2> DEFINE e == txn[s].event
             b == sent[e]
  <2>1. e \in Event /\ b \in BookingId /\ Exists(b)
    BY <1>1, <1>4, TxnFields
    DEF ConfirmOnline, EventOps, LockingOps, TxnRefers, References
  <2>2. Confirm(b, e) /\ Become(s, Idle)
    BY <1>4 DEF ConfirmOnline, End
  <2>3. /\ bookings' \in [BookingId -> Booking \cup {NoBooking}]
        /\ roomNights' \in [Room \X Day -> BookingId \cup {NoBooking}]
        /\ payments' \in [BookingId -> Event \cup {Offline, NoPayment}]
        /\ StaysKept
        /\ \A c \in BookingId : Exists(c)' <=> Exists(c)
    BY <1>1, <2>1, <2>2, ConfirmFrame
  <2>4. TypeOK'
    BY <1>1, <1>4, <2>1, <2>2, <2>3, BecomeType, IdleRefers
    DEF TypeOK, ConfirmOnline, sweeps, StaleSweep, Time
  <2>5. \A c \in BookingId : Exists(c)' =>
          bookings'[c].checkIn < bookings'[c].checkOut
    BY <1>1, <2>3 DEF StaysKept, References
  <2>6. References'
    BY <1>4, <2>2, <2>3, <2>5, IdleRefers, WriteStepRefers DEF ConfirmOnline
  <2> QED BY <2>4, <2>6 DEF TypeInv
<1>5. CASE CommitOffline(s)
  <2> DEFINE b == txn[s].booking
  <2>1. b \in BookingId /\ Exists(b)
    BY <1>1, <1>5, TxnFields DEF CommitOffline, TxnRefers
  <2>2. Become(s, Idle)
    BY <1>5 DEF CommitOffline, End
  <2>3. CASE Confirm(b, Offline)
    <3>1. /\ bookings' \in [BookingId -> Booking \cup {NoBooking}]
          /\ roomNights' \in [Room \X Day -> BookingId \cup {NoBooking}]
          /\ payments' \in [BookingId -> Event \cup {Offline, NoPayment}]
          /\ StaysKept
          /\ \A c \in BookingId : Exists(c)' <=> Exists(c)
      BY <1>1, <2>1, <2>3, ConfirmFrame
    <3>2. TypeOK'
      BY <1>1, <1>5, <2>2, <3>1, BecomeType, IdleRefers
      DEF TypeOK, CommitOffline, sweeps, StaleSweep, Time
    <3>3. \A c \in BookingId : Exists(c)' =>
            bookings'[c].checkIn < bookings'[c].checkOut
      BY <1>1, <3>1 DEF StaysKept, References
    <3>4. References'
      BY <1>5, <2>2, <3>1, <3>3, IdleRefers, WriteStepRefers DEF CommitOffline
    <3> QED BY <3>2, <3>4 DEF TypeInv
  <2>4. CASE UNCHANGED <<bookings, roomNights, payments>>
    <3>1. TypeOK'
      BY <1>1, <1>5, <2>2, <2>4, BecomeType, IdleRefers
      DEF TypeOK, CommitOffline, sweeps, StaleSweep, Time
    <3>2. References'
      BY <1>5, <2>2, <2>4, IdleRefers, OtherWriteRefers DEF CommitOffline
    <3> QED BY <3>1, <3>2 DEF TypeInv
  <2> QED BY <1>5, <2>3, <2>4 DEF CommitOffline
<1> QED BY <1>2, <1>3, <1>4, <1>5

\* Sending an event, from a payment request or unasked.
LEMMA SendType ==
  ASSUME TypeInv, (\E s \in Session : PayRequest(s)) \/ ProviderStep
  PROVE  TypeInv'
<1>1. TypeOK /\ References
  BY DEF TypeInv
<1>2. PICK e \in Event, ref \in BookingId \cup {UnknownRef} :
        /\ sent[e] = NoBooking
        /\ ref \in BookingId => Exists(ref)
        /\ sent' = [sent EXCEPT ![e] = ref]
        /\ UNCHANGED <<now, tables, sweeps>>
        /\ \/ UNCHANGED txn
           \/ /\ ref \in BookingId
              /\ \E s \in Session : Become(s, [op |-> "pay", event |-> e])
  <2>1. CASE ProviderStep
    BY <2>1, SentinelAssumption DEF ProviderStep, ProviderSends
  <2>2. ASSUME NEW s \in Session, PayRequest(s)
        PROVE  \E e \in Event, b \in BookingId :
                 /\ sent[e] = NoBooking /\ Exists(b)
                 /\ sent' = [sent EXCEPT ![e] = b]
                 /\ UNCHANGED <<now, tables, sweeps>>
                 /\ Become(s, [op |-> "pay", event |-> e])
    BY <2>2 DEF PayRequest, Pay, HasStatus, Begin, Become
  <2> QED BY <2>1, <2>2
<1>3. sent' \in [Event -> BookingId \cup {NoBooking, UnknownRef}]
  BY <1>1, <1>2 DEF TypeOK
<1>4. \A x \in Event : sent[x] # NoBooking => sent'[x] = sent[x]
  BY <1>1, <1>2 DEF TypeOK
<1>5. StaysKept
  BY <1>2 DEF StaysKept, Exists, tables
<1>6. \A s \in Session : txn'[s] \in Txn /\ TxnRefers(txn[s])'
  <2>1. TAKE s \in Session
  <2>2. txn[s] \in Txn /\ TxnRefers(txn[s])
    BY <1>1 DEF TypeOK, References
  <2>3. CASE txn'[s] = txn[s]
    <3> DEFINE t == txn[s]
    <3>1. TxnRefers(t)'
      BY <1>4, <1>5, <2>2, <2>3, RefersKept, TxnFields DEF TxnRefers, StaysKept, EventOps
    <3> QED BY <2>2, <2>3, <3>1
  <2>4. CASE txn'[s] # txn[s]
    <3>1. txn'[s] = [op |-> "pay", event |-> e] /\ ref \in BookingId
      BY <1>1, <1>2, <2>4 DEF Become, TypeOK
    <3>2. txn'[s] \in Txn
      BY <3>1, TxnMembers DEF EventOps
    <3>3. sent'[e] # NoBooking /\ sent'[e] \in BookingId
      BY <1>1, <1>2, <3>1, SentinelAssumption DEF TypeOK
    <3> QED BY <3>1, <3>2, <3>3 DEF TxnRefers, EventOps, LockingOps
  <2> QED BY <2>3, <2>4
<1>7. txn' \in [Session -> Txn]
  BY <1>1, <1>2, <1>6 DEF TypeOK, Become
<1>8. TypeOK'
  BY <1>1, <1>2, <1>3, <1>7 DEF TypeOK, tables, sweeps, StaleSweep, Time
<1>9. References'
  <2>1. \A x \in Event : sent'[x] \in BookingId => Exists(sent'[x])
    BY <1>1, <1>2 DEF TypeOK, References
  <2> QED BY <1>1, <1>2, <1>6, <2>1 DEF References, Exists, tables, sweeps
<1> QED BY <1>8, <1>9 DEF TypeInv

\* A sweep cancels what it has selected.
LEMMA SweepFrame ==
  ASSUME TypeInv, CommitStaleSweep
  PROVE  /\ bookings' \in [BookingId -> Booking \cup {NoBooking}]
         /\ StaysKept
         /\ \A b \in BookingId : Exists(b)' <=> Exists(b)
         /\ \A b \in staleSweep.done : b \in BookingId /\ bookings'[b].status = "cancelled"
         /\ \A b \in BookingId \ staleSweep.done : bookings'[b] = bookings[b]
<1>1. \A b \in staleSweep.done : b \in BookingId /\ bookings[b] \in Booking
  BY DEF TypeInv, References, TypeOK, Exists, StaleSweep
<1>2. \A b \in staleSweep.done :
        bookings'[b] = [bookings[b] EXCEPT !.status = "cancelled"]
  BY <1>1 DEF CommitStaleSweep
<1>3. \A b \in staleSweep.done :
        /\ bookings'[b] \in Booking
        /\ bookings'[b].status = "cancelled"
        /\ bookings'[b].guest = bookings[b].guest
        /\ bookings'[b].room = bookings[b].room
        /\ bookings'[b].checkIn = bookings[b].checkIn
        /\ bookings'[b].checkOut = bookings[b].checkOut
  BY <1>1, <1>2 DEF Booking, Status
<1>4. \A b \in BookingId \ staleSweep.done : bookings'[b] = bookings[b]
  BY DEF CommitStaleSweep
<1>5. bookings' \in [BookingId -> Booking \cup {NoBooking}]
  <2>1. bookings' = [b \in BookingId |-> bookings'[b]]
    BY DEF CommitStaleSweep
  <2> QED BY <1>3, <1>4, <2>1 DEF TypeInv, TypeOK
<1> QED BY <1>1, <1>3, <1>4, <1>5, SentinelAssumption DEF StaysKept, Exists

\* The sweeps and the clock.
LEMMA SystemType ==
  ASSUME TypeInv, SweepStep \/ LoseSweep \/ Tick
  PROVE  TypeInv'
<1>1. TypeOK /\ References
  BY DEF TypeInv
<1>2. UNCHANGED <<sent, txn>>
  BY DEF SweepStep, LoseSweep, Tick, FindExpiredHolds, DeleteExpiredHolds,
         FindStaleBookings, VisitStale, CommitStaleSweep, LoseHoldSweep,
         LoseStaleSweep
<1>3. ASSUME StaysKept, TypeOK',
             \A b \in BookingId : Exists(b)' =>
               bookings'[b].checkIn < bookings'[b].checkOut,
             \A b \in staleSweep'.todo \cup staleSweep'.done : Exists(b)'
      PROVE  TypeInv'
  <2>1. \A s \in Session : TxnRefers(txn[s])'
    <3>1. TAKE s \in Session
    <3>2. txn[s] \in Txn /\ TxnRefers(txn[s])
      BY <1>1 DEF TypeOK, References
    <3> QED BY <1>2, <1>3, <3>2, TxnFields DEF TxnRefers, StaysKept, EventOps
  <2> QED BY <1>1, <1>2, <1>3, <2>1 DEF TypeInv, References, TypeOK, StaysKept
<1>4. CASE UNCHANGED bookings
  <2>1. StaysKept /\ \A b \in BookingId : Exists(b)' =>
                       bookings'[b].checkIn < bookings'[b].checkOut
    BY <1>1, <1>4 DEF StaysKept, Exists, References
  <2>2. CASE \E b \in BookingId : VisitStale(b)
    <3>1. PICK b \in BookingId : VisitStale(b)
      BY <2>2
    <3>2. b \in staleSweep.todo /\ Exists(b) /\ bookings[b].room \in Room
      BY <1>1, <3>1 DEF VisitStale, References, TypeOK, Exists, Booking, StaleSweep
    <3>3. /\ staleSweep' \in StaleSweep
          /\ staleSweep'.todo \cup staleSweep'.done
               \subseteq staleSweep.todo \cup staleSweep.done
      BY <1>1, <3>1, <3>2 DEF VisitStale, StaleSweep, TypeOK
    <3>4. TypeOK'
      BY <1>1, <1>2, <3>1, <3>3 DEF VisitStale, TypeOK, tables, Time
    <3>5. \A c \in staleSweep'.todo \cup staleSweep'.done : Exists(c)'
      BY <1>1, <1>4, <3>3 DEF References, Exists
    <3> QED BY <1>3, <2>1, <3>4, <3>5
  <2>3. CASE FindStaleBookings
    <3>1. staleSweep' \in StaleSweep
      BY <2>3 DEF FindStaleBookings, NoSweep, StaleSweep
    <3>2. TypeOK'
      BY <1>1, <1>2, <2>3, <3>1 DEF FindStaleBookings, TypeOK, tables, Time
    <3>3. \A c \in staleSweep'.todo \cup staleSweep'.done : Exists(c)'
      BY <1>4, <2>3 DEF FindStaleBookings, NoSweep, Stale, HasStatus, Exists
    <3> QED BY <1>3, <2>1, <3>2, <3>3
  <2>4. CASE FindExpiredHolds \/ DeleteExpiredHolds \/ LoseSweep \/ Tick
    <3>1. staleSweep' \in {staleSweep, NoSweep} /\ NoSweep \in StaleSweep
      BY <2>4 DEF FindExpiredHolds, DeleteExpiredHolds, LoseSweep, LoseHoldSweep,
                  LoseStaleSweep, Tick, NoSweep, StaleSweep, sweeps
    <3>2. holds' \in [Room -> Hold \cup {NoHold}] /\ holdSweep' \subseteq Room
      BY <1>1, <2>4
      DEF FindExpiredHolds, DeleteExpiredHolds, LoseSweep, LoseHoldSweep,
          LoseStaleSweep, Tick, TypeOK, tables, sweeps, DeadHolds
    <3>3. now' \in Time
      BY <1>1, <2>4, TimeAssumption
      DEF FindExpiredHolds, DeleteExpiredHolds, LoseSweep, LoseHoldSweep,
          LoseStaleSweep, Tick, TypeOK, Time
    <3>4. TypeOK'
      BY <1>1, <1>2, <2>4, <3>1, <3>2, <3>3
      DEF FindExpiredHolds, DeleteExpiredHolds, LoseSweep, LoseHoldSweep,
          LoseStaleSweep, Tick, TypeOK, tables, sweeps
    <3>5. \A c \in staleSweep'.todo \cup staleSweep'.done : Exists(c)'
      BY <1>1, <1>4, <3>1 DEF References, Exists, NoSweep
    <3> QED BY <1>3, <2>1, <3>4, <3>5
  <2>5. CASE CommitStaleSweep
    <3>1. staleSweep' = NoSweep /\ NoSweep \in StaleSweep
      BY <2>5 DEF CommitStaleSweep, NoSweep, StaleSweep
    <3>2. holds' \in [Room -> Hold \cup {NoHold}]
      BY <1>1, <2>5 DEF CommitStaleSweep, TypeOK
    <3>3. TypeOK'
      BY <1>1, <1>2, <1>4, <2>5, <3>1, <3>2 DEF CommitStaleSweep, TypeOK, Time
    <3>4. \A c \in staleSweep'.todo \cup staleSweep'.done : Exists(c)'
      BY <3>1 DEF NoSweep
    <3> QED BY <1>3, <2>1, <3>3, <3>4
  <2> QED BY <2>2, <2>3, <2>4, <2>5 DEF SweepStep
<1>5. CASE CommitStaleSweep
  <2>1. /\ bookings' \in [BookingId -> Booking \cup {NoBooking}]
        /\ StaysKept
        /\ \A b \in BookingId : Exists(b)' <=> Exists(b)
    BY <1>5, SweepFrame
  <2>2. \A b \in BookingId : Exists(b)' =>
          bookings'[b].checkIn < bookings'[b].checkOut
    BY <1>1, <2>1 DEF StaysKept, References
  <2>3. staleSweep' = NoSweep /\ NoSweep \in StaleSweep
    BY <1>5 DEF CommitStaleSweep, NoSweep, StaleSweep
  <2>4. holds' \in [Room -> Hold \cup {NoHold}]
    BY <1>1, <1>5 DEF CommitStaleSweep, TypeOK
  <2>5. TypeOK'
    BY <1>1, <1>2, <1>5, <2>1, <2>3, <2>4 DEF CommitStaleSweep, TypeOK, Time
  <2>6. \A c \in staleSweep'.todo \cup staleSweep'.done : Exists(c)'
    BY <2>3 DEF NoSweep
  <2> QED BY <1>3, <2>1, <2>2, <2>5, <2>6
<1> QED
  BY <1>4, <1>5
  DEF SweepStep, LoseSweep, Tick, FindExpiredHolds, DeleteExpiredHolds,
      FindStaleBookings, VisitStale, LoseHoldSweep, LoseStaleSweep, tables

LEMMA StepType == TypeInv /\ [Next]_vars => TypeInv'
<1> SUFFICES ASSUME TypeInv, [Next]_vars PROVE TypeInv'
  OBVIOUS
<1>1. CASE UNCHANGED vars
  BY <1>1 DEF vars, tables, sweeps, TypeInv, TypeOK, References, TxnRefers, Exists,
              StaleSweep, Time
<1>2. ASSUME NEW s \in Session, Request(s) \/ Progress(s) \/ LoseRequest(s)
      PROVE  TypeInv'
  BY <1>2, ReadStepType, EventReadStepType, BookingWriteType, PaymentWriteType,
     SendType
  DEF Request, SalesRequest, BookingRequest, Progress, BookingProgress,
      DeskProgress, WebhookProgress
<1>3. CASE SystemStep \/ LoseSweep
  BY <1>3, SendType, SystemType DEF SystemStep
<1> QED BY <1>1, <1>2, <1>3 DEF Next, SteadyNext, Failure

LEMMA TypeInvariant == Spec => []TypeInv
<1> QED BY InitType, StepType, PTL DEF Spec

\* Every row of every table, and whatever a request carries, keeps its type.
THEOREM TypeCorrect == Spec => []TypeOK
<1>1. TypeInv => TypeOK  BY DEF TypeInv
<1> QED BY <1>1, TypeInvariant, PTL

----------------------------------------------------------------------------
(* Sales.  A step either sells one stay or leaves nights and money alone.  *)

Sale(b, means) ==
  /\ Exists(b) /\ CanConfirm(b) /\ Confirm(b, means)
  /\ means \in Event =>
       means \notin processedEvents /\ means \in processedEvents' /\ sent[means] = b

SomeSale == \E b \in BookingId, means \in Event \cup {Offline} : Sale(b, means)

\* What a request about to write to a booking refers to.
LEMMA Written ==
  ASSUME TypeInv, NEW s \in Session
  PROVE  /\ txn[s].op \in {"offline", "checkIn", "checkOut"} =>
              txn[s].booking \in BookingId /\ Exists(txn[s].booking)
         /\ txn[s].op \in LockingOps =>
              /\ txn[s].event \in Event
              /\ sent[txn[s].event] \in BookingId
              /\ Exists(sent[txn[s].event])
<1>1. txn[s] \in Txn /\ TxnRefers(txn[s])
  BY DEF TypeInv, TypeOK, References
<1> QED BY <1>1, TxnFields DEF TxnRefers, EventOps, TypeInv, References

\* The steps that write bookings, nights or payments.
LEMMA BookingWriters ==
  ASSUME [Next]_vars
  PROVE  \/ UNCHANGED <<bookings, roomNights, payments>>
         \/ CommitStaleSweep
         \/ \E s \in Session :
              \/ InsertBooking(s) \/ CommitCheckIn(s) \/ CommitCheckOut(s)
              \/ CancelUnheld(s) \/ ConfirmOnline(s) \/ CommitOffline(s)
<1>1. CASE UNCHANGED vars
  BY <1>1 DEF vars, tables
<1>2. ASSUME NEW s \in Session, Request(s)
      PROVE  UNCHANGED <<bookings, roomNights, payments>>
  BY <1>2 DEF Request, SalesRequest, BookingRequest, WebhookRequest, OfflineRequest,
     PayRequest, DeskRequest, RoomRequest, RequestHold, RequestBooking,
     ReceiveEvent, RequestOffline, Pay, RequestCheckIn, RequestCheckOut,
     RequestClean, tables
<1>3. ASSUME NEW s \in Session, Progress(s)
      PROVE  \/ UNCHANGED <<bookings, roomNights, payments>>
             \/ InsertBooking(s) \/ CommitCheckIn(s) \/ CommitCheckOut(s)
             \/ CancelUnheld(s) \/ ConfirmOnline(s) \/ CommitOffline(s)
  BY <1>3 DEF Progress, BookingProgress, DeskProgress, WebhookProgress, CommitHold,
     DropDeadHold, CheckOverlap, PayReturns, SetAside, LockSettled, LockMismatch,
     LockPayable, RecordEvent, FlushClash, AnswerServerError, CommitClean, tables
<1>4. CASE SystemStep \/ Failure
  BY <1>4 DEF SystemStep, Failure, LoseRequest, LoseSweep, LoseHoldSweep,
     LoseStaleSweep, SweepStep, ProviderStep, ProviderSends, Tick,
     FindExpiredHolds, DeleteExpiredHolds, FindStaleBookings, VisitStale, tables
<1> QED BY <1>1, <1>2, <1>3, <1>4 DEF Next, SteadyNext

LEMMA SaleFrame ==
  ASSUME TypeInv, [Next]_vars
  PROVE  /\ StaysKept
         /\ UNCHANGED <<roomNights, payments>> \/ SomeSale
<1>1. TypeOK /\ References
  BY DEF TypeInv
<1>2. CASE UNCHANGED <<bookings, roomNights, payments>>
  BY <1>2 DEF StaysKept, Exists
<1>3. ASSUME NEW s \in Session, InsertBooking(s)
      PROVE  StaysKept /\ UNCHANGED <<roomNights, payments>>
  BY <1>1, <1>3 DEF InsertBooking, StaysKept, Exists, TypeOK
<1>4. ASSUME NEW s \in Session, CommitCheckIn(s) \/ CommitCheckOut(s)
      PROVE  StaysKept /\ UNCHANGED <<roomNights, payments>>
  <2>1. /\ txn[s].booking \in BookingId /\ Exists(txn[s].booking)
        /\ \E status \in Status : SetStatus(txn[s].booking, status)
    BY <1>4, Written DEF CommitCheckIn, CommitCheckOut, Status
  <2> QED BY <1>1, <1>4, <2>1, SetStatusFrame DEF CommitCheckIn, CommitCheckOut
<1>5. ASSUME NEW s \in Session, CancelUnheld(s)
      PROVE  StaysKept /\ UNCHANGED <<roomNights, payments>>
  <2>1. /\ sent[txn[s].event] \in BookingId /\ Exists(sent[txn[s].event])
        /\ "cancelled" \in Status /\ SetStatus(sent[txn[s].event], "cancelled")
    BY <1>5, Written DEF CancelUnheld, Status, LockingOps
  <2> QED BY <1>1, <1>5, <2>1, SetStatusFrame DEF CancelUnheld
<1>6. ASSUME NEW s \in Session, ConfirmOnline(s)
      PROVE  StaysKept /\ SomeSale
  <2> DEFINE e == txn[s].event
             b == sent[e]
  <2>1. e \in Event /\ b \in BookingId /\ Exists(b)
    BY <1>6, Written DEF ConfirmOnline, LockingOps
  <2>2. Sale(b, e)
    BY <1>1, <1>6, <2>1 DEF ConfirmOnline, Sale, TypeOK
  <2>3. StaysKept
    BY <1>1, <2>1, <2>2, ConfirmFrame DEF Sale
  <2> QED BY <2>1, <2>2, <2>3 DEF SomeSale
<1>7. ASSUME NEW s \in Session, CommitOffline(s)
      PROVE  StaysKept /\ (UNCHANGED <<roomNights, payments>> \/ SomeSale)
  <2> DEFINE b == txn[s].booking
  <2>1. b \in BookingId /\ Exists(b)
    BY <1>7, Written DEF CommitOffline
  <2>2. CASE CanConfirm(b) /\ Confirm(b, Offline)
    <3>1. Sale(b, Offline)
      BY <2>1, <2>2, SentinelAssumption DEF Sale
    <3> QED BY <1>1, <2>1, <2>2, <3>1, ConfirmFrame DEF SomeSale
  <2> QED BY <1>2, <1>7, <2>2 DEF CommitOffline
<1>8. CASE CommitStaleSweep
  BY <1>8, SweepFrame DEF CommitStaleSweep
<1> QED BY <1>2, <1>3, <1>4, <1>5, <1>6, <1>7, <1>8, BookingWriters

----------------------------------------------------------------------------
(* Money and nights.                                                       *)

LEMMA NightsInCalendar ==
  ASSUME TypeInv, NEW b \in BookingId, Exists(b)
  PROVE  Nights(bookings[b]) \subseteq Room \X Day
BY TimeAssumption DEF TypeInv, TypeOK, Exists, Booking, Nights, Day

LEMMA NightsKept ==
  ASSUME StaysKept, NEW b \in BookingId, Exists(b)
  PROVE  Exists(b)' /\ Nights(bookings'[b]) = Nights(bookings[b])
BY DEF StaysKept, Nights

\* A sold stay stays sold, and the stay a step sells is sold after it.
LEMMA SoldStable ==
  ASSUME TypeInv, [Next]_vars
  PROVE  /\ \A b \in BookingId : Sold(b) => Sold(b)'
         /\ \A b \in BookingId, means \in Event \cup {Offline} :
              Sale(b, means) => Sold(b)'
<1>1. StaysKept /\ (UNCHANGED <<roomNights, payments>> \/ SomeSale)
  BY SaleFrame
<1>2. ASSUME NEW b \in BookingId, Sold(b)
      PROVE  Sold(b)'
  <2>1. Exists(b)' /\ Nights(bookings'[b]) = Nights(bookings[b])
    BY <1>1, <1>2, NightsKept DEF Sold
  <2>2. Nights(bookings[b]) \subseteq Room \X Day
    BY <1>2, NightsInCalendar DEF Sold
  <2>3. CASE UNCHANGED <<roomNights, payments>>
    BY <1>2, <2>1, <2>3 DEF Sold, Paid, OwnsNights
  <2>4. ASSUME NEW c \in BookingId, NEW means \in Event \cup {Offline}, Sale(c, means)
        PROVE  Sold(b)'
    <3>1. c # b
      BY <1>2, <2>4 DEF Sale, CanConfirm, Sold, Paid
    <3>2. \A n \in Nights(bookings[b]) : n \notin Nights(bookings[c])
      BY <1>2, <2>4, SentinelAssumption
      DEF Sale, CanConfirm, NightsFree, Sold, OwnsNights, TypeInv, TypeOK
    <3>3. \A n \in Nights(bookings[b]) : roomNights'[n] = roomNights[n]
      BY <2>2, <2>4, <3>2 DEF Sale, Confirm, AddRoomNights
    <3>4. payments'[b] = payments[b]
      BY <2>4, <3>1 DEF Sale, Confirm, TypeInv, TypeOK
    <3> QED BY <1>2, <2>1, <3>3, <3>4 DEF Sold, Paid, OwnsNights
  <2> QED BY <1>1, <2>3, <2>4 DEF SomeSale
<1>3. ASSUME NEW b \in BookingId, NEW means \in Event \cup {Offline}, Sale(b, means)
      PROVE  Sold(b)'
  <2>1. Exists(b)' /\ Nights(bookings'[b]) = Nights(bookings[b])
    BY <1>1, <1>3, NightsKept DEF Sale
  <2>2. Nights(bookings[b]) \subseteq Room \X Day
    BY <1>3, NightsInCalendar DEF Sale
  <2>3. \A n \in Nights(bookings[b]) : roomNights'[n] = b
    BY <1>3, <2>2 DEF Sale, Confirm, AddRoomNights
  <2>4. payments'[b] = means /\ means # NoPayment
    BY <1>3, SentinelAssumption DEF Sale, Confirm, TypeInv, TypeOK
  <2> QED BY <2>1, <2>3, <2>4 DEF Sold, Paid, OwnsNights
<1> QED BY <1>2, <1>3

LEMMA MoneyStep ==
  ASSUME TypeInv, MoneyMatchesNights, [Next]_vars
  PROVE  MoneyMatchesNights'
<1>1. StaysKept /\ (UNCHANGED <<roomNights, payments>> \/ SomeSale)
  BY SaleFrame
<1>2. ASSUME NEW b \in BookingId, Paid(b)'
      PROVE  Sold(b)'
  <2>1. CASE Paid(b)
    BY <2>1, SoldStable DEF MoneyMatchesNights
  <2>2. CASE ~Paid(b)
    <3>1. \E means \in Event \cup {Offline} : Sale(b, means)
      BY <1>1, <1>2, <2>2
      DEF SomeSale, Sale, Confirm, Paid, TypeInv, TypeOK
    <3> QED BY <3>1, SoldStable
  <2> QED BY <2>1, <2>2
<1>3. ASSUME NEW n \in Room \X Day, roomNights'[n] # NoBooking
      PROVE  Paid(roomNights[n])' /\ n \in Nights(bookings[roomNights[n]])'
  <2>1. CASE roomNights'[n] = roomNights[n]
    <3>1. PICK b \in BookingId :
            roomNights[n] = b /\ Paid(b) /\ n \in Nights(bookings[b])
      BY <1>3, <2>1 DEF MoneyMatchesNights, TypeInv, TypeOK
    <3>2. Sold(b) /\ Sold(b)'
      BY <3>1, SoldStable DEF MoneyMatchesNights
    <3>3. Nights(bookings'[b]) = Nights(bookings[b])
      BY <1>1, <3>1, <3>2, NightsKept DEF Sold
    <3> QED BY <2>1, <3>1, <3>2, <3>3 DEF Sold, Paid
  <2>2. CASE roomNights'[n] # roomNights[n]
    <3>1. PICK b \in BookingId, means \in Event \cup {Offline} : Sale(b, means)
      BY <1>1, <2>2 DEF SomeSale
    <3>2. n \in Nights(bookings[b]) /\ roomNights'[n] = b
      BY <2>2, <3>1 DEF Sale, Confirm, AddRoomNights
    <3>3. Nights(bookings'[b]) = Nights(bookings[b])
      BY <1>1, <3>1, NightsKept DEF Sale
    <3>4. Sold(b)'
      BY <3>1, SoldStable
    <3> QED BY <3>2, <3>3, <3>4 DEF Sold, Paid
  <2> QED BY <2>1, <2>2
<1> QED BY <1>2, <1>3 DEF MoneyMatchesNights

\* Whatever requests, sweeps and failures do, recorded money has its nights and a
\* sold night its money.
THEOREM MoneyBacked == Spec => []MoneyMatchesNights
<1>1. Init => MoneyMatchesNights
  BY DEF Init, MoneyMatchesNights, Paid
<1>2. TypeInv /\ MoneyMatchesNights /\ [Next]_vars => MoneyMatchesNights'
  BY MoneyStep
<1> QED BY <1>1, <1>2, TypeInvariant, PTL DEF Spec

\* Two stays overlap, by the test of create_booking, just when they share a night.
LEMMA OverlapSharesNight ==
  ASSUME NEW x \in Booking, NEW y \in Booking,
         x.checkIn < x.checkOut, y.checkIn < y.checkOut
  PROVE  Overlap(x, y) <=> Nights(x) \cap Nights(y) # {}
<1>1. /\ x.checkIn \in Int /\ x.checkOut \in Int
      /\ y.checkIn \in Int /\ y.checkOut \in Int
  BY TimeAssumption DEF Booking, Day
<1>2. ASSUME Overlap(x, y)
      PROVE  Nights(x) \cap Nights(y) # {}
  <2> DEFINE d == IF x.checkIn <= y.checkIn THEN y.checkIn ELSE x.checkIn
  <2>1. d \in x.checkIn .. x.checkOut - 1 /\ d \in y.checkIn .. y.checkOut - 1
    BY <1>1, <1>2 DEF Overlap
  <2>2. <<x.room, d>> \in Nights(x) /\ <<x.room, d>> \in Nights(y)
    BY <1>2, <2>1 DEF Overlap, Nights
  <2> QED BY <2>2
<1>3. ASSUME Nights(x) \cap Nights(y) # {}
      PROVE  Overlap(x, y)
  <2>1. PICK n : n \in Nights(x) /\ n \in Nights(y)
    BY <1>3
  <2>2. /\ n[1] = x.room /\ n[1] = y.room
        /\ n[2] \in x.checkIn .. x.checkOut - 1
        /\ n[2] \in y.checkIn .. y.checkOut - 1
    BY <2>1 DEF Nights
  <2> QED BY <1>1, <2>2 DEF Overlap
<1> QED BY <1>2, <1>3

\* The hotel never takes money for two stays that overlap in a room: the keys of
\* room_nights decide, however the bookings came to be.
THEOREM NoDoubleSale == Spec => []PaidStaysDisjoint
<1>1. TypeInv /\ MoneyMatchesNights => PaidStaysDisjoint
  <2> SUFFICES ASSUME TypeInv, MoneyMatchesNights,
                      NEW b \in BookingId, NEW c \in BookingId,
                      b # c, Paid(b), Paid(c), Overlap(bookings[b], bookings[c])
               PROVE  FALSE
    BY DEF PaidStaysDisjoint
  <2>1. Sold(b) /\ Sold(c)
    BY DEF MoneyMatchesNights
  <2>2. /\ bookings[b] \in Booking /\ bookings[c] \in Booking
        /\ bookings[b].checkIn < bookings[b].checkOut
        /\ bookings[c].checkIn < bookings[c].checkOut
    BY <2>1 DEF Sold, Exists, TypeInv, TypeOK, References
  <2>3. PICK n : n \in Nights(bookings[b]) /\ n \in Nights(bookings[c])
    BY <2>2, OverlapSharesNight
  <2> QED BY <2>1, <2>3 DEF Sold, OwnsNights
<1> QED BY <1>1, TypeInvariant, MoneyBacked, PTL

----------------------------------------------------------------------------
(* Guests with a room.  A check-in or check-out under way has read a booking *)
(* that was sold, and commits although a sweep may have cancelled it since:  *)
(* StayBacked needs to know that such a request still carries a sold stay.   *)

CarriesSold ==
  \A s \in Session :
    txn[s].op \in {"checkIn", "checkOut"} => Sold(txn[s].booking)

StayInv == StayBacked /\ CarriesSold

\* How a booking comes to have a status that promises a room.
LEMMA PromisingStep ==
  ASSUME TypeInv, [Next]_vars, NEW b \in BookingId,
         Exists(b)', bookings'[b].status \in SoldStatus
  PROVE  \/ Exists(b) /\ bookings[b].status \in SoldStatus
         \/ \E means \in Event \cup {Offline} : Sale(b, means)
         \/ \E s \in Session :
              txn[s].op \in {"checkIn", "checkOut"} /\ txn[s].booking = b
<1>1. TypeOK /\ References
  BY DEF TypeInv
<1>2. CASE UNCHANGED <<bookings, roomNights, payments>>
  BY <1>2 DEF Exists
<1>3. CASE CommitStaleSweep
  BY <1>3, SweepFrame DEF SoldStatus, Exists
<1>4. ASSUME NEW s \in Session, InsertBooking(s)
      PROVE  Exists(b) /\ bookings[b].status \in SoldStatus
  <2>1. txn[s].op = "book" /\ txn[s].row.status = "processing"
    BY <1>1, <1>4 DEF InsertBooking, References, TxnRefers
  <2> QED BY <1>1, <1>4, <2>1 DEF InsertBooking, SoldStatus, Exists, TypeOK
<1>5. ASSUME NEW s \in Session, CommitCheckIn(s) \/ CommitCheckOut(s),
             txn[s].booking # b
      PROVE  Exists(b) /\ bookings[b].status \in SoldStatus
  <2>1. /\ txn[s].booking \in BookingId /\ Exists(txn[s].booking)
        /\ \E status \in Status : SetStatus(txn[s].booking, status)
    BY <1>5, Written DEF CommitCheckIn, CommitCheckOut, Status
  <2> QED BY <1>1, <1>5, <2>1, SetStatusFrame DEF Exists
<1>6. ASSUME NEW s \in Session, CancelUnheld(s)
      PROVE  Exists(b) /\ bookings[b].status \in SoldStatus
  <2>1. /\ sent[txn[s].event] \in BookingId /\ Exists(sent[txn[s].event])
        /\ "cancelled" \in Status /\ SetStatus(sent[txn[s].event], "cancelled")
    BY <1>6, Written DEF CancelUnheld, Status, LockingOps
  <2> QED BY <1>1, <2>1, SetStatusFrame DEF SoldStatus, Exists
<1>7. ASSUME NEW s \in Session, ConfirmOnline(s) \/ CommitOffline(s)
      PROVE  \/ Exists(b) /\ bookings[b].status \in SoldStatus
             \/ \E means \in Event \cup {Offline} : Sale(b, means)
  <2>1. CASE UNCHANGED <<bookings, roomNights, payments>>
    BY <2>1 DEF Exists
  <2>2. CASE ~ UNCHANGED <<bookings, roomNights, payments>>
    <3>1. PICK c \in BookingId, means \in Event \cup {Offline} : Sale(c, means)
      <4>1. CASE ConfirmOnline(s)
        <5>1. txn[s].event \in Event /\ sent[txn[s].event] \in BookingId
              /\ Exists(sent[txn[s].event])
          BY <4>1, Written DEF ConfirmOnline, LockingOps
        <5> QED BY <1>1, <4>1, <5>1 DEF ConfirmOnline, Sale, TypeOK
      <4>2. CASE CommitOffline(s)
        <5>1. txn[s].booking \in BookingId /\ Exists(txn[s].booking)
          BY <4>2, Written DEF CommitOffline
        <5> QED BY <2>2, <4>2, <5>1, SentinelAssumption DEF CommitOffline, Sale
      <4> QED BY <1>7, <4>1, <4>2
    <3>2. CASE c = b
      BY <3>1, <3>2
    <3>3. CASE c # b
      BY <1>1, <3>1, <3>3, ConfirmFrame DEF Sale, Exists
    <3> QED BY <3>2, <3>3
  <2> QED BY <2>1, <2>2
<1>8. ASSUME NEW s \in Session, CommitCheckIn(s) \/ CommitCheckOut(s),
             txn[s].booking = b
      PROVE  txn[s].op \in {"checkIn", "checkOut"} /\ txn[s].booking = b
  BY <1>8 DEF CommitCheckIn, CommitCheckOut
<1> QED BY <1>2, <1>3, <1>4, <1>5, <1>6, <1>7, <1>8, BookingWriters

\* The steps that change what requests carry.
LEMMA TxnWriters ==
  ASSUME [Next]_vars
  PROVE  \/ UNCHANGED txn
         \/ \E x \in Session : Request(x) \/ Progress(x) \/ LoseRequest(x)
BY DEF Next, SteadyNext, SystemStep, Failure, LoseSweep, LoseHoldSweep,
   LoseStaleSweep, SweepStep, ProviderStep, ProviderSends, Tick, FindExpiredHolds,
   DeleteExpiredHolds, FindStaleBookings, VisitStale, CommitStaleSweep, vars

\* Only the front desk makes check-ins and check-outs.
LEMMA NoOtherDesk ==
  ASSUME NEW x \in Session,
         (Request(x) /\ ~DeskRequest(x)) \/ Progress(x) \/ LoseRequest(x)
  PROVE  \E t : t.op \notin {"checkIn", "checkOut"} /\ Become(x, t)
<1>1. CASE Request(x) /\ ~DeskRequest(x)
  BY <1>1 DEF Request, SalesRequest, BookingRequest, WebhookRequest, OfflineRequest,
     PayRequest, RoomRequest, RequestHold, RequestBooking, ReceiveEvent,
     RequestOffline, Pay, RequestClean, Begin, Become
<1>2. CASE Progress(x) \/ LoseRequest(x)
  <2>1. Idle.op \notin {"checkIn", "checkOut"}
    BY DEF Idle
  <2> QED
    BY <1>2, <2>1
    DEF Progress, BookingProgress, DeskProgress, WebhookProgress, CommitHold,
       DropDeadHold, CheckOverlap, InsertBooking, CommitCheckIn, CommitCheckOut,
       PayReturns, SetAside, LockSettled, LockMismatch, LockPayable, RecordEvent,
       CancelUnheld, ConfirmOnline, FlushClash, AnswerServerError, CommitOffline,
       CommitClean, LoseRequest, End
<1> QED BY <1>1, <1>2

\* Which stays a check-in or check-out carries after a step.
LEMMA CarriedStep ==
  ASSUME TypeInv, [Next]_vars, NEW s \in Session,
         txn'[s].op \in {"checkIn", "checkOut"}, txn'[s] # txn[s]
  PROVE  /\ txn'[s].booking \in BookingId
         /\ Exists(txn'[s].booking)
         /\ bookings[txn'[s].booking].status \in SoldStatus
<1>1. txn \in [Session -> Txn]
  BY DEF TypeInv, TypeOK
<1>2. ASSUME NEW x \in Session, DeskRequest(x)
      PROVE  \E b \in BookingId :
               /\ Exists(b) /\ bookings[b].status \in SoldStatus
               /\ \E t : t.booking = b /\ Become(x, t)
  BY <1>2 DEF DeskRequest, RequestCheckIn, RequestCheckOut, HasStatus, SoldStatus,
              Begin, Become
<1> QED BY <1>1, <1>2, NoOtherDesk, TxnWriters DEF Become

LEMMA StayStep ==
  ASSUME TypeInv, StayInv, [Next]_vars
  PROVE  StayInv'
<1>1. StayBacked'
  <2>1. ASSUME NEW b \in BookingId, Exists(b)', bookings'[b].status \in SoldStatus
        PROVE  Sold(b)'
    BY <2>1, PromisingStep, SoldStable DEF StayInv, StayBacked, CarriesSold
  <2> QED BY <2>1 DEF StayBacked
<1>2. CarriesSold'
  <2>1. ASSUME NEW s \in Session, txn'[s].op \in {"checkIn", "checkOut"}
        PROVE  \E b \in BookingId : txn'[s].booking = b /\ Sold(b)'
    <3>1. CASE txn'[s] = txn[s]
      <4>1. PICK b \in BookingId : txn[s].booking = b /\ Sold(b)
        BY <2>1, <3>1, Written DEF StayInv, CarriesSold
      <4> QED BY <3>1, <4>1, SoldStable
    <3>2. CASE txn'[s] # txn[s]
      <4>1. PICK b \in BookingId :
              txn'[s].booking = b /\ Exists(b) /\ bookings[b].status \in SoldStatus
        BY <2>1, <3>2, CarriedStep
      <4> QED BY <4>1, SoldStable DEF StayInv, StayBacked
    <3> QED BY <3>1, <3>2
  <2> QED BY <2>1 DEF CarriesSold, Sold, Exists, Paid, OwnsNights
<1> QED BY <1>1, <1>2 DEF StayInv

LEMMA StayInvariant == Spec => []StayInv
<1>1. Init => StayInv
  BY DEF Init, StayInv, StayBacked, CarriesSold, Exists, Idle
<1> QED BY <1>1, StayStep, TypeInvariant, PTL DEF Spec

\* Whoever is confirmed, staying or gone home has paid and owns every night.
THEOREM StaysBacked == Spec => []StayBacked
<1>1. StayInv => StayBacked
  BY DEF StayInv
<1> QED BY <1>1, StayInvariant, PTL

----------------------------------------------------------------------------
\* For the runs of SalesSpec: it is Spec with some requests left out, so that the
\* theorems about Spec hold of it.
LEMMA SalesWithinSpec == SalesSpec => Spec
<1>1. SalesNext => Next
  BY DEF SalesNext, Next, SteadyNext, Request
<1>2. [SalesNext]_vars => [Next]_vars
  BY <1>1
<1> QED BY <1>2, PTL DEF SalesSpec, Spec
=============================================================================
