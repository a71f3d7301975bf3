------------------------- MODULE AvailabilityProofs ------------------------
(***************************************************************************)
(* What the search, the list for a day and the occupancy report answer, for *)
(* every hotel: they agree with what can be booked and with who is in the  *)
(* house, because money and nights do.                                     *)
(***************************************************************************)
EXTENDS Availability, GuestProofs

\* A row create_booking would make of a stay somebody may ask about.
LEMMA AskableRow ==
  ASSUME TypeOK, NEW stay \in Askable, NEW r \in Room, NEW g \in Guest
  PROVE  LET row == NewBooking(g, r, stay) IN
           /\ row \in Booking
           /\ row.room = r
           /\ row.checkIn = stay.checkIn /\ row.checkOut = stay.checkOut
           /\ row.checkIn < row.checkOut
  BY DEF Askable, NewBooking, Booking, Status, TypeOK

\* The list for a day is the search for its night: <= and > there, < and > here.
LEMMA DayIsOneNight ==
  ASSUME TypeOK, NEW d \in Day
  PROVE  AvailableRooms(d) = SearchAvailableRooms([checkIn |-> d, checkOut |-> d + 1])
<1> DEFINE night == [checkIn |-> d, checkOut |-> d + 1]
<1>1. ASSUME NEW b \in BookingId, Exists(b)
      PROVE  bookings[b].checkIn \in Int
  BY <1>1, TimeAssumption DEF TypeOK, Exists, Booking, Day
<1>2. d \in Int
  BY TimeAssumption DEF Day
<1>3. ASSUME NEW b \in BookingId, Exists(b)
      PROVE  /\ bookings[b].checkIn <= d <=> bookings[b].checkIn < night.checkOut
             /\ bookings[b].checkOut > d <=> bookings[b].checkOut > night.checkIn
  BY <1>1, <1>2, <1>3
<1>4. ASSUME NEW r \in Room
      PROVE  r \in ConflictingRooms(night) <=>
               \E b \in BookingId : /\ InHouse(b, d) /\ bookings[b].room = r
                                    /\ bookings[b].status # "cancelled"
  BY <1>3 DEF ConflictingRooms, InHouse
<1> HIDE DEF night
<1>5. AvailableRooms(d) = SearchAvailableRooms(night)
  BY <1>4 DEF AvailableRooms, SearchAvailableRooms
<1> QED BY <1>5 DEF night

\* What keeps a room back from the search keeps it from being booked.
LEMMA WithheldIsTaken ==
  ASSUME TypeInv, StayBacked, NEW stay \in Askable, NEW r \in Room, NEW g \in Guest,
         r \in ConflictingRooms(stay)
  PROVE  Taken(NewBooking(g, r, stay))
<1> DEFINE row == NewBooking(g, r, stay)
<1>1. PICK b \in BookingId :
        /\ Exists(b) /\ bookings[b].status # "cancelled" /\ bookings[b].room = r
        /\ bookings[b].checkIn < stay.checkOut /\ bookings[b].checkOut > stay.checkIn
  BY DEF ConflictingRooms
<1>2. /\ row \in Booking /\ row.room = r /\ row.checkIn < row.checkOut
      /\ row.checkIn = stay.checkIn /\ row.checkOut = stay.checkOut
  BY AskableRow DEF TypeInv
<1>3. bookings[b] \in Booking /\ bookings[b].checkIn < bookings[b].checkOut
  BY <1>1 DEF TypeInv, TypeOK, References, Exists
<1> HIDE DEF row
<1>4. Overlap(bookings[b], row)
  BY <1>1, <1>2 DEF Overlap
<1>5. CASE bookings[b].status # "completed"
  BY <1>1, <1>4, <1>5 DEF Taken, row
<1>6. CASE bookings[b].status = "completed"
  <2>1. OwnsNights(b)
    BY <1>1, <1>6 DEF StayBacked, SoldStatus, Sold
  <2>2. PICK n \in Nights(row) : n \in Nights(bookings[b])
    BY <1>2, <1>3, <1>4, OverlapSharesNight
  <2>3. roomNights[n] = b /\ b # NoBooking
    BY <2>1, <2>2, SentinelAssumption DEF OwnsNights
  <2>4. ~NightsFree(row)
    BY <2>2, <2>3 DEF NightsFree
  <2> QED BY <2>4 DEF Taken, row
<1> QED BY <1>5, <1>6

\* What the search offers and create_booking refuses was paid for and cancelled.
LEMMA OfferedOrCancelled ==
  ASSUME TypeInv, MoneyMatchesNights,
         NEW stay \in Askable, NEW r \in Room, NEW g \in Guest,
         r \in SearchAvailableRooms(stay), Taken(NewBooking(g, r, stay))
  PROVE  \E n \in {r} \X (stay.checkIn .. stay.checkOut - 1) :
           /\ roomNights[n] # NoBooking
           /\ HasStatus(roomNights[n], "cancelled")
           /\ Paid(roomNights[n])
<1> DEFINE row == NewBooking(g, r, stay)
<1>1. /\ row \in Booking /\ row.room = r /\ row.checkIn < row.checkOut
      /\ row.checkIn = stay.checkIn /\ row.checkOut = stay.checkOut
  BY AskableRow DEF TypeInv
<1>2. Taken(row)
  OBVIOUS
<1> HIDE DEF row
<1>3. ASSUME NEW b \in BookingId, Exists(b), Overlap(bookings[b], row)
      PROVE  bookings[b].status = "cancelled"
  BY <1>1, <1>3 DEF Overlap, SearchAvailableRooms, ConflictingRooms
<1>4. ~NightsFree(row)
  BY <1>2, <1>3 DEF Taken
<1>5. PICK n \in Nights(row) : roomNights[n] # NoBooking
  BY <1>4 DEF NightsFree
<1>6. n \in {r} \X (stay.checkIn .. stay.checkOut - 1)
  BY <1>1, <1>5 DEF Nights
<1>7. n \in Room \X Day
  BY <1>6, TimeAssumption DEF Askable, Day
<1> DEFINE b == roomNights[n]
<1>8. b \in BookingId
  BY <1>5, <1>7 DEF TypeInv, TypeOK
<1>9. Paid(b) /\ n \in Nights(bookings[b]) /\ Exists(b)
  BY <1>5, <1>7, <1>8 DEF MoneyMatchesNights, Sold
<1>10. bookings[b] \in Booking /\ bookings[b].checkIn < bookings[b].checkOut
  BY <1>8, <1>9 DEF TypeInv, TypeOK, References, Exists
<1> HIDE DEF b
<1>11. Overlap(bookings[b], row)
  BY <1>1, <1>5, <1>9, <1>10, OverlapSharesNight
<1>12. HasStatus(b, "cancelled")
  BY <1>3, <1>8, <1>9, <1>11 DEF HasStatus
<1> QED BY <1>5, <1>6, <1>9, <1>12 DEF b

\* A room the search keeps back cannot be booked, and one it offers can, but for
\* nights that a cancelled booking has paid for.
THEOREM SearchAgrees == Spec => []SearchAgreesWithBooking
<1>1. TypeInv /\ StayBacked /\ MoneyMatchesNights => SearchAgreesWithBooking
  BY WithheldIsTaken, OfferedOrCancelled DEF SearchAgreesWithBooking
<1> QED BY <1>1, TypeInvariant, StaysBacked, MoneyBacked, PTL

\* Today's report counts the rooms of the guests who stay the night, as many as
\* there are such guests, and tonight's list offers none of them; neither takes
\* any notice of guests who should have left.
THEOREM GuestsCounted == Spec => []GuestsAccountedFor
<1>1. ASSUME StayDatesRespected, OneGuestUnlessOverdue, TypeInv
      PROVE  GuestsAccountedFor
  <2> DEFINE staying == {b \in BookingId : HasStatus(b, "checked_in")
                                             /\ bookings[b].checkOut > Today}
  <2>1. staying = {b \in BookingId : InHouse(b, Today) /\ HasStatus(b, "checked_in")}
    BY <1>1 DEF StayDatesRespected, HasStatus, InHouse
  <2>2. OccupiedRooms(Today) = {bookings[b].room : b \in staying}
    BY <2>1 DEF OccupiedRooms
  <2>3. ASSUME NEW b \in staying, NEW c \in staying,
               bookings[b].room = bookings[c].room, b # c
        PROVE  FALSE
    <3>1. bookings[b].checkOut <= Today \/ bookings[c].checkOut <= Today
      BY <1>1, <2>3 DEF OneGuestUnlessOverdue
    <3>2. /\ bookings[b].checkOut \in Int /\ bookings[c].checkOut \in Int
          /\ Today \in Int
      BY <1>1, <2>3, TimeAssumption
      DEF TypeInv, TypeOK, HasStatus, Exists, Booking, Day, Time, Today
    <3> QED BY <3>1, <3>2
  <2>4. ASSUME NEW b \in staying
        PROVE  bookings[b].room \notin AvailableRooms(Today)
    BY <2>1, <2>4 DEF AvailableRooms, HasStatus
  <2> QED BY <2>2, <2>3, <2>4 DEF GuestsAccountedFor
<1> QED BY <1>1, TypeInvariant, DatesRespected, OverdueOnly, PTL
=============================================================================
