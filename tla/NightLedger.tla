---------------------------- MODULE NightLedger ----------------------------
(***************************************************************************)
(* What NaijaStay owes its guests, whatever its requests and sweeps do: a  *)
(* stay is sold once, as a whole, for one receipt, when every night of it  *)
(* is free; a night sold stays sold; and a receipt pays for one stay.      *)
(***************************************************************************)
EXTENDS Integers

CONSTANTS Room, LastDay, BookingId, Event, Offline, NoBooking, NoPayment

VARIABLES
  owner,    \* <<room, night>> -> the booking it is sold to, or NoBooking
  receipt   \* booking -> what paid for it, or NoPayment

Night == Room \X (0 .. LastDay)

Unspent(e) == \A b \in BookingId : receipt[b] # e

Sell(b, means, stay) ==
  /\ receipt[b] = NoPayment
  /\ means = Offline \/ Unspent(means)
  /\ stay # {}
  /\ \A n \in stay : owner[n] = NoBooking
  /\ owner' = [n \in Night |-> IF n \in stay THEN b ELSE owner[n]]
  /\ receipt' = [receipt EXCEPT ![b] = means]

SomeStay(b, means) ==
  \E r \in Room, first, last \in 0 .. LastDay :
    Sell(b, means, {r} \X (first .. last))

Init ==
  /\ owner = [n \in Night |-> NoBooking]
  /\ receipt = [b \in BookingId |-> NoPayment]

Next == \E b \in BookingId, means \in Event \cup {Offline} : SomeStay(b, means)

Spec == Init /\ [][Next]_<<owner, receipt>>
=============================================================================
