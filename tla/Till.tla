-------------------------------- MODULE Till --------------------------------
(***************************************************************************)
(* What the hotel charges and what it takes: a guest is told a price, from *)
(* the rate in force at that moment, and is billed it once; the bill is    *)
(* settled once, to a cent, and neither is ever written over, whatever     *)
(* becomes of the rate.                                                    *)
(***************************************************************************)
EXTENDS Integers

CONSTANTS TypeName, StayLength, BookingId, Cent

VARIABLES
  rate,       \* the rate in force, for each type of room
  told,       \* prices told to guests and not billed yet
  bills,      \* records of a booking and its price
  receipts    \* records of a booking and the amount taken for it

vars == <<rate, told, bills, receipts>>

Told ==
  {[type |-> type, nights |-> nights, total |-> rate[type] * nights] :
     type \in TypeName, nights \in StayLength}

Bill ==
  /\ \E b \in BookingId, price \in told :
       /\ \A x \in bills : x.booking # b
       /\ bills' = bills \cup {[booking |-> b, price |-> price]}
  /\ UNCHANGED receipts

Receive ==
  /\ \E x \in bills :
       /\ \A y \in receipts : y.booking # x.booking
       /\ \E amount \in x.price.total - Cent .. x.price.total + Cent :
            receipts' = receipts \cup {[booking |-> x.booking, amount |-> amount]}
  /\ UNCHANGED bills

\* Rates change, the provider is asked to collect, requests are lost.
Bide == UNCHANGED <<bills, receipts>>

Init == told = {} /\ bills = {} /\ receipts = {}

Next ==
  /\ Bill \/ Receive \/ Bide
  /\ told' \subseteq told \cup Told

Spec == Init /\ [][Next]_vars
=============================================================================
