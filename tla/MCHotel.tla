------------------------------ MODULE MCHotel ------------------------------
(* Instances of Hotel for TLC: inputs, seeds and symmetry.                 *)
EXTENDS Availability, TLC

CONSTANTS r1, g1, g2, b1, b2, e1, e2, e3, s1, s2

FirstNight == {[checkIn |-> 0, checkOut |-> 1]}
TwoNights  == {[checkIn |-> 0, checkOut |-> 2]}
BackToBack == FirstNight \cup {[checkIn |-> 1, checkOut |-> 2]}

AllSucceed == [e \in Event |-> "succeeded"]
OneOfEach ==
  [e \in Event |-> IF e = e1 THEN "succeeded"
                   ELSE IF e = e2 THEN "mismatch" ELSE "failed"]

NoSeed == {}
ConsumedSeed ==
  {[room |-> r1, guest |-> g1, expires |-> 1, consumed |-> TRUE]}

Sellable == {[available |-> TRUE, state |-> "clean"]}
AnySeedRoom == [available : BOOLEAN, state : {"clean"}]

Interchangeable ==
  Permutations(BookingId) \cup Permutations(Session) \cup Permutations(Guest)
=============================================================================
