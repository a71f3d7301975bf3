------------------------------ MODULE StayLife ------------------------------
(***************************************************************************)
(* The life of one booking: it is made, paid for, checked in and checked   *)
(* out, or cancelled before anybody pays.  A request, or the sweep, asks   *)
(* for the next step in the status the code demands and on the day it      *)
(* demands, but is answered later, in whatever status the booking has come *)
(* to by then.  That alone may take a booking out of its order, and only   *)
(* in the ways written here.                                               *)
(***************************************************************************)
EXTENDS Integers

VARIABLES
  status,       \* "none" until the booking is made
  paid,
  first, last,  \* the day of check-in and the day of check-out
  asked,        \* the steps that were asked for and are not answered yet
  day

vars == <<status, paid, first, last, asked, day>>

MayAsk ==
  (IF status = "processing" THEN {"offline", "sweep"} ELSE {})
    \cup (IF status = "confirmed" /\ day = first THEN {"checkIn"} ELSE {})
    \cup (IF status = "checked_in" /\ day = last THEN {"checkOut"} ELSE {})

Make ==
  /\ status = "none" /\ ~paid
  /\ status' = "processing" /\ paid' = paid
  /\ first' < last'

\* Money confirms, once: under the row lock while the booking awaits it, or at the
\* desk, where a cancellation may have come in between.
Pay ==
  /\ ~paid
  /\ \/ status = "processing"
     \/ status = "cancelled" /\ "offline" \in asked
  /\ status' = "confirmed" /\ paid' = TRUE
  /\ UNCHANGED <<first, last>>

\* A webhook without a hold cancels what awaits payment, and nothing else; the
\* sweep cancels whatever has become of a booking that did when it looked.
Cancel ==
  /\ \/ status = "processing" /\ ~paid
     \/ status # "none" /\ "sweep" \in asked
  /\ status' = "cancelled"
  /\ UNCHANGED <<paid, first, last>>

\* Late, it lets in a guest the sweep has cancelled, or one who has left.
CheckIn ==
  /\ "checkIn" \in asked
  /\ paid /\ first <= day
  /\ status \in {"confirmed", "cancelled", "completed"}
  /\ status' = "checked_in"
  /\ UNCHANGED <<paid, first, last>>

\* Late, it closes the stay of a guest the sweep has cancelled.
CheckOut ==
  /\ "checkOut" \in asked
  /\ paid /\ last <= day
  /\ status \in {"checked_in", "cancelled"}
  /\ status' = "completed"
  /\ UNCHANGED <<paid, first, last>>

\* Requests come, end and are lost, and days pass.
Bide == UNCHANGED <<status, paid, first, last>>

Init ==
  /\ status = "none" /\ ~paid
  /\ first = 0 /\ last = 0
  /\ asked = {}
  /\ day = 0

Next ==
  /\ Make \/ Pay \/ Cancel \/ CheckIn \/ CheckOut \/ Bide
  /\ asked' \subseteq asked \cup MayAsk
  /\ day <= day'

Step == [Next]_vars

Spec == Init /\ [][Next]_vars
=============================================================================
