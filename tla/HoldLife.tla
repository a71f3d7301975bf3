------------------------------ MODULE HoldLife ------------------------------
(***************************************************************************)
(* The hold on one room: a promise to one guest until a certain time.  It  *)
(* is given when nobody has one, and ends when it is paid for, when it has *)
(* run out, or when the booking it was for is abandoned.  Whoever takes or *)
(* ends it looked earlier, at the hold the room had then; what is ended is *)
(* whatever hold the room has come to by now.                              *)
(***************************************************************************)
EXTENDS Integers

CONSTANTS Guest, HoldTime, NoHold, room

VARIABLES
  hold,       \* the row, or NoHold
  wanted,     \* rows somebody is about to insert
  payers,     \* guests whose payment is about to be confirmed on this hold
  recalled,   \* the rows of this room the sweep of bookings remembers
  abandoned,  \* guests whose bookings of this room it is cancelling
  removing,   \* why somebody is about to delete it: "dead" or "swept"
  now

vars == <<hold, wanted, payers, recalled, abandoned, removing, now>>

Dead == hold.consumed \/ hold.expires <= now

MayWant ==
  {[room |-> room, guest |-> g, expires |-> now + HoldTime, consumed |-> FALSE] :
     g \in {x \in Guest : hold = NoHold}}

MayPay == {g \in Guest : hold # NoHold /\ ~Dead /\ hold.guest = g}

MayRecall == {hold} \ {NoHold}

\* The sweep removes a hold it has seen, of a guest whose booking it cancels.
MayRemove ==
  {why \in {"dead", "swept"} :
     \/ why = "dead" /\ hold # NoHold /\ Dead
     \/ why = "swept" /\ \E h \in recalled \cup MayRecall : h.guest \in abandoned}

Take == hold = NoHold /\ hold' \in wanted

End == payers # {} /\ hold' = NoHold

Remove == removing # {} /\ hold' = NoHold

\* Requests and sweeps come, end and are lost, and time passes.
Bide == UNCHANGED hold

Init ==
  /\ wanted = {} /\ payers = {} /\ recalled = {} /\ removing = {}
  /\ hold = NoHold \/ hold.room = room
  /\ now = 0

Next ==
  /\ Take \/ End \/ Remove \/ Bide
  /\ wanted' \subseteq wanted \cup MayWant
  /\ payers' \subseteq payers \cup MayPay
  /\ recalled' \subseteq recalled \cup MayRecall
  /\ removing' \subseteq removing \cup MayRemove
  /\ now <= now'

Step == [Next]_vars

Spec == Init /\ [][Next]_vars
=============================================================================
