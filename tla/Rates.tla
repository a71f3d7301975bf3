------------------------------- MODULE Rates -------------------------------
(***************************************************************************)
(* What a stay costs and what is paid for it: managers change the row of a *)
(* room type (domains/rooms/service.py), a booking copies rate times       *)
(* nights as its total (domains/bookings/service.py), and the amount paid, *)
(* online or at the desk, is compared with that total                      *)
(* (domains/payments/service.py).  Amounts are whole kobo.  Who may pay    *)
(* and when, holds, sweeps and locks are the business of Payments.         *)
(***************************************************************************)
EXTENDS Integers

CONSTANTS
  TypeName, Rate, Capacity,
  BookingId,
  StayLength,     \* nights a guest may ask for
  Session,
  SeedType,       \* rows a room type may start with
  Null, NoQuote, Unpaid

Naira  == 100     \* kobo in a naira
Cent   == 1       \* the difference an amount may have: 0.01 naira
Amount == Nat

Column == {"base_rate", "capacity"}
TypeRow == [base_rate : Rate, capacity : Capacity]

\* A PATCH body: some columns, each with a value or with an explicit null, which
\* the validators let through.
Patch ==
  UNION {[cols -> Rate \cup Capacity \cup {Null}] : cols \in SUBSET Column}

Quote == [type : TypeName, nights : StayLength, total : Amount \ {0},
          paid : Amount \cup {Unpaid}]

ASSUME RateAssumption ==
  /\ Rate \subseteq Nat \ {0} /\ StayLength \subseteq Nat \ {0}
  /\ SeedType \subseteq TypeRow
  /\ Null \notin Rate \cup Capacity
  /\ Unpaid \notin Amount /\ NoQuote \notin Quote

VARIABLES
  roomTypes,    \* table room_types
  quotes,       \* bookings: the total, and what has been paid
  asked,        \* amounts the provider was told to collect, per booking
  calls         \* what the request on each session has read

vars == <<roomTypes, quotes, asked, calls>>

Idle == [op |-> "idle"]

Call ==
  {Idle}
    \cup [op : {"patch"}, name : TypeName, seen : TypeRow, patch : Patch]
    \cup [op : {"book"}, quote : Quote]
    \cup [op : {"offline"}, booking : BookingId, amount : Amount]

Begin(s, call) == calls[s] = Idle /\ calls' = [calls EXCEPT ![s] = call]
End(s) == calls' = [calls EXCEPT ![s] = Idle]

Quoted(b) == quotes[b] # NoQuote
Awaits(b) == Quoted(b) /\ quotes[b].paid = Unpaid

----------------------------------------------------------------------------
(* Room types.                                                             *)

Fits(patch) ==
  /\ "base_rate" \in DOMAIN patch => patch["base_rate"] \in Rate \cup {Null}
  /\ "capacity" \in DOMAIN patch => patch["capacity"] \in Capacity \cup {Null}

\* PATCH /rooms/room-types/{name}; a body that names no column is refused.
RequestPatch(s, n, patch) ==
  /\ Fits(patch)
  /\ DOMAIN patch # {}
  /\ Begin(s, [op |-> "patch", name |-> n, seen |-> roomTypes[n],
               patch |-> patch])
  /\ UNCHANGED <<roomTypes, quotes, asked>>

Wanted(call, col) ==
  IF col \in DOMAIN call.patch THEN call.patch[col] ELSE call.seen[col]

\* Mutant: the row is written back whole, as read and patched.
WrittenWhole(call) == [col \in Column |-> Wanted(call, col)]

\* The ORM writes the columns whose value differs from the one it loaded.
Written(call) ==
  [col \in Column |-> IF Wanted(call, col) = call.seen[col]
                        THEN roomTypes[call.name][col] ELSE Wanted(call, col)]

\* Mutant: the columns without NOT NULL.
CommitPatchNullable(s) ==
  /\ calls[s].op = "patch"
  /\ roomTypes' = [roomTypes EXCEPT ![calls[s].name] = Written(calls[s])]
  /\ End(s)
  /\ UNCHANGED <<quotes, asked>>

\* A null fails on NOT NULL: the transaction rolls back, and nobody catches the
\* IntegrityError, so the answer is 500.
CommitPatch(s) ==
  /\ calls[s].op = "patch"
  /\ LET row == Written(calls[s]) IN
       \/ /\ \A col \in Column : row[col] # Null
          /\ roomTypes' = [roomTypes EXCEPT ![calls[s].name] = row]
       \/ /\ \E col \in Column : row[col] = Null
          /\ UNCHANGED roomTypes
  /\ End(s)
  /\ UNCHANGED <<quotes, asked>>

----------------------------------------------------------------------------
(* Bookings.                                                               *)

\* create_booking reads the rate and, by the commit, carries only the total.
RequestQuote(s, n, nights) ==
  /\ Begin(s, [op |-> "book",
               quote |-> [type |-> n, nights |-> nights,
                          total |-> roomTypes[n].base_rate * nights,
                          paid |-> Unpaid]])
  /\ UNCHANGED <<roomTypes, quotes, asked>>

InsertQuote(s) ==
  /\ calls[s].op = "book"
  /\ \E b \in BookingId :
       ~Quoted(b) /\ quotes' = [quotes EXCEPT ![b] = calls[s].quote]
  /\ End(s)
  /\ UNCHANGED <<roomTypes, asked>>

----------------------------------------------------------------------------
(* Money.                                                                  *)

Distance(x, y) == IF x < y THEN y - x ELSE x - y

\* Amounts must be positive, and none that is further off is accepted.  Of amounts
\* a kobo apart, the floating-point test against 0.01 refuses about every second:
\* those may be accepted, or answered 422 without a step.
Acceptable(amount, total) == amount > 0 /\ Distance(amount, total) <= Cent

\* Mutant: the naira are cut off instead of rounded.
WholeNairaDown(total) == Naira * (total \div Naira)

\* round(): to the nearest naira, and from half way to the even one.
WholeNaira(total) ==
  LET down == total \div Naira
      rest == total % Naira
      up   == IF \/ 2 * rest > Naira
                 \/ 2 * rest = Naira /\ down % 2 = 1 THEN 1 ELSE 0
  IN Naira * (down + up)

\* Mutant: the price is worked out again from the rate as it is now.
RightMoneyNow(b, amount) ==
  Acceptable(amount, roomTypes[quotes[b].type].base_rate * quotes[b].nights)

RightMoney(b, amount) == Acceptable(amount, quotes[b].total)

SetPaid(b, amount) == quotes' = [quotes EXCEPT ![b].paid = amount]

\* POST /payments/pay/{booking_id}: the provider is told to collect the rounded
\* total, and sends it to the webhook.
PayOnline(b) ==
  /\ Awaits(b)
  /\ asked' = [asked EXCEPT ![b] = @ \cup {WholeNaira(quotes[b].total)}]
  /\ UNCHANGED <<roomTypes, quotes, calls>>

\* The webhook, on a booking it holds locked: any time, any number of times.  Any
\* other amount is answered 422 and changes nothing.
Webhook(b, amount) ==
  /\ amount \in asked[b]
  /\ Awaits(b)
  /\ RightMoney(b, amount)
  /\ SetPaid(b, amount)
  /\ UNCHANGED <<roomTypes, asked, calls>>

\* POST /payments/offline/{booking_id}: the receptionist types an amount, and
\* another than the right one is refused.
RequestOffline(s, b) ==
  /\ Awaits(b)
  /\ \E amount \in quotes[b].total - Cent .. quotes[b].total + Cent :
       /\ RightMoney(b, amount)
       /\ Begin(s, [op |-> "offline", booking |-> b, amount |-> amount])
  /\ UNCHANGED <<roomTypes, quotes, asked>>

\* Mutant: payments without its unique key.
CommitOfflineAgain(s) ==
  /\ calls[s].op = "offline"
  /\ SetPaid(calls[s].booking, calls[s].amount)
  /\ End(s)
  /\ UNCHANGED <<roomTypes, asked>>

\* A booking paid meanwhile clashes on the unique key of payments: 409.
CommitOffline(s) ==
  /\ calls[s].op = "offline"
  /\ \/ Awaits(calls[s].booking) /\ SetPaid(calls[s].booking, calls[s].amount)
     \/ ~Awaits(calls[s].booking) /\ UNCHANGED quotes
  /\ End(s)
  /\ UNCHANGED <<roomTypes, asked>>

----------------------------------------------------------------------------
Init ==
  /\ roomTypes \in [TypeName -> SeedType]
  /\ quotes = [b \in BookingId |-> NoQuote]
  /\ asked = [b \in BookingId |-> {}]
  /\ calls = [s \in Session |-> Idle]

Request(s) ==
  \/ \E n \in TypeName, patch \in Patch : RequestPatch(s, n, patch)
  \/ \E n \in TypeName, nights \in StayLength : RequestQuote(s, n, nights)
  \/ \E b \in BookingId : RequestOffline(s, b)

Commit(s) == CommitPatch(s) \/ InsertQuote(s) \/ CommitOffline(s)

LoseCall(s) ==
  /\ calls[s] # Idle
  /\ End(s)
  /\ UNCHANGED <<roomTypes, quotes, asked>>

OnlineStep(b) == PayOnline(b) \/ \E amount \in asked[b] : Webhook(b, amount)

Next ==
  \/ \E s \in Session : Request(s) \/ Commit(s) \/ LoseCall(s)
  \/ \E b \in BookingId : OnlineStep(b)

Spec == Init /\ [][Next]_vars

----------------------------------------------------------------------------
TypeOK ==
  /\ roomTypes \in [TypeName -> TypeRow]
  /\ quotes \in [BookingId -> Quote \cup {NoQuote}]
  /\ asked \in [BookingId -> SUBSET Amount]
  /\ calls \in [Session -> Call]

\* What is paid is what was quoted, to the cent the code allows, online and at the
\* desk, whatever managers make of the rate between the booking and the payment.
PaidAsQuoted ==
  \A b \in BookingId :
    Quoted(b) /\ ~Awaits(b) => Distance(quotes[b].paid, quotes[b].total) <= Cent

\* Online payment asks for whole naira and is checked to the kobo.  Of all whole
\* amounts the rounded one alone stands a chance: when it is refused for certain,
\* so is every other, and the total can never be paid online, each attempt being
\* answered 422; when some whole amount may be accepted, rounding finds it.
WholeNairaPayable ==
  \A b \in BookingId : Quoted(b) =>
    LET total == quotes[b].total IN
      Acceptable(WholeNaira(total), total) <=>
        \E naira \in 1 .. (total \div Naira) + 1 : Acceptable(Naira * naira, total)

\* A booking is billed at a rate that was in force when its guest asked, although
\* the rate may change before the insert, and settled once, although the desk and
\* the provider may both have the money.
Price(quote) ==
  [type |-> quote.type, nights |-> quote.nights, total |-> quote.total]
BillOf(b) == [booking |-> b, price |-> Price(quotes[b])]
ReceiptOf(b) == [booking |-> b, amount |-> quotes[b].paid]
Desk == INSTANCE Till WITH
  rate     <- [n \in TypeName |-> roomTypes[n].base_rate],
  told     <- {Price(calls[s].quote) : s \in {t \in Session : calls[t].op = "book"}},
  bills    <- {BillOf(b) : b \in {c \in BookingId : Quoted(c)}},
  receipts <- {ReceiptOf(b) : b \in {c \in BookingId : Quoted(c) /\ ~Awaits(c)}}
TillSpec == Desk!Spec

\* Two managers who change different columns of one room type at once both get
\* what they asked for: a column changes only to what a request that names it says.
PatchesKeptApart ==
  [][\A n \in TypeName, col \in Column :
       roomTypes'[n][col] # roomTypes[n][col] =>
         \E s \in Session :
           /\ calls[s].op = "patch" /\ calls[s].name = n
           /\ col \in DOMAIN calls[s].patch
           /\ roomTypes'[n][col] = calls[s].patch[col]]_vars
=============================================================================
