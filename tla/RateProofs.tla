---------------------------- MODULE RateProofs -----------------------------
(***************************************************************************)
(* Rates, proved for any rates, stays and sessions: which totals can be    *)
(* paid online, that the price paid is the price quoted, and that patches  *)
(* of different columns do not undo each other.                            *)
(***************************************************************************)
EXTENDS Rates, TLAPS

\* Patches in flight passed the schema.
PatchesFit == \A s \in Session : calls[s].op = "patch" => Fits(calls[s].patch)

\* An amount typed at the desk was compared with a total that does not change.
OfflineRight ==
  \A s \in Session : calls[s].op = "offline" =>
    Quoted(calls[s].booking) /\ RightMoney(calls[s].booking, calls[s].amount)

\* A booking that is about to be inserted is not paid.
NewUnpaid == \A s \in Session : calls[s].op = "book" => calls[s].quote.paid = Unpaid

RateInv == TypeOK /\ PatchesFit /\ OfflineRight /\ NewUnpaid /\ PaidAsQuoted

----------------------------------------------------------------------------
(* Arithmetic.                                                             *)

\* Rounding gives a whole number of naira, and none is nearer to the total.
LEMMA WholeNairaNearest ==
  ASSUME NEW total \in Nat
  PROVE  /\ \E naira \in 0 .. (total \div Naira) + 1 : WholeNaira(total) = Naira * naira
         /\ WholeNaira(total) \in Nat
         /\ \A naira \in Nat :
              Distance(WholeNaira(total), total) <= Distance(Naira * naira, total)
<1> DEFINE d == total \div 100
           r == total % 100
           up == IF 2 * r > 100 \/ (2 * r = 100 /\ d % 2 = 1) THEN 1 ELSE 0
<1>1. d \in Nat /\ r \in 0 .. 99 /\ total = 100 * d + r
  OBVIOUS
<1>2. up \in {0, 1} /\ (up = 1 => 2 * r >= 100) /\ (up = 0 => 2 * r <= 100)
  BY <1>1
<1>3. WholeNaira(total) = 100 * (d + up)
  BY DEF WholeNaira, Naira
<1> HIDE DEF d, r, up
<1>4. d + up \in 0 .. (total \div Naira) + 1
  BY <1>1, <1>2 DEF Naira, d
<1>5. ASSUME NEW naira \in Nat
      PROVE  Distance(100 * (d + up), total) <= Distance(100 * naira, total)
  <2>1. CASE naira <= d
    BY <1>1, <1>2, <2>1 DEF Distance
  <2>2. CASE naira >= d + 1
    BY <1>1, <1>2, <2>2 DEF Distance
  <2> QED BY <1>1, <2>1, <2>2
<1> QED BY <1>1, <1>2, <1>3, <1>4, <1>5 DEF Naira

LEMMA PayableTotals ==
  ASSUME NEW total \in Nat
  PROVE  Acceptable(WholeNaira(total), total) <=>
           \E naira \in 1 .. (total \div Naira) + 1 : Acceptable(Naira * naira, total)
<1> DEFINE whole == WholeNaira(total)
<1>1. PICK n \in 0 .. (total \div Naira) + 1 : whole = Naira * n
  BY WholeNairaNearest
<1>2. whole \in Nat /\ \A naira \in Nat :
        Distance(whole, total) <= Distance(Naira * naira, total)
  BY WholeNairaNearest
<1> HIDE DEF whole
<1>3. ASSUME Acceptable(whole, total)
      PROVE  n \in 1 .. (total \div Naira) + 1
  BY <1>1, <1>3 DEF Acceptable, Naira
<1>4. ASSUME NEW naira \in 1 .. (total \div Naira) + 1, Acceptable(Naira * naira, total)
      PROVE  Acceptable(whole, total)
  <2>1. naira \in Nat /\ naira >= 1
    BY <1>4 DEF Naira
  <2>2. Distance(whole, total) <= Distance(Naira * naira, total)
    BY <1>2, <2>1
  <2>3. total >= 99
    BY <1>4, <2>1 DEF Acceptable, Distance, Naira, Cent
  <2> QED BY <1>2, <1>4, <2>1, <2>2, <2>3 DEF Acceptable, Distance, Naira, Cent
<1>5. Acceptable(whole, total) <=>
        \E naira \in 1 .. (total \div Naira) + 1 : Acceptable(Naira * naira, total)
  BY <1>1, <1>3, <1>4
<1> QED BY <1>5 DEF whole

----------------------------------------------------------------------------
(* Calls and rows.                                                         *)

LEMMA CallFields ==
  ASSUME NEW c \in Call
  PROVE  /\ c.op = "patch" => /\ c.name \in TypeName /\ c.seen \in TypeRow
                              /\ c.patch \in Patch
         /\ c.op = "book" => c.quote \in Quote
         /\ c.op = "offline" => c.booking \in BookingId /\ c.amount \in Amount
<1>1. CASE c = Idle  BY <1>1 DEF Idle
<1>2. CASE c \in [op : {"patch"}, name : TypeName, seen : TypeRow, patch : Patch]
  BY <1>2
<1>3. CASE c \in [op : {"book"}, quote : Quote]  BY <1>3
<1>4. CASE c \in [op : {"offline"}, booking : BookingId, amount : Amount]  BY <1>4
<1> QED BY <1>1, <1>2, <1>3, <1>4 DEF Call

\* The row a patch leaves, unless it has a null, is a row of the table.
LEMMA WrittenRow ==
  ASSUME TypeOK, PatchesFit, NEW s \in Session, calls[s].op = "patch",
         \A col \in Column : Written(calls[s])[col] # Null
  PROVE  Written(calls[s]) \in TypeRow
<1> DEFINE c == calls[s]
<1>1. c.name \in TypeName /\ c.seen \in TypeRow /\ Fits(c.patch)
  BY CallFields DEF TypeOK, PatchesFit
<1>2. roomTypes[c.name] \in TypeRow
  BY <1>1 DEF TypeOK
<1>3. Written(c).base_rate \in Rate
  BY <1>1, <1>2 DEF Written, Wanted, Column, Fits, TypeRow
<1>4. Written(c).capacity \in Capacity
  BY <1>1, <1>2 DEF Written, Wanted, Column, Fits, TypeRow
<1>5. Written(c) = [base_rate |-> Written(c).base_rate,
                    capacity |-> Written(c).capacity]
  BY DEF Written, Column
<1> QED BY <1>3, <1>4, <1>5 DEF TypeRow

LEMMA StepCases ==
  ASSUME [Next]_vars
  PROVE  \/ \E s \in Session : \/ \E n \in TypeName, patch \in Patch :
                                    RequestPatch(s, n, patch)
                               \/ \E n \in TypeName, nights \in StayLength :
                                    RequestQuote(s, n, nights)
                               \/ \E b \in BookingId : RequestOffline(s, b)
                               \/ CommitPatch(s)
                               \/ InsertQuote(s)
                               \/ CommitOffline(s)
                               \/ LoseCall(s)
         \/ \E b \in BookingId : \/ PayOnline(b)
                                 \/ \E amount \in asked[b] : Webhook(b, amount)
         \/ UNCHANGED vars
BY DEF Next, Request, Commit, OnlineStep

LEMMA TypeStep ==
  ASSUME TypeOK, PatchesFit, [Next]_vars
  PROVE  TypeOK'
<1> USE DEF TypeOK
<1>1. ASSUME NEW s \in Session, NEW n \in TypeName, NEW patch \in Patch,
             RequestPatch(s, n, patch)
      PROVE  TypeOK'
  <2>1. [op |-> "patch", name |-> n, seen |-> roomTypes[n], patch |-> patch] \in Call
    BY DEF Call
  <2> QED BY <1>1, <2>1 DEF RequestPatch, Begin
<1>2. ASSUME NEW s \in Session, NEW n \in TypeName, NEW nights \in StayLength,
             RequestQuote(s, n, nights)
      PROVE  TypeOK'
  <2> DEFINE total == roomTypes[n].base_rate * nights
             quote == [type |-> n, nights |-> nights, total |-> total, paid |-> Unpaid]
  <2>1. roomTypes[n].base_rate \in Nat /\ nights \in Nat
    BY RateAssumption DEF TypeRow
  <2>2. total \in Amount \ {0}
    BY <2>1, RateAssumption DEF Amount, TypeRow
  <2>3. quote \in Quote
    <3> HIDE DEF total
    <3> QED BY <2>2 DEF Quote
  <2>4. [op |-> "book", quote |-> quote] \in Call
    BY <2>3 DEF Call
  <2> QED BY <1>2, <2>4 DEF RequestQuote, Begin
<1>3. ASSUME NEW s \in Session, NEW b \in BookingId, RequestOffline(s, b)
      PROVE  TypeOK'
  <2>1. quotes[b].total \in Nat \ {0}
    BY <1>3 DEF RequestOffline, Awaits, Quoted, Quote, Amount
  <2>2. PICK amount \in quotes[b].total - Cent .. quotes[b].total + Cent :
          Begin(s, [op |-> "offline", booking |-> b, amount |-> amount])
    BY <1>3 DEF RequestOffline
  <2>3. amount \in Nat
    BY <2>1 DEF Cent
  <2>4. [op |-> "offline", booking |-> b, amount |-> amount] \in Call
    BY <2>3 DEF Call, Amount
  <2> QED BY <1>3, <2>2, <2>4 DEF RequestOffline, Begin
<1>4. ASSUME NEW s \in Session, CommitPatch(s)
      PROVE  TypeOK'
  <2>1. CASE UNCHANGED roomTypes
    BY <1>4, <2>1 DEF CommitPatch, End, Call
  <2>2. CASE /\ \A col \in Column : Written(calls[s])[col] # Null
             /\ roomTypes' = [roomTypes EXCEPT ![calls[s].name] = Written(calls[s])]
    <3>1. Written(calls[s]) \in TypeRow
      BY <1>4, <2>2, WrittenRow DEF CommitPatch
    <3> QED BY <1>4, <2>2, <3>1 DEF CommitPatch, End, Call
  <2> QED BY <1>4, <2>1, <2>2 DEF CommitPatch
<1>5. ASSUME NEW s \in Session, InsertQuote(s)
      PROVE  TypeOK'
  BY <1>5, CallFields DEF InsertQuote, End, Call
<1>6. ASSUME NEW b \in BookingId, NEW amount \in Amount, Awaits(b)
      PROVE  [quotes EXCEPT ![b].paid = amount] \in [BookingId -> Quote \cup {NoQuote}]
  <2>1. quotes[b] \in Quote
    BY <1>6 DEF Awaits, Quoted
  <2>2. [quotes[b] EXCEPT !.paid = amount] \in Quote
    BY <2>1 DEF Quote
  <2> QED BY <2>2
<1>7. ASSUME NEW s \in Session, CommitOffline(s)
      PROVE  TypeOK'
  <2>1. calls[s].booking \in BookingId /\ calls[s].amount \in Amount
    BY <1>7, CallFields DEF CommitOffline
  <2>2. quotes' \in [BookingId -> Quote \cup {NoQuote}]
    BY <1>6, <1>7, <2>1 DEF CommitOffline, SetPaid
  <2> QED BY <1>7, <2>2 DEF CommitOffline, End, Call
<1>8. ASSUME NEW s \in Session, LoseCall(s)
      PROVE  TypeOK'
  BY <1>8 DEF LoseCall, End, Call
<1>9. ASSUME NEW b \in BookingId, PayOnline(b)
      PROVE  TypeOK'
  <2>1. quotes[b].total \in Nat
    BY <1>9 DEF PayOnline, Awaits, Quoted, Quote, Amount
  <2>2. WholeNaira(quotes[b].total) \in Amount
    BY <2>1, WholeNairaNearest DEF Amount
  <2> QED BY <1>9, <2>2 DEF PayOnline
<1>10. ASSUME NEW b \in BookingId, NEW amount \in asked[b], Webhook(b, amount)
       PROVE  TypeOK'
  BY <1>6, <1>10 DEF Webhook, SetPaid
<1>11. CASE UNCHANGED vars
  BY <1>11 DEF vars
<1> QED
  BY <1>1, <1>2, <1>3, <1>4, <1>5, <1>7, <1>8, <1>9, <1>10, <1>11, StepCases

\* A quote, once given, keeps its total, whoever pays it and when.
LEMMA QuotesKept ==
  ASSUME TypeOK, [Next]_vars, NEW b \in BookingId, Quoted(b)
  PROVE  /\ Quoted(b)'
         /\ quotes'[b].total = quotes[b].total
<1> USE DEF TypeOK
<1>1. ASSUME NEW c \in BookingId, NEW amount \in Amount, Awaits(c),
             quotes' = [quotes EXCEPT ![c].paid = amount]
      PROVE  Quoted(b)' /\ quotes'[b].total = quotes[b].total
  <2>1. CASE b = c
    <3>1. quotes[b] \in Quote
      BY DEF Quoted
    <3>2. quotes'[b] = [quotes[b] EXCEPT !.paid = amount]
      BY <1>1, <2>1
    <3>3. quotes'[b] \in Quote /\ quotes'[b].total = quotes[b].total
      BY <3>1, <3>2 DEF Quote
    <3> QED BY <3>3, RateAssumption DEF Quoted
  <2>2. CASE b # c
    BY <1>1, <2>2 DEF Quoted
  <2> QED BY <2>1, <2>2
<1>2. CASE \E s \in Session : CommitOffline(s)
  BY <1>1, <1>2, CallFields DEF CommitOffline, SetPaid, Quoted
<1>3. CASE \E c \in BookingId : \E amount \in asked[c] : Webhook(c, amount)
  BY <1>1, <1>3 DEF Webhook, SetPaid
<1>4. CASE \E s \in Session : InsertQuote(s)
  BY <1>4 DEF InsertQuote, Quoted
<1>5. CASE UNCHANGED quotes
  BY <1>5 DEF Quoted
<1> QED
  BY <1>2, <1>3, <1>4, <1>5, StepCases
  DEF RequestPatch, RequestQuote, RequestOffline, CommitPatch, LoseCall, PayOnline, vars

LEMMA FlightStep ==
  ASSUME RateInv, [Next]_vars
  PROVE  PatchesFit' /\ OfflineRight' /\ NewUnpaid'
<1> USE DEF RateInv, TypeOK, Begin, End
<1>1. ASSUME NEW s \in Session
      PROVE  \/ calls'[s] = calls[s]
             \/ calls'[s].op = "idle"
             \/ calls'[s].op = "book" /\ calls'[s].quote.paid = Unpaid
             \/ calls'[s].op = "patch" /\ Fits(calls'[s].patch)
             \/ /\ calls'[s].op = "offline"
                /\ \E b \in BookingId : /\ b = calls'[s].booking /\ Quoted(b)
                                        /\ RightMoney(b, calls'[s].amount)
  <2>1. CASE \E r \in Session, n \in TypeName, patch \in Patch :
               RequestPatch(r, n, patch)
    BY <2>1 DEF RequestPatch
  <2>2. CASE \E r \in Session, n \in TypeName, nights \in StayLength :
               RequestQuote(r, n, nights)
    BY <2>2 DEF RequestQuote
  <2>3. CASE \E r \in Session, b \in BookingId : RequestOffline(r, b)
    BY <2>3 DEF RequestOffline, Awaits
  <2>4. CASE \E r \in Session : End(r)
    BY <2>4 DEF Idle
  <2>5. CASE UNCHANGED calls
    BY <2>5
  <2> QED
    BY <2>1, <2>2, <2>3, <2>4, <2>5, StepCases
    DEF CommitPatch, InsertQuote, CommitOffline, LoseCall, PayOnline, Webhook, vars
<1>2. PatchesFit'
  BY <1>1 DEF PatchesFit, Fits
<1>3. ASSUME NEW s \in Session, calls'[s].op = "offline"
      PROVE  /\ quotes'[calls'[s].booking] # NoQuote
             /\ Acceptable(calls'[s].amount, quotes'[calls'[s].booking].total)
  <2>1. PICK b \in BookingId : /\ b = calls'[s].booking /\ Quoted(b)
                               /\ RightMoney(b, calls'[s].amount)
    BY <1>1, <1>3, CallFields DEF OfflineRight
  <2> QED BY <2>1, QuotesKept DEF Quoted, RightMoney
<1>4. NewUnpaid'
  BY <1>1 DEF NewUnpaid
<1> QED BY <1>2, <1>3, <1>4 DEF OfflineRight, Quoted, RightMoney

LEMMA PaidStep ==
  ASSUME RateInv, [Next]_vars
  PROVE  PaidAsQuoted'
<1> USE DEF RateInv, TypeOK
<1> SUFFICES ASSUME NEW b \in BookingId, quotes'[b] # NoQuote, quotes'[b].paid # Unpaid
             PROVE  Distance(quotes'[b].paid, quotes'[b].total) <= Cent
  BY DEF PaidAsQuoted, Quoted, Awaits
<1>1. CASE quotes'[b] = quotes[b]
  BY <1>1 DEF PaidAsQuoted, Quoted, Awaits
<1>2. ASSUME NEW amount \in Amount, Awaits(b), RightMoney(b, amount), SetPaid(b, amount)
      PROVE  Distance(quotes'[b].paid, quotes'[b].total) <= Cent
  <2>1. quotes[b] \in Quote /\ quotes'[b] = [quotes[b] EXCEPT !.paid = amount]
    BY <1>2 DEF Awaits, Quoted, SetPaid
  <2>2. quotes'[b].paid = amount /\ quotes'[b].total = quotes[b].total
    BY <2>1 DEF Quote
  <2> QED BY <1>2, <2>2 DEF RightMoney, Acceptable
<1>3. ASSUME NEW s \in Session, CommitOffline(s), quotes'[b] # quotes[b]
      PROVE  Distance(quotes'[b].paid, quotes'[b].total) <= Cent
  <2>1. calls[s].booking \in BookingId /\ calls[s].amount \in Amount
    BY <1>3, CallFields DEF CommitOffline
  <2>2. calls[s].booking = b /\ Awaits(b) /\ SetPaid(b, calls[s].amount)
    BY <1>3, <2>1 DEF CommitOffline, SetPaid
  <2>3. RightMoney(b, calls[s].amount)
    BY <1>3, <2>2 DEF CommitOffline, OfflineRight
  <2> QED BY <1>2, <2>1, <2>2, <2>3
<1>4. ASSUME NEW c \in BookingId, NEW amount \in asked[c], Webhook(c, amount),
             quotes'[b] # quotes[b]
      PROVE  Distance(quotes'[b].paid, quotes'[b].total) <= Cent
  <2>1. c = b
    BY <1>4 DEF Webhook, SetPaid
  <2> QED BY <1>2, <1>4, <2>1 DEF Webhook
<1>5. ASSUME NEW s \in Session, InsertQuote(s), quotes'[b] # quotes[b]
      PROVE  Distance(quotes'[b].paid, quotes'[b].total) <= Cent
  <2>1. quotes'[b].paid = Unpaid
    BY <1>5 DEF InsertQuote, NewUnpaid
  <2> QED BY <2>1
<1> QED
  BY <1>1, <1>3, <1>4, <1>5, StepCases
  DEF RequestPatch, RequestQuote, RequestOffline, CommitPatch, LoseCall, PayOnline, vars

LEMMA RateInvariant == Spec => []RateInv
<1>1. Init => RateInv
  BY RateAssumption
  DEF Init, RateInv, TypeOK, PatchesFit, OfflineRight, NewUnpaid, PaidAsQuoted, Quoted,
      Call, Idle
<1>2. ASSUME RateInv, [Next]_vars PROVE RateInv'
  BY <1>2, TypeStep, FlightStep, PaidStep DEF RateInv
<1> QED BY <1>1, <1>2, PTL DEF Spec

----------------------------------------------------------------------------
\* Tables keep their types: no null, whoever sends one, and no total of nothing
\* (rooms/service.py update_room_type, the NOT NULL columns of room_types).
THEOREM RateTypes == Spec => []TypeOK
<1>1. RateInv => TypeOK
  BY DEF RateInv
<1> QED BY <1>1, RateInvariant, PTL

\* What is paid is within a cent of what was quoted
\* (payments/service.py process_webhook and record_offline_payment).
THEOREM PaidIsQuoted == Spec => []PaidAsQuoted
<1>1. RateInv => PaidAsQuoted
  BY DEF RateInv
<1> QED BY <1>1, RateInvariant, PTL

\* The totals online payment can settle are those within a cent of whole naira
\* (payments/service.py pay_booking, which rounds what the provider collects).
THEOREM PayableOnline == Spec => []WholeNairaPayable
<1>1. RateInv => WholeNairaPayable
  <2> SUFFICES ASSUME RateInv, NEW b \in BookingId, Quoted(b)
               PROVE  LET total == quotes[b].total IN
                        Acceptable(WholeNaira(total), total) <=>
                          \E naira \in 1 .. (total \div Naira) + 1 :
                            Acceptable(Naira * naira, total)
    BY DEF WholeNairaPayable
  <2>1. quotes[b].total \in Nat
    BY DEF RateInv, TypeOK, Quoted, Quote, Amount
  <2> QED BY <2>1, PayableTotals
<1> QED BY <1>1, RateInvariant, PTL

\* A column changes only to what a request that names it says
\* (rooms/service.py update_room_type: exclude_unset, and the ORM's dirty columns).
THEOREM PatchesApart == Spec => PatchesKeptApart
<1> DEFINE Apart ==
      \A n \in TypeName, col \in Column :
        roomTypes'[n][col] # roomTypes[n][col] =>
          \E s \in Session :
            /\ calls[s].op = "patch" /\ calls[s].name = n
            /\ col \in DOMAIN calls[s].patch
            /\ roomTypes'[n][col] = calls[s].patch[col]
<1>1. ASSUME RateInv, [Next]_vars PROVE Apart
  <2> SUFFICES ASSUME NEW n \in TypeName, NEW col \in Column,
                      roomTypes'[n][col] # roomTypes[n][col]
               PROVE  \E s \in Session :
                        /\ calls[s].op = "patch" /\ calls[s].name = n
                        /\ col \in DOMAIN calls[s].patch
                        /\ roomTypes'[n][col] = calls[s].patch[col]
    OBVIOUS
  <2>1. PICK s \in Session :
          /\ calls[s].op = "patch"
          /\ roomTypes' = [roomTypes EXCEPT ![calls[s].name] = Written(calls[s])]
    BY <1>1, StepCases
    DEF RequestPatch, RequestQuote, RequestOffline, CommitPatch, InsertQuote,
        CommitOffline, LoseCall, PayOnline, Webhook, vars
  <2>2. calls[s].name = n /\ roomTypes'[n][col] = Written(calls[s])[col]
    BY <1>1, <2>1, CallFields DEF RateInv, TypeOK
  <2>3. Written(calls[s])[col] = Wanted(calls[s], col)
        /\ Wanted(calls[s], col) # calls[s].seen[col]
    BY <2>2 DEF Written
  <2> QED BY <2>1, <2>2, <2>3 DEF Wanted
<1>2. ASSUME RateInv, [Next]_vars PROVE [Apart]_vars
  BY <1>1, <1>2
<1> QED BY <1>2, RateInvariant, PTL DEF Spec, PatchesKeptApart

----------------------------------------------------------------------------
(* The till.                                                               *)

\* The tables as the till sees them, in a step that leaves the bookings alone.
LEMMA NothingSold ==
  ASSUME UNCHANGED quotes
  PROVE  Desk!Bide
BY DEF Desk!Bide, BillOf, ReceiptOf, Price, Quoted, Awaits

LEMMA InsertIsBill ==
  ASSUME RateInv, NEW s \in Session, InsertQuote(s)
  PROVE  Desk!Bill
<1> DEFINE q == calls[s].quote
<1>1. q \in Quote /\ q.paid = Unpaid /\ q # NoQuote
  BY CallFields, RateAssumption DEF InsertQuote, RateInv, TypeOK, NewUnpaid
<1>2. PICK b \in BookingId : ~Quoted(b) /\ quotes' = [quotes EXCEPT ![b] = q]
  BY DEF InsertQuote
<1>3. quotes'[b] = q /\ \A c \in BookingId \ {b} : quotes'[c] = quotes[c]
  BY <1>2 DEF RateInv, TypeOK
<1>4. /\ Quoted(b)' /\ Awaits(b)'
      /\ BillOf(b)' = [booking |-> b, price |-> Price(q)]
  BY <1>1, <1>3 DEF Quoted, Awaits, BillOf, Price
<1>5. \A c \in BookingId \ {b} :
        /\ Quoted(c)' <=> Quoted(c)
        /\ Awaits(c)' <=> Awaits(c)
        /\ BillOf(c)' = BillOf(c) /\ ReceiptOf(c)' = ReceiptOf(c)
  BY <1>3 DEF Quoted, Awaits, BillOf, ReceiptOf, Price
<1>6. \A c \in BookingId : BillOf(c).booking = c
  BY DEF BillOf
<1>7. Price(q) \in {Price(calls[r].quote) : r \in {t \in Session : calls[t].op = "book"}}
  BY DEF InsertQuote
<1> DEFINE bills    == {BillOf(c) : c \in {x \in BookingId : Quoted(x)}}
           receipts == {ReceiptOf(c) : c \in {x \in BookingId : Quoted(x) /\ ~Awaits(x)}}
           new      == [booking |-> b, price |-> Price(q)]
<1> HIDE DEF q
<1>8. bills' = bills \cup {new}
  <2> HIDE DEF new
  <2> QED BY <1>2, <1>4, <1>5 DEF new
<1>9. receipts' = receipts
  BY <1>2, <1>4, <1>5
<1>10. \A x \in bills : x.booking # b
  BY <1>2, <1>6
<1> QED BY <1>7, <1>8, <1>9, <1>10 DEF Desk!Bill

LEMMA PaidIsReceive ==
  ASSUME RateInv, NEW b \in BookingId, NEW amount \in Amount,
         Awaits(b), RightMoney(b, amount), SetPaid(b, amount)
  PROVE  Desk!Receive
<1>1. quotes[b] \in Quote /\ Quoted(b)
  BY DEF RateInv, TypeOK, Awaits, Quoted
<1>2. /\ quotes'[b] = [quotes[b] EXCEPT !.paid = amount]
      /\ \A c \in BookingId \ {b} : quotes'[c] = quotes[c]
  BY DEF RateInv, TypeOK, SetPaid
<1>3. /\ quotes'[b] \in Quote /\ quotes'[b].paid = amount
      /\ quotes'[b].type = quotes[b].type /\ quotes'[b].nights = quotes[b].nights
      /\ quotes'[b].total = quotes[b].total
  BY <1>1, <1>2 DEF Quote
<1>4. Quoted(b)' /\ ~Awaits(b)'
  BY <1>3, RateAssumption DEF Quoted, Awaits
<1>5. \A c \in BookingId : (Quoted(c)' <=> Quoted(c)) /\ BillOf(c)' = BillOf(c)
  BY <1>1, <1>2, <1>3, <1>4 DEF Quoted, BillOf, Price
<1>6. ReceiptOf(b)' = [booking |-> b, amount |-> amount]
  BY <1>3 DEF ReceiptOf
<1>7. \A c \in BookingId \ {b} :
        (Awaits(c)' <=> Awaits(c)) /\ ReceiptOf(c)' = ReceiptOf(c)
  BY <1>2 DEF Quoted, Awaits, ReceiptOf
<1>8. \A c \in BookingId : ReceiptOf(c).booking = c
  BY DEF ReceiptOf
<1>9. /\ BillOf(b).booking = b /\ BillOf(b).price.total = quotes[b].total
  BY DEF BillOf, Price
<1>10. amount \in quotes[b].total - Cent .. quotes[b].total + Cent
  BY <1>1 DEF RightMoney, Acceptable, Distance, Amount, Cent, Quote
<1> DEFINE bills    == {BillOf(c) : c \in {x \in BookingId : Quoted(x)}}
           receipts == {ReceiptOf(c) : c \in {x \in BookingId : Quoted(x) /\ ~Awaits(x)}}
           new      == [booking |-> b, amount |-> amount]
<1>11. bills' = bills
  BY <1>5
<1>12. receipts' = receipts \cup {new}
  <2> HIDE DEF new
  <2> QED BY <1>4, <1>5, <1>6, <1>7 DEF new
<1>13. \A y \in receipts : y.booking # b
  BY <1>8
<1>14. BillOf(b) \in bills
  BY <1>1
<1> DEFINE x == BillOf(b)
<1>15. /\ x \in bills /\ \A y \in receipts : y.booking # x.booking
       /\ amount \in x.price.total - Cent .. x.price.total + Cent
       /\ receipts' = receipts \cup {[booking |-> x.booking, amount |-> amount]}
  BY <1>9, <1>10, <1>12, <1>13, <1>14
<1> HIDE DEF x, bills, receipts
<1> QED BY <1>11, <1>15 DEF Desk!Receive, bills, receipts

\* A price is told from the rate in force.
LEMMA ToldInForce ==
  ASSUME RateInv, [Next]_vars, NEW s \in Session, calls'[s].op = "book"
  PROVE  \/ calls[s].op = "book" /\ calls'[s].quote = calls[s].quote
         \/ \E n \in TypeName, nights \in StayLength :
              Price(calls'[s].quote) =
                [type |-> n, nights |-> nights, total |-> roomTypes[n].base_rate * nights]
<1> USE DEF RateInv, TypeOK, Begin, End
<1>1. ASSUME NEW r \in Session, NEW n \in TypeName, NEW nights \in StayLength,
             RequestQuote(r, n, nights), r = s
      PROVE  Price(calls'[s].quote) =
               [type |-> n, nights |-> nights, total |-> roomTypes[n].base_rate * nights]
  <2> DEFINE total == roomTypes[n].base_rate * nights
  <2>1. calls'[s].quote = [type |-> n, nights |-> nights, total |-> total,
                           paid |-> Unpaid]
    BY <1>1 DEF RequestQuote
  <2> HIDE DEF total
  <2>2. Price(calls'[s].quote) = [type |-> n, nights |-> nights, total |-> total]
    BY <2>1 DEF Price
  <2> QED BY <2>2 DEF total
<1>2. ASSUME NEW r \in Session, NEW n \in TypeName, NEW nights \in StayLength,
             RequestQuote(r, n, nights), r # s
      PROVE  calls'[s] = calls[s]
  BY <1>2 DEF RequestQuote
<1>3. ASSUME NEW r \in Session, End(r)
      PROVE  calls'[s] = calls[s]
  BY <1>3 DEF Idle
<1>4. ASSUME NEW r \in Session,
             \/ \E n \in TypeName, patch \in Patch : RequestPatch(r, n, patch)
             \/ \E b \in BookingId : RequestOffline(r, b)
      PROVE  calls'[s] = calls[s]
  BY <1>4 DEF RequestPatch, RequestOffline, Idle
<1> DEFINE InForce(quote) ==
             \E n \in TypeName, nights \in StayLength :
               Price(quote) =
                 [type |-> n, nights |-> nights, total |-> roomTypes[n].base_rate * nights]
<1>5. ASSUME NEW r \in Session, NEW n \in TypeName, NEW nights \in StayLength,
             RequestQuote(r, n, nights)
      PROVE  calls'[s] = calls[s] \/ InForce(calls'[s].quote)
  BY <1>1, <1>2, <1>5
<1> HIDE DEF InForce
<1>6. calls'[s] = calls[s] \/ InForce(calls'[s].quote)
  BY <1>3, <1>4, <1>5, StepCases
  DEF CommitPatch, InsertQuote, CommitOffline, LoseCall, PayOnline, Webhook, vars
<1> QED BY <1>6 DEF InForce

\* Guests pay once, what they were told, at a rate that was in force when they
\* asked (bookings/service.py create_booking, payments/service.py).
THEOREM ImplementsTill == Spec => TillSpec
<1>1. Init => Desk!Init
  BY DEF Init, Desk!Init, Quoted, Idle
<1>2. ASSUME RateInv, [Next]_vars
      PROVE  Desk!Bill \/ Desk!Receive \/ Desk!Bide
  <2>1. CASE \E s \in Session : InsertQuote(s)
    BY <1>2, <2>1, InsertIsBill
  <2>2. ASSUME NEW s \in Session, CommitOffline(s)
        PROVE  Desk!Receive \/ Desk!Bide
    <3>1. CASE UNCHANGED quotes
      BY <3>1, NothingSold
    <3>2. CASE Awaits(calls[s].booking) /\ SetPaid(calls[s].booking, calls[s].amount)
      <4>1. /\ calls[s].booking \in BookingId /\ calls[s].amount \in Amount
            /\ RightMoney(calls[s].booking, calls[s].amount)
        BY <1>2, <2>2, CallFields DEF CommitOffline, RateInv, TypeOK, OfflineRight
      <4> QED BY <1>2, <3>2, <4>1, PaidIsReceive
    <3> QED BY <2>2, <3>1, <3>2 DEF CommitOffline
  <2>3. ASSUME NEW b \in BookingId, NEW amount \in asked[b], Webhook(b, amount)
        PROVE  Desk!Receive
    <3>1. amount \in Amount
      BY <1>2 DEF RateInv, TypeOK
    <3> QED BY <1>2, <2>3, <3>1, PaidIsReceive DEF Webhook
  <2>4. CASE UNCHANGED quotes
    BY <2>4, NothingSold
  <2> QED
    BY <1>2, <2>1, <2>2, <2>3, <2>4, StepCases
    DEF RequestPatch, RequestQuote, RequestOffline, CommitPatch, LoseCall, PayOnline,
        vars
<1>3. ASSUME RateInv, [Next]_vars
      PROVE  [Desk!Next]_(Desk!vars)
  <2> DEFINE told == {Price(calls[s].quote) : s \in {t \in Session : calls[t].op = "book"}}
  <2>1. ASSUME NEW s \in Session, calls'[s].op = "book"
        PROVE  Price(calls'[s].quote) \in told \cup Desk!Told
    <3>1. CASE calls[s].op = "book" /\ calls'[s].quote = calls[s].quote
      BY <3>1 DEF Price
    <3>2. ASSUME NEW n \in TypeName, NEW nights \in StayLength,
                 Price(calls'[s].quote) =
                   [type |-> n, nights |-> nights,
                    total |-> roomTypes[n].base_rate * nights]
          PROVE  Price(calls'[s].quote) \in Desk!Told
      BY <3>2 DEF Desk!Told
    <3> QED BY <1>3, <2>1, <3>1, <3>2, ToldInForce
  <2>2. told' \subseteq told \cup Desk!Told
    BY <2>1 DEF Price
  <2> QED BY <1>2, <1>3, <2>2 DEF Desk!Next
<1> QED BY <1>1, <1>3, RateInvariant, PTL DEF Spec, TillSpec, Desk!Spec
=============================================================================
