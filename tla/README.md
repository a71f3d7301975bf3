# A TLA+ model of NaijaStay

NaijaStay (`src/`) is a FastAPI service over PostgreSQL and Redis that sells hotel
rooms: guests hold a room, book it, pay online or at the desk, check in and check out,
and housekeeping makes the room sellable again. This directory holds TLA+ modules
of its state-changing parts, TLC runs over small hotels, and proofs, checked by TLAPS, for
hotels of any size. `PROJECT.json` maps every definition to the source lines it
translates. Paths below are relative to `src/`.

## 1. The system

| Component | State it keeps | Operations | Talks to | What is hard | What makes it correct |
|---|---|---|---|---|---|
| Database and sessions (`app/db/session.py`, `alembic/`) | the tables `rooms`, `holds`, `bookings`, `room_nights`, `payments`, `processed_events`, their unique keys | one session and one connection per request; READ COMMITTED; roll back on error | everything | a handler commits long after it read | keys decide races: `PaidStaysDisjoint`, `HoldNeverReplaced` |
| Holds and bookings (`domains/bookings/router.py`, `service.py`) | `holds` (primary key: the room), `bookings` | hold a room, create a booking, check in, check out | reads `rooms`, `room_nights`; after a commit publishes and clears caches | check-then-insert without a lock; a dead hold deleted by primary key | stays backed by money and nights, on their dates |
| Sweepers (`domains/bookings/sweeps.py`, `core/utils.py`) | nothing of their own | every 60 s delete dead holds, every 300 s cancel abandoned bookings | same tables | they write what they selected earlier, one commit for the whole batch | abandoned bookings and dead holds go; nobody else's booking or hold does |
| Payments (`domains/payments`) | `room_nights`, `payments`, `processed_events`, booking status | pay endpoint, webhook, offline payment | starts the provider script and waits; `SELECT ... FOR UPDATE` on the booking | repeated, late and concurrent deliveries; two transactions for one event | money and nights agree; an event is settled before it is recorded |
| Mock provider (`mock_payment_provider.py`) | none | sends a signed event, five-second timeout | webhook | it gives up while the webhook waits for a lock | external: any event, any number of times |
| Housekeeping (`domains/rooms/service.py`) | `rooms.is_available`, `rooms.room_state` | mark a room clean | cache, stream | overlaps a check-out | only a clean room is sold |
| Room views, cache, stream (`domains/rooms/router.py`, `streaming.py`, `integrations/cache.py`) | Redis keys `rooms:list:*`, `rooms:search:*`; the pub/sub channel | get-or-set, clear by prefix, publish a delta, dashboard | Redis may fail at any call | a slow reader stores what a writer has just cleared | a cached list follows the table; staleness ends |
| Availability and occupancy (`domains/rooms/service.py`) | none | search, rooms for a day, occupancy report | reads every table | its own idea of what is free and who is in, beside `create_booking`'s | the search agrees with booking; the reports know every guest not yet due to leave |
| Room types and rates (`domains/rooms`, and the money of bookings and payments) | `room_types.base_rate`, `capacity`; totals and amounts | patch a room type, price a stay, compare an amount | a booking copies the price | the rate changes between booking and payment; two patches at once; rounding | what is paid is what was quoted; patches do not undo each other |
| Accounts and authentication (`domains/users`, `domains/auth`, `core/dependencies.py`, `permissions.py`, `security.py`) | `users`; tokens, which only their holders keep | register, log in, admit a request, create, disable and enable staff | every request | registration races, spellings of an address, tokens never revoked, an account read once per request | one account per address; powers that match; managers stay in |
| Rate limits, logging, envelopes, configuration (`core/`) | limiter counters | - | - | - | - |

How they meet: every handler and both jobs work on the same rows through their own sessions and
never call one another; the rows, their keys and their locks are the whole protocol.
The provider calls back over HTTP, into another session, while `pay_booking` still
waits with its own connection. Redis hears of a change only after its commit.

## 2. The modules

```
RoomRows ─┬─ HotelDb ─┬─ Bookings ─┐
          │           ├─ Payments ─┤
          │           ├─ Rooms ────┼─ Hotel ─┬─ Availability ─┬─ MCHotel            (TLC)
          │           └─ Sweeps ───┤         │                └─ AvailabilityProofs (TLAPS)
          │            NightLedger ┤         └─ HotelProofs ─┬─ GuestProofs  ─┐     (TLAPS)
          │   StayLife, HoldLife ──┘                         └─ LedgerProofs ─┴─ LockProofs
          └─ RoomCache ─┬─ MCRoomCache                                              (TLC)
                        └─ RoomCacheProofs                                          (TLAPS)
Directory ── Accounts ─┬─ MCAccounts                                                (TLC)
                       └─ AccountProofs                                             (TLAPS)
Till ─────── Rates ────┬─ MCRates                                                   (TLC)
                       └─ RateProofs                                                (TLAPS)
```

`NightLedger`, `StayLife`, `HoldLife`, `Directory` and `Till` are abstract specifications that the module to
their right instantiates; every other line is `EXTENDS` (`AvailabilityProofs` extends `GuestProofs`
too).

**`RoomRows`**: a row of `rooms` and `Patch`, what an ORM flush does: SQLAlchemy
updates the columns whose value differs from the one loaded, so two
handlers that have read the same row each write their own column.

**`HotelDb`**: the clock, the six tables, what the provider has sent (`sent`) and the
requests in flight (`txn`). A session is a connection and runs one request at a time.
`txn[s]` remembers what the handler read and has not yet written. `LockedBySession` and
`staleSweep.flushed` are the row locks, `Overlap` and `Nights` the date arithmetic,
`CanConfirm` the unique keys of the migration, `Confirm` what both ways of paying write.
`LoseRequest` is any request that dies uncommitted.

**`Bookings`, `Payments`, `Rooms`, `Sweeps`**: a handler is its reads and decision
(`Request...`, `Lock...`, `CheckOverlap`, `Find...`) and its atomic commit (`Commit...`,
`Insert...`, `Confirm...`); everything else may happen between the two. The code's
awaits and commits set the grain:

- `create_booking` is three steps: room and hold; overlapping bookings and nights; insert.
  Nights are never deleted, so reading bookings and nights in one step loses no
  outcome: whatever passes both reads also passes both at the time of the first.
- `hold_room` inserts under the table's primary key; whoever comes second gets 409.
- An `UPDATE` or `DELETE` of the ORM names the primary key and nothing else, so the stale sweep,
  the offline payment and the deletion of a hold write what they decided earlier, on
  whatever row has that key by now. The key of a hold is its room.
- The webhook waits for the booking's row lock and keeps it until its commit. On a
  booking whose hold is gone it commits the cancellation, which frees the lock, and
  records the event in a second transaction.
- The flush that inserts the nights lies outside the `try` of the webhook, so a key clash there is
  not the 409 the handler answers elsewhere (`FlushClash`, `AnswerServerError`).
- `cancel_stale_processing` visits its bookings in turn. `session.get(Hold, ...)` flushes the pending
  `UPDATE`s, which wait for row locks and then hold them until the commit. The session's identity
  map refers to rows weakly: the hold of the previous turn is still there (`seen`), older ones are
  read again.
- Nothing deletes a room or an account, so the handlers' not-found branches for them are absent.

**`Hotel`** composes them: `Next` is every request on every session, the jobs, the provider, the
clock and failures; `SalesNext` leaves out the requests of the front desk and of housekeeping and
the pay endpoint (the provider may send any event without it). It states the
properties.

**`NightLedger`** is the abstract specification: a stay is sold once, as a whole, for one receipt,
when all its nights are free, and what is sold stays sold. `Hotel` implements it with
`owner <- roomNights`, `receipt <- payments`; holds, statuses, requests, locks
and sweeps are invisible to it.

**`StayLife`** is the abstract specification of one booking, which `Hotel` implements for each. Its
`asked` are the steps a request in flight, or the stale sweep, has decided on and not yet written;
a step may be asked for only in the status and on the day the code demands, and is answered in
whatever status the booking has come to. The disjuncts of its actions are therefore the complete
list of what late writes can do: revive a cancelled booking at the desk, cancel a paid one by the
sweep, let in or out a guest the sweep has cancelled, let in one who has left. No webhook is in that
list, since it locks, and paying twice, going back to processing or changing dates is not either.

**`HoldLife`** is the same for the hold of one room. Who inserts or deletes a hold has looked at the
row the room had earlier: a webhook that confirms found it alive and the payer's, a request or the
sweep that deletes a dead one found it dead, and the stale sweep deletes only where it has read a hold
(`recalled`, or the row as it is) of a guest whose booking there it cancels (`abandoned`). What is deleted
is whatever hold the room has by then, because every `DELETE` names the room alone.

**`RoomCache`** models the cached views and the dashboard apart from the database, because they
meet only at the row of a room. Bookings are paid for already, and are checked in and out on any day.
As in the code nothing keeps two requests from checking one booking out; the second to commit
writes only what differs from the row it read, so that a cleaning in between is half undone, and the
room is dirty and available. A writer reads the row, commits, reads the row again, publishes it
and clears `rooms:list:*`; a reader misses, runs the producer, stores. Redis may fail at
publishing, scanning, clearing and storing. A time to live is a step `Expire` that may happen at
any time. `SCAN` returns every key that is there throughout and may return one stored meanwhile.
The field `excused` of an entry is read by properties only. `board` is what an open dashboard was
last told. The hotel's bookings and holds appear as `excluded`, the rooms they keep out of a
search, which changes at any time.

**`Availability`** adds the read-only queries to `Hotel` as operators over the tables: the search
(`search_available_rooms`), the rooms for a day (`get_available_rooms`) and the rooms the occupancy
report counts. Each is one SQL statement, so it sees one committed state. Its properties set the
queries against `Taken`, the test `create_booking` makes, and against the guests who are in and stay
the night.

**`Accounts`** models who may act. A request is its admission and first read
(`RequestAccount`, `Login`, `Act`, `RequestSwitch`), and its commit or end; everything else may
happen in between, because several processes serve requests. `get_current_user` reads the account
behind a token once, at the start. Tokens are records that exist once issued and stay until they
expire. An address is a `Spelling`, `Normal` is `.strip().lower()`: stored addresses, and every
address looked up, pass through it. The unique index decides registration races in
`CommitAccount`. `CommitSwitch` is the ORM's flush: a disable that found the account already
disabled writes nothing, whatever has been committed since.

**`Directory`** is what `Accounts` promises, without tokens and logins: accounts are opened, one per
address, and never closed, handed on or given another role; staff ones are opened, and switched, at the
word of a manager who was active when it was given. Requests in flight appear as what they ask
(`opening`, `switching`).

**`Rates`** models prices, apart from the hotel because it meets it only in a booking's total. A
manager's patch has read the whole row and writes the columns that differ from it; an explicit
null passes the schema and fails on `NOT NULL`. A booking copies rate times nights. Amounts are
kobo in integers. The pay endpoint asks for the total rounded as Python rounds, to the even
naira from half way; webhook and desk accept an amount that is off by a cent at most. The code
compares floating-point numbers, and of amounts exactly a kobo apart it refuses about half
(99.99 against 100 is refused, 300.01 against 300 is not). The model accepts them, by a step
that need not be taken; refusing is no step. No property says that such a payment succeeds.
Statuses, holds and locks are the business of `Payments` and absent here: a booking awaits payment
or is paid, and it may be paid at any time.

**`Till`** is what `Rates` promises: a price told from the rate in force becomes a bill once, a bill
becomes a receipt once, within a cent, and neither is written over. Patches, what the provider was
told and amounts on their way are invisible to it.

Data abstracted in the hotel: an event's amount and type are its `EventKind` (right money, wrong
money, another type), and `Rates` says what right money is; names, response bodies and logging are
left out. Offline payment of a wrong amount writes nothing and is absent. A refusal that writes nothing is a request that
does not begin.

## 3. The runs

| Run | Specification | Hotel | What it shows |
|---|---|---|---|
| `sales` | `SalesSpec` | 1 room, 2 guests, 2 bookings of the same two nights, 1 event, 2 sessions | `PaidStaysDisjoint`, `MoneyMatchesNights`, `HoldNeverReplaced`, `HoldSpec`: holds live the life of a hold, and `LedgerSpec`: the service implements the ledger |
| `events` | `SalesSpec` | 1 guest, 1 booking, 3 events, one of each kind, a consumed hold left by the seed | `LockedDecisionStands`, `RecordedEventsSettled` |
| `desk` | `Spec` | 2 bookings of successive nights, no provider, the day changes with every tick | `StayBacked`, `StayDatesRespected`, `OneGuestUnlessOverdue`, `SearchAgreesWithBooking`, `GuestsAccountedFor`, and `LifeSpec`: bookings live the life of a stay |
| `liveness` | `FairSpec` | 1 booking, 1 event, every operation | `TypeOK`, `AbandonedBookingEnds`, `ExpiredHoldGoes` |
| `cache` | `FairSpec` of `RoomCache` | 1 room, 2 bookings, 2 writers, 1 reader, the search and one list key | `TypeOK`, `ListsFollowTables`, `CacheHeals` |
| `accounts` | `FairSpec` of `Accounts` | one seeded manager, 3 account ids, two new addresses, one of them spelt in two ways, 2 sessions | `OneAccountPerAddress`, `PowersMatchRole`, `ManagersStayIn`, `DisabledStaffGo`, and `DirectorySpec`: the accounts implement the directory |
| `rates` | `Spec` of `Rates` | one room type, rates of 33.33 and 33.50, stays of 1 and 3 nights, 1 booking, 2 sessions | `TypeOK`, `PaidAsQuoted`, `WholeNairaPayable`, `PatchesKeptApart`, and `TillSpec`: money implements the till |

`LifeSpec` is an action property of every booking, checked where the desk is at work. The instances
of `sales` and `events`, which have the webhook and the sweep, satisfy it too; it is not in their
cfgs because of the time it takes, and its proof covers them.

Five more runs each show a disagreement between the code and what a comment, a test or a document
of the repository says; section 5 lists them.

**Bounds.** Every race the properties are about is between two parties over one room or one
booking, since no handler looks at two rooms and only the stale sweep at two bookings: two
sessions, two bookings and one room let each of them happen. Three
sessions add a third contender to the same keys and locks.
`BookingId` bounds the bookings ever made: `IdsLeft` stops a new booking request when the ids are
used up or promised to requests in flight. `MaxNow`, `LastDay` and `DayLength` bound the
calendar: with a hold time and a grace of one unit, two ticks are enough for a hold to expire
and a booking to go stale; in `desk` a tick is a day. `sales` asks for one two-night stay;
partly overlapping stays are too many states for TLC and are covered by the proof of
`PaidStaysDisjoint`, which holds for every set of stays. In `cache` two bookings of the room let one guest
come after the other, or be let in beside the other. `ListKey` has one key in the run: clearing of one key is
independent of the others, and the proof covers them all. In `accounts` three ids leave room for
the manager and two others, a guest and a member of staff or the two accounts that a lost race
would make; the manager's address can be asked for again too. In `rates` a booking
waits to be inserted when ids are used up, and the four totals are 33.33, 33.50, 99.99 and 100.50
naira: hopeless, half way to an even naira above, a kobo short of a whole one, half way to an even
naira below. `SYMMETRY` is used
in safety runs only and permutes ids that no definition tells apart: bookings, sessions and
guests (the one guest a seed names is the only guest of its run); events are
not permuted, as `OneOfEach` tells them apart.

**Deadlock.** The cfgs of `Hotel` say `CHECK_DEADLOCK FALSE`: the service waits for requests, and in the
model the clock ends at `MaxNow` and ids run out, after which an idle hotel has nothing left to do. That
bookings and holds do not get stuck on the way there is `AbandonedBookingEnds` and `ExpiredHoldGoes`; that
every request ends is not stated, since with the locks the model has no wait can be circular. The runs of
`cache`, `accounts` and `rates` check for deadlock.

**Fairness.** In `Hotel`: the clock ticks; the scheduler runs a job that has work
(`core/utils.py`, both intervals, `max_instances=1`); a handler or a job that can go on
does, since nothing but the event loop and PostgreSQL holds it up. These are
weak fairness of `Tick`, of the sweep steps and of `Progress(s)`. No
guest, provider or member of staff is obliged to do anything. A process that
is restarted for ever never finishes a sweep, so `Fairness` also says that failures cease:
`<>[][SteadyNext]_vars`. What falls due after `MaxNow` is left out of the liveness properties by
their left-hand sides. In `RoomCache` a request goes on and entries expire; Redis may fail
for ever. In `Accounts` a handler goes on (`Progress`); tokens need never expire and nobody need
ask for anything, so that `DisabledStaffGo` does not hang on the life of a token.

**PostgreSQL deadlocks.** Only rows of bookings are locked in the model. The stale sweep's flushed
`DELETE` of a hold (`sweeps.py:47`) locks the row of the hold, and so does the webhook's
(`payments/service.py:219`), so that the two can wait for each other: the sweep for a booking
that the webhook has locked, the webhook for a hold that the sweep has deleted. PostgreSQL then fails one of them. The model has no such wait:
a step that would wait may come at once, and a request or a job may be lost at any time
(`LoseRequest`, `LoseSweep`). It thus has more behaviours than the service, and the safety properties cover
those with a deadlock. The liveness properties assume that losses cease, deadlock victims included;
no property says how often they happen.

## 4. The proofs

`HotelProofs` proves, for every set of rooms, guests, bookings, events and sessions, every set of
stays and every calendar:

- `TypeCorrect`: `TypeOK`. The inductive invariant is `TypeInv`, `TypeOK` with `References`: the
  booking a request, an event or a sweep refers to exists, and every stay, also one not yet
  inserted, has a night. Without `References` a commit could update a row that is not there. The
  step lemmas follow the modules: reading steps, writes of bookings, writes of payments, the system.
- `MoneyBacked`: `MoneyMatchesNights`, inductive together with `TypeInv`. `SaleFrame` says that a
  step either is a sale, which meets the keys, or leaves nights and payments alone; `StaysKept` that the dates
  and the room of a booking never change.
- `NoDoubleSale`: `PaidStaysDisjoint` follows from `MoneyMatchesNights` by `OverlapSharesNight`: two
  stays that overlap share a night, and a night has one owner. The overlap check of
  `create_booking` is not used, and cannot be: it races.
- `StaysBacked`: `StayBacked`, with `StayInv`: a check-in or check-out in flight carries a booking
  that was sold. It is needed because the commit does not look at the status again.
- A lemma, `SalesWithinSpec`: `SalesSpec => Spec`, by their shape, so that every theorem about `Spec` is one about what
  `sales` and `events` check.

`LedgerProofs` adds:

- `ImplementsLedger`: `Spec => LedgerSpec`. A step of the service that is a sale (`SaleFrame`) is a
  sale of the ledger, every other step stutters. A receipt is unspent because the event behind every
  payment is recorded already (`PaidByOwnEvent`, inductive by `EventsKept`) and a confirmation
  inserts its event under the same key.

`LockProofs` adds, with the inductive invariant `LockInv`:

- `LockedDecisions`: `LockedDecisionStands`. A row has one owner among the webhooks and is not flushed
  by the sweep (`LockExclusive`); nobody but the owner changes it (`LockedKept`); so what the
  webhook read stays true (`DecisionStands`). That its booking is unpaid needs `ProcessingUnpaid`,
  and that its event is unrecorded needs `RecordsSettled`.
- `RecordedSettled`: `RecordedEventsSettled`. What is recorded, or about to be by a request in
  flight, has nothing left to confirm, and no step reopens a booking (`NotReopened`).
- `ImplementsLife`: `Spec => LifeSpec`. What a step asks for was read in it (`AskedStep`); what a step
  does to a booking it does not name is nothing (`LeftAlone`); a sale is a payment (`SaleIsPay`).
  `LifeInv` collects what a late write may still rely on: the booking it carries has been sold
  (`StayInv`), the day it was read on was the right one (`DateInv`), a processing booking is unpaid
  (`LockInv`), and a guest to be checked out has arrived (`CheckOutsArrived`), for a stay that is
  paid is not confirmed again (`NotReconfirmed`).
- `ImplementsHold`: `Spec => HoldSpec`, with `HoldsPlaced` (the key of a hold is its room, without which
  the hold the stale sweep remembers from its previous turn could be another room's). What a request is
  about to insert or delete was so when it began (`WantedStep`, `PayersStep`, `RemovingStep`), the sweep
  remembers what it has read and drops only holds of its bookings' guests (`SweptSeen`), and
  each of the five steps that write holds is one of the abstract ones (`HoldMoves`).

`GuestProofs` adds:

- `HoldsNotReplaced`: `HoldNeverReplaced`, over the five steps that write holds.
- `DatesRespected`: `StayDatesRespected`, with `DateInv`: a check-in or check-out in flight read its
  booking on the right day, and days only pass (`DaysPass`).
- `OverdueOnly`: `OneGuestUnlessOverdue`. Two stays that are in the house on one day, neither due to
  leave, share that night, and a night has one owner. It needs `StayBacked`, `MoneyMatchesNights` and
  the dates; that the room was available at check-in is no help, as `unready_room` shows.

`AvailabilityProofs` proves, from the invariants above:

- `SearchAgrees`: `SearchAgreesWithBooking`. A room withheld for a booking is refused because a live
  booking overlaps, or, for a completed one, because its nights are still there (`StayBacked`,
  `MoneyMatchesNights`); a room offered is refused only for nights, and their owner is a booking the
  search skips, a cancelled one, that has been paid (`OfferedOrCancelled`).
- `GuestsCounted`: `GuestsAccountedFor`, from `StayDatesRespected` (a guest who is in has arrived by
  today) and `OneGuestUnlessOverdue` (no two of those who stay the night share a room, so that counting rooms
  counts them). Overdue guests are outside it; see section 5. The list for a day is the search
  for its one night (`DayIsOneNight`).

`AccountProofs` proves, for any people, spellings, sessions and seed, with the invariant
`AccountInv`:

- `OneAccount`: `OneAccountPerAddress`, from `EmailsUnique` and `AddressesNormal`: what is stored, or
  about to be, is normal, and the index compares what is stored.
- `PowersMatch` and `ManagersStay`: `PowersMatchRole` and `ManagersStayIn`, from `AccountsKept`: a
  step keeps every account, its address and its role, and switches accounts of staff only. The latter
  needs `SwitchesAreOfStaff`, since the commit of a switch does not look at the role again.
- `ImplementsDirectory`: `Spec => DirectorySpec`. A commit that inserts opens an account that was asked
  for (`OpeningIsOpen`), one that updates switches one (`SwitchingIsSwitch`), and what a call begins
  was allowed when it began (`OpeningAsked`, `SwitchAsked`): a token of a manager admitted to the
  staff pages belongs to an active manager (`ManagerManages`). That what is opened is
  active is `NewcomersActive`.

`RateProofs` proves, for any rates, stays and sessions, with the invariant `RateInv`:

- `RateTypes`: `TypeOK`. Patches in flight fit the schema (`PatchesFit`), nulls stop at the commit.
- `PaidIsQuoted`: `PaidAsQuoted`, with `OfflineRight`: an amount typed at the desk was compared with a
  total that no step changes (`QuotesKept`).
- `PayableOnline`: `WholeNairaPayable`, by arithmetic: no whole naira amount is nearer to a total than
  the rounded one (`WholeNairaNearest`).
- `PatchesApart`: `PatchesKeptApart`: what the ORM writes differs from what was read, so the patch
  names it.
- `ImplementsTill`: `Spec => TillSpec`. An insert bills the price its request carries
  (`InsertIsBill`), both ways of paying settle a bill that has no receipt (`PaidIsReceive`), and a
  price enters a request only from the rate of that moment (`ToldInForce`).

`RoomCacheProofs` proves, for every set of rooms, writers, readers, dashboards and list keys:

- `CacheTypeCorrect`: `TypeOK`, by induction as it stands: a request that commits finds in its record
  the booking and the row its kind of request carries (`WriteFields`), and what a producer returns is a
  value of the cache (`ViewType`).
- `ListsFollow`: `ListsFollowTables`, inductive with the types: each step that makes a list stale
  is the commit of a writer that has still to clear it.

The assumptions are those the modules name: `TimeAssumption` (positive hold time and day length),
`InputAssumption` (seeds, stays and event kinds have their types), `SentinelAssumption`,
`EntryAssumption` (a null is not a value), `KeyAssumption`, `BookedAssumption` (a booking is for
a room), `SpellingAssumption` (normalising twice is normalising
once), `SeedAssumption` (the seed leaves normal addresses, each once), `RateAssumption` (rates and
stays are positive, as `PositiveFloat` and the date check say). Sets of ids need not be finite.

Model-checked only: everything temporal under fairness (`AbandonedBookingEnds`, `ExpiredHoldGoes`,
`CacheHeals`, `DisabledStaffGo`), which the prover does not
reach. Every safety property that a passing run checks is also proved.

## 5. Where the code and its documents part

| Run | What is said | What happens |
|---|---|---|
| `sweep_others` | `tests/test_sweeper.py:49`: a confirmed booking is left alone; `:5`: "another guest's hold is never touched" | a booking paid after the stale sweep selected it is cancelled by the sweep's commit, its nights stay sold; the same commit deletes holds by room, also one made since it read the old one |
| `cancelled_revived` | `payments/service.py:193`: "CANCELLED stays cancelled" | an offline payment that read the booking first confirms it after it was cancelled |
| `webhook_clash` | `payments/service.py:240`: "genuine night clash -> 409" | the clash surfaces at the flush, outside the `try`, as a 500 |
| `unready_room` | `bookings/service.py:187`: "Room is already occupied."; `project.md:82`: check-out leaves the room dirty and unsellable | a room cleaned during a stay is available, and the next guest is checked in; an overlapping cleaning and check-out write one column each: dirty and available |
| `dashboard` | `project.md:116`: "the dashboard catches up" | a delta lost, or published after a newer one, is never sent again |

What keeps these from selling a night twice is proved: `room_nights` and `payments` are only ever
added to, under their keys (`MoneyBacked`, `NoDoubleSale`).

TLC stops at the first state that breaks a property, so a run shows the first half of
the two rows above that have one. The second half of `unready_room` needs only one booking and two
sessions: with `BookingId = {b1}` and `Session = {s1, s2}` in its cfg, TLC ends in the dirty
room; `RoomCache`, which has no property about it, goes through the same state. That of `sweep_others` is `CommitStaleSweep` with a room in `staleSweep.drop`
that another guest has come to hold.

More, which no violation run is needed for:

- `README.md:206` says that the search returns rooms genuinely available. It offers nights that
  belong to a paid booking the sweep has cancelled, and booking them is refused.
  `SearchAgreesWithBooking` proves that this is the only such case.
- A total that is not within a cent of whole naira can never be paid online, while
  `mock_payment_provider.py:75` speaks of the "smallest unit (e.g. kobo)". `WholeNairaPayable` says
  which totals can; those of the seed, whole thousands, all can.
- `payments/service.py:113` says "Exact amount only" and `project.md:75` "the exact amount";
  the code takes amounts that are off by a cent (`payments/service.py:121`, and `:195` for the webhook).
  `PaidAsQuoted` states it with the cent.
- The occupancy report (`rooms/service.py:213-218`) leaves out a guest who is still in on the check-out
  day or later, although `check_out_guest` can only let such a guest go on that day; and the list for
  tonight (`:113-117`) offers that guest's room once it has been marked clean. `GuestsAccountedFor` is
  about the others, and `OneGuestUnlessOverdue` has the same exception.
- `project.md:78` says that guests check in only on their day of arrival. The day is compared before the
  commit, which can fall on the next day; `StayDatesRespected` says only that nobody is early.
- `integrations/cache.py:12` says search entries must not live longer than 30 s, and `cache.py:28` lets
  them live 60 s.

## 6. What is not modelled

- **Passwords and tokens as bytes**: hashing, signatures and formats of tokens are right or wrong.
  Passwords of over 72 bytes, which bcrypt 5 refuses although the schema allows 128, are
  listed as a hazard. Rooms and accounts are in separate modules: a handler of the hotel is an `Act`
  of `Accounts`, and nothing it does changes an account.
- **Response bodies**: that `BookingOut` validates its dates again, and can answer 500 for a booking
  made just before midnight, is listed as a hazard; the booking is made all the same.
- **Currency**, and amounts below a kobo: a rate with fractions of a kobo, or a patch of a rate to
  infinity, which `PositiveFloat` lets through, has no counterpart.
- **Money and nights together**: `Rates` has no holds or statuses and the hotel no amounts. Composing
  them would multiply two state spaces that touch in one comparison.
- **The number of connections**: requests wait for sessions, but enough payments at once to use up
  the pool, each waiting for a webhook that needs another connection, is a hazard no run covers;
  it ends when the provider script gives up after five seconds.
- **Seeding and migrations**: the rows and keys they leave are `Init` and `CanConfirm`. Seeded
  bookings are not, since the service would never have written them in that order.
- Rate limiting, logging, error envelopes, configuration, opening and closing of Redis: they change
  no state the properties are about.

`PROJECT.json` lists the hazards one by one, with the properties that watch each and, where none
does, why.

## 7. The plan

Done, in order of importance: the database and its sessions; holds, bookings and the desk; payments
and the webhook; the sweeps; the whole and its ledger; the cache and the dashboard; the search and the reports against what is
sold; accounts; rates and money; the five abstract specifications and their refinements. Every
safety property a passing run checks is proved.

What could follow, and why it is not here:

1. Connections as a counted pool, with time for the provider's timeout: it needs a clock finer than
   that of holds and days, and no property of the present modules depends on it.
2. Three sessions in `sales`: out of TLC's reach in minutes; the proofs cover any number.
3. A composition of `Accounts` and `Hotel`, once a handler looks at an account while it runs.
