----------------------------- MODULE RoomCache -----------------------------
(***************************************************************************)
(* What clients see of the rooms without asking PostgreSQL: the JSON views *)
(* Redis caches (integrations/cache.py, used by domains/rooms/router.py)   *)
(* and the dashboard stream (domains/rooms/streaming.py).                  *)
(*                                                                         *)
(* A writer is a request that changes a room: it reads the row, commits,   *)
(* reads the row again, publishes it and clears the list views, in that    *)
(* order.  A reader is a request for a view.  Redis may fail at any call.  *)
(***************************************************************************)
EXTENDS RoomRows

CONSTANTS Room, Writer, Reader, NoEntry,
          Viewer,       \* open dashboards
          ListKey,      \* the keys rooms:list:*, out of "all", "clean", "dirty"
          BookingId,    \* the bookings that are paid for
          BookedRoom    \* the room of each

\* A list of rooms with their rows, or the rooms a search offers.
Value == (SUBSET (Room \X RoomRow)) \cup (SUBSET Room)

ASSUME KeyAssumption == ListKey \subseteq {"all", "clean", "dirty"}
ASSUME BookedAssumption == BookedRoom \in [BookingId -> Room]
ASSUME EntryAssumption == NoEntry \notin [value : Value, excused : BOOLEAN]

VARIABLES
  rooms,      \* table rooms
  stays,      \* booking -> its booking_status
  excluded,   \* rooms a booking or a hold keeps out of the search's dates
  writer, reader,
  cache,      \* Redis: key -> entry
  board       \* what each open dashboard was last told of each room

tables == <<rooms, stays, excluded>>
vars   == <<tables, writer, reader, cache, board>>

Key == ListKey \cup {"search"}

Idle == [op |-> "idle"]

----------------------------------------------------------------------------
(* The views, as their producers read them from the tables.                *)

RoomsOn(state) ==
  {<<r, rooms[r]>> : r \in {q \in Room : state \in {"all", rooms[q].state}}}

Offers == {r \in Room : rooms[r].available /\ r \notin excluded}

View(k) == IF k = "search" THEN Offers ELSE RoomsOn(k)

\* An entry also notes, for the properties alone, whether it is excused from
\* agreeing with the tables: it is a search, which nobody deletes, or it was out
\* of date when it was stored, or Redis failed when it should have been deleted.
Entry(value, excused) == [value |-> value, excused |-> excused]

Stale(k) == cache[k] # NoEntry /\ cache[k].value # View(k)

----------------------------------------------------------------------------
(* Writers: check-in, check-out, cleaning; and a payment or a replayed     *)
(* check-out, which announces a room it has not changed.                   *)

Begin(w, t) == writer[w] = Idle /\ writer' = [writer EXCEPT ![w] = t]
Become(w, t) == writer' = [writer EXCEPT ![w] = t]

\* That the desk is open for a booking only on its dates is left out: any
\* booking may be checked in, and out again, on any day.
RequestCheckIn(w, b) ==
  /\ stays[b] = "confirmed"
  /\ rooms[BookedRoom[b]].available
  /\ Begin(w, [op |-> "checkIn", booking |-> b])
  /\ UNCHANGED <<tables, reader, cache, board>>

\* The status is read without a lock, so several requests may check the same
\* booking out.  The last to commit writes only the columns that it changed: if
\* the room was cleaned in between, and it had read a room that was not
\* available, it leaves the room dirty and available.
RequestCheckOut(w, b) ==
  /\ stays[b] = "checked_in"
  /\ Begin(w, [op |-> "checkOut", booking |-> b, seen |-> rooms[BookedRoom[b]]])
  /\ UNCHANGED <<tables, reader, cache, board>>

RequestClean(w, r) ==
  /\ Begin(w, [op |-> "clean", room |-> r, seen |-> rooms[r]])
  /\ UNCHANGED <<tables, reader, cache, board>>

Announce(w, r) ==
  /\ Begin(w, [op |-> "announce", room |-> r])
  /\ UNCHANGED <<tables, reader, cache, board>>

CommitCheckIn(w) ==
  /\ writer[w].op = "checkIn"
  /\ LET b == writer[w].booking IN
       /\ stays' = [stays EXCEPT ![b] = "checked_in"]
       /\ rooms' = [rooms EXCEPT ![BookedRoom[b]].available = FALSE]
       /\ Become(w, [op |-> "announce", room |-> BookedRoom[b]])
  /\ UNCHANGED <<excluded, reader, cache, board>>

CommitCheckOut(w) ==
  /\ writer[w].op = "checkOut"
  /\ LET b == writer[w].booking IN
       /\ stays' = [stays EXCEPT ![b] = "completed"]
       /\ rooms' = [rooms EXCEPT ![BookedRoom[b]] =
                      Patch(@, writer[w].seen, CheckedOut)]
       /\ Become(w, [op |-> "announce", room |-> BookedRoom[b]])
  /\ UNCHANGED <<excluded, reader, cache, board>>

CommitClean(w) ==
  /\ writer[w].op = "clean"
  /\ rooms' = [rooms EXCEPT ![writer[w].room] =
                 Patch(@, writer[w].seen, Cleaned)]
  /\ Become(w, [op |-> "announce", room |-> writer[w].room])
  /\ UNCHANGED <<stays, excluded, reader, cache, board>>

\* After the commit the row is read once more, in a transaction of its own.
ReadForDelta(w) ==
  /\ writer[w].op = "announce"
  /\ LET r == writer[w].room IN
       Become(w, [op |-> "publish", room |-> r, row |-> rooms[r]])
  /\ UNCHANGED <<tables, reader, cache, board>>

\* Mutant: only the unfiltered list is looked for.
ScannedAll == {"all"} \cap ListKey

\* Mutant: the prefix is so short that it matches the searches as well.
ScannedWide == Key

\* SCAN returns every list key that is there throughout; one that is stored
\* meanwhile may be returned too.  rooms:search:* is not looked for.
Scanned == ListKey

\* Publish the delta, or lose it when Redis fails; then SCAN.
Publish(w) ==
  /\ writer[w].op = "publish"
  /\ \/ board' = [v \in Viewer |->
                   [board[v] EXCEPT ![writer[w].room] = writer[w].row]]
     \/ UNCHANGED board
  /\ \E found \in SUBSET Scanned :
       /\ {k \in Scanned : cache[k] # NoEntry} \subseteq found
       /\ Become(w, IF found = {} THEN Idle
                    ELSE [op |-> "clear", todo |-> found])
  /\ UNCHANGED <<tables, reader, cache>>

ClearKey(w, k) ==
  /\ writer[w].op = "clear"
  /\ k \in writer[w].todo
  /\ cache' = [cache EXCEPT ![k] = NoEntry]
  /\ Become(w, IF writer[w].todo = {k} THEN Idle
               ELSE [op |-> "clear", todo |-> writer[w].todo \ {k}])
  /\ UNCHANGED <<tables, reader, board>>

\* Redis fails in invalidate_prefix, which logs it and clears no more keys.
ClearFails(w) ==
  /\ writer[w].op \in {"publish", "clear"}
  /\ cache' = [k \in Key |-> IF k \in ListKey /\ cache[k] # NoEntry
                               THEN Entry(cache[k].value, TRUE) ELSE cache[k]]
  /\ Become(w, Idle)
  /\ UNCHANGED <<tables, reader, board>>

----------------------------------------------------------------------------
(* Readers: get_or_set_json.                                               *)

\* A hit answers and changes nothing; without Redis the producer answers, and
\* nothing is stored.  What is left is a miss.
Miss(c, k) ==
  /\ reader[c] = Idle
  /\ cache[k] = NoEntry
  /\ reader' = [reader EXCEPT ![c] = [op |-> "produce", key |-> k]]
  /\ UNCHANGED <<tables, writer, cache, board>>

Produce(c) ==
  /\ reader[c].op = "produce"
  /\ reader' = [reader EXCEPT ![c] = [op |-> "store", key |-> reader[c].key,
                                      fresh |-> View(reader[c].key)]]
  /\ UNCHANGED <<tables, writer, cache, board>>

\* SETEX overwrites whatever is there by now.
Store(c) ==
  /\ reader[c].op = "store"
  /\ LET k == reader[c].key
         fresh == reader[c].fresh
     IN cache' = [cache EXCEPT ![k] = Entry(fresh, k = "search" \/ fresh # View(k))]
  /\ reader' = [reader EXCEPT ![c] = Idle]
  /\ UNCHANGED <<tables, writer, board>>

StoreFails(c) ==
  /\ reader[c].op = "store"
  /\ reader' = [reader EXCEPT ![c] = Idle]
  /\ UNCHANGED <<tables, writer, cache, board>>

\* Mutant: the filtered lists are stored without a time to live.
ExpireAll(k) ==
  /\ k = "all"
  /\ cache[k] # NoEntry
  /\ cache' = [cache EXCEPT ![k] = NoEntry]
  /\ UNCHANGED <<tables, writer, reader, board>>

\* The time to live of an entry runs out.
Expire(k) ==
  /\ cache[k] # NoEntry
  /\ cache' = [cache EXCEPT ![k] = NoEntry]
  /\ UNCHANGED <<tables, writer, reader, board>>

\* A hold, a booking or a sweep changes what a search would find; none of them
\* has a word with Redis.
ChangeExcluded ==
  /\ excluded' \in (SUBSET Room) \ {excluded}
  /\ UNCHANGED <<rooms, stays, writer, reader, cache, board>>

----------------------------------------------------------------------------
Request(w) ==
  \/ \E b \in BookingId : RequestCheckIn(w, b) \/ RequestCheckOut(w, b)
  \/ \E r \in Room : RequestClean(w, r) \/ Announce(w, r)

Progress(w) ==
  \/ CommitCheckIn(w)
  \/ CommitCheckOut(w)
  \/ CommitClean(w)
  \/ ReadForDelta(w)
  \/ Publish(w)
  \/ \E k \in ListKey : ClearKey(w, k)
  \/ ClearFails(w)

Read(c) == Produce(c) \/ Store(c) \/ StoreFails(c)

Init ==
  /\ rooms \in [Room -> {CheckedOut, Cleaned}]
  /\ stays = [b \in BookingId |-> "confirmed"]
  /\ excluded = {}
  /\ writer = [w \in Writer |-> Idle]
  /\ reader = [c \in Reader |-> Idle]
  /\ cache = [k \in Key |-> NoEntry]
  /\ board = [v \in Viewer |-> rooms]

Next ==
  \/ \E w \in Writer : Request(w) \/ Progress(w)
  \/ \E c \in Reader : (\E k \in Key : Miss(c, k)) \/ Read(c)
  \/ \E k \in Key : Expire(k)
  \/ ChangeExcluded

Spec == Init /\ [][Next]_vars

\* A request that has begun goes on, and Redis lets entries expire.  Redis may
\* fail for ever: no step that needs it is promised to succeed.
FairSpec ==
  /\ Spec
  /\ \A w \in Writer : WF_vars(Progress(w))
  /\ \A c \in Reader : WF_vars(Read(c))
  /\ \A k \in Key : WF_vars(Expire(k))

----------------------------------------------------------------------------
Write ==
  {Idle}
    \cup [op : {"checkIn"}, booking : BookingId]
    \cup [op : {"checkOut"}, booking : BookingId, seen : RoomRow]
    \cup [op : {"clean"}, room : Room, seen : RoomRow]
    \cup [op : {"announce"}, room : Room]
    \cup [op : {"publish"}, room : Room, row : RoomRow]
    \cup [op : {"clear"}, todo : SUBSET ListKey]

Fill ==
  {Idle}
    \cup [op : {"produce"}, key : Key]
    \cup [op : {"store"}, key : Key, fresh : Value]

TypeOK ==
  /\ rooms \in [Room -> RoomRow]
  /\ stays \in [BookingId -> {"confirmed", "checked_in", "completed"}]
  /\ excluded \subseteq Room
  /\ writer \in [Writer -> Write]
  /\ reader \in [Reader -> Fill]
  /\ cache \in [Key -> [value : Value, excused : BOOLEAN] \cup {NoEntry}]
  /\ board \in [Viewer -> [Room -> RoomRow]]

\* A cached list disagrees with the table only while a writer that committed has
\* still to clear it, whatever readers and other writers do, unless a slow reader
\* stored what was out of date already or Redis failed to delete the entry.
ListsFollowTables ==
  \A k \in ListKey : Stale(k) =>
    \/ cache[k].excused
    \/ \E w \in Writer :
         \/ writer[w].op \in {"announce", "publish"}
         \/ writer[w].op = "clear" /\ k \in writer[w].todo

\* Short expiry times bound any staleness: once the tables are left alone, every
\* entry is right for good, also those no writer clears and those a slow reader
\* or a failure of Redis left behind.
CacheHeals ==
  <>[][FALSE]_tables => <>[](\A k \in Key : ~Stale(k))

\* project.md: if Redis is down, the dashboard catches up.  The code never sends
\* a delta again, and two writers may publish out of order.
DashboardCatchesUp ==
  <>[][FALSE]_tables => <>[](\A v \in Viewer : board[v] = rooms)
=============================================================================
