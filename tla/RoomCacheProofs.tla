-------------------------- MODULE RoomCacheProofs --------------------------
(***************************************************************************)
(* Proofs about RoomCache for every set of rooms, requests and dashboards: *)
(* the types, and that the cached lists follow the table.                  *)
(***************************************************************************)
EXTENDS RoomCache, TLAPS

\* A writer's record has the fields its op says.
LEMMA WriteFields ==
  ASSUME NEW t \in Write
  PROVE  /\ t.op \in {"checkIn", "checkOut"} => t.booking \in BookingId
         /\ t.op \in {"announce", "clean"} => t.room \in Room
         /\ t.op \in {"checkOut", "clean"} => t.seen \in RoomRow
         /\ t.op = "publish" => t.room \in Room /\ t.row \in RoomRow
         /\ t.op = "clear" => t.todo \in SUBSET ListKey
BY DEF Write, Idle

LEMMA FillFields ==
  ASSUME NEW t \in Fill
  PROVE  /\ t.op = "produce" => t.key \in Key
         /\ t.op = "store" => t.key \in Key /\ t.fresh \in Value
BY DEF Fill, Idle

\* What a producer returns is a value of the cache.
LEMMA ViewType ==
  ASSUME TypeOK, NEW k
  PROVE  View(k) \in Value
<1>1. RoomsOn(k) \in SUBSET (Room \X RoomRow)
  BY DEF RoomsOn, TypeOK
<1>2. Offers \in SUBSET Room
  BY DEF Offers
<1> QED
  BY <1>1, <1>2 DEF View, Value

LEMMA RowTypes ==
  /\ \A c, s, n \in RoomRow : Patch(c, s, n) \in RoomRow
  /\ CheckedOut \in RoomRow
  /\ Cleaned \in RoomRow
BY DEF Patch, RoomRow, CheckedOut, Cleaned

----------------------------------------------------------------------------
(* Types.                                                                   *)

LEMMA RequestType ==
  ASSUME TypeOK, NEW w \in Writer, Request(w)
  PROVE  TypeOK'
<1>1. ASSUME NEW t \in Write, Begin(w, t),
             UNCHANGED <<tables, reader, cache, board>>
      PROVE  TypeOK'
  BY <1>1 DEF Begin, TypeOK, tables
<1>2. ASSUME NEW b \in BookingId, RequestCheckIn(w, b)
      PROVE  TypeOK'
  <2>1. [op |-> "checkIn", booking |-> b] \in Write
    BY DEF Write
  <2> QED
    BY <1>1, <1>2, <2>1 DEF RequestCheckIn
<1>3. ASSUME NEW b \in BookingId, RequestCheckOut(w, b)
      PROVE  TypeOK'
  <2>1. rooms[BookedRoom[b]] \in RoomRow
    BY BookedAssumption DEF TypeOK
  <2>2. [op |-> "checkOut", booking |-> b, seen |-> rooms[BookedRoom[b]]] \in Write
    BY <2>1 DEF Write
  <2> QED
    BY <1>1, <1>3, <2>2 DEF RequestCheckOut
<1>4. ASSUME NEW r \in Room, RequestClean(w, r)
      PROVE  TypeOK'
  <2>1. [op |-> "clean", room |-> r, seen |-> rooms[r]] \in Write
    BY DEF Write, TypeOK
  <2> QED
    BY <1>1, <1>4, <2>1 DEF RequestClean
<1>5. ASSUME NEW r \in Room, Announce(w, r)
      PROVE  TypeOK'
  <2>1. [op |-> "announce", room |-> r] \in Write
    BY DEF Write
  <2> QED
    BY <1>1, <1>5, <2>1 DEF Announce
<1> QED
  BY <1>2, <1>3, <1>4, <1>5 DEF Request

LEMMA ProgressType ==
  ASSUME TypeOK, NEW w \in Writer, Progress(w)
  PROVE  TypeOK'
<1> DEFINE r == writer[w].room
           b == writer[w].booking
<1>0. writer[w] \in Write
  BY DEF TypeOK
<1>1. CASE CommitCheckIn(w)
  <2>1. b \in BookingId /\ BookedRoom[b] \in Room
    BY <1>0, <1>1, WriteFields, BookedAssumption DEF CommitCheckIn
  <2>2. [op |-> "announce", room |-> BookedRoom[b]] \in Write
    BY <2>1 DEF Write
  <2> QED
    BY <1>1, <2>1, <2>2 DEF CommitCheckIn, Become, TypeOK, RoomRow
<1>2. CASE CommitCheckOut(w)
  <2>1. b \in BookingId /\ BookedRoom[b] \in Room /\ writer[w].seen \in RoomRow
    BY <1>0, <1>2, WriteFields, BookedAssumption DEF CommitCheckOut
  <2>2. [op |-> "announce", room |-> BookedRoom[b]] \in Write
    BY <2>1 DEF Write
  <2>3. Patch(rooms[BookedRoom[b]], writer[w].seen, CheckedOut) \in RoomRow
    BY <2>1, RowTypes DEF TypeOK
  <2> QED
    BY <1>2, <2>1, <2>2, <2>3 DEF CommitCheckOut, Become, TypeOK
<1>3. ASSUME NEW t \in Write, Become(w, t), UNCHANGED <<stays, excluded, reader>>,
             rooms' \in [Room -> RoomRow],
             board' \in [Viewer -> [Room -> RoomRow]],
             cache' \in [Key -> [value : Value, excused : BOOLEAN]
                                 \cup {NoEntry}]
      PROVE  TypeOK'
  BY <1>3 DEF Become, TypeOK
<1>4. Idle \in Write
  BY DEF Write
<1>5. CASE CommitClean(w)
  <2>1. r \in Room /\ writer[w].seen \in RoomRow
    BY <1>0, <1>5, WriteFields DEF CommitClean
  <2>2. [op |-> "announce", room |-> r] \in Write
    BY <2>1 DEF Write
  <2>3. Patch(rooms[r], writer[w].seen, Cleaned) \in RoomRow
    BY <2>1, RowTypes DEF TypeOK
  <2>4. rooms' \in [Room -> RoomRow]
    BY <1>5, <2>3 DEF CommitClean, TypeOK
  <2> QED
    BY <1>3, <1>5, <2>2, <2>4 DEF CommitClean, TypeOK
<1>6. CASE ReadForDelta(w)
  <2>1. r \in Room
    BY <1>0, <1>6, WriteFields DEF ReadForDelta
  <2>2. [op |-> "publish", room |-> r, row |-> rooms[r]] \in Write
    BY <2>1 DEF Write, TypeOK
  <2> QED
    BY <1>3, <1>6, <2>2 DEF ReadForDelta, tables, TypeOK
<1>7. CASE Publish(w)
  <2>1. r \in Room /\ writer[w].row \in RoomRow
    BY <1>0, <1>7, WriteFields DEF Publish
  <2>2. PICK found \in SUBSET Scanned :
          Become(w, IF found = {} THEN Idle
                    ELSE [op |-> "clear", todo |-> found])
    BY <1>7 DEF Publish
  <2>3. [op |-> "clear", todo |-> found] \in Write
    BY DEF Write, Scanned
  <2>4. board' \in [Viewer -> [Room -> RoomRow]]
    BY <1>7, <2>1 DEF Publish, TypeOK
  <2>5. CASE found = {}
    BY <1>3, <1>4, <1>7, <2>2, <2>4, <2>5
    DEF Publish, tables, TypeOK
  <2>6. CASE found # {}
    BY <1>3, <1>7, <2>2, <2>3, <2>4, <2>6
    DEF Publish, tables, TypeOK
  <2> QED
    BY <2>5, <2>6
<1>8. ASSUME NEW k \in ListKey, ClearKey(w, k)
      PROVE  TypeOK'
  <2>1. writer[w].todo \in SUBSET ListKey
    BY <1>0, <1>8, WriteFields DEF ClearKey
  <2>2. [op |-> "clear", todo |-> writer[w].todo \ {k}] \in Write
    BY <2>1 DEF Write
  <2>3. cache' \in [Key -> [value : Value, excused : BOOLEAN] \cup {NoEntry}]
    BY <1>8 DEF ClearKey, TypeOK
  <2>4. CASE writer[w].todo = {k}
    BY <1>3, <1>4, <1>8, <2>3, <2>4 DEF ClearKey, tables, TypeOK
  <2>5. CASE writer[w].todo # {k}
    BY <1>3, <1>8, <2>2, <2>3, <2>5 DEF ClearKey, tables, TypeOK
  <2> QED
    BY <2>4, <2>5
<1>9. CASE ClearFails(w)
  <2>1. cache' \in [Key -> [value : Value, excused : BOOLEAN] \cup {NoEntry}]
    BY <1>9 DEF ClearFails, Entry, TypeOK
  <2> QED
    BY <1>3, <1>4, <1>9, <2>1 DEF ClearFails, tables, TypeOK
<1> QED
  BY <1>1, <1>2, <1>5, <1>6, <1>7, <1>8, <1>9 DEF Progress

\* Readers, expiry and searches leave the rooms and the writers alone.
LEMMA OtherType ==
  ASSUME TypeOK,
         \/ \E c \in Reader : (\E k \in Key : Miss(c, k)) \/ Read(c)
         \/ \E k \in Key : Expire(k)
         \/ ChangeExcluded
  PROVE  TypeOK'
<1>1. UNCHANGED <<rooms, stays, writer, board>>
  BY DEF Miss, Read, Produce, Store, StoreFails, Expire, ChangeExcluded, tables
<1>3. ASSUME reader' \in [Reader -> Fill], excluded' \subseteq Room,
             cache' \in [Key -> [value : Value, excused : BOOLEAN]
                                 \cup {NoEntry}]
      PROVE  TypeOK'
  BY <1>1, <1>3 DEF TypeOK
<1>4. Idle \in Fill
  BY DEF Fill
<1>5. ASSUME NEW c \in Reader, NEW k \in Key, Miss(c, k)
      PROVE  TypeOK'
  <2>1. [op |-> "produce", key |-> k] \in Fill
    BY DEF Fill
  <2> QED
    BY <1>3, <1>5, <2>1 DEF Miss, tables, TypeOK
<1>6. ASSUME NEW c \in Reader, Read(c)
      PROVE  TypeOK'
  <2>1. reader[c] \in Fill
    BY DEF TypeOK
  <2>2. CASE Produce(c)
    <3>1. reader[c].key \in Key
      BY <2>1, <2>2, FillFields DEF Produce
    <3>2. View(reader[c].key) \in Value
      BY ViewType
    <3>3. [op |-> "store", key |-> reader[c].key,
           fresh |-> View(reader[c].key)] \in Fill
      BY <3>1, <3>2 DEF Fill
    <3> QED
      BY <1>3, <2>2, <3>3 DEF Produce, tables, TypeOK
  <2>3. CASE Store(c)
    <3>1. reader[c].key \in Key /\ reader[c].fresh \in Value
      BY <2>1, <2>3, FillFields DEF Store
    <3>2. \A b \in BOOLEAN :
            Entry(reader[c].fresh, b) \in [value : Value, excused : BOOLEAN]
      BY <3>1 DEF Entry
    <3>3. cache' \in [Key -> [value : Value, excused : BOOLEAN] \cup {NoEntry}]
      BY <2>3, <3>1, <3>2 DEF Store, TypeOK
    <3> QED
      BY <1>3, <1>4, <2>3, <3>3 DEF Store, tables, TypeOK
  <2>4. CASE StoreFails(c)
    BY <1>3, <1>4, <2>4 DEF StoreFails, tables, TypeOK
  <2> QED
    BY <1>6, <2>2, <2>3, <2>4 DEF Read
<1>7. ASSUME NEW k \in Key, Expire(k)
      PROVE  TypeOK'
  BY <1>3, <1>7 DEF Expire, tables, TypeOK
<1>8. CASE ChangeExcluded
  BY <1>3, <1>8 DEF ChangeExcluded, TypeOK
<1> QED
  BY <1>5, <1>6, <1>7, <1>8

LEMMA InitType ==
  ASSUME Init
  PROVE  TypeOK
BY RowTypes DEF Init, TypeOK, Write, Fill

LEMMA StepType ==
  ASSUME TypeOK, [Next]_vars
  PROVE  TypeOK'
<1>1. CASE UNCHANGED vars
  BY <1>1 DEF vars, tables, TypeOK
<1>2. CASE Next
  BY <1>2, RequestType, ProgressType, OtherType DEF Next
<1> QED
  BY <1>1, <1>2

\* The rows, what a request has read and still has to do, and what Redis holds
\* keep their types: above all, a cached value and a value on its way into Redis
\* is a list of rows or a set of rooms, and only list keys wait to be cleared.
THEOREM CacheTypeCorrect == Spec => []TypeOK
BY InitType, StepType, PTL DEF Spec

----------------------------------------------------------------------------
(* The cached lists.                                                        *)

Following == TypeOK /\ ListsFollowTables

\* A writer that has still to clear k excuses a stale entry.
Clears(w, k) ==
  \/ writer[w].op \in {"announce", "publish"}
  \/ writer[w].op = "clear" /\ k \in writer[w].todo

LEMMA Unfollowed ==
  ASSUME ListsFollowTables, NEW k \in ListKey, Stale(k), ~cache[k].excused
  PROVE  \E w \in Writer : Clears(w, k)
BY DEF ListsFollowTables, Clears

\* While the rooms, the entry of k and the writers that clear it stay, the entry
\* stays in order.
LEMMA StillFollows ==
  ASSUME ListsFollowTables, NEW k \in ListKey,
         UNCHANGED rooms, cache'[k] = cache[k],
         \A w \in Writer : Clears(w, k) => Clears(w, k)',
         Stale(k)', ~cache'[k].excused
  PROVE  \E w \in Writer : Clears(w, k)'
<1>1. View(k)' = View(k)
  BY KeyAssumption DEF View, RoomsOn
<1>2. Stale(k)
  BY <1>1 DEF Stale
<1> QED
  BY <1>2, Unfollowed

LEMMA StepFollows ==
  ASSUME Following, Next
  PROVE  ListsFollowTables'
<1> SUFFICES ASSUME NEW k \in ListKey, Stale(k)', ~cache'[k].excused
             PROVE  \E w \in Writer : Clears(w, k)'
  BY DEF ListsFollowTables, Clears
<1> USE DEF Following
<1>0. k \in Key /\ k # "search"
  BY KeyAssumption DEF Key
<1>1. ASSUME NEW w \in Writer, Request(w)
      PROVE  \E v \in Writer : Clears(v, k)'
  <2>1. UNCHANGED <<rooms, cache>>
    BY <1>1
    DEF Request, RequestCheckIn, RequestCheckOut, RequestClean, Announce, tables
  <2>2. \A v \in Writer : Clears(v, k) => writer'[v] = writer[v]
    BY <1>1
    DEF Request, RequestCheckIn, RequestCheckOut, RequestClean, Announce,
        Begin, Clears, Idle, TypeOK
  <2>3. \A v \in Writer : Clears(v, k) => Clears(v, k)'
    BY <2>2 DEF Clears
  <2> QED
    BY <2>1, <2>3, StillFollows
<1>2. ASSUME NEW w \in Writer,
             CommitCheckIn(w) \/ CommitCheckOut(w) \/ CommitClean(w)
      PROVE  \E v \in Writer : Clears(v, k)'
  <2>1. writer'[w].op = "announce"
    BY <1>2
    DEF CommitCheckIn, CommitCheckOut, CommitClean, Become, TypeOK
  <2> QED
    BY <2>1 DEF Clears
<1>3. ASSUME NEW w \in Writer, ReadForDelta(w)
      PROVE  \E v \in Writer : Clears(v, k)'
  <2>1. writer'[w].op = "publish"
    BY <1>3 DEF ReadForDelta, Become, TypeOK
  <2> QED
    BY <2>1 DEF Clears
<1>4. ASSUME NEW w \in Writer, Publish(w)
      PROVE  \E v \in Writer : Clears(v, k)'
  <2>1. PICK found \in SUBSET Scanned :
          /\ {q \in Scanned : cache[q] # NoEntry} \subseteq found
          /\ Become(w, IF found = {} THEN Idle
                       ELSE [op |-> "clear", todo |-> found])
    BY <1>4 DEF Publish
  <2>2. k \in found
    BY <1>4, <2>1 DEF Publish, Scanned, Stale
  <2>3. writer'[w] = [op |-> "clear", todo |-> found]
    BY <2>1, <2>2 DEF Become, TypeOK
  <2> QED
    BY <2>2, <2>3 DEF Clears
<1>5. ASSUME NEW w \in Writer, NEW q \in ListKey, ClearKey(w, q)
      PROVE  \E v \in Writer : Clears(v, k)'
  <2>1. q # k
    BY <1>0, <1>5 DEF ClearKey, Stale, TypeOK
  <2>2. UNCHANGED rooms /\ cache'[k] = cache[k]
    BY <1>0, <1>5, <2>1 DEF ClearKey, tables, TypeOK
  <2>3. ASSUME NEW v \in Writer, Clears(v, k)
        PROVE  Clears(v, k)'
    <3>1. CASE v # w
      BY <1>5, <2>3, <3>1 DEF ClearKey, Become, Clears, TypeOK
    <3>2. CASE v = w
      <4>1. k \in writer[w].todo /\ writer[w].todo # {q}
        BY <1>5, <2>1, <2>3, <3>2 DEF ClearKey, Clears
      <4>2. writer'[w] = [op |-> "clear", todo |-> writer[w].todo \ {q}]
        BY <1>5, <4>1 DEF ClearKey, Become, TypeOK
      <4> QED
        BY <2>1, <3>2, <4>1, <4>2 DEF Clears
    <3> QED
      BY <3>1, <3>2
  <2> QED
    BY <2>2, <2>3, StillFollows
<1>6. ASSUME NEW w \in Writer, ClearFails(w)
      PROVE  \E v \in Writer : Clears(v, k)'
  <2>1. CASE cache[k] # NoEntry
    <3>1. cache'[k] = Entry(cache[k].value, TRUE)
      BY <1>0, <1>6, <2>1 DEF ClearFails
    <3> QED
      BY <3>1 DEF Entry
  <2>2. CASE cache[k] = NoEntry
    BY <1>0, <1>6, <2>2 DEF ClearFails, Stale
  <2> QED
    BY <2>1, <2>2
<1>7. ASSUME NEW c \in Reader, Store(c)
      PROVE  \E v \in Writer : Clears(v, k)'
  <2>1. UNCHANGED <<rooms, writer>>
    BY <1>7 DEF Store, tables
  <2>2. \A v \in Writer : Clears(v, k) => Clears(v, k)'
    BY <2>1 DEF Clears
  <2>3. CASE reader[c].key = k
    <3>1. cache'[k] = Entry(reader[c].fresh, reader[c].fresh # View(k))
      BY <1>0, <1>7, <2>3 DEF Store, TypeOK
    <3>2. View(k)' = View(k)
      BY <1>0, <2>1 DEF View, RoomsOn
    <3>3. /\ cache'[k].value = reader[c].fresh
          /\ cache'[k].excused = (reader[c].fresh # View(k))
      BY <3>1 DEF Entry
    <3>4. cache'[k].value # View(k)'
      BY DEF Stale
    <3> QED
      BY <3>2, <3>3, <3>4
  <2>4. CASE reader[c].key # k
    <3>1. cache'[k] = cache[k]
      BY <1>0, <1>7, <2>4 DEF Store, TypeOK
    <3> QED
      BY <2>1, <2>2, <3>1, StillFollows
  <2> QED
    BY <2>3, <2>4
<1>8. ASSUME NEW q \in Key, Expire(q)
      PROVE  \E v \in Writer : Clears(v, k)'
  <2>1. q # k
    BY <1>0, <1>8 DEF Expire, Stale, TypeOK
  <2>2. UNCHANGED <<rooms, writer>> /\ cache'[k] = cache[k]
    BY <1>0, <1>8, <2>1 DEF Expire, tables, TypeOK
  <2>3. \A v \in Writer : Clears(v, k) => Clears(v, k)'
    BY <2>2 DEF Clears
  <2> QED
    BY <2>2, <2>3, StillFollows
<1>9. CASE UNCHANGED <<rooms, writer, cache>>
  <2>1. \A v \in Writer : Clears(v, k) => Clears(v, k)'
    BY <1>9 DEF Clears
  <2> QED
    BY <1>9, <2>1, StillFollows
<1>10. ASSUME NEW c \in Reader, NEW q \in Key, Miss(c, q)
       PROVE  UNCHANGED <<rooms, writer, cache>>
  BY <1>10 DEF Miss, tables
<1>11. ASSUME NEW c \in Reader, Produce(c) \/ StoreFails(c)
       PROVE  UNCHANGED <<rooms, writer, cache>>
  BY <1>11 DEF Produce, StoreFails, tables
<1>12. CASE ChangeExcluded
  BY <1>9, <1>12 DEF ChangeExcluded
<1> QED
  BY <1>1, <1>2, <1>3, <1>4, <1>5, <1>6, <1>7, <1>8, <1>9, <1>10, <1>11, <1>12
  DEF Next, Progress, Read

\* Clearing the list keys after every commit is enough: however readers, writers
\* and expiry interleave, a cached list is out of date only while a writer has
\* still to clear it, or because a slow reader or a failure of Redis left it so.
THEOREM ListsFollow == Spec => []ListsFollowTables
<1>1. Init => Following
  BY InitType DEF Following, Init, ListsFollowTables, Stale, Key
<1>2. Following /\ [Next]_vars => Following'
  <2>1. ASSUME Following, UNCHANGED vars
        PROVE  ListsFollowTables'
    BY <2>1
    DEF Following, vars, tables, ListsFollowTables, Stale, View, RoomsOn, Offers
  <2> QED
    BY <2>1, StepFollows, StepType DEF Following
<1>3. Following => ListsFollowTables
  BY DEF Following
<1> QED
  BY <1>1, <1>2, <1>3, PTL DEF Spec
=============================================================================
