SPECIFICATION Spec
CONSTANTS
  r1 = r1  g1 = g1  g2 = g2  b1 = b1  b2 = b2  e1 = e1  e2 = e2  e3 = e3  s1 = s1  s2 = s2
  Room = {r1}
  Guest = {g1}
  BookingId = {b1}
  Event = {e1}
  Session = {s1, s2}
  EventKind <- AllSucceed
  Stay <- TwoNights
  SeedHold <- NoSeed
  SeedRoom <- Sellable
  HoldTime = 1
  Grace = 1
  DayLength = 3
  LastDay = 2
  MaxNow = 2
  NoHold = NoHold
  NoBooking = NoBooking
  NoPayment = NoPayment
  Offline = Offline
  UnknownRef = UnknownRef
SYMMETRY Interchangeable
CHECK_DEADLOCK FALSE
PROPERTIES
  CancelledStaysCancelled
