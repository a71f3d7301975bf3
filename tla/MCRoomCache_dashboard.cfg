SPECIFICATION FairSpec
CONSTANTS
  r1 = r1  b1 = b1  b2 = b2  w1 = w1  w2 = w2  c1 = c1  v1 = v1
  Room = {r1}
  Writer = {w1, w2}
  Reader = {c1}
  Viewer = {v1}
  NoEntry = NoEntry
  ListKey = {"dirty"}
  BookingId = {b1, b2}
  BookedRoom <- SameRoom
PROPERTIES
  DashboardCatchesUp
