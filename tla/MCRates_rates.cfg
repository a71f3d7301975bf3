SPECIFICATION Spec
CONSTANTS
  TypeName = {standard}
  Rate <- SomeRates
  Capacity = {2, 3}
  BookingId = {b1}
  StayLength = {1, 3}
  Session = {s1, s2}
  SeedType <- SeedTypes
  Null = Null
  NoQuote = NoQuote
  Unpaid = Unpaid
INVARIANTS
  TypeOK
  PaidAsQuoted
  WholeNairaPayable
PROPERTIES
  PatchesKeptApart
  TillSpec
