SPECIFICATION FairSpec
CONSTANTS
  u1 = u1  u2 = u2  u3 = u3
  UserId = {u1, u2, u3}
  Spelling = {"boss@x.ng", "ada@x.ng", "Ada@x.ng ", "ben@x.ng"}
  Normal <- TwoSpellings
  Session = {s1, s2}
  Seeded <- OneManager
  NoUser = NoUser
INVARIANTS
  OneAccountPerAddress
  PowersMatchRole
  ManagersStayIn
PROPERTIES
  DisabledStaffGo
  DirectorySpec
