--------------------------- MODULE AccountProofs ---------------------------
(***************************************************************************)
(* Accounts, proved for any people, spellings, sessions and seed: one      *)
(* account per address, powers that match the account, managers who cannot *)
(* be locked out.                                                          *)
(***************************************************************************)
EXTENDS Accounts, TLAPS

AddressesNormal ==
  /\ \A u \in UserId : Exists(u) => Normal[users[u].email] = users[u].email
  /\ \A s \in Session :
       calls[s].op = "create" => Normal[calls[s].row.email] = calls[s].row.email

EmailsUnique ==
  \A u, v \in UserId :
    Exists(u) /\ Exists(v) /\ users[u].email = users[v].email => u = v

SwitchesAreOfStaff ==
  \A s \in Session : calls[s].op = "switch" =>
    Exists(calls[s].user) /\ users[calls[s].user].role \in StaffRole

NewcomersActive ==
  \A s \in Session : calls[s].op = "create" => calls[s].row.active = TRUE

AccountInv ==
  /\ TypeOK
  /\ AddressesNormal
  /\ NewcomersActive
  /\ EmailsUnique
  /\ SwitchesAreOfStaff
  /\ PowersMatchRole
  /\ ManagersStayIn

\* What a request in flight carries, by its kind.
LEMMA CallFields ==
  ASSUME NEW c \in Call
  PROVE  /\ c.op = "create" => c.row \in Account
         /\ c.op \in {"login", "act"} => c.user \in UserId /\ c.role \in Role
         /\ c.op = "switch" => /\ c.user \in UserId /\ c.seen \in BOOLEAN
                               /\ c.active \in BOOLEAN
<1>1. CASE c = Idle  BY <1>1 DEF Idle
<1>2. CASE c \in [op : {"create"}, row : Account]  BY <1>2
<1>3. CASE c \in [op : {"login", "act"}, user : UserId, role : Role]  BY <1>3
<1>4. CASE c \in [op : {"switch"}, user : UserId, seen : BOOLEAN, active : BOOLEAN]
  BY <1>4
<1> QED BY <1>1, <1>2, <1>3, <1>4 DEF Call

ManagerThere ==
  \E u \in UserId : Exists(u) /\ users[u].role = "manager" /\ users[u].active

\* Every step starts a request, ends one, or expires a token; named once here.
LEMMA StepCases ==
  ASSUME [Next]_vars
  PROVE  \/ \E s \in Session, a \in Spelling, role \in {"guest"} \cup StaffRole :
              /\ RequestAccount(s, a, role)
              /\ role \in StaffRole => \E t \in tokens : Manages(t)
         \/ \E s \in Session, a \in Spelling, u \in UserId : Login(s, a, u)
         \/ \E s \in Session, t \in tokens : Act(s, t)
         \/ \E s \in Session, t \in tokens, u \in UserId, active \in BOOLEAN :
              RequestSwitch(s, t, u, active)
         \/ \E s \in Session : CommitAccount(s)
         \/ \E s \in Session : IssueToken(s)
         \/ \E s \in Session : CommitSwitch(s)
         \/ \E s \in Session : End(s) /\ UNCHANGED <<users, tokens>>
         \/ \E t \in tokens : ExpireToken(t)
         \/ UNCHANGED vars
<1>1. CASE Next
  BY <1>1 DEF Next, Request, Register, CreateStaff, Progress, Finish, LoseCall,
              StaffRole
<1> QED BY <1>1

LEMMA TypeStep ==
  ASSUME TypeOK, SwitchesAreOfStaff, [Next]_vars
  PROVE  TypeOK'
<1> USE DEF TypeOK
<1>1. ASSUME NEW s \in Session, NEW a \in Spelling,
             NEW role \in {"guest"} \cup StaffRole, RequestAccount(s, a, role)
      PROVE  TypeOK'
  <2>1. [op |-> "create", row |-> NewAccount(a, role)] \in Call
    BY SpellingAssumption DEF NewAccount, Call, Account, Role, StaffRole
  <2> QED BY <1>1, <2>1 DEF RequestAccount, Begin
<1>2. ASSUME NEW s \in Session, NEW a \in Spelling, NEW u \in UserId, Login(s, a, u)
      PROVE  TypeOK'
  <2>1. [op |-> "login", user |-> u, role |-> users[u].role] \in Call
    BY <1>2 DEF Login, Exists, Call, Account
  <2> QED BY <1>2, <2>1 DEF Login, Begin
<1>3. ASSUME NEW s \in Session, NEW t \in tokens, Act(s, t)
      PROVE  TypeOK'
  <2>1. [op |-> "act", user |-> t.user, role |-> t.role] \in Call
    BY DEF Call, Token
  <2> QED BY <1>3, <2>1 DEF Act, Begin
<1>4. ASSUME NEW s \in Session, NEW t \in tokens, NEW u \in UserId,
             NEW active \in BOOLEAN, RequestSwitch(s, t, u, active)
      PROVE  TypeOK'
  <2>1. [op |-> "switch", user |-> u, seen |-> users[u].active, active |-> active]
          \in Call
    BY <1>4 DEF RequestSwitch, Exists, Call, Account
  <2> QED BY <1>4, <2>1 DEF RequestSwitch, Begin
<1>5. ASSUME NEW s \in Session, CommitAccount(s)
      PROVE  TypeOK'
  BY <1>5, CallFields DEF CommitAccount, End, Call
<1>6. ASSUME NEW s \in Session, IssueToken(s)
      PROVE  TypeOK'
  BY <1>6, CallFields DEF IssueToken, End, Call, Token
<1>7. ASSUME NEW s \in Session, CommitSwitch(s)
      PROVE  TypeOK'
  <2>1. calls[s].user \in UserId /\ calls[s].active \in BOOLEAN
    BY <1>7, CallFields DEF CommitSwitch
  <2>2. users' \in [UserId -> Account \cup {NoUser}]
    <3>1. users[calls[s].user] \in Account
      BY <1>7, <2>1 DEF CommitSwitch, SwitchesAreOfStaff, Exists
    <3>2. [users[calls[s].user] EXCEPT !.active = calls[s].active] \in Account
      BY <2>1, <3>1 DEF Account
    <3> QED BY <1>7, <2>1, <3>2 DEF CommitSwitch
  <2> QED BY <1>7, <2>2 DEF CommitSwitch, End, Call
<1>8. ASSUME NEW s \in Session, End(s) /\ UNCHANGED <<users, tokens>>
      PROVE  TypeOK'
  BY <1>8 DEF End, Call
<1>9. ASSUME NEW t \in tokens, ExpireToken(t)
      PROVE  TypeOK'
  BY <1>9 DEF ExpireToken
<1>10. CASE UNCHANGED vars
  BY <1>10 DEF vars
<1> QED BY <1>1, <1>2, <1>3, <1>4, <1>5, <1>6, <1>7, <1>8, <1>9, <1>10, StepCases

\* A step keeps every account, its address and its role; only an account of the
\* staff may be switched.  The accounts it adds have an address nobody had.
LEMMA AccountsKept ==
  ASSUME TypeOK, SwitchesAreOfStaff, [Next]_vars
  PROVE  \A u \in UserId : Exists(u) =>
           /\ Exists(u)'
           /\ users'[u].email = users[u].email
           /\ users'[u].role = users[u].role
           /\ users[u].role \notin StaffRole => users'[u].active = users[u].active
<1> USE DEF TypeOK
<1>1. ASSUME NEW s \in Session, CommitAccount(s), NEW u \in UserId, Exists(u)
      PROVE  users'[u] = users[u]
  BY <1>1 DEF CommitAccount, Exists
<1>2. ASSUME NEW s \in Session, CommitSwitch(s), NEW u \in UserId, Exists(u)
      PROVE  /\ users'[u] \in Account
             /\ users'[u].email = users[u].email
             /\ users'[u].role = users[u].role
             /\ users[u].role \notin StaffRole => users'[u].active = users[u].active
  <2>1. users[u] \in Account
    BY <1>2 DEF Exists
  <2>2. calls[s].user \in UserId /\ calls[s].active \in BOOLEAN
    BY <1>2, CallFields DEF CommitSwitch
  <2>3. CASE users'[u] = users[u]
    BY <2>1, <2>3
  <2>4. CASE /\ calls[s].user = u
             /\ users'[u] = [users[u] EXCEPT !.active = calls[s].active]
    <3>1. users[u].role \in StaffRole
      BY <1>2, <2>4 DEF CommitSwitch, SwitchesAreOfStaff
    <3> QED BY <2>1, <2>2, <2>4, <3>1 DEF Account
  <2> QED BY <1>2, <2>2, <2>3, <2>4 DEF CommitSwitch
<1>3. CASE \E s \in Session : CommitAccount(s)
  BY <1>1, <1>3 DEF Exists
<1>4. CASE \E s \in Session : CommitSwitch(s)
  BY <1>2, <1>4, SeedAssumption DEF Exists
<1>5. CASE UNCHANGED users
  BY <1>5 DEF Exists
<1> QED
  BY <1>3, <1>4, <1>5, StepCases
  DEF RequestAccount, Login, Act, RequestSwitch, IssueToken, ExpireToken, vars

\* What a step adds to the accounts is the row of a create call, under an address
\* nobody had.
LEMMA AccountsAdded ==
  ASSUME TypeOK, SwitchesAreOfStaff, [Next]_vars,
         NEW u \in UserId, Exists(u)', ~Exists(u)
  PROVE  \E s \in Session :
           /\ calls[s].op = "create" /\ ~Taken(calls[s].row.email)
           /\ users' = [users EXCEPT ![u] = calls[s].row]
<1> USE DEF TypeOK
<1>1. CASE \E s \in Session : CommitAccount(s)
  BY <1>1 DEF CommitAccount, Exists
<1>2. CASE \E s \in Session : CommitSwitch(s)
  <2>1. PICK s \in Session : CommitSwitch(s)
    BY <1>2
  <2>2. calls[s].user # u
    BY <2>1 DEF CommitSwitch, SwitchesAreOfStaff
  <2> QED BY <2>1, <2>2 DEF CommitSwitch, Exists
<1>3. CASE UNCHANGED users
  BY <1>3 DEF Exists
<1> QED
  BY <1>1, <1>2, <1>3, StepCases
  DEF RequestAccount, Login, Act, RequestSwitch, IssueToken, ExpireToken, vars

\* What a step puts in flight was read from the accounts as they are, and staff are
\* its business only for a manager.
LEMMA CallsBegun ==
  ASSUME TypeOK, [Next]_vars, NEW s \in Session, calls'[s] # calls[s]
  PROVE  LET c == calls'[s] IN
           \/ c.op = "idle"
           \/ /\ c.op = "create"
              /\ \E a \in Spelling, role \in {"guest"} \cup StaffRole :
                   /\ c.row = NewAccount(a, role) /\ ~Taken(Normal[a])
                   /\ role \in StaffRole => ManagerThere
           \/ /\ c.op \in {"login", "act"}
              /\ \E u \in UserId : c.user = u /\ Exists(u) /\ c.role = users[u].role
           \/ /\ c.op = "switch" /\ c.active \in BOOLEAN /\ ManagerThere
              /\ \E u \in UserId :
                   c.user = u /\ Exists(u) /\ users[u].role \in StaffRole
<1> USE DEF TypeOK, Begin, End, Idle
<1>1. ASSUME NEW t \in tokens, Manages(t)
      PROVE  ManagerThere
  BY <1>1 DEF Manages, Admits, Token, ManagerThere
<1>2. ASSUME NEW r \in Session, NEW a \in Spelling,
             NEW role \in {"guest"} \cup StaffRole, RequestAccount(r, a, role),
             role \in StaffRole => \E t \in tokens : Manages(t)
      PROVE  /\ calls'[s].op = "create"
             /\ \E b \in Spelling, as \in {"guest"} \cup StaffRole :
                  /\ calls'[s].row = NewAccount(b, as) /\ ~Taken(Normal[b])
                  /\ as \in StaffRole => ManagerThere
  <2>1. /\ calls'[s].op = "create"
        /\ calls'[s].row = NewAccount(a, role) /\ ~Taken(Normal[a])
        /\ role \in StaffRole => ManagerThere
    BY <1>1, <1>2 DEF RequestAccount
  <2> QED BY <2>1
<1>3. CASE \E r \in Session, a \in Spelling, u \in UserId : Login(r, a, u)
  BY <1>3 DEF Login
<1>4. CASE \E r \in Session, t \in tokens : Act(r, t)
  BY <1>4 DEF Act, Admits, Token
<1>5. ASSUME NEW r \in Session, NEW t \in tokens, NEW u \in UserId,
             NEW active \in BOOLEAN, RequestSwitch(r, t, u, active)
      PROVE  /\ calls'[s].op = "switch" /\ calls'[s].active \in BOOLEAN
             /\ ManagerThere
             /\ \E v \in UserId :
                  calls'[s].user = v /\ Exists(v) /\ users[v].role \in StaffRole
  BY <1>1, <1>5 DEF RequestSwitch
<1>6. CASE \E r \in Session : End(r)
  BY <1>6
<1>7. CASE UNCHANGED calls
  BY <1>7
<1> QED
  BY <1>2, <1>3, <1>4, <1>5, <1>6, <1>7, StepCases
  DEF CommitAccount, IssueToken, CommitSwitch, ExpireToken, vars

LEMMA AddressesStep ==
  ASSUME AccountInv, [Next]_vars
  PROVE  AddressesNormal' /\ EmailsUnique'
<1> USE DEF AccountInv
<1>1. ASSUME NEW u \in UserId, Exists(u)'
      PROVE  Normal[users'[u].email] = users'[u].email
  <2>1. CASE Exists(u)
    BY <1>1, <2>1, AccountsKept DEF AddressesNormal
  <2>2. CASE ~Exists(u)
    <3>1. PICK s \in Session : /\ calls[s].op = "create"
                              /\ users' = [users EXCEPT ![u] = calls[s].row]
      BY <1>1, <2>2, AccountsAdded
    <3>2. users'[u] = calls[s].row
      BY <3>1 DEF TypeOK
    <3> QED BY <3>1, <3>2 DEF AddressesNormal
  <2> QED BY <2>1, <2>2
<1>2. ASSUME NEW s \in Session, calls'[s].op = "create"
      PROVE  Normal[calls'[s].row.email] = calls'[s].row.email
  <2>1. CASE calls'[s] = calls[s]
    BY <1>2, <2>1 DEF AddressesNormal
  <2>2. CASE calls'[s] # calls[s]
    <3>1. PICK a \in Spelling, role \in {"guest"} \cup StaffRole :
            calls'[s].row = NewAccount(a, role)
      BY <1>2, <2>2, CallsBegun
    <3> QED BY <3>1, SpellingAssumption DEF NewAccount
  <2> QED BY <2>1, <2>2
<1>3. ASSUME NEW u \in UserId, NEW v \in UserId, Exists(u)', Exists(v)', ~Exists(u),
             users'[u].email = users'[v].email
      PROVE  u = v
  <2>1. PICK s \in Session : /\ ~Taken(calls[s].row.email)
                            /\ users' = [users EXCEPT ![u] = calls[s].row]
    BY <1>3, AccountsAdded
  <2>2. ASSUME u # v PROVE FALSE
    <3>1. users'[v] = users[v] /\ users'[u] = calls[s].row
      BY <2>1, <2>2 DEF TypeOK
    <3>2. Exists(v)
      BY <1>3, <3>1 DEF Exists
    <3> QED BY <1>3, <2>1, <3>1, <3>2 DEF Taken
  <2> QED BY <2>2
<1>4. ASSUME NEW u \in UserId, NEW v \in UserId, Exists(u), Exists(v),
             users'[u].email = users'[v].email
      PROVE  u = v
  BY <1>4, AccountsKept DEF EmailsUnique
<1>5. EmailsUnique'
  BY <1>3, <1>4 DEF EmailsUnique, Exists
<1> QED BY <1>1, <1>2, <1>5 DEF AddressesNormal, Exists

LEMMA SwitchesStep ==
  ASSUME AccountInv, [Next]_vars
  PROVE  SwitchesAreOfStaff'
<1> USE DEF AccountInv
<1> SUFFICES ASSUME NEW s \in Session, calls'[s].op = "switch"
             PROVE  /\ users'[calls'[s].user] # NoUser
                    /\ users'[calls'[s].user].role \in StaffRole
  BY DEF SwitchesAreOfStaff, Exists
<1>1. PICK u \in UserId : u = calls'[s].user /\ Exists(u) /\ users[u].role \in StaffRole
  <2>1. CASE calls'[s] = calls[s]
    BY <2>1, CallFields DEF SwitchesAreOfStaff, TypeOK
  <2>2. CASE calls'[s] # calls[s]
    BY <2>2, CallsBegun
  <2> QED BY <2>1, <2>2
<1> QED BY <1>1, AccountsKept DEF Exists

LEMMA PowersStep ==
  ASSUME AccountInv, [Next]_vars
  PROVE  PowersMatchRole'
<1> USE DEF AccountInv
<1>1. ASSUME NEW t \in tokens'
      PROVE  \E u \in UserId : u = t.user /\ Exists(u) /\ t.role = users[u].role
  <2>1. CASE t \in tokens
    BY <2>1 DEF PowersMatchRole, TypeOK, Token
  <2>2. CASE t \notin tokens
    <3>1. PICK s \in Session : IssueToken(s)
      BY <2>2, StepCases
      DEF RequestAccount, Login, Act, RequestSwitch, CommitAccount, CommitSwitch,
          ExpireToken, vars
    <3> QED BY <2>2, <3>1, CallFields DEF IssueToken, PowersMatchRole, TypeOK
  <2> QED BY <2>1, <2>2
<1>2. ASSUME NEW s \in Session, calls'[s].op \in {"login", "act"}
      PROVE  \E u \in UserId : /\ u = calls'[s].user /\ Exists(u)
                              /\ calls'[s].role = users[u].role
  <2>1. CASE calls'[s] = calls[s]
    BY <1>2, <2>1, CallFields DEF PowersMatchRole, TypeOK
  <2>2. CASE calls'[s] # calls[s]
    BY <1>2, <2>2, CallsBegun
  <2> QED BY <2>1, <2>2
<1>3. \A t \in tokens' : Exists(t.user)' /\ t.role = users'[t.user].role
  BY <1>1, AccountsKept DEF Exists
<1>4. \A s \in Session : calls'[s].op \in {"login", "act"} =>
        users'[calls'[s].user] # NoUser /\ calls'[s].role = users'[calls'[s].user].role
  BY <1>2, AccountsKept DEF Exists
<1> QED BY <1>3, <1>4 DEF PowersMatchRole, Exists

LEMMA ManagersStep ==
  ASSUME AccountInv, [Next]_vars
  PROVE  ManagersStayIn'
BY AccountsKept DEF AccountInv, ManagersStayIn, StaffRole, Exists

LEMMA NewcomersStep ==
  ASSUME AccountInv, [Next]_vars
  PROVE  NewcomersActive'
<1> SUFFICES ASSUME NEW s \in Session, calls'[s].op = "create"
             PROVE  calls'[s].row.active = TRUE
  BY DEF NewcomersActive
<1>1. CASE calls'[s] = calls[s]
  BY <1>1 DEF AccountInv, NewcomersActive
<1>2. CASE calls'[s] # calls[s]
  <2>1. PICK a \in Spelling, role \in {"guest"} \cup StaffRole :
          calls'[s].row = NewAccount(a, role)
    BY <1>2, CallsBegun DEF AccountInv
  <2> QED BY <2>1 DEF NewAccount
<1> QED BY <1>1, <1>2

LEMMA AccountInvariant == Spec => []AccountInv
<1>1. Init => AccountInv
  BY SeedAssumption
  DEF Init, AccountInv, TypeOK, Call, Idle, AddressesNormal, NewcomersActive, EmailsUnique,
      SwitchesAreOfStaff, PowersMatchRole, ManagersStayIn, Exists
<1>2. ASSUME AccountInv, [Next]_vars PROVE AccountInv'
  BY <1>2, TypeStep, AddressesStep, NewcomersStep, SwitchesStep, PowersStep, ManagersStep
  DEF AccountInv
<1> QED BY <1>1, <1>2, PTL DEF Spec

\* Two requests never leave two accounts for two spellings of one address
\* (users/service.py register_user and create_staff, the unique index on email).
THEOREM OneAccount == Spec => []OneAccountPerAddress
<1>1. AccountInv => OneAccountPerAddress
  BY DEF AccountInv, AddressesNormal, EmailsUnique, OneAccountPerAddress
<1> QED BY <1>1, AccountInvariant, PTL

\* No token, and no request in flight, has powers its account has not
\* (core/dependencies.py get_current_user, security.py create_access_token).
THEOREM PowersMatch == Spec => []PowersMatchRole
<1>1. AccountInv => PowersMatchRole
  BY DEF AccountInv
<1> QED BY <1>1, AccountInvariant, PTL

\* No interleaving of requests disables a manager
\* (users/service.py set_staff_active).
THEOREM ManagersStay == Spec => []ManagersStayIn
<1>1. AccountInv => ManagersStayIn
  BY DEF AccountInv
<1> QED BY <1>1, AccountInvariant, PTL

----------------------------------------------------------------------------
(* The directory.                                                          *)

LEMMA OpeningIsOpen ==
  ASSUME AccountInv, NEW s \in Session, CommitAccount(s), users' # users
  PROVE  Book!Open
<1> DEFINE row == calls[s].row
           o   == [address |-> Normal[row.email], role |-> row.role]
<1>1. /\ row \in Account /\ row.active = TRUE
      /\ Normal[row.email] = row.email
      /\ o \in {[address |-> Normal[c.row.email], role |-> c.row.role] :
                   c \in Calls("create")}
  BY CallFields
  DEF CommitAccount, AccountInv, TypeOK, NewcomersActive, AddressesNormal, Calls
<1>2. PICK u \in UserId :
        ~Taken(row.email) /\ ~Exists(u) /\ users' = [users EXCEPT ![u] = row]
  BY DEF CommitAccount
<1>3. users'[u] = row /\ Exists(u)' /\ \A v \in UserId \ {u} : users'[v] = users[v]
  BY <1>1, <1>2, SeedAssumption DEF AccountInv, TypeOK, Exists
<1>4. Entry(u)' = [owner |-> u, address |-> o.address, role |-> o.role, active |-> TRUE]
  BY <1>1, <1>3 DEF Entry
<1>5. \A v \in UserId : Exists(v)' => v = u \/ (Exists(v) /\ Entry(v)' = Entry(v))
  BY <1>3 DEF Exists, Entry
<1>6. \A v \in UserId : Exists(v) =>
        v # u /\ Exists(v)' /\ Entry(v)' = Entry(v) /\ Entry(v).address # o.address
  BY <1>1, <1>2, <1>3 DEF Exists, Entry, Taken, AccountInv, AddressesNormal
<1>7. \A v \in UserId : Entry(v).owner = v
  BY DEF Entry
<1> HIDE DEF o, row
<1> DEFINE book == {Entry(v) : v \in {w \in UserId : Exists(w)}}
<1>8. book' = book \cup {[owner |-> u, address |-> o.address,
                          role |-> o.role, active |-> TRUE]}
  BY <1>3, <1>4, <1>5, <1>6
<1>9. \A x \in book : x.address # o.address /\ x.owner # u
  BY <1>6, <1>7
<1> QED BY <1>1, <1>8, <1>9 DEF Book!Open, Book!Free

LEMMA SwitchingIsSwitch ==
  ASSUME AccountInv, NEW s \in Session, CommitSwitch(s), users' # users
  PROVE  Book!Switch
<1>1. PICK u \in UserId, active \in BOOLEAN :
        /\ u = calls[s].user /\ active = calls[s].active
        /\ Exists(u) /\ users[u].role \in StaffRole
        /\ [address |-> Normal[users[u].email], active |-> active] \in
             {[address |-> Normal[users[c.user].email], active |-> c.active] :
                c \in Calls("switch")}
  <2>1. /\ calls[s].user \in UserId /\ calls[s].active \in BOOLEAN
        /\ Exists(calls[s].user) /\ users[calls[s].user].role \in StaffRole
        /\ calls[s] \in Calls("switch")
    BY CallFields DEF CommitSwitch, AccountInv, TypeOK, SwitchesAreOfStaff, Calls
  <2> QED BY <2>1
<1>2. users' = [users EXCEPT ![u].active = active]
  BY <1>1 DEF CommitSwitch
<1>3. /\ users'[u] \in Account
      /\ users'[u].email = users[u].email /\ users'[u].role = users[u].role
      /\ users'[u].active = active
      /\ \A v \in UserId \ {u} : users'[v] = users[v]
  <2>1. users[u] \in Account
    BY <1>1 DEF AccountInv, TypeOK, Exists
  <2>2. users'[u] = [users[u] EXCEPT !.active = active]
    BY <1>1, <1>2 DEF AccountInv, TypeOK
  <2> QED BY <1>1, <1>2, <2>1, <2>2 DEF Account, AccountInv, TypeOK
<1>4. \A v \in UserId : Exists(v)' <=> Exists(v)
  BY <1>1, <1>3, SeedAssumption DEF Exists
<1> DEFINE book    == {Entry(v) : v \in {w \in UserId : Exists(w)}}
           o       == [address |-> Normal[users[u].email], active |-> active]
           changed == [owner |-> u, address |-> Normal[users[u].email],
                       role |-> users[u].role, active |-> active]
<1>5. Entry(u)' = changed
  BY <1>3 DEF Entry
<1>6. /\ Entry(u).owner = u /\ Entry(u).address = Normal[users[u].email]
      /\ Entry(u).role = users[u].role
  BY DEF Entry
<1>7. \A v \in UserId \ {u} : Entry(v)' = Entry(v) /\ Entry(v).owner = v
  BY <1>3 DEF Entry
<1>8. changed = [owner |-> Entry(u).owner, address |-> Entry(u).address,
                 role |-> Entry(u).role, active |-> o.active]
  BY <1>6
<1>9. o.address = Entry(u).address
  BY <1>6
<1> HIDE DEF changed
<1>10. book' = (book \ {Entry(u)}) \cup {changed}
  <2>1. \A v \in UserId \ {u} : Entry(v) # Entry(u)
    BY <1>6, <1>7
  <2>2. book' \subseteq (book \ {Entry(u)}) \cup {changed}
    BY <1>4, <1>5, <1>7, <2>1
  <2>3. (book \ {Entry(u)}) \cup {changed} \subseteq book'
    BY <1>1, <1>4, <1>5, <1>7
  <2> QED BY <2>2, <2>3
<1>11. Entry(u) \in book
  BY <1>1
<1> DEFINE x == Entry(u)
<1> HIDE DEF book, o, x
<1>12. /\ x \in book /\ x.address = o.address /\ x.role \in StaffRole
       /\ book' = (book \ {x})
                    \cup {[owner |-> x.owner, address |-> x.address,
                           role |-> x.role, active |-> o.active]}
  BY <1>1, <1>6, <1>8, <1>9, <1>10, <1>11 DEF x
<1> QED BY <1>1, <1>12 DEF Book!Switch, book, o

LEMMA ManagerManages ==
  ASSUME AccountInv, ManagerThere
  PROVE  Book!Managed
<1>1. PICK u \in UserId :
        Exists(u) /\ users[u].role = "manager" /\ users[u].active = TRUE
  BY DEF ManagerThere, AccountInv, TypeOK, Exists, Account
<1>2. Entry(u).role = "manager" /\ Entry(u).active = TRUE
  BY <1>1 DEF Entry
<1> QED BY <1>1, <1>2 DEF Book!Managed

LEMMA OpeningAsked ==
  ASSUME AccountInv, [Next]_vars, NEW s \in Session, calls'[s].op = "create"
  PROVE  LET o == [address |-> Normal[calls'[s].row.email],
                   role |-> calls'[s].row.role]
         IN \/ /\ calls[s].op = "create"
               /\ o = [address |-> Normal[calls[s].row.email],
                       role |-> calls[s].row.role]
            \/ o \in Book!MayOpen
<1>1. CASE calls'[s] = calls[s]
  BY <1>1
<1>2. CASE calls'[s] # calls[s]
  <2>1. PICK a \in Spelling, role \in {"guest"} \cup StaffRole :
          /\ calls'[s].row = NewAccount(a, role) /\ ~Taken(Normal[a])
          /\ role \in StaffRole => ManagerThere
    BY <1>2, CallsBegun DEF AccountInv
  <2> DEFINE o == [address |-> Normal[a], role |-> role]
  <2>2. [address |-> Normal[calls'[s].row.email], role |-> calls'[s].row.role] = o
    BY <2>1, SpellingAssumption DEF NewAccount
  <2>3. Book!Free(o.address)
    BY <2>1 DEF Book!Free, Taken, Entry, AccountInv, AddressesNormal
  <2>4. o.role \in StaffRole => Book!Managed
    BY <2>1, ManagerManages
  <2>5. o \in Book!MayOpen
    BY <2>3, <2>4 DEF Book!MayOpen
  <2> QED BY <2>2, <2>5
<1> QED BY <1>1, <1>2

LEMMA SwitchAsked ==
  ASSUME AccountInv, [Next]_vars, NEW s \in Session, calls'[s].op = "switch"
  PROVE  LET o == [address |-> Normal[users'[calls'[s].user].email],
                   active |-> calls'[s].active]
         IN \/ /\ calls[s].op = "switch"
               /\ o = [address |-> Normal[users[calls[s].user].email],
                       active |-> calls[s].active]
            \/ o \in Book!MaySwitch
<1>1. CASE calls'[s] = calls[s]
  <2>1. calls[s].user \in UserId /\ Exists(calls[s].user)
    BY <1>1, CallFields DEF AccountInv, TypeOK, SwitchesAreOfStaff
  <2>2. users'[calls[s].user].email = users[calls[s].user].email
    BY <2>1, AccountsKept DEF AccountInv
  <2> QED BY <1>1, <2>2
<1>2. CASE calls'[s] # calls[s]
  <2>1. PICK u \in UserId :
          /\ calls'[s].user = u /\ Exists(u) /\ users[u].role \in StaffRole
          /\ calls'[s].active \in BOOLEAN /\ ManagerThere
    BY <1>2, CallsBegun DEF AccountInv
  <2> DEFINE o == [address |-> Normal[users[u].email], active |-> calls'[s].active]
  <2>2. users'[u].email = users[u].email /\ users[u].email \in Spelling
    BY <2>1, AccountsKept DEF AccountInv, TypeOK, Exists, Account
  <2>3. Book!IsStaff(o.address) /\ Book!Managed
    <3>1. Entry(u).address = o.address /\ Entry(u).role \in StaffRole
      BY <2>1 DEF Entry
    <3> QED BY <2>1, <3>1, ManagerManages DEF Book!IsStaff
  <2>4. o \in Book!MaySwitch
    BY <2>1, <2>2, <2>3 DEF Book!MaySwitch
  <2> QED BY <2>1, <2>2, <2>4
<1> QED BY <1>1, <1>2

\* The accounts are a directory: an address has one owner and one role for good,
\* and staff are hired and switched only as an active manager said
\* (users/service.py, under the unique index on email and the guards of
\* core/permissions.py).
THEOREM ImplementsDirectory == Spec => DirectorySpec
<1>1. Init => Book!Init
  BY DEF Init, Book!Init, Calls, Idle
<1>2. ASSUME AccountInv, [Next]_vars
      PROVE  [Book!Next]_(Book!vars)
  <2>1. Book!Open \/ Book!Switch \/ Book!Bide
    <3>1. CASE users' = users
      BY <3>1 DEF Book!Bide, Exists, Entry
    <3>2. CASE users' # users
      <4>1. \E s \in Session : CommitAccount(s) \/ CommitSwitch(s)
        BY <1>2, <3>2, StepCases
        DEF RequestAccount, Login, Act, RequestSwitch, IssueToken, ExpireToken, vars
      <4> QED BY <1>2, <3>2, <4>1, OpeningIsOpen, SwitchingIsSwitch
    <3> QED BY <3>1, <3>2
  <2>2. Book!Next
    BY <1>2, <2>1, OpeningAsked, SwitchAsked DEF Book!Next, Calls
  <2> QED BY <2>2
<1> QED BY <1>1, <1>2, AccountInvariant, PTL DEF Spec, DirectorySpec, Book!Spec
=============================================================================
