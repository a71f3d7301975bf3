------------------------------ MODULE Accounts -----------------------------
(***************************************************************************)
(* Accounts and who may act (domains/users, domains/auth,                  *)
(* core/dependencies.py, core/permissions.py).  A request is its           *)
(* authentication and first read, and its commit; tokens are signed, kept  *)
(* by their holders and never revoked, and every request reads the account *)
(* behind its token once, at the start.                                    *)
(***************************************************************************)
EXTENDS Naturals

CONSTANTS
  UserId,
  Spelling,     \* the ways people type email addresses
  Normal,       \* spelling -> that spelling stripped and in lower case
  Session,
  Seeded,       \* the accounts the seed leaves, managers among them
  NoUser

Role      == {"guest", "receptionist", "housekeeper", "manager"}
StaffRole == {"receptionist", "housekeeper"}
Account   == [email : Spelling, role : Role, active : BOOLEAN]
Token     == [user : UserId, role : Role]

ASSUME SpellingAssumption ==
  /\ Normal \in [Spelling -> Spelling]
  /\ \A a \in Spelling : Normal[Normal[a]] = Normal[a]

ASSUME SeedAssumption ==
  /\ NoUser \notin Account
  /\ Seeded \in [UserId -> Account \cup {NoUser}]
  /\ \A u \in UserId : Seeded[u] # NoUser =>
       Normal[Seeded[u].email] = Seeded[u].email
  /\ \A u, v \in UserId :
       Seeded[u] # NoUser /\ Seeded[v] # NoUser
         /\ Seeded[u].email = Seeded[v].email => u = v

VARIABLES
  users,    \* table users: id -> account
  tokens,   \* tokens issued and not yet expired
  calls     \* what the request on each session has read and means to do

vars == <<users, tokens, calls>>

Idle == [op |-> "idle"]

Call ==
  {Idle}
    \cup [op : {"create"}, row : Account]
    \cup [op : {"login", "act"}, user : UserId, role : Role]
    \cup [op : {"switch"}, user : UserId, seen : BOOLEAN, active : BOOLEAN]

Begin(s, call) == calls[s] = Idle /\ calls' = [calls EXCEPT ![s] = call]
End(s) == calls' = [calls EXCEPT ![s] = Idle]

Exists(u) == users[u] # NoUser
Taken(email) == \E u \in UserId : Exists(u) /\ users[u].email = email

----------------------------------------------------------------------------
(* Making accounts.                                                        *)

\* Mutant: the address is stored as it was typed.
NewAccountAsTyped(a, role) == [email |-> a, role |-> role, active |-> TRUE]

NewAccount(a, role) ==
  [email |-> Normal[a], role |-> role, active |-> TRUE]

\* Both register_user and create_staff look the address up before they insert.
RequestAccount(s, a, role) ==
  /\ ~Taken(Normal[a])
  /\ Begin(s, [op |-> "create", row |-> NewAccount(a, role)])
  /\ UNCHANGED <<users, tokens>>

\* POST /auth/register: anyone, and always a guest.
Register(s, a) == RequestAccount(s, a, "guest")

\* Mutant: the loser of a race is merged into the account that was there first.
MergeAccount(s) ==
  /\ calls[s].op = "create"
  /\ LET row == calls[s].row IN
       IF Taken(row.email)
         THEN users' = [u \in UserId |->
                          IF Exists(u) /\ users[u].email = row.email
                            THEN row ELSE users[u]]
         ELSE \E u \in UserId :
                ~Exists(u) /\ users' = [users EXCEPT ![u] = row]
  /\ End(s)
  /\ UNCHANGED tokens

\* The insert under the unique index on email; a clash rolls back, 409 or 400.
CommitAccount(s) ==
  /\ calls[s].op = "create"
  /\ LET row == calls[s].row IN
       \/ /\ ~Taken(row.email)
          /\ \E u \in UserId :
               ~Exists(u) /\ users' = [users EXCEPT ![u] = row]
       \/ /\ Taken(row.email)
          /\ UNCHANGED users
  /\ End(s)
  /\ UNCHANGED tokens

----------------------------------------------------------------------------
(* Getting in.                                                             *)

\* authenticate_user; the password is right, or the request ends here.
Login(s, a, u) ==
  /\ Exists(u) /\ users[u].email = Normal[a]
  /\ users[u].active
  /\ Begin(s, [op |-> "login", user |-> u, role |-> users[u].role])
  /\ UNCHANGED <<users, tokens>>

\* create_access_token signs what was read, whatever has happened since.
IssueToken(s) ==
  /\ calls[s].op = "login"
  /\ tokens' = tokens \cup {[user |-> calls[s].user, role |-> calls[s].role]}
  /\ End(s)
  /\ UNCHANGED users

ExpireToken(t) ==
  /\ t \in tokens
  /\ tokens' = tokens \ {t}
  /\ UNCHANGED <<users, calls>>

\* Mutant: a token is enough, whatever has become of the account.
AdmitsAnyone(t) == t \in tokens /\ Exists(t.user)

\* get_current_user: 401 for an account that is gone or has another role by now,
\* 403 for one that is inactive.
Admits(t) ==
  /\ t \in tokens
  /\ Exists(t.user)
  /\ t.role = users[t.user].role
  /\ users[t.user].active

\* Any request of the rest of the service: admitted once, at its start.
Act(s, t) ==
  /\ Admits(t)
  /\ Begin(s, [op |-> "act", user |-> t.user, role |-> t.role])
  /\ UNCHANGED <<users, tokens>>

Finish(s) ==
  /\ calls[s].op = "act"
  /\ End(s)
  /\ UNCHANGED <<users, tokens>>

----------------------------------------------------------------------------
(* What managers do with accounts.                                         *)

Manages(t) == Admits(t) /\ t.role = "manager"

\* POST /users/staff: 400 for any other role.
CreateStaff(s, t, a, role) ==
  /\ Manages(t)
  /\ role \in StaffRole
  /\ RequestAccount(s, a, role)

\* Mutant: whose account it is does not matter.
RequestSwitchAnyone(s, t, u, active) ==
  /\ Manages(t)
  /\ Exists(u)
  /\ Begin(s, [op |-> "switch", user |-> u, seen |-> users[u].active,
               active |-> active])
  /\ UNCHANGED <<users, tokens>>

\* PATCH /users/staff/{id}/disable and enable: 404 for who is not staff.
RequestSwitch(s, t, u, active) ==
  /\ Manages(t)
  /\ Exists(u) /\ users[u].role \in StaffRole
  /\ Begin(s, [op |-> "switch", user |-> u, seen |-> users[u].active,
               active |-> active])
  /\ UNCHANGED <<users, tokens>>

\* The ORM writes the column when its value differs from the one it loaded.
CommitSwitch(s) ==
  /\ calls[s].op = "switch"
  /\ users' = IF calls[s].active = calls[s].seen THEN users
              ELSE [users EXCEPT ![calls[s].user].active = calls[s].active]
  /\ End(s)
  /\ UNCHANGED tokens

LoseCall(s) ==
  /\ calls[s] # Idle
  /\ End(s)
  /\ UNCHANGED <<users, tokens>>

----------------------------------------------------------------------------
Init ==
  /\ users = Seeded
  /\ tokens = {}
  /\ calls = [s \in Session |-> Idle]

Request(s) ==
  \/ \E a \in Spelling : Register(s, a)
  \/ \E a \in Spelling, u \in UserId : Login(s, a, u)
  \/ \E t \in tokens : Act(s, t)
  \/ \E t \in tokens, a \in Spelling, role \in Role : CreateStaff(s, t, a, role)
  \/ \E t \in tokens, u \in UserId, active \in BOOLEAN :
       RequestSwitch(s, t, u, active)

Progress(s) ==
  \/ CommitAccount(s)
  \/ IssueToken(s)
  \/ Finish(s)
  \/ CommitSwitch(s)

Next ==
  \/ \E s \in Session : Request(s) \/ Progress(s) \/ LoseCall(s)
  \/ \E t \in tokens : ExpireToken(t)

Spec == Init /\ [][Next]_vars

\* A handler that can go on does.  Tokens need never expire.
FairSpec == Spec /\ \A s \in Session : WF_vars(Progress(s))

----------------------------------------------------------------------------
TypeOK ==
  /\ users \in [UserId -> Account \cup {NoUser}]
  /\ tokens \subseteq Token
  /\ calls \in [Session -> Call]

\* One person, one account: two registrations, or a registration and a manager,
\* may race with two spellings of one address, and only one account comes of it.
OneAccountPerAddress ==
  \A u, v \in UserId :
    Exists(u) /\ Exists(v) /\ Normal[users[u].email] = Normal[users[v].email]
      => u = v

\* Nobody acts with powers the account does not have: what a token says, and what
\* a request in flight was admitted as, is what the account is still, although
\* neither is looked at again and other requests make accounts meanwhile.
PowersMatchRole ==
  /\ \A t \in tokens : Exists(t.user) /\ t.role = users[t.user].role
  /\ \A s \in Session : calls[s].op \in {"login", "act"} =>
       Exists(calls[s].user) /\ calls[s].role = users[calls[s].user].role

\* No sequence of calls locks a manager out: only managers can let people back
\* in, so the last of them must never be disabled, by whatever is in flight.
ManagersStayIn ==
  \A u \in UserId :
    Seeded[u] # NoUser /\ Seeded[u].role = "manager" /\ Seeded[u].active =>
      Exists(u) /\ users[u].role = "manager" /\ users[u].active

\* What happens to the accounts is what the directory allows: an address keeps one
\* account with one role, and staff come, go and come back only as a manager said
\* who could act at that moment, however registrations and managers race.
Entry(u) ==
  [owner |-> u, address |-> Normal[users[u].email], role |-> users[u].role,
   active |-> users[u].active]
Calls(op) == {calls[s] : s \in {t \in Session : calls[t].op = op}}
Book == INSTANCE Directory WITH
  Owner     <- UserId,
  Address   <- {Normal[a] : a \in Spelling},
  accounts  <- {Entry(u) : u \in {v \in UserId : Exists(v)}},
  opening   <- {[address |-> Normal[c.row.email], role |-> c.row.role] :
                  c \in Calls("create")},
  switching <- {[address |-> Normal[users[c.user].email], active |-> c.active] :
                  c \in Calls("switch")}
DirectorySpec == Book!Spec

\* Disabling takes effect: once an account is disabled and left so, the requests it
\* has in flight end and no other begins, although its tokens are not revoked, no
\* request looks at the account again, and a login may have read it before.
Locked(u) == Exists(u) /\ ~users[u].active

Acting(u) ==
  \E s \in Session : calls[s].op \in {"login", "act"} /\ calls[s].user = u

DisabledStaffGo == \A u \in UserId : <>[]Locked(u) => <>[]~Acting(u)
=============================================================================
