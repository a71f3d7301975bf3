------------------------------ MODULE Directory -----------------------------
(***************************************************************************)
(* Who has an account: an address has at most one, which is opened once    *)
(* and never closed, handed on or given another role.  Staff are hired,    *)
(* and their accounts switched off and on, only at the word of a manager   *)
(* who could act when it was given; it is carried out later, whatever has  *)
(* happened since.                                                         *)
(***************************************************************************)
CONSTANTS Owner, Address, StaffRole

VARIABLES
  accounts,   \* records of an owner, an address, a role and whether it is active
  opening,    \* accounts asked for and not made yet
  switching   \* changes asked for and not made yet

vars == <<accounts, opening, switching>>

Free(a) == \A x \in accounts : x.address # a
IsStaff(a) == \E x \in accounts : x.address = a /\ x.role \in StaffRole
Managed == \E x \in accounts : x.role = "manager" /\ x.active

MayOpen ==
  {o \in [address : Address, role : {"guest"} \cup StaffRole] :
     Free(o.address) /\ (o.role \in StaffRole => Managed)}

MaySwitch ==
  {o \in [address : Address, active : BOOLEAN] : IsStaff(o.address) /\ Managed}

Open ==
  \E o \in opening, owner \in Owner :
    /\ Free(o.address)
    /\ \A x \in accounts : x.owner # owner
    /\ accounts' = accounts \cup {[owner |-> owner, address |-> o.address,
                                   role |-> o.role, active |-> TRUE]}

Switch ==
  \E o \in switching, x \in accounts :
    /\ x.address = o.address /\ x.role \in StaffRole
    /\ accounts' = (accounts \ {x})
                     \cup {[owner |-> x.owner, address |-> x.address,
                            role |-> x.role, active |-> o.active]}

\* Requests come, end and are lost.
Bide == UNCHANGED accounts

Init == opening = {} /\ switching = {}

Next ==
  /\ Open \/ Switch \/ Bide
  /\ opening' \subseteq opening \cup MayOpen
  /\ switching' \subseteq switching \cup MaySwitch

Spec == Init /\ [][Next]_vars
=============================================================================
