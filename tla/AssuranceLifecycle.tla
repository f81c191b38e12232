------------------------- MODULE AssuranceLifecycle -------------------------
(***************************************************************************)
(* What the case workflow promises, with the authorities, the lanes and    *)
(* the information requests left out: an application is granted or         *)
(* refused; a granted assurance stays in force, through any number of      *)
(* amendments, until it is revoked or archived; its version starts at one  *)
(* and grows by one with each concluded amendment.                         *)
(***************************************************************************)
EXTENDS Naturals

CONSTANT CaseIds

VARIABLES phase, version

lifecycleVars == <<phase, version>>

Phases ==
  {"absent", "application", "in_force", "under_amendment", "refused",
   "revoked", "archived"}

Init ==
  /\ phase = [c \in CaseIds |-> "absent"]
  /\ version = [c \in CaseIds |-> 0]

\* Case c moves between phases and its assurance becomes version v.
Move(c, from, to, v) ==
  /\ phase[c] \in from
  /\ phase' = [phase EXCEPT ![c] = to]
  /\ version' = [version EXCEPT ![c] = v]

Open(c)              == Move(c, {"absent"}, "application", 0)
Grant(c)             == Move(c, {"application"}, "in_force", 1)
Refuse(c)            == Move(c, {"application"}, "refused", 0)
BeginAmendment(c)    == Move(c, {"in_force"}, "under_amendment", version[c])
ConcludeAmendment(c) == Move(c, {"under_amendment"}, "in_force", version[c] + 1)
DropAmendment(c)     == Move(c, {"under_amendment"}, "in_force", version[c])
Revoke(c)            == Move(c, {"in_force"}, "revoked", version[c])
Archive(c)           == Move(c, {"in_force", "refused", "revoked"}, "archived",
                             version[c])

Next ==
  \E c \in CaseIds :
    \/ Open(c) \/ Grant(c) \/ Refuse(c)
    \/ BeginAmendment(c) \/ ConcludeAmendment(c) \/ DropAmendment(c)
    \/ Revoke(c) \/ Archive(c)

Spec == Init /\ [][Next]_lifecycleVars

=============================================================================
