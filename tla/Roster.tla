------------------------------- MODULE Roster -------------------------------
(***************************************************************************)
(* What a party promises its members: one roster, changed one step at a    *)
(* time.  There is one DM, who stays until the role is handed on or the    *)
(* party closes with its last member; the banker is a member other than    *)
(* the DM and stops being banker on leaving or becoming DM.                *)
(***************************************************************************)
CONSTANTS Users, NoUser

VARIABLES dm, banker, members, open

roster == <<dm, banker, members, open>>

ClearedBanker(u) == IF banker = u THEN NoUser ELSE banker

Join(u) ==
  /\ open /\ u \notin members
  /\ members' = members \union {u}
  /\ UNCHANGED <<dm, banker, open>>

\* A member leaves, or is kicked by the DM.
Depart(u) ==
  /\ open /\ u \in members \ {dm}
  /\ members' = members \ {u}
  /\ banker' = ClearedBanker(u)
  /\ UNCHANGED <<dm, open>>

Appoint(u) ==
  /\ open /\ banker = NoUser /\ u \in members \ {dm}
  /\ banker' = u
  /\ UNCHANGED <<dm, members, open>>

Revoke ==
  /\ open /\ banker # NoUser
  /\ banker' = NoUser
  /\ UNCHANGED <<dm, members, open>>

HandOver(u) ==
  /\ open /\ u \in members \ {dm}
  /\ dm' = u
  /\ banker' = ClearedBanker(u)
  /\ UNCHANGED <<members, open>>

Close ==
  /\ open /\ members = {dm}
  /\ open' = FALSE
  /\ members' = {}
  /\ UNCHANGED <<dm, banker>>

RosterNext ==
  \/ \E u \in Users : Join(u) \/ Depart(u) \/ Appoint(u) \/ HandOver(u)
  \/ Revoke
  \/ Close
=============================================================================
