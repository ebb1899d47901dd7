--------------------------- MODULE OpalOwnership ---------------------------
(***************************************************************************)
(* What the commands of DtaDevOpal promise about the two PINs that decide  *)
(* who controls a drive: nobody activates the LockingSP of a drive without *)
(* an owner, activation hands Admin1 the owner's PIN and no other, and     *)
(* only a revert of the whole drive takes the owner away.                  *)
(***************************************************************************)
CONSTANTS Pins, NoPin

VARIABLES
  sid,    \* the SID's PIN; NoPin while it is the factory's
  admin1  \* Admin1's PIN; NoPin while the LockingSP is inactive

vars == <<sid, admin1>>

Init == sid = NoPin /\ admin1 = NoPin

TakeOwnership ==
  sid = NoPin /\ admin1 = NoPin /\ sid' \in Pins /\ UNCHANGED admin1
ChangeSID     == sid # NoPin /\ sid' \in Pins /\ UNCHANGED admin1
Activate      == sid # NoPin /\ admin1 = NoPin /\ admin1' = sid /\ UNCHANGED sid
ChangeAdmin1  == admin1 # NoPin /\ admin1' \in Pins /\ UNCHANGED sid
RevertSP      == admin1 # NoPin /\ admin1' = NoPin /\ UNCHANGED sid
Revert        == sid' = NoPin /\ admin1' = NoPin

Next == TakeOwnership \/ ChangeSID \/ Activate \/ ChangeAdmin1 \/ RevertSP \/ Revert

Spec == Init /\ [][Next]_vars
=============================================================================
